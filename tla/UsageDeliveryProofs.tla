------------------------ MODULE UsageDeliveryProofs ------------------------
(***************************************************************************)
(* UsageDelivery, for every set of orgs, number of goroutines, scan limit, *)
(* sequence bound and combination of operations and faults.  First TypeOK, *)
(* ContiguousAccounted and PruneSafe; then that it implements              *)
(* DeliveryContract, so no event is lost, that no late handler lowers a    *)
(* high-water mark, that nothing above what a row knows is ledgered, and   *)
(* what of the floors and of the ledger's truth survives handlers that     *)
(* race: all of it but what the history says a race took.                  *)
(***************************************************************************)
EXTENDS UsageDelivery, TLAPS

----------------------------------------------------------------------------
(* Types.                                                                  *)

LEMMA Marking ==
  /\ 0 \in Marks
  /\ \A m \in Marks : m \in Int
  /\ \A s \in Seqs : s \in Int /\ s \in Marks
  BY SeqAssumption DEF Marks, Seqs

LEMMA IdleFacts ==
  Idle \in Request /\ Idle.pc \notin Working /\ Idle.reply = 0
<1>1. Idle \in Request
  BY Marking DEF Idle, Request, PCs
<1> QED
  BY <1>1 DEF Idle, Working

\* What Continue and Leave leave of a request: a well-typed request that is
\* between statements, with the same answer or none.
LEMMA ContinueFacts ==
  ASSUME NEW r \in Request
  PROVE  /\ Continue(r) \in Request
         /\ Continue(r).pc \in {"advance", "reply", "scan", "idle"}
         /\ Continue(r).pc \notin Working
         /\ Continue(r).reply \in {r.reply, 0}
<1>1. Continue(r) \in Request
  BY Marking, IdleFacts DEF Continue, Request, PCs, Idle, OpNames
<1>2. Continue(r).pc \in {"advance", "reply", "scan", "idle"}
  BY DEF Continue, Request, Idle
<1>3. Continue(r).reply \in {r.reply, 0}
  BY DEF Continue, Request, Idle
<1> QED
  BY <1>1, <1>2, <1>3 DEF Working

LEMMA LeaveFacts ==
  ASSUME NEW r \in Request
  PROVE  /\ Leave(r) \in Request
         /\ Leave(r).pc \in {"advance", "reply", "scan", "idle"}
         /\ Leave(r).pc \notin Working
         /\ Leave(r).reply \in {r.reply, 0}
<1> DEFINE q == [r EXCEPT !.orgs = @ \ {r.org}]
<1>1. q \in Request /\ q.reply = r.reply
  BY DEF Request
<1> QED
  BY <1>1, ContinueFacts DEF Leave

LEMMA CeilingType ==
  ASSUME NEW w \in Watermark
  PROVE  Ceiling(w) \in Marks
  BY DEF Ceiling, Greatest, Watermark

\* A step that gives one process a new request and keeps the row types.
LEMMA RequestUpdate ==
  ASSUME TypeOK, OrgKnown, NEW p \in Procs, NEW r \in Request,
         r.pc \in Working => r.org \in Orgs,
         req' = [req EXCEPT ![p] = r]
  PROVE  /\ req' \in [Procs -> Request]
         /\ OrgKnown'
  BY DEF TypeOK, OrgKnown

TypeInv == TypeOK /\ OrgKnown

\* What is left of a request once one of its events has been replayed.
LEMMA ReplayFacts ==
  ASSUME TypeInv, NEW p \in Procs, ReplayEvent(p)
  PROVE  \E r \in Request :
           /\ r.pc = "event" /\ r.reply = req[p].reply
           /\ r.seqs \subseteq req[p].seqs /\ r.finds = req[p].finds
           /\ r.allocated = req[p].allocated /\ r.op = req[p].op
           /\ req' = [req EXCEPT ![p] = IF r.seqs = {} THEN Continue(r) ELSE r]
           /\ ods' \subseteq Seqs
<1> DEFINE q == req[p]
           Then(r) == IF r.seqs = {} THEN Continue(r) ELSE r
<1>1. q \in Request /\ ods \subseteq Seqs
  BY DEF TypeInv, TypeOK
<1>2. PICK s \in q.seqs :
        \/ /\ ods' = ods \cup {s}
           /\ req' = [req EXCEPT ![p] =
                Then([[q EXCEPT !.seqs = @ \ {s}]
                        EXCEPT !.orgs = @ \cup {OrgOf[s]}])]
        \/ /\ req' = [req EXCEPT ![p] = Then([q EXCEPT !.seqs = @ \ {s}])]
           /\ UNCHANGED ods
        \/ /\ req' = [req EXCEPT ![p] =
                Then([[q EXCEPT !.seqs = @ \ {s}] EXCEPT !.ok = FALSE])]
           /\ UNCHANGED ods
  BY DEF ReplayEvent
<1> DEFINE rest == [q EXCEPT !.seqs = @ \ {s}]
<1>3. s \in Seqs /\ OrgOf[s] \in Orgs /\ q.pc = "event"
  BY <1>1, SeqAssumption DEF Request, ReplayEvent
<1>4. PICK r \in {[rest EXCEPT !.orgs = @ \cup {OrgOf[s]}], rest,
                  [rest EXCEPT !.ok = FALSE]} :
        req' = [req EXCEPT ![p] = Then(r)]
  BY <1>2
<1>5. /\ r \in Request /\ r.pc = q.pc /\ r.reply = q.reply
      /\ r.seqs \subseteq q.seqs /\ r.finds = q.finds
      /\ r.allocated = q.allocated /\ r.op = q.op
  <2>1. /\ rest \in Request /\ rest.pc = q.pc /\ rest.reply = q.reply
        /\ rest.seqs \subseteq q.seqs /\ rest.finds = q.finds
        /\ rest.allocated = q.allocated /\ rest.op = q.op
    BY <1>1 DEF Request
  <2>2. /\ [rest EXCEPT !.orgs = @ \cup {OrgOf[s]}] \in Request
        /\ [rest EXCEPT !.ok = FALSE] \in Request
    BY <2>1, <1>3 DEF Request
  <2>3. /\ [rest EXCEPT !.orgs = @ \cup {OrgOf[s]}].pc = rest.pc
        /\ [rest EXCEPT !.ok = FALSE].pc = rest.pc
        /\ [rest EXCEPT !.orgs = @ \cup {OrgOf[s]}].reply = rest.reply
        /\ [rest EXCEPT !.ok = FALSE].reply = rest.reply
        /\ [rest EXCEPT !.orgs = @ \cup {OrgOf[s]}].seqs = rest.seqs
        /\ [rest EXCEPT !.ok = FALSE].seqs = rest.seqs
        /\ [rest EXCEPT !.orgs = @ \cup {OrgOf[s]}].finds = rest.finds
        /\ [rest EXCEPT !.ok = FALSE].finds = rest.finds
        /\ [rest EXCEPT !.orgs = @ \cup {OrgOf[s]}].allocated = rest.allocated
        /\ [rest EXCEPT !.ok = FALSE].allocated = rest.allocated
        /\ [rest EXCEPT !.orgs = @ \cup {OrgOf[s]}].op = rest.op
        /\ [rest EXCEPT !.ok = FALSE].op = rest.op
    BY <2>1 DEF Request
  <2> QED
    BY <1>4, <2>1, <2>2, <2>3
<1>6. ods' \subseteq Seqs
  BY <1>1, <1>2, <1>3
<1> QED
  BY <1>3, <1>4, <1>5, <1>6

\* What the history notes is of the source's own orgs and numbers, and stays noted.
LEMMA RacedStep ==
  ASSUME TypeInv, [Next]_vars
  PROVE  raced' \subseteq Races /\ raced \subseteq raced'
<1> USE DEF TypeInv
<1>1. raced \subseteq Races
  BY DEF TypeOK
<1>2. \/ UNCHANGED raced
      \/ \E p \in Procs : SendConfirmLost(p)
      \/ NoteOvertaken
      \/ \E p \in Procs : AdvanceWrite(p) \/ FloorSeed(p)
  BY DEF Next, vars, Issue, SwitchStream, Restart, Age, Proxy, SendBatch, DeclareFloor,
         Scan, GapsRow, Handle, BatchTxCommit, BatchTxFails, ReplayEvent, BatchReply,
         AdvanceRead, AdvanceZip, AdvanceMaxSeen, Enumerate, RecordLoss, GapsEnumerate,
         ConfirmCeiling, ConfirmPresent, FloorUpdate, FloorRead, StatementFails
<1>3. CASE UNCHANGED raced
  BY <1>1, <1>3
<1>4. ASSUME NEW p \in Procs, SendConfirmLost(p)
      PROVE  raced' \subseteq Races /\ raced \subseteq raced'
  <2>1. PICK o \in Orgs, S \in SUBSET Seqs :
          /\ req' = [req EXCEPT ![p] =
                IF S = {}
                THEN [Idle EXCEPT !.pc = "advance", !.op = "confirm",
                                  !.orgs = {o}]
                ELSE [Idle EXCEPT !.pc = "ceiling", !.op = "confirm",
                                  !.org = o, !.orgs = {o}, !.seqs = S]]
          /\ raced' = raced \cup {<<"claimed", s>> : s \in
               {x \in req'[p].seqs \ gaps[o] : fate[x] \in {"free", "terminated"}}}
    BY <1>4 DEF SendConfirmLost, TypeOK
  <2>2. req'[p].seqs \subseteq Seqs
    BY <2>1 DEF TypeOK, Idle
  <2> QED
    BY <1>1, <2>1, <2>2 DEF Races
<1>5. CASE NoteOvertaken
  <2>1. Overtaken \subseteq Seqs
    BY DEF Overtaken, TypeOK, Request
  <2> QED
    BY <1>1, <1>5, <2>1 DEF NoteOvertaken, Races
<1>6. ASSUME NEW p \in Procs, AdvanceWrite(p) \/ FloorSeed(p)
      PROVE  raced' \subseteq Races /\ raced \subseteq raced'
  <2>1. req[p].org \in Orgs
    BY <1>6 DEF OrgKnown, Working, AdvanceWrite, FloorSeed
  <2>2. NoteLowered(p) \/ NoteOverrun(p)
    BY <1>6 DEF AdvanceWrite, FloorSeed
  <2> QED
    BY <1>1, <2>1, <2>2 DEF NoteLowered, NoteOverrun, Races
<1> QED
  BY <1>2, <1>3, <1>4, <1>5, <1>6

LEMMA TypeStep == TypeInv /\ [Next]_vars => TypeInv'
<1> SUFFICES ASSUME TypeInv, [Next]_vars PROVE TypeInv'
  OBVIOUS
<1>a. raced' \subseteq Races
  BY RacedStep
<1> USE <1>a DEF TypeInv, client, tables
<1>1. CASE UNCHANGED vars
  BY <1>1 DEF vars, TypeOK, OrgKnown
<1>2. CASE Issue
  BY <1>2, Marking, SeqAssumption DEF Issue, TypeOK, OrgKnown, Fates, Marks, Seqs
<1>3. CASE SwitchStream
  BY <1>3, Marking DEF SwitchStream, TypeOK, OrgKnown, Fates
<1>4. CASE Restart
  BY <1>4, IdleFacts DEF Restart, TypeOK, OrgKnown
<1>5. ASSUME NEW o \in Orgs, Age(o) PROVE TypeInv'
  BY <1>5 DEF Age, TypeOK, OrgKnown, Watermark, Ages
<1>6. ASSUME NEW p \in Procs, SendBatch(p) PROVE TypeInv'
  <2>1. PICK S \in (SUBSET Wal) \ {{}}, a \in {0, alloc} :
          req' = [req EXCEPT ![p] = [Idle EXCEPT !.pc = "tx", !.op = "batch",
                                       !.seqs = S, !.allocated = a]]
    BY <1>6 DEF SendBatch
  <2> DEFINE r == [Idle EXCEPT !.pc = "tx", !.op = "batch", !.seqs = S,
                              !.allocated = a]
  <2>2. r \in Request /\ r.pc = "tx"
    BY Marking DEF Request, Idle, PCs, OpNames, TypeOK, Wal
  <2>3. req' \in [Procs -> Request] /\ OrgKnown'
    BY <2>1, <2>2, RequestUpdate DEF Working
  <2> QED
    BY <1>6, <2>3 DEF SendBatch, TypeOK
<1>7. ASSUME NEW p \in Procs, DeclareFloor(p) PROVE TypeInv'
  <2>1. PICK o \in undeclared :
          req' = [req EXCEPT ![p] = [Idle EXCEPT !.pc = "floorUpdate",
                    !.op = "switch", !.org = o, !.contiguous = alloc]]
    BY <1>7 DEF DeclareFloor
  <2> DEFINE r == [Idle EXCEPT !.pc = "floorUpdate", !.op = "switch",
                              !.org = o, !.contiguous = alloc]
  <2>2. r \in Request /\ r.org \in Orgs
    BY Marking DEF Request, Idle, PCs, OpNames, TypeOK
  <2>3. req' \in [Procs -> Request] /\ OrgKnown'
    BY <2>1, <2>2, RequestUpdate
  <2> QED
    BY <1>7, <2>3 DEF DeclareFloor, TypeOK
<1>8. ASSUME NEW p \in Procs, SendConfirmLost(p) PROVE TypeInv'
  <2>1. PICK o \in Orgs, S \in SUBSET Seqs :
          /\ req' = [req EXCEPT ![p] =
                IF S = {}
                THEN [Idle EXCEPT !.pc = "advance", !.op = "confirm",
                                  !.orgs = {o}]
                ELSE [Idle EXCEPT !.pc = "ceiling", !.op = "confirm",
                                  !.org = o, !.orgs = {o}, !.seqs = S]]
          /\ gaps' = [gaps EXCEPT ![o] = {}]
    BY <1>8 DEF SendConfirmLost, TypeOK
  <2> DEFINE r == IF S = {}
                  THEN [Idle EXCEPT !.pc = "advance", !.op = "confirm",
                                    !.orgs = {o}]
                  ELSE [Idle EXCEPT !.pc = "ceiling", !.op = "confirm",
                                    !.org = o, !.orgs = {o}, !.seqs = S]
  <2>2. r \in Request /\ (r.pc = "advance" \/ r.org \in Orgs)
    BY Marking DEF Request, Idle, PCs, OpNames
  <2>3. req' \in [Procs -> Request] /\ OrgKnown'
    BY <2>1, <2>2, RequestUpdate DEF Working
  <2> QED
    BY <1>8, <2>1, <2>3 DEF SendConfirmLost, TypeOK
<1>9. ASSUME NEW p \in Procs, Scan(p) PROVE TypeInv'
  <2> DEFINE stale == {o \in Orgs : Promotable(row[o])}
             F == {[org |-> o, lo |-> row[o].contiguous,
                    hi |-> Ceiling(row[o])] : o \in stale}
             r == [Idle EXCEPT !.pc = "scan", !.op = "promote", !.finds = F]
  <2>1. F \subseteq Finding
    <3>1. ASSUME NEW o \in Orgs
          PROVE  [org |-> o, lo |-> row[o].contiguous,
                  hi |-> Ceiling(row[o])] \in Finding
      <4>1. row[o] \in Watermark
        BY DEF TypeOK
      <4> QED
        BY <4>1, CeilingType DEF Finding, Watermark
    <3> QED
      BY <3>1
  <2>2. r \in Request /\ r.pc = "scan"
    BY <2>1, Marking DEF Request, Idle, PCs, OpNames
  <2>3. req' \in [Procs -> Request] /\ OrgKnown'
    BY <1>9, <2>2, RequestUpdate DEF Working, Scan
  <2> QED
    BY <1>9, <2>3 DEF Scan, TypeOK
<1>10. ASSUME NEW p \in Procs, GapsRow(p) PROVE TypeInv'
  <2>1. PICK o \in Orgs :
          req' = [req EXCEPT ![p] =
                    [Idle EXCEPT !.pc = "gapEnum", !.op = "gaps", !.org = o,
                                 !.contiguous = row[o].contiguous,
                                 !.maxSeen = Ceiling(row[o])]]
    BY <1>10 DEF GapsRow
  <2> DEFINE r == [Idle EXCEPT !.pc = "gapEnum", !.op = "gaps", !.org = o,
                               !.contiguous = row[o].contiguous,
                               !.maxSeen = Ceiling(row[o])]
  <2>2. row[o].contiguous \in Marks /\ Ceiling(row[o]) \in Marks
    BY CeilingType DEF TypeOK, Watermark
  <2>3. r \in Request /\ r.org \in Orgs
    BY <2>2, Marking DEF Request, Idle, PCs, OpNames
  <2>4. req' \in [Procs -> Request] /\ OrgKnown'
    BY <2>1, <2>3, RequestUpdate
  <2> QED
    BY <1>10, <2>4 DEF GapsRow, TypeOK
<1>11. ASSUME NEW p \in Procs, Handle(p) PROVE TypeInv'
  <2> DEFINE q == req[p]
  <2>1. q \in Request
    BY DEF TypeOK
  <2>2. CASE BatchTxCommit(p)
    <3> DEFINE stored == q.seqs \ Poison
               r == [q EXCEPT !.orgs = OrgsOf(stored)]
    <3>1. stored \subseteq Seqs /\ OrgsOf(stored) \subseteq Orgs
      BY <2>1, SeqAssumption DEF Request, OrgsOf
    <3>2. r \in Request
      BY <2>1, <3>1 DEF Request
    <3>3. req' = [req EXCEPT ![p] = Continue(r)]
      BY <2>2 DEF BatchTxCommit
    <3>4. req' \in [Procs -> Request] /\ OrgKnown'
      BY <3>2, <3>3, ContinueFacts, RequestUpdate
    <3> QED
      BY <2>2, <3>1, <3>4 DEF BatchTxCommit, TypeOK
  <2>3. CASE BatchTxFails(p)
    <3> DEFINE r == [q EXCEPT !.pc = "event"]
    <3>1. r \in Request /\ r.pc = "event"
      BY <2>1 DEF Request, PCs
    <3>2. req' = [req EXCEPT ![p] = r]
      BY <2>3 DEF BatchTxFails
    <3>3. req' \in [Procs -> Request] /\ OrgKnown'
      BY <3>1, <3>2, RequestUpdate DEF Working
    <3>4. ods' \subseteq Seqs
      BY <2>1, <2>3 DEF BatchTxFails, Request, TypeOK
    <3> QED
      BY <2>3, <3>3, <3>4 DEF BatchTxFails, TypeOK
  <2>4. CASE ReplayEvent(p)
    <3>1. PICK r \in Request :
            /\ r.pc = "event"
            /\ req' = [req EXCEPT ![p] = IF r.seqs = {} THEN Continue(r) ELSE r]
            /\ ods' \subseteq Seqs
      BY <2>4, ReplayFacts
    <3> DEFINE t == IF r.seqs = {} THEN Continue(r) ELSE r
    <3>2. t \in Request /\ t.pc \notin Working
      BY <3>1, ContinueFacts DEF Working
    <3>3. req' \in [Procs -> Request] /\ OrgKnown'
      BY <3>1, <3>2, RequestUpdate
    <3> QED
      BY <2>4, <3>1, <3>3 DEF ReplayEvent, TypeOK
  <2>5. CASE BatchReply(p)
    <3>1. req' \in [Procs -> Request] /\ OrgKnown'
      BY <2>5, IdleFacts, RequestUpdate DEF BatchReply
    <3>2. fate' \in [Seqs -> Fates]
      BY <2>5 DEF BatchReply, TypeOK, Fates
    <3> QED
      BY <2>5, <3>1, <3>2 DEF BatchReply, TypeOK
  <2>6. CASE AdvanceRead(p)
    <3>1. PICK o \in q.orgs :
            req' = [req EXCEPT ![p].pc = "zip", ![p].org = o,
                               ![p].contiguous = row[o].contiguous]
      BY <2>6 DEF AdvanceRead
    <3> DEFINE r == [q EXCEPT !.pc = "zip", !.org = o,
                              !.contiguous = row[o].contiguous]
    <3>2. o \in Orgs /\ row[o].contiguous \in Marks
      BY <2>1 DEF Request, TypeOK, Watermark
    <3>3. r \in Request /\ r.org \in Orgs
      BY <2>1, <3>2 DEF Request, PCs
    <3>4. req' = [req EXCEPT ![p] = r]
      BY <2>1, <3>1 DEF TypeOK, Request
    <3>5. req' \in [Procs -> Request] /\ OrgKnown'
      BY <3>3, <3>4, RequestUpdate
    <3> QED
      BY <2>6, <3>5 DEF AdvanceRead, TypeOK
  <2>7. CASE AdvanceZip(p)
    <3>1. PICK d \in q.contiguous..MaxSeq :
            req' = [req EXCEPT ![p].pc = "seen", ![p].contiguous = d]
      BY <2>7 DEF AdvanceZip
    <3> DEFINE r == [q EXCEPT !.pc = "seen", !.contiguous = d]
    <3>2. d \in Marks
      BY <2>1, SeqAssumption DEF Request, Marks
    <3>3. r \in Request /\ r.org = q.org /\ q.pc = "zip"
      BY <2>1, <2>7, <3>2 DEF Request, PCs, AdvanceZip
    <3>4. req' = [req EXCEPT ![p] = r]
      BY <2>1, <3>1 DEF TypeOK, Request
    <3>5. q.org \in Orgs
      BY <3>3 DEF OrgKnown, Working
    <3>6. req' \in [Procs -> Request] /\ OrgKnown'
      BY <3>3, <3>4, <3>5, RequestUpdate
    <3> QED
      BY <2>7, <3>6 DEF AdvanceZip, TypeOK
  <2>8. CASE AdvanceMaxSeen(p)
    <3>1. PICK m \in Marks :
            req' = [req EXCEPT ![p].pc = "write", ![p].maxSeen = m]
      BY <2>8 DEF AdvanceMaxSeen
    <3> DEFINE r == [q EXCEPT !.pc = "write", !.maxSeen = m]
    <3>2. r \in Request /\ r.org = q.org /\ q.pc = "seen"
      BY <2>1, <2>8 DEF Request, PCs, AdvanceMaxSeen
    <3>3. req' = [req EXCEPT ![p] = r]
      BY <2>1, <3>1 DEF TypeOK, Request
    <3>4. q.org \in Orgs
      BY <3>2 DEF OrgKnown, Working
    <3>5. req' \in [Procs -> Request] /\ OrgKnown'
      BY <3>2, <3>3, <3>4, RequestUpdate
    <3> QED
      BY <2>8, <3>5 DEF AdvanceMaxSeen, TypeOK
  <2>9. CASE AdvanceWrite(p)
    <3> DEFINE r == [q EXCEPT !.reply = q.contiguous]
    <3>1. r \in Request
      BY <2>1 DEF Request
    <3>2. req' = [req EXCEPT ![p] = Leave(r)]
      BY <2>9 DEF AdvanceWrite
    <3>3. req' \in [Procs -> Request] /\ OrgKnown'
      BY <3>1, <3>2, LeaveFacts, RequestUpdate
    <3>4. ASSUME NEW w \in Watermark PROVE Upserted(w, q) \in Watermark
      BY <2>1, <3>4 DEF Upserted, Greatest, Watermark, Request, Ages
    <3>5. row' \in [Orgs -> Watermark]
      BY <2>9, <3>4 DEF AdvanceWrite, TypeOK
    <3> QED
      BY <2>9, <3>3, <3>5 DEF AdvanceWrite, TypeOK
  <2>10. CASE Enumerate(p)
    <3>1. PICK f \in q.finds :
            req' = [req EXCEPT ![p] =
              IF Missing(f.lo, f.hi) = {}
              THEN Continue([q EXCEPT !.finds = @ \ {f}])
              ELSE [[q EXCEPT !.finds = @ \ {f}]
                      EXCEPT !.pc = "record", !.org = f.org,
                             !.orgs = {f.org}, !.seqs = Missing(f.lo, f.hi)]]
      BY <2>10 DEF Enumerate
    <3> DEFINE rest == [q EXCEPT !.finds = @ \ {f}]
               r == [rest EXCEPT !.pc = "record", !.org = f.org,
                             !.orgs = {f.org}, !.seqs = Missing(f.lo, f.hi)]
    <3>2. f \in Finding /\ f.org \in Orgs /\ rest \in Request
      BY <2>1 DEF Request, Finding
    <3>3. Missing(f.lo, f.hi) \subseteq Seqs
      BY DEF Missing, Window
    <3>4. r \in Request /\ r.org \in Orgs
      BY <3>2, <3>3 DEF Request, PCs
    <3>5. req' \in [Procs -> Request] /\ OrgKnown'
      BY <3>1, <3>2, <3>4, ContinueFacts, RequestUpdate
    <3> QED
      BY <2>10, <3>5 DEF Enumerate, TypeOK
  <2>11. CASE RecordLoss(p)
    <3>1. PICK s \in q.seqs :
            /\ ledger' = ledger \cup {<<q.org, s>>}
            /\ req' = [req EXCEPT ![p] = IF q.seqs = {s} THEN Continue(q)
                                         ELSE [q EXCEPT !.seqs = @ \ {s}]]
      BY <2>11 DEF RecordLoss
    <3>2. q.org \in Orgs /\ s \in Seqs
      BY <2>1, <2>11 DEF RecordLoss, OrgKnown, Working, Request
    <3> DEFINE r == [q EXCEPT !.seqs = @ \ {s}]
    <3>3. r \in Request /\ r.org = q.org
      BY <2>1 DEF Request
    <3>4. req' \in [Procs -> Request] /\ OrgKnown'
      BY <2>1, <3>1, <3>2, <3>3, ContinueFacts, RequestUpdate
    <3> QED
      BY <2>11, <3>1, <3>2, <3>4 DEF RecordLoss, TypeOK
  <2>12. CASE GapsEnumerate(p)
    <3>1. req' \in [Procs -> Request] /\ OrgKnown'
      BY <2>12, IdleFacts, RequestUpdate DEF GapsEnumerate
    <3>2. Missing(q.contiguous, q.maxSeen) \subseteq Seqs
      BY DEF Missing, Window
    <3>3. gaps' \in [Orgs -> SUBSET Seqs]
      BY <2>12, <3>2 DEF GapsEnumerate, TypeOK
    <3> QED
      BY <2>12, <3>1, <3>3 DEF GapsEnumerate, TypeOK
  <2>13. CASE ConfirmCeiling(p)
    <3> DEFINE r == [q EXCEPT !.pc = "present",
                              !.maxSeen = Ceiling(row[q.org])]
    <3>1. q.org \in Orgs
      BY <2>13 DEF ConfirmCeiling, OrgKnown, Working
    <3>2. Ceiling(row[q.org]) \in Marks
      BY <3>1, CeilingType DEF TypeOK
    <3>3. r \in Request /\ r.org = q.org
      BY <2>1, <3>2 DEF Request, PCs
    <3>4. req' = [req EXCEPT ![p] = r]
      BY <2>1, <2>13 DEF ConfirmCeiling, TypeOK, Request
    <3>5. req' \in [Procs -> Request] /\ OrgKnown'
      BY <3>1, <3>3, <3>4, RequestUpdate
    <3> QED
      BY <2>13, <3>5 DEF ConfirmCeiling, TypeOK
  <2>14. CASE ConfirmPresent(p)
    <3> DEFINE r == [q EXCEPT !.pc = "record", !.seqs = Absent(q),
                              !.maxSeen = 0]
    <3>1. q.org \in Orgs
      BY <2>14 DEF ConfirmPresent, OrgKnown, Working
    <3>2. Absent(q) \subseteq Seqs
      BY <2>1 DEF Absent, Request
    <3>3. r \in Request /\ r.org = q.org
      BY <2>1, <3>2, Marking DEF Request, PCs
    <3>4. req' = [req EXCEPT ![p] = IF Absent(q) = {} THEN Continue(q) ELSE r]
      BY <2>14 DEF ConfirmPresent
    <3>5. req' \in [Procs -> Request] /\ OrgKnown'
      BY <2>1, <3>1, <3>3, <3>4, ContinueFacts, RequestUpdate
    <3> QED
      BY <2>14, <3>5 DEF ConfirmPresent, TypeOK
  <2>15. CASE FloorUpdate(p)
    <3>1. PICK c \in {"floorRead", "floorSeed"} : req' = [req EXCEPT ![p].pc = c]
      BY <2>15 DEF FloorUpdate
    <3> DEFINE r == [q EXCEPT !.pc = c]
    <3>2. q.org \in Orgs
      BY <2>15 DEF FloorUpdate, OrgKnown, Working
    <3>3. r \in Request /\ r.org = q.org
      BY <2>1 DEF Request, PCs
    <3>4. req' = [req EXCEPT ![p] = r]
      BY <2>1, <3>1 DEF TypeOK, Request
    <3>5. req' \in [Procs -> Request] /\ OrgKnown'
      BY <3>2, <3>3, <3>4, RequestUpdate
    <3>a. row[q.org] \in Watermark /\ q.contiguous \in Marks
      BY <2>1, <3>2 DEF Request, TypeOK
    <3>6. Floored(row[q.org], q.contiguous) \in Watermark
      BY <3>a DEF Floored, Watermark
    <3>7. row' \in [Orgs -> Watermark]
      BY <2>15, <3>6 DEF FloorUpdate, TypeOK
    <3> QED
      BY <2>15, <3>5, <3>7 DEF FloorUpdate, TypeOK
  <2>16. CASE FloorSeed(p)
    <3> DEFINE r == [q EXCEPT !.pc = "floorRead"]
    <3>1. q.org \in Orgs
      BY <2>16 DEF FloorSeed, OrgKnown, Working
    <3>2. r \in Request /\ r.org = q.org
      BY <2>1 DEF Request, PCs
    <3>3. req' = [req EXCEPT ![p] = r]
      BY <2>1, <2>16 DEF FloorSeed, TypeOK, Request
    <3>4. req' \in [Procs -> Request] /\ OrgKnown'
      BY <3>1, <3>2, <3>3, RequestUpdate
    <3>5. [Floored(NoRow, q.contiguous) EXCEPT !.age = "null"] \in Watermark
      BY <2>1, Marking DEF Floored, NoRow, Watermark, Request, Ages
    <3>6. row' \in [Orgs -> Watermark]
      BY <2>16, <3>5 DEF FloorSeed, TypeOK
    <3> QED
      BY <2>16, <3>4, <3>6 DEF FloorSeed, TypeOK
  <2>17. CASE FloorRead(p)
    <3>1. req' \in [Procs -> Request] /\ OrgKnown'
      BY <2>17, IdleFacts, RequestUpdate DEF FloorRead
    <3> QED
      BY <2>17, <3>1 DEF FloorRead, TypeOK
  <2>18. CASE StatementFails(p)
    <3>1. req' \in [Procs -> Request] /\ OrgKnown'
      BY <2>1, <2>18, LeaveFacts, RequestUpdate DEF StatementFails
    <3> QED
      BY <2>18, <3>1 DEF StatementFails, TypeOK
  <2> QED
    BY <1>11, <2>2, <2>3, <2>4, <2>5, <2>6, <2>7, <2>8, <2>9, <2>10, <2>11,
       <2>12, <2>13, <2>14, <2>15, <2>16, <2>17, <2>18 DEF Handle
<1> QED
  BY <1>1, <1>2, <1>3, <1>4, <1>5, <1>6, <1>7, <1>8, <1>9, <1>10, <1>11
  DEF Next, Proxy

LEMMA TypeInit == Init => TypeInv
  BY Marking, IdleFacts DEF Init, TypeInv, TypeOK, OrgKnown, Fates, NoRow,
                            Watermark, Ages

\* Type correctness of every variable, requests in flight included.
THEOREM TypeCorrect == Spec => []TypeOK
<1>1. TypeInv => TypeOK
  BY DEF TypeInv
<1> QED
  BY <1>1, TypeInit, TypeStep, PTL DEF Spec

----------------------------------------------------------------------------
(* What each variable's changes come from.                                 *)

LEMMA RowFrame ==
  ASSUME [Next]_vars
  PROVE  \/ row' = row
         \/ \E o \in Orgs : Age(o)
         \/ \E p \in Procs : AdvanceWrite(p) \/ FloorUpdate(p) \/ FloorSeed(p)
  BY DEF Next, vars, tables, Issue, SwitchStream, Restart, Proxy, SendBatch,
         DeclareFloor, SendConfirmLost, Scan, GapsRow, Handle, BatchTxCommit,
         BatchTxFails, ReplayEvent, BatchReply, AdvanceRead, AdvanceZip,
         AdvanceMaxSeen, Enumerate, RecordLoss, GapsEnumerate, ConfirmCeiling,
         ConfirmPresent, FloorRead, StatementFails

LEMMA StoredFrame ==
  ASSUME [Next]_vars
  PROVE  ods \subseteq ods' /\ ledger \subseteq ledger'
<1>1. \/ UNCHANGED <<ods, ledger>>
      \/ \E p \in Procs : \/ BatchTxCommit(p) \/ BatchTxFails(p)
                          \/ ReplayEvent(p) \/ RecordLoss(p)
  BY DEF Next, vars, tables, Issue, SwitchStream, Restart, Proxy, SendBatch,
         DeclareFloor, SendConfirmLost, Scan, GapsRow, Handle, BatchReply,
         AdvanceRead, AdvanceZip, AdvanceMaxSeen, Enumerate, GapsEnumerate,
         ConfirmCeiling, ConfirmPresent, FloorRead, StatementFails, Age,
         AdvanceWrite, FloorUpdate, FloorSeed
<1>2. ASSUME NEW p \in Procs, BatchTxCommit(p) \/ BatchTxFails(p)
      PROVE  ods \subseteq ods' /\ ledger \subseteq ledger'
  BY <1>2 DEF BatchTxCommit, BatchTxFails
<1>3. ASSUME NEW p \in Procs, ReplayEvent(p)
      PROVE  ods \subseteq ods' /\ ledger \subseteq ledger'
  BY <1>3 DEF ReplayEvent
<1>4. ASSUME NEW p \in Procs, RecordLoss(p)
      PROVE  ods \subseteq ods' /\ ledger \subseteq ledger'
  BY <1>4 DEF RecordLoss
<1> QED
  BY <1>1, <1>2, <1>3, <1>4

LEMMA FateFrame ==
  ASSUME [Next]_vars
  PROVE  \/ UNCHANGED <<fate, alloc>>
         \/ Issue \/ SwitchStream \/ \E p \in Procs : BatchReply(p)
<1> USE DEF vars, client
<1>1. ASSUME NEW p \in Procs, Proxy(p) \/ Scan(p) \/ GapsRow(p)
      PROVE  UNCHANGED <<fate, alloc>>
  BY <1>1 DEF Proxy, SendBatch, DeclareFloor, SendConfirmLost, Scan, GapsRow
<1>2. ASSUME NEW p \in Procs, Handle(p), ~BatchReply(p)
      PROVE  UNCHANGED <<fate, alloc>>
  BY <1>2 DEF Handle, BatchTxCommit, BatchTxFails, ReplayEvent, AdvanceRead,
         AdvanceZip, AdvanceMaxSeen, Enumerate, RecordLoss, GapsEnumerate,
         ConfirmCeiling, ConfirmPresent, FloorRead, StatementFails, AdvanceWrite,
         FloorUpdate, FloorSeed
<1>3. ASSUME Restart \/ \E o \in Orgs : Age(o)
      PROVE  UNCHANGED <<fate, alloc>>
  BY <1>3 DEF Restart, Age
<1> QED
  BY <1>1, <1>2, <1>3 DEF Next

LEMMA UndeclaredFrame ==
  ASSUME [Next]_vars
  PROVE  \/ undeclared' \subseteq undeclared
         \/ SwitchStream
  BY DEF Next, vars, client, Issue, Restart, Proxy, SendBatch,
         DeclareFloor, SendConfirmLost, Scan, GapsRow, Handle, BatchTxCommit,
         BatchTxFails, ReplayEvent, BatchReply, AdvanceRead, AdvanceZip,
         AdvanceMaxSeen, Enumerate, RecordLoss, GapsEnumerate, ConfirmCeiling,
         ConfirmPresent, FloorRead, StatementFails, Age, AdvanceWrite,
         FloorUpdate, FloorSeed

\* Only a declaration, the steps of an advance and the floor update leave a
\* request whose local high-water, or whose answer, says something new.
LEMMA RequestFrame ==
  ASSUME TypeInv, [Next]_vars, NEW p \in Procs
  PROVE  \/ req'[p] = req[p]
         \/ DeclareFloor(p) \/ FloorUpdate(p)
         \/ AdvanceRead(p) \/ AdvanceZip(p) \/ AdvanceMaxSeen(p)
         \/ AdvanceWrite(p)
         \/ /\ req'[p].pc \notin {"zip", "seen", "write",
                                "floorUpdate", "floorSeed"}
            /\ req'[p].reply \in {req[p].reply, 0}
<1> DEFINE q == req[p]
           Plain(r) == /\ r.pc \notin {"zip", "seen", "write",
                                       "floorUpdate", "floorSeed"}
                       /\ r.reply \in {q.reply, 0}
<1>1. req \in [Procs -> Request] /\ q \in Request
  BY DEF TypeInv, TypeOK
<1>a. ASSUME NEW r \in Request, r.reply = q.reply
      PROVE  Plain(Continue(r)) /\ Plain(Leave(r))
  BY <1>a, ContinueFacts, LeaveFacts DEF Working
<1>b. Plain(Idle)
  BY DEF Idle
<1>2. CASE UNCHANGED vars \/ Issue \/ SwitchStream \/ \E o \in Orgs : Age(o)
  BY <1>2 DEF vars, Issue, SwitchStream, Age
<1>3. CASE Restart
  BY <1>3, <1>b DEF Restart
<1>4. ASSUME NEW x \in Procs, x # p,
             Proxy(x) \/ Scan(x) \/ GapsRow(x) \/ Handle(x)
      PROVE  req'[p] = req[p]
  BY <1>4, <1>1 DEF Proxy, SendBatch, DeclareFloor, SendConfirmLost, Scan,
    GapsRow, Handle, BatchTxCommit, BatchTxFails, ReplayEvent, BatchReply,
    AdvanceRead, AdvanceZip, AdvanceMaxSeen, AdvanceWrite, Enumerate,
    RecordLoss, GapsEnumerate, ConfirmCeiling, ConfirmPresent, FloorUpdate,
    FloorSeed, FloorRead, StatementFails
<1>5. CASE SendBatch(p)
  BY <1>5, <1>1 DEF SendBatch, Idle
<1>6. CASE SendConfirmLost(p)
  BY <1>6, <1>1 DEF SendConfirmLost, Idle
<1>7. CASE Scan(p)
  BY <1>7, <1>1 DEF Scan, Idle
<1>8. CASE GapsRow(p)
  BY <1>8, <1>1 DEF GapsRow, Idle
<1>9. CASE BatchTxCommit(p)
  <2> DEFINE r == [q EXCEPT !.orgs = OrgsOf(q.seqs \ Poison)]
  <2>1. r \in Request /\ r.reply = q.reply
    BY <1>1, SeqAssumption DEF Request, OrgsOf
  <2> QED
    BY <1>9, <1>1, <1>a, <2>1 DEF BatchTxCommit
<1>10. CASE BatchTxFails(p)
  BY <1>10, <1>1 DEF BatchTxFails, Request
<1>11. CASE ReplayEvent(p)
  <2>1. PICK r \in Request :
          /\ r.pc = "event" /\ r.reply = q.reply
          /\ req' = [req EXCEPT ![p] = IF r.seqs = {} THEN Continue(r) ELSE r]
    BY <1>11, ReplayFacts
  <2> QED
    BY <1>1, <1>a, <2>1
<1>12. CASE \/ BatchReply(p) \/ GapsEnumerate(p) \/ FloorRead(p)
  BY <1>12, <1>1, <1>b DEF BatchReply, GapsEnumerate, FloorRead
<1>13. CASE Enumerate(p)
  <2>1. PICK f \in q.finds :
          req' = [req EXCEPT ![p] =
            IF Missing(f.lo, f.hi) = {}
            THEN Continue([q EXCEPT !.finds = @ \ {f}])
            ELSE [[q EXCEPT !.finds = @ \ {f}]
                    EXCEPT !.pc = "record", !.org = f.org,
                           !.orgs = {f.org}, !.seqs = Missing(f.lo, f.hi)]]
    BY <1>13 DEF Enumerate
  <2> DEFINE rest == [q EXCEPT !.finds = @ \ {f}]
             r == [rest EXCEPT !.pc = "record", !.org = f.org,
                           !.orgs = {f.org}, !.seqs = Missing(f.lo, f.hi)]
  <2>2. rest \in Request /\ rest.reply = q.reply
    BY <1>1 DEF Request
  <2>3. r.pc = "record" /\ r.reply = q.reply
    BY <2>2 DEF Request
  <2> QED
    BY <1>1, <1>a, <2>1, <2>2, <2>3
<1>14. CASE RecordLoss(p)
  <2>1. PICK s \in q.seqs :
          req' = [req EXCEPT ![p] = IF q.seqs = {s} THEN Continue(q)
                                     ELSE [q EXCEPT !.seqs = @ \ {s}]]
    BY <1>14 DEF RecordLoss
  <2> DEFINE r == [q EXCEPT !.seqs = @ \ {s}]
  <2>2. r.pc = "record" /\ r.reply = q.reply
    BY <1>1, <1>14 DEF Request, RecordLoss
  <2> QED
    BY <1>1, <1>a, <2>1, <2>2
<1>15. CASE ConfirmCeiling(p)
  BY <1>15, <1>1 DEF ConfirmCeiling, Request
<1>16. CASE ConfirmPresent(p)
  <2> DEFINE r == [q EXCEPT !.pc = "record", !.seqs = Absent(q), !.maxSeen = 0]
  <2>1. r.pc = "record" /\ r.reply = q.reply
    BY <1>1 DEF Request
  <2>2. req' = [req EXCEPT ![p] = IF Absent(q) = {} THEN Continue(q) ELSE r]
    BY <1>16 DEF ConfirmPresent
  <2> QED
    BY <1>1, <1>a, <2>1, <2>2
<1>17. CASE FloorSeed(p)
  BY <1>17, <1>1 DEF FloorSeed, Request
<1>18. CASE StatementFails(p)
  BY <1>18, <1>1, <1>a DEF StatementFails
<1> QED
  BY <1>2, <1>3, <1>4, <1>5, <1>6, <1>7, <1>8, <1>9, <1>10, <1>11, <1>12,
     <1>13, <1>14, <1>15, <1>16, <1>17, <1>18 DEF Next, Proxy, Handle

\* Only sending it, its failed transaction and its replay leave a batch with
\* events still to be stored.
LEMMA BatchFrame ==
  ASSUME TypeInv, [Next]_vars, NEW p \in Procs, req'[p].pc \in {"tx", "event"}
  PROVE  \/ req'[p] = req[p]
         \/ SendBatch(p) \/ BatchTxFails(p) \/ ReplayEvent(p)
<1> DEFINE q == req[p]
<1>1. req \in [Procs -> Request] /\ q \in Request
  BY DEF TypeInv, TypeOK
<1>2. CASE UNCHANGED vars \/ Issue \/ SwitchStream \/ \E o \in Orgs : Age(o)
  BY <1>2 DEF vars, Issue, SwitchStream, Age
<1>3. CASE Restart
  BY <1>3 DEF Restart, Idle
<1>4. ASSUME NEW x \in Procs, x # p,
             Proxy(x) \/ Scan(x) \/ GapsRow(x) \/ Handle(x)
      PROVE  req'[p] = req[p]
  BY <1>4, <1>1 DEF Proxy, SendBatch, DeclareFloor, SendConfirmLost, Scan,
    GapsRow, Handle, BatchTxCommit, BatchTxFails, ReplayEvent, BatchReply,
    AdvanceRead, AdvanceZip, AdvanceMaxSeen, AdvanceWrite, Enumerate,
    RecordLoss, GapsEnumerate, ConfirmCeiling, ConfirmPresent, FloorUpdate,
    FloorSeed, FloorRead, StatementFails
<1>5. CASE DeclareFloor(p) \/ SendConfirmLost(p) \/ Scan(p) \/ GapsRow(p)
  <2>1. CASE DeclareFloor(p)
    BY <2>1, <1>1 DEF DeclareFloor, Idle
  <2>2. CASE SendConfirmLost(p)
    BY <2>2, <1>1 DEF SendConfirmLost, Idle
  <2>3. CASE Scan(p)
    BY <2>3, <1>1 DEF Scan, Idle
  <2>4. CASE GapsRow(p)
    BY <2>4, <1>1 DEF GapsRow, Idle
  <2> QED
    BY <1>5, <2>1, <2>2, <2>3, <2>4
<1>6. CASE BatchTxCommit(p)
  <2> DEFINE r == [q EXCEPT !.orgs = OrgsOf(q.seqs \ Poison)]
  <2>1. r \in Request
    BY <1>1, SeqAssumption DEF Request, OrgsOf
  <2> QED
    BY <1>6, <1>1, <2>1, ContinueFacts DEF BatchTxCommit
<1>7. CASE BatchReply(p) \/ GapsEnumerate(p) \/ FloorRead(p)
  BY <1>7, <1>1 DEF BatchReply, GapsEnumerate, FloorRead, Idle
<1>8. CASE AdvanceRead(p)
  BY <1>8, <1>1 DEF AdvanceRead, Request
<1>9. CASE AdvanceZip(p)
  BY <1>9, <1>1 DEF AdvanceZip, Request
<1>10. CASE AdvanceMaxSeen(p)
  BY <1>10, <1>1 DEF AdvanceMaxSeen, Request
<1>11. CASE AdvanceWrite(p)
  <2>1. [q EXCEPT !.reply = q.contiguous] \in Request
    BY <1>1 DEF Request
  <2> QED
    BY <1>11, <1>1, <2>1, LeaveFacts DEF AdvanceWrite
<1>12. CASE Enumerate(p)
  <2>1. PICK f \in q.finds :
          req' = [req EXCEPT ![p] =
            IF Missing(f.lo, f.hi) = {}
            THEN Continue([q EXCEPT !.finds = @ \ {f}])
            ELSE [[q EXCEPT !.finds = @ \ {f}]
                    EXCEPT !.pc = "record", !.org = f.org,
                           !.orgs = {f.org}, !.seqs = Missing(f.lo, f.hi)]]
    BY <1>12 DEF Enumerate
  <2> DEFINE rest == [q EXCEPT !.finds = @ \ {f}]
             r == [rest EXCEPT !.pc = "record", !.org = f.org,
                           !.orgs = {f.org}, !.seqs = Missing(f.lo, f.hi)]
  <2>2. rest \in Request /\ r.pc = "record"
    BY <1>1 DEF Request
  <2> QED
    BY <1>1, <2>1, <2>2, ContinueFacts
<1>13. CASE RecordLoss(p)
  <2>1. PICK s \in q.seqs :
          req' = [req EXCEPT ![p] = IF q.seqs = {s} THEN Continue(q)
                                     ELSE [q EXCEPT !.seqs = @ \ {s}]]
    BY <1>13 DEF RecordLoss
  <2>2. [q EXCEPT !.seqs = @ \ {s}].pc = "record"
    BY <1>1, <1>13 DEF Request, RecordLoss
  <2> QED
    BY <1>1, <2>1, <2>2, ContinueFacts
<1>14. CASE ConfirmCeiling(p)
  BY <1>14, <1>1 DEF ConfirmCeiling, Request
<1>15. CASE ConfirmPresent(p)
  <2> DEFINE r == [q EXCEPT !.pc = "record", !.seqs = Absent(q), !.maxSeen = 0]
  <2>1. r.pc = "record"
    BY <1>1 DEF Request
  <2>2. req' = [req EXCEPT ![p] = IF Absent(q) = {} THEN Continue(q) ELSE r]
    BY <1>15 DEF ConfirmPresent
  <2> QED
    BY <1>1, <2>1, <2>2, ContinueFacts
<1>16. CASE FloorUpdate(p)
  BY <1>16, <1>1 DEF FloorUpdate, Request
<1>17. CASE FloorSeed(p)
  BY <1>17, <1>1 DEF FloorSeed, Request
<1>18. CASE StatementFails(p)
  BY <1>18, <1>1, LeaveFacts DEF StatementFails
<1> QED
  BY <1>2, <1>3, <1>4, <1>5, <1>6, <1>7, <1>8, <1>9, <1>10, <1>11, <1>12,
     <1>13, <1>14, <1>15, <1>16, <1>17, <1>18 DEF Next, Proxy, Handle

----------------------------------------------------------------------------
(* The inductive invariant.                                                *)

Inv == TypeOK /\ Inductive /\ ContiguousAccounted /\ PruneSafe

LEMMA InvTyped == Inv => TypeInv
  BY DEF Inv, Inductive, TypeInv

\* Every handler that touches a row leaves its floor where it was or raises it.
LEMMA FloorsGrow ==
  ASSUME Inv, [Next]_vars, NEW o \in Orgs
  PROVE  row[o].floor <= row'[o].floor
<1>1. row \in [Orgs -> Watermark] /\ row[o].floor \in Int
  BY Marking DEF Inv, TypeOK, Watermark
<1>2. CASE row' = row
  BY <1>1, <1>2
<1>3. ASSUME NEW x \in Orgs, Age(x) PROVE row[o].floor <= row'[o].floor
  BY <1>1, <1>3 DEF Age, Watermark
<1>4. ASSUME NEW p \in Procs, AdvanceWrite(p)
      PROVE  row[o].floor <= row'[o].floor
  BY <1>1, <1>4 DEF AdvanceWrite, Upserted, Watermark
<1>5. ASSUME NEW p \in Procs, FloorUpdate(p)
      PROVE  row[o].floor <= row'[o].floor
  <2>1. req[p].contiguous \in Int
    BY Marking DEF Inv, TypeOK, Request
  <2> QED
    BY <1>1, <1>5, <2>1 DEF FloorUpdate, Floored, Watermark
<1>6. ASSUME NEW p \in Procs, FloorSeed(p)
      PROVE  row[o].floor <= row'[o].floor
  <2>1. req[p].contiguous \in Int /\ 0 <= req[p].contiguous
    BY SeqAssumption DEF Inv, TypeOK, Request, Marks
  <2>2. row[o].age = "absent" => row[o].floor = 0
    BY DEF Inv, Inductive, AbsentRowEmpty, NoRow
  <2> QED
    BY <1>1, <1>6, <2>1, <2>2 DEF FloorSeed, Floored, Watermark, NoRow
<1> QED
  BY <1>2, <1>3, <1>4, <1>5, <1>6, RowFrame

\* What is accounted for stays accounted for.
LEMMA AccountedStays ==
  ASSUME Inv, [Next]_vars, NEW o \in Orgs, NEW s \in Seqs, Accounted(s, o)
  PROVE  Accounted(s, o)'
<1>1. row[o].floor \in Int /\ row'[o].floor \in Int /\ s \in Int
  BY Marking, InvTyped, TypeStep DEF TypeInv, TypeOK, Watermark
<1> QED
  BY <1>1, FloorsGrow, StoredFrame DEF Accounted, Present

\* What is settled at the proxy stays settled.
LEMMA SettledStays ==
  ASSUME Inv, [Next]_vars, NEW s \in Seqs, fate[s] \in Settled
  PROVE  fate'[s] \in Settled
<1>1. /\ fate \in [Seqs -> Fates] /\ alloc \in Int /\ s \in Int
      /\ fate[s] # "free" /\ ~ (alloc < s)
  BY Marking DEF Inv, TypeOK, Inductive, NumbersInOrder, Settled
<1>2. CASE UNCHANGED <<fate, alloc>>
  BY <1>2
<1>3. CASE Issue
  BY <1>1, <1>3 DEF Issue
<1>4. CASE SwitchStream
  BY <1>1, <1>4 DEF SwitchStream
<1>5. ASSUME NEW p \in Procs, BatchReply(p) PROVE fate'[s] \in Settled
  BY <1>1, <1>5 DEF BatchReply, Settled
<1> QED
  BY <1>2, <1>3, <1>4, <1>5, FateFrame

\* What was logged stays logged or is pruned: its number is never given out
\* again.
LEMMA LoggedStays ==
  ASSUME Inv, [Next]_vars, NEW s \in Seqs, fate[s] \in {"logged", "pruned"}
  PROVE  fate'[s] \in {"logged", "pruned"}
<1>1. /\ fate \in [Seqs -> Fates] /\ alloc \in Int /\ s \in Int
      /\ ~ (alloc < s)
  BY Marking DEF Inv, TypeOK, Inductive, NumbersInOrder
<1>2. CASE UNCHANGED <<fate, alloc>>
  BY <1>2
<1>3. CASE Issue
  BY <1>1, <1>3 DEF Issue
<1>4. CASE SwitchStream
  BY <1>1, <1>4 DEF SwitchStream
<1>5. ASSUME NEW p \in Procs, BatchReply(p)
      PROVE  fate'[s] \in {"logged", "pruned"}
  BY <1>1, <1>5 DEF BatchReply
<1> QED
  BY <1>2, <1>3, <1>4, <1>5, FateFrame

LEMMA NumbersStep ==
  ASSUME Inv, [Next]_vars
  PROVE  NumbersInOrder'
<1> SUFFICES ASSUME NEW s \in Seqs PROVE fate'[s] = "free" <=> alloc' < s
  BY DEF NumbersInOrder
<1>1. /\ fate \in [Seqs -> Fates] /\ alloc \in Int /\ s \in Int
      /\ fate[s] = "free" <=> alloc < s
  BY Marking DEF Inv, TypeOK, Inductive, NumbersInOrder
<1>2. CASE UNCHANGED <<fate, alloc>>
  BY <1>1, <1>2
<1>3. CASE Issue
  BY <1>1, <1>3 DEF Issue
<1>4. CASE SwitchStream
  <2>1. PICK f \in Seqs :
          /\ alloc < f /\ alloc' = f
          /\ fate' = [t \in Seqs |-> IF alloc < t /\ t <= f THEN "terminated"
                                     ELSE fate[t]]
    BY <1>4 DEF SwitchStream
  <2> QED
    BY <1>1, <2>1, Marking
<1>5. ASSUME NEW p \in Procs, BatchReply(p)
      PROVE  fate'[s] = "free" <=> alloc' < s
  BY <1>1, <1>5 DEF BatchReply
<1> QED
  BY <1>2, <1>3, <1>4, <1>5, FateFrame

LEMMA StreamStep ==
  ASSUME Inv, [Next]_vars
  PROVE  StreamSettled'
<1> SUFFICES ASSUME undeclared' # {}, NEW s \in Seqs, s <= alloc'
             PROVE  fate'[s] \in Settled
  BY DEF StreamSettled
<1>1. /\ fate \in [Seqs -> Fates] /\ alloc \in Int /\ s \in Int
      /\ fate[s] = "free" <=> alloc < s
      /\ undeclared # {} /\ s <= alloc => fate[s] \in Settled
  BY Marking DEF Inv, TypeOK, Inductive, NumbersInOrder, StreamSettled
<1>2. CASE SwitchStream
  <2>1. PICK f \in Seqs :
          /\ alloc < f /\ alloc' = f
          /\ fate' = [t \in Seqs |-> IF alloc < t /\ t <= f THEN "terminated"
                                     ELSE fate[t]]
    BY <1>2 DEF SwitchStream
  <2>2. fate[s] # "logged"
    BY <1>2 DEF SwitchStream, Wal
  <2> QED
    BY <1>1, <2>1, <2>2 DEF Fates, Settled
<1>3. CASE undeclared' \subseteq undeclared /\ UNCHANGED <<fate, alloc>>
  BY <1>1, <1>3
<1>4. CASE Issue
  BY <1>4 DEF Issue
<1>5. ASSUME NEW p \in Procs, BatchReply(p) PROVE fate'[s] \in Settled
  BY <1>1, <1>5, SettledStays DEF BatchReply
<1> QED
  BY <1>2, <1>3, <1>4, <1>5, FateFrame, UndeclaredFrame

LEMMA FloorsStep ==
  ASSUME Inv, [Next]_vars
  PROVE  FloorsSettled'
<1> SUFFICES ASSUME NEW o \in Orgs, NEW s \in Seqs, s <= row'[o].floor
             PROVE  fate'[s] \in Settled
  BY DEF FloorsSettled
<1>1. /\ row \in [Orgs -> Watermark] /\ row[o].floor \in Int /\ s \in Int
      /\ s <= row[o].floor => fate[s] \in Settled
  BY Marking DEF Inv, TypeOK, Watermark, Inductive, FloorsSettled
<1>2. CASE row'[o].floor = row[o].floor
  BY <1>1, <1>2, SettledStays
<1>3. ASSUME NEW x \in Orgs, Age(x) PROVE row'[o].floor = row[o].floor
  BY <1>1, <1>3 DEF Age, Watermark
<1>4. ASSUME NEW p \in Procs, AdvanceWrite(p)
      PROVE  row'[o].floor = row[o].floor
  BY <1>1, <1>4 DEF AdvanceWrite, Upserted, Watermark
<1>5. ASSUME NEW p \in Procs, FloorUpdate(p) \/ FloorSeed(p)
      PROVE  row'[o].floor \in {row[o].floor, req[p].contiguous}
  <2>1. CASE FloorUpdate(p)
    BY <1>1, <2>1 DEF FloorUpdate, Floored, Watermark
  <2>2. CASE FloorSeed(p)
    BY <1>1, <2>2 DEF FloorSeed, Floored, Watermark, NoRow
  <2> QED
    BY <1>5, <2>1, <2>2
<1>6. ASSUME NEW p \in Procs, FloorUpdate(p) \/ FloorSeed(p)
      PROVE  fate'[s] \in Settled
  <2>1. s <= req[p].contiguous => fate[s] \in Settled
    BY <1>6 DEF Inv, Inductive, DeclarationsSettled, FloorUpdate, FloorSeed
  <2> QED
    BY <1>2, <1>5, <1>6, <2>1, SettledStays
<1> QED
  BY <1>2, <1>3, <1>4, <1>6, RowFrame

LEMMA AbsentStep ==
  ASSUME Inv, [Next]_vars
  PROVE  AbsentRowEmpty'
<1> SUFFICES ASSUME NEW o \in Orgs, row'[o].age = "absent"
             PROVE  row'[o] = NoRow
  BY DEF AbsentRowEmpty
<1>1. /\ row \in [Orgs -> Watermark]
      /\ row[o].age = "absent" => row[o] = NoRow
  BY DEF Inv, TypeOK, Inductive, AbsentRowEmpty
<1>2. CASE row' = row
  BY <1>1, <1>2
<1>3. ASSUME NEW x \in Orgs, Age(x) PROVE row'[o] = NoRow
  BY <1>1, <1>3 DEF Age, Watermark
<1>4. ASSUME NEW p \in Procs, AdvanceWrite(p) PROVE row'[o] = NoRow
  BY <1>1, <1>4 DEF AdvanceWrite, Upserted, Watermark
<1>5. ASSUME NEW p \in Procs, FloorUpdate(p) PROVE row'[o] = NoRow
  BY <1>1, <1>5 DEF FloorUpdate, Floored, Watermark
<1>6. ASSUME NEW p \in Procs, FloorSeed(p) PROVE row'[o] = NoRow
  BY <1>1, <1>6 DEF FloorSeed, Floored, Watermark, NoRow
<1> QED
  BY <1>2, <1>3, <1>4, <1>5, <1>6, RowFrame

LEMMA DeclarationsStep ==
  ASSUME Inv, [Next]_vars
  PROVE  DeclarationsSettled'
<1> SUFFICES ASSUME NEW p \in Procs, NEW s \in Seqs,
                    req'[p].pc \in {"floorUpdate", "floorSeed"},
                    s <= req'[p].contiguous
             PROVE  fate'[s] \in Settled
  BY DEF DeclarationsSettled
<1>1. req \in [Procs -> Request] /\ req[p] \in Request
  BY DEF Inv, TypeOK
<1>2. SUFFICES fate[s] \in Settled
  BY SettledStays
<1>3. CASE req'[p] = req[p]
  BY <1>3 DEF Inv, Inductive, DeclarationsSettled
<1>4. CASE DeclareFloor(p)
  <2>1. undeclared # {} /\ req'[p].contiguous = alloc
    BY <1>1, <1>4 DEF DeclareFloor, Idle
  <2> QED
    BY <2>1 DEF Inv, Inductive, StreamSettled
<1>5. CASE FloorUpdate(p)
  <2>1. req[p].pc = "floorUpdate" /\ req'[p].contiguous = req[p].contiguous
    BY <1>1, <1>5 DEF FloorUpdate, Request
  <2> QED
    BY <2>1 DEF Inv, Inductive, DeclarationsSettled
<1>6. CASE AdvanceRead(p) \/ AdvanceZip(p) \/ AdvanceMaxSeen(p)
  <2>1. req'[p].pc \in {"zip", "seen", "write"}
    <3>1. CASE AdvanceRead(p)
      BY <1>1, <3>1 DEF AdvanceRead, Request
    <3>2. CASE AdvanceZip(p)
      BY <1>1, <3>2 DEF AdvanceZip, Request
    <3>3. CASE AdvanceMaxSeen(p)
      BY <1>1, <3>3 DEF AdvanceMaxSeen, Request
    <3> QED
      BY <1>6, <3>1, <3>2, <3>3
  <2> QED
    BY <2>1
<1>7. CASE AdvanceWrite(p)
  <2>1. [req[p] EXCEPT !.reply = req[p].contiguous] \in Request
    BY <1>1 DEF Request
  <2>2. req'[p].pc \notin Working
    BY <1>1, <1>7, <2>1, LeaveFacts DEF AdvanceWrite
  <2> QED
    BY <2>2 DEF Working
<1> QED
  BY <1>3, <1>4, <1>5, <1>6, <1>7, RequestFrame, InvTyped

LEMMA ReadsStep ==
  ASSUME Inv, [Next]_vars
  PROVE  ReadsAccounted'
<1> SUFFICES ASSUME NEW p \in Procs, NEW s \in Seqs,
                    req'[p].pc \in {"zip", "seen", "write"},
                    s <= req'[p].contiguous,
                    NEW o, o = req'[p].org
             PROVE  Accounted(s, o)'
  BY DEF ReadsAccounted, Accounted
<1>1. req \in [Procs -> Request] /\ req[p] \in Request
  BY DEF Inv, TypeOK
<1>2. o \in Orgs
  BY InvTyped, TypeStep DEF TypeInv, OrgKnown, Working
<1>3. SUFFICES Accounted(s, o)
  BY <1>2, AccountedStays
<1>4. CASE req'[p] = req[p]
  BY <1>4 DEF Inv, Inductive, ReadsAccounted
<1>5. CASE AdvanceRead(p)
  <2>1. req'[p].contiguous = row[o].contiguous
    BY <1>1, <1>5 DEF AdvanceRead, Request
  <2> QED
    BY <1>2, <2>1 DEF Inv, ContiguousAccounted, Accounted
<1>6. CASE AdvanceZip(p)
  <2>1. PICK d \in req[p].contiguous..MaxSeq :
          /\ Zipped(req[p].contiguous, d)
          /\ req' = [req EXCEPT ![p].pc = "seen", ![p].contiguous = d]
    BY <1>6 DEF AdvanceZip
  <2>2. /\ req[p].pc = "zip" /\ req'[p].org = req[p].org
        /\ req'[p].contiguous = d
    BY <1>1, <1>6, <2>1 DEF AdvanceZip, Request
  <2>3. CASE s <= req[p].contiguous
    BY <2>2, <2>3 DEF Inv, Inductive, ReadsAccounted
  <2>4. CASE ~ (s <= req[p].contiguous)
    <3>1. req[p].contiguous \in Int /\ s \in Int /\ ScanLimit \in Int /\ d \in Int
      BY <1>1, Marking, LimitAssumption, SeqAssumption DEF Request
    <3>2. s \in Window(req[p].contiguous, d)
      BY <2>1, <2>2, <2>4, <3>1 DEF Zipped, Window
    <3> QED
      BY <2>1, <3>2 DEF Zipped, Accounted
  <2> QED
    BY <2>3, <2>4
<1>7. CASE AdvanceMaxSeen(p)
  <2>1. /\ req[p].pc = "seen" /\ req'[p].org = req[p].org
        /\ req'[p].contiguous = req[p].contiguous
    BY <1>1, <1>7 DEF AdvanceMaxSeen, Request
  <2> QED
    BY <2>1 DEF Inv, Inductive, ReadsAccounted
<1>8. CASE DeclareFloor(p)
  BY <1>1, <1>8 DEF DeclareFloor, Idle
<1>a. CASE FloorUpdate(p)
  BY <1>1, <1>a DEF FloorUpdate, Request
<1>9. CASE AdvanceWrite(p)
  <2>1. [req[p] EXCEPT !.reply = req[p].contiguous] \in Request
    BY <1>1 DEF Request
  <2>2. req'[p].pc \notin Working
    BY <1>1, <1>9, <2>1, LeaveFacts DEF AdvanceWrite
  <2> QED
    BY <2>2 DEF Working
<1> QED
  BY <1>4, <1>5, <1>6, <1>7, <1>8, <1>a, <1>9, RequestFrame, InvTyped

LEMMA RepliesStep ==
  ASSUME Inv, [Next]_vars
  PROVE  RepliesAccounted'
<1> SUFFICES ASSUME NEW p \in Procs, NEW s \in Seqs, s <= req'[p].reply
             PROVE  \E o \in Orgs : Accounted(s, o)'
  BY DEF RepliesAccounted
<1>1. /\ req \in [Procs -> Request] /\ req[p] \in Request
      /\ ~ (s <= 0)
  BY SeqAssumption DEF Inv, TypeOK, Seqs
<1>2. SUFFICES \E o \in Orgs : Accounted(s, o)
  BY AccountedStays
<1>3. CASE req'[p].reply = req[p].reply
  BY <1>3 DEF Inv, Inductive, RepliesAccounted
<1>4. CASE req'[p].reply = 0
  BY <1>1, <1>4
<1>5. CASE DeclareFloor(p) \/ FloorUpdate(p) \/ AdvanceRead(p)
           \/ AdvanceZip(p) \/ AdvanceMaxSeen(p)
  <2>1. req'[p].reply \in {req[p].reply, 0}
    <3>1. CASE DeclareFloor(p)
      BY <1>1, <3>1 DEF DeclareFloor, Idle
    <3>2. CASE FloorUpdate(p)
      BY <1>1, <3>2 DEF FloorUpdate, Request
    <3>3. CASE AdvanceRead(p)
      BY <1>1, <3>3 DEF AdvanceRead, Request
    <3>4. CASE AdvanceZip(p)
      BY <1>1, <3>4 DEF AdvanceZip, Request
    <3>5. CASE AdvanceMaxSeen(p)
      BY <1>1, <3>5 DEF AdvanceMaxSeen, Request
    <3> QED
      BY <1>5, <3>1, <3>2, <3>3, <3>4, <3>5
  <2> QED
    BY <1>3, <1>4, <2>1
<1>6. CASE AdvanceWrite(p)
  <2> DEFINE r == [req[p] EXCEPT !.reply = req[p].contiguous]
  <2>1. r \in Request /\ r.reply = req[p].contiguous
    BY <1>1 DEF Request
  <2>2. req'[p].reply \in {req[p].contiguous, 0}
    BY <1>1, <1>6, <2>1, LeaveFacts DEF AdvanceWrite
  <2>3. req[p].pc = "write" /\ req[p].org \in Orgs
    BY <1>6 DEF AdvanceWrite, Inv, Inductive, OrgKnown, Working
  <2> QED
    BY <1>4, <2>2, <2>3 DEF Inv, Inductive, ReadsAccounted
<1> QED
  BY <1>3, <1>4, <1>5, <1>6, RequestFrame, InvTyped

LEMMA BatchesStep ==
  ASSUME Inv, [Next]_vars
  PROVE  BatchesLogged'
<1> SUFFICES ASSUME NEW p \in Procs, req'[p].pc \in {"tx", "event"},
                    NEW s \in req'[p].seqs
             PROVE  fate'[s] \in {"logged", "pruned"}
  BY DEF BatchesLogged
<1>1. /\ req \in [Procs -> Request] /\ req[p] \in Request
      /\ s \in Seqs /\ Wal \subseteq Seqs
  BY InvTyped, TypeStep DEF TypeInv, TypeOK, Request, Wal
<1>2. SUFFICES fate[s] \in {"logged", "pruned"}
  BY <1>1, LoggedStays
<1>3. CASE req'[p] = req[p]
  BY <1>3 DEF Inv, Inductive, BatchesLogged
<1>4. CASE SendBatch(p)
  <2>1. req'[p].seqs \subseteq Wal
    BY <1>1, <1>4 DEF SendBatch, Idle
  <2> QED
    BY <2>1 DEF Wal
<1>5. CASE BatchTxFails(p)
  <2>1. req[p].pc = "tx" /\ req'[p].seqs = req[p].seqs
    BY <1>1, <1>5 DEF BatchTxFails, Request
  <2> QED
    BY <2>1 DEF Inv, Inductive, BatchesLogged
<1>6. CASE ReplayEvent(p)
  <2>1. PICK r \in Request :
          /\ r.seqs \subseteq req[p].seqs
          /\ req' = [req EXCEPT ![p] = IF r.seqs = {} THEN Continue(r) ELSE r]
    BY <1>6, InvTyped, ReplayFacts
  <2>2. req'[p] = r
    BY <1>1, <2>1, ContinueFacts
  <2> QED
    BY <1>6, <2>1, <2>2 DEF Inv, Inductive, BatchesLogged, ReplayEvent
<1> QED
  BY <1>3, <1>4, <1>5, <1>6, BatchFrame, InvTyped

LEMMA ContiguousStep ==
  ASSUME Inv, [Next]_vars
  PROVE  ContiguousAccounted'
<1> SUFFICES ASSUME NEW o \in Orgs, NEW s \in Seqs, s <= row'[o].contiguous
             PROVE  Accounted(s, o)'
  BY DEF ContiguousAccounted, Accounted
<1>1. row \in [Orgs -> Watermark] /\ s \in Int /\ ~ (s <= 0)
  BY Marking, SeqAssumption DEF Inv, TypeOK, Seqs
<1>2. CASE row'[o].contiguous = row[o].contiguous
  BY <1>2, AccountedStays DEF Inv, ContiguousAccounted, Accounted
<1>3. ASSUME NEW x \in Orgs, Age(x)
      PROVE  row'[o].contiguous = row[o].contiguous
  BY <1>1, <1>3 DEF Age, Watermark
<1>4. ASSUME NEW p \in Procs, AdvanceWrite(p) PROVE Accounted(s, o)'
  <2>1. CASE req[p].org # o
    BY <1>1, <1>2, <1>4, <2>1 DEF AdvanceWrite
  <2>2. CASE req[p].org = o
    <3>1. row'[o].contiguous = req[p].contiguous
      BY <1>1, <1>4, <2>2 DEF AdvanceWrite, Upserted
    <3> QED
      BY <1>4, <2>2, <3>1, AccountedStays
      DEF Inv, Inductive, ReadsAccounted, AdvanceWrite
  <2> QED
    BY <2>1, <2>2
<1>5. ASSUME NEW p \in Procs, FloorUpdate(p) \/ FloorSeed(p)
      PROVE  Accounted(s, o)'
  <2>1. CASE row'[o].contiguous # row[o].contiguous
    <3>1. row'[o].contiguous = row'[o].floor
      <4>1. CASE FloorUpdate(p)
        BY <1>1, <2>1, <4>1 DEF FloorUpdate, Floored, Watermark
      <4>2. CASE FloorSeed(p)
        <5>1. row[o].age = "absent" => row[o].contiguous = 0
          BY DEF Inv, Inductive, AbsentRowEmpty, NoRow
        <5> QED
          BY <1>1, <2>1, <4>2, <5>1 DEF FloorSeed, Floored, NoRow, Watermark
      <4> QED
        BY <1>5, <4>1, <4>2
    <3> QED
      BY <3>1 DEF Accounted
  <2> QED
    BY <1>2, <2>1
<1> QED
  BY <1>2, <1>3, <1>4, <1>5, RowFrame

LEMMA PruneStep ==
  ASSUME Inv, [Next]_vars
  PROVE  PruneSafe'
<1> SUFFICES ASSUME NEW s \in Seqs, fate'[s] = "pruned"
             PROVE  s \in Present
  BY StoredFrame DEF PruneSafe, Present
<1>1. /\ fate \in [Seqs -> Fates]
      /\ fate[s] = "pruned" => s \in Present
  BY DEF Inv, TypeOK, PruneSafe
<1>2. CASE UNCHANGED <<fate, alloc>>
  BY <1>1, <1>2
<1>3. CASE Issue
  BY <1>1, <1>3 DEF Issue
<1>4. CASE SwitchStream
  BY <1>1, <1>4 DEF SwitchStream
<1>5. ASSUME NEW p \in Procs, BatchReply(p) PROVE s \in Present
  <2>1. CASE fate[s] = "logged" /\ s <= req[p].reply
    <3>1. PICK o \in Orgs : Accounted(s, o)
      BY <2>1 DEF Inv, Inductive, RepliesAccounted
    <3>2. ~ (s <= row[o].floor)
      BY <2>1 DEF Inv, Inductive, FloorsSettled, Settled
    <3> QED
      BY <3>1, <3>2 DEF Accounted
  <2>2. CASE ~ (fate[s] = "logged" /\ s <= req[p].reply)
    BY <1>1, <1>5, <2>2 DEF BatchReply
  <2> QED
    BY <2>1, <2>2
<1> QED
  BY <1>2, <1>3, <1>4, <1>5, FateFrame

LEMMA InvInit == Init => Inv
<1> SUFFICES ASSUME Init PROVE Inv
  OBVIOUS
<1>1. TypeInv
  BY TypeInit
<1>2. /\ \A s \in Seqs : s \in Int /\ ~ (s <= 0) /\ 0 < s
      /\ fate = [s \in Seqs |-> "free"] /\ alloc = 0 /\ undeclared = {}
      /\ row = [o \in Orgs |-> NoRow] /\ req = [p \in Procs |-> Idle]
  BY SeqAssumption DEF Init, Seqs
<1>3. NumbersInOrder /\ StreamSettled
  BY <1>2 DEF NumbersInOrder, StreamSettled
<1>4. FloorsSettled /\ AbsentRowEmpty /\ ContiguousAccounted
  BY <1>2 DEF FloorsSettled, AbsentRowEmpty, ContiguousAccounted, NoRow
<1>5. /\ DeclarationsSettled /\ ReadsAccounted /\ RepliesAccounted
      /\ BatchesLogged
  BY <1>2 DEF DeclarationsSettled, ReadsAccounted, RepliesAccounted,
              BatchesLogged, Idle
<1>6. PruneSafe
  BY <1>2 DEF PruneSafe
<1> QED
  BY <1>1, <1>3, <1>4, <1>5, <1>6 DEF Inv, TypeInv, Inductive

LEMMA InvStep == Inv /\ [Next]_vars => Inv'
<1> SUFFICES ASSUME Inv, [Next]_vars PROVE Inv'
  OBVIOUS
<1>1. TypeInv'
  BY InvTyped, TypeStep
<1>2. Inductive'
  BY <1>1, NumbersStep, StreamStep, FloorsStep, AbsentStep, DeclarationsStep,
     ReadsStep, RepliesStep, BatchesStep
  DEF Inductive, TypeInv
<1> QED
  BY <1>1, <1>2, ContiguousStep, PruneStep DEF Inv, TypeInv

LEMMA Invariance == Spec => []Inv
  BY InvInit, InvStep, PTL DEF Spec

\* The strengthening itself holds in every reachable state.
THEOREM InductiveHolds == Spec => []Inductive
<1>1. Inv => Inductive
  BY DEF Inv
<1> QED
  BY <1>1, Invariance, PTL

\* contiguous_seq of a row passes only what is stored, ledgered or terminated,
\* however the unlocked read-zip-write passes of the handlers interleave.
THEOREM ContiguousAccountedHolds == Spec => []ContiguousAccounted
<1>1. Inv => ContiguousAccounted
  BY DEF Inv
<1> QED
  BY <1>1, Invariance, PTL

\* The proxy prunes only what the collector has stored or written off.
THEOREM PruneSafety == Spec => []PruneSafe
<1>1. Inv => PruneSafe
  BY DEF Inv
<1> QED
  BY <1>1, Invariance, PTL

----------------------------------------------------------------------------
(* The contract.                                                           *)

\* What each step may change of what the contract sees.
LEMMA ContractFrame ==
  ASSUME [Next]_vars
  PROVE  \/ UNCHANGED <<fate, ods, ledger>>
         \/ (Issue \/ SwitchStream \/ \E p \in Procs : BatchReply(p))
              /\ UNCHANGED <<ods, ledger>>
         \/ \E p \in Procs : BatchTxCommit(p) \/ BatchTxFails(p) \/ ReplayEvent(p)
         \/ \E p \in Procs : RecordLoss(p)
<1>1. UNCHANGED vars => UNCHANGED <<fate, ods, ledger>>
  BY DEF vars
<1>2. Issue \/ SwitchStream => UNCHANGED <<ods, ledger>>
  BY DEF Issue, SwitchStream, tables
<1>3. Restart => UNCHANGED <<fate, ods, ledger>>
  BY DEF Restart, client, tables
<1>4. \A o \in Orgs : Age(o) => UNCHANGED <<fate, ods, ledger>>
  BY DEF Age, client
<1>5. \A p \in Procs : Proxy(p) => UNCHANGED <<fate, ods, ledger>>
  BY DEF Proxy, SendBatch, DeclareFloor, SendConfirmLost, client, tables
<1>6. \A p \in Procs : Scan(p) \/ GapsRow(p) => UNCHANGED <<fate, ods, ledger>>
  BY DEF Scan, GapsRow, client, tables
<1>7. \A p \in Procs : BatchReply(p) => UNCHANGED <<ods, ledger>>
  BY DEF BatchReply, tables
<1>8. \A p \in Procs :
        AdvanceRead(p) \/ AdvanceZip(p) \/ AdvanceMaxSeen(p) \/ AdvanceWrite(p)
           => UNCHANGED <<fate, ods, ledger>>
  BY DEF AdvanceRead, AdvanceZip, AdvanceMaxSeen, AdvanceWrite,
         client, tables
<1>9. \A p \in Procs :
        Enumerate(p) \/ GapsEnumerate(p) \/ ConfirmCeiling(p) \/ ConfirmPresent(p)
           => UNCHANGED <<fate, ods, ledger>>
  BY DEF Enumerate, GapsEnumerate, ConfirmCeiling, ConfirmPresent,
         client, tables
<1>10. \A p \in Procs :
        FloorUpdate(p) \/ FloorSeed(p) \/ FloorRead(p) \/ StatementFails(p)
           => UNCHANGED <<fate, ods, ledger>>
  BY DEF FloorUpdate, FloorSeed, FloorRead, StatementFails,
         client, tables
<1> QED
  BY <1>1, <1>2, <1>3, <1>4, <1>5, <1>6, <1>7, <1>8, <1>9, <1>10 DEF Next, Handle

LEMMA ContractInit == Init => Contract!Init
<1> SUFFICES ASSUME Init PROVE Contract!Init
  OBVIOUS
<1>1. /\ Wal = {} /\ {s \in Seqs : fate[s] \in {"logged", "pruned"}} = {}
      /\ ods = {} /\ Present \subseteq Seqs
  BY DEF Init, Wal, Present
<1> QED
  BY <1>1 DEF Contract!Init

\* Storing is the only thing a step of a batch does.
LEMMA BatchStores ==
  ASSUME Inv, NEW p \in Procs,
         BatchTxCommit(p) \/ BatchTxFails(p) \/ ReplayEvent(p)
  PROVE  /\ UNCHANGED <<fate, ledger>>
         /\ \E S \in SUBSET Seqs :
              /\ \A s \in S : fate[s] \in {"logged", "pruned"}
              /\ ods' = ods \cup S
<1>1. /\ req[p] \in Request /\ req[p].seqs \subseteq Seqs
      /\ req[p].pc \in {"tx", "event"}
      /\ \A s \in req[p].seqs : fate[s] \in {"logged", "pruned"}
  <2>1. req[p].pc \in {"tx", "event"}
    BY DEF BatchTxCommit, BatchTxFails, ReplayEvent
  <2> QED
    BY <2>1 DEF Inv, TypeOK, Request, Inductive, BatchesLogged
<1>2. UNCHANGED <<fate, ledger>>
  BY DEF BatchTxCommit, BatchTxFails, ReplayEvent, client
<1>3. \E S \in SUBSET req[p].seqs : ods' = ods \cup S
  <2>1. CASE BatchTxCommit(p)
    BY <2>1 DEF BatchTxCommit
  <2>2. CASE BatchTxFails(p)
    <3>1. ods' = ods \cup {} \/ ods' = ods \cup (req[p].seqs \ Poison)
      BY <2>2 DEF BatchTxFails
    <3> QED
      BY <3>1
  <2>3. CASE ReplayEvent(p)
    <3>1. \E s \in req[p].seqs : ods' = ods \cup {} \/ ods' = ods \cup {s}
      BY <2>3 DEF ReplayEvent
    <3> QED
      BY <3>1
  <2> QED
    BY <2>1, <2>2, <2>3
<1> QED
  BY <1>1, <1>2, <1>3

LEMMA ContractStep ==
  ASSUME Inv, [Next]_vars
  PROVE  [Contract!Next]_(Contract!vars)
<1> DEFINE Logged == {s \in Seqs : fate[s] \in {"logged", "pruned"}}
<1>1. /\ fate \in [Seqs -> Fates] /\ ods \subseteq Seqs /\ Present \subseteq Seqs
  BY DEF Inv, TypeOK, Present
<1>2. CASE UNCHANGED <<fate, ods, ledger>>
  BY <1>2 DEF Contract!vars, Wal, Present
<1>3. CASE Issue /\ UNCHANGED <<ods, ledger>>
  <2>1. PICK e \in Seqs : e = alloc + 1 /\ fate[e] = "free"
    BY <1>3, SeqAssumption, Marking
    DEF Issue, Inv, TypeOK, Marks, Seqs, Inductive, NumbersInOrder
  <2>2. PICK f \in {"logged", "lost"} : fate' = [fate EXCEPT ![e] = f]
    BY <1>3, <2>1 DEF Issue
  <2>3. UNCHANGED <<ods, Present>>
    BY <1>3 DEF Present
  <2>4. CASE f = "logged"
    <3>1. Wal' = Wal \cup {e} /\ Logged' = Logged \cup {e} /\ e \notin Logged
      BY <1>1, <2>1, <2>2, <2>4 DEF Wal
    <3>2. Contract!Log(e)
      BY <2>3, <3>1 DEF Contract!Log
    <3> QED
      BY <2>1, <3>2 DEF Contract!Next
  <2>5. CASE f = "lost"
    <3>1. Wal' = Wal /\ Logged' = Logged
      BY <1>1, <2>1, <2>2, <2>5 DEF Wal
    <3> QED
      BY <2>3, <3>1 DEF Contract!vars
  <2> QED
    BY <2>4, <2>5
<1>4. CASE SwitchStream /\ UNCHANGED <<ods, ledger>>
  <2>1. PICK n \in Seqs :
          fate' = [s \in Seqs |-> IF alloc < s /\ s <= n THEN "terminated"
                                  ELSE fate[s]]
    BY <1>4 DEF SwitchStream
  <2>2. \A s \in Seqs : alloc < s => fate[s] = "free"
    BY DEF Inv, Inductive, NumbersInOrder
  <2>3. Wal' = Wal /\ Logged' = Logged
    BY <1>1, <2>1, <2>2 DEF Wal
  <2>4. UNCHANGED <<ods, Present>>
    BY <1>4 DEF Present
  <2> QED
    BY <2>3, <2>4 DEF Contract!vars
<1>5. ASSUME NEW p \in Procs, BatchReply(p), UNCHANGED <<ods, ledger>>
      PROVE  Contract!Next
  <2> DEFINE S == {s \in Seqs : fate[s] = "logged" /\ fate'[s] = "pruned"}
  <2>1. \A s \in Seqs : fate'[s] = IF s \in S THEN "pruned" ELSE fate[s]
    BY <1>1, <1>5 DEF BatchReply
  <2>2. Wal' = Wal \ S /\ Logged' = Logged
    BY <2>1 DEF Wal
  <2>3. UNCHANGED <<ods, Present>>
    BY <1>5 DEF Present
  <2>4. S \subseteq Present
    BY <2>3, PruneStep DEF PruneSafe
  <2>5. Contract!Forget(S)
    BY <2>2, <2>3, <2>4 DEF Contract!Forget
  <2> QED
    BY <2>5 DEF Contract!Next
<1>6. ASSUME NEW p \in Procs,
             BatchTxCommit(p) \/ BatchTxFails(p) \/ ReplayEvent(p)
      PROVE  Contract!Next
  <2>1. PICK S \in SUBSET Seqs :
          /\ \A s \in S : fate[s] \in {"logged", "pruned"}
          /\ ods' = ods \cup S
    BY <1>6, BatchStores
  <2>2. UNCHANGED <<fate, ledger>>
    BY <1>6, BatchStores
  <2>3. UNCHANGED <<Wal, Logged>> /\ Present' = Present \cup S
    BY <2>1, <2>2 DEF Wal, Present
  <2>4. S \subseteq Logged
    BY <2>1
  <2>5. Contract!Store(S)
    BY <2>1, <2>3, <2>4 DEF Contract!Store
  <2> QED
    BY <2>5 DEF Contract!Next
<1>7. ASSUME NEW p \in Procs, RecordLoss(p)
      PROVE  Contract!Next
  <2>1. PICK s \in req[p].seqs : ledger' = ledger \cup {<<req[p].org, s>>}
    BY <1>7 DEF RecordLoss
  <2>2. s \in Seqs /\ req[p].org \in Orgs
    BY <1>7 DEF RecordLoss, Inv, TypeOK, Request, Inductive, OrgKnown, Working
  <2>3. UNCHANGED <<fate, ods>>
    BY <1>7 DEF RecordLoss, client
  <2>4. UNCHANGED <<Wal, Logged, ods>> /\ Present' = Present \cup {s}
    BY <2>1, <2>2, <2>3 DEF Wal, Present
  <2>5. Contract!WriteOff({s})
    BY <2>4 DEF Contract!WriteOff
  <2> QED
    BY <2>2, <2>5 DEF Contract!Next
<1> QED
  BY <1>2, <1>3, <1>4, <1>5, <1>6, <1>7, ContractFrame

\* The usage channel implements the contract for every number of goroutines,
\* orgs and events, and under every combination of the faults modelled.
THEOREM ContractImplemented == Spec => ImplementsContract
<1>1. Inv /\ [Next]_vars => [Contract!Next]_(Contract!vars)
  BY ContractStep
<1> QED
  BY <1>1, ContractInit, Invariance, PTL
  DEF Spec, ImplementsContract, Contract!Spec

\* What the contract is for: an event the proxy logged is still in its log, or is
\* stored or ledgered, and nothing is stored that was not logged.
THEOREM NoEventLost == Spec => []Contract!NothingLost
<1>1. Contract!Init => Contract!NothingLost
  BY DEF Contract!Init, Contract!NothingLost
<1>2. Contract!NothingLost /\ [Contract!Next]_(Contract!vars) => Contract!NothingLost'
  <2> SUFFICES ASSUME Contract!NothingLost, [Contract!Next]_(Contract!vars)
               PROVE  Contract!NothingLost'
    OBVIOUS
  <2>1. ASSUME NEW e \in Seqs, Contract!Log(e) PROVE Contract!NothingLost'
    BY <2>1 DEF Contract!NothingLost, Contract!Log
  <2>2. ASSUME NEW S \in SUBSET Seqs, Contract!Store(S) PROVE Contract!NothingLost'
    BY <2>2 DEF Contract!NothingLost, Contract!Store
  <2>3. ASSUME NEW S \in SUBSET Seqs, Contract!WriteOff(S) PROVE Contract!NothingLost'
    BY <2>3 DEF Contract!NothingLost, Contract!WriteOff
  <2>4. ASSUME NEW S \in SUBSET Seqs, Contract!Forget(S) PROVE Contract!NothingLost'
    BY <2>4 DEF Contract!NothingLost, Contract!Forget
  <2>5. CASE UNCHANGED Contract!vars
    BY <2>5 DEF Contract!NothingLost, Contract!vars
  <2> QED
    BY <2>1, <2>2, <2>3, <2>4, <2>5 DEF Contract!Next
<1> QED
  BY <1>1, <1>2, ContractImplemented, PTL DEF ImplementsContract, Contract!Spec

----------------------------------------------------------------------------
(* The rows.                                                               *)

\* A step leaves a row's high-water marks where they were or raises them.
LEMMA MarksGrow ==
  ASSUME Inv, [Next]_vars, NEW o \in Orgs
  PROVE  /\ row[o].maxSeen <= row'[o].maxSeen
         /\ row[o].allocated <= row'[o].allocated
<1> DEFINE Grown == /\ row[o].maxSeen <= row'[o].maxSeen
                    /\ row[o].allocated <= row'[o].allocated
<1>1. /\ row \in [Orgs -> Watermark]
      /\ row[o].maxSeen \in Int /\ row[o].allocated \in Int
  BY Marking DEF Inv, TypeOK, Watermark
<1>2. CASE row' = row
  BY <1>1, <1>2
<1>3. ASSUME NEW x \in Orgs, Age(x) PROVE Grown
  BY <1>1, <1>3 DEF Age, Watermark
<1>4. ASSUME NEW p \in Procs, AdvanceWrite(p) PROVE Grown
  <2>1. req[p].maxSeen \in Int /\ req[p].allocated \in Int
    BY Marking DEF Inv, TypeOK, Request
  <2> QED
    BY <1>1, <1>4, <2>1 DEF AdvanceWrite, Upserted, Greatest, Watermark
<1>5. ASSUME NEW p \in Procs, FloorUpdate(p) PROVE Grown
  BY <1>1, <1>5 DEF FloorUpdate, Floored, Watermark
<1>6. ASSUME NEW p \in Procs, FloorSeed(p) PROVE Grown
  <2>1. row[o].age = "absent" => row[o] = NoRow
    BY DEF Inv, Inductive, AbsentRowEmpty
  <2> QED
    BY <1>1, <1>6, <2>1 DEF FloorSeed, Floored, Watermark, NoRow
<1> QED
  BY <1>2, <1>3, <1>4, <1>5, <1>6, RowFrame

\* "All watermark columns are monotonic", for the three that the upsert and
\* the floor statements only ever raise.
THEOREM HighWatersOnlyGrow == Spec => HighWatersMonotone
<1>1. ASSUME Inv, [Next]_vars
      PROVE  [\A o \in Orgs : /\ row[o].maxSeen <= row'[o].maxSeen
                              /\ row[o].allocated <= row'[o].allocated
                              /\ row[o].floor <= row'[o].floor]_row
  BY <1>1, MarksGrow, FloorsGrow
<1> QED
  BY <1>1, Invariance, PTL DEF Spec, HighWatersMonotone

----------------------------------------------------------------------------
(* The ledger.                                                             *)

\* What a request is about to write off lies below the row's ceiling, the
\* ceiling being what the request read of it or less than what it is by now.
RequestBounded(r) ==
  /\ \A f \in r.finds : f.hi <= Ceiling(row[f.org])
  /\ r.pc = "record" => \A s \in r.seqs : s <= Ceiling(row[r.org])
  /\ r.pc = "present" => r.maxSeen <= Ceiling(row[r.org])

RequestsBounded == \A p \in Procs : RequestBounded(req[p])

LedgerInv == Inv /\ LedgerBounded /\ RequestsBounded

LEMMA CeilingGrows ==
  ASSUME Inv, [Next]_vars, NEW o \in Orgs
  PROVE  Ceiling(row[o]) <= Ceiling(row'[o])
<1>1. /\ row[o].maxSeen \in Int /\ row[o].allocated \in Int
      /\ row'[o].maxSeen \in Int /\ row'[o].allocated \in Int
  BY Marking, InvTyped, TypeStep DEF TypeInv, TypeOK, Watermark
<1> QED
  BY <1>1, MarksGrow DEF Ceiling, Greatest

\* A request that is between statements has only its findings left to answer
\* for.
LEMMA ContinueBounded ==
  ASSUME NEW r \in Request, \A f \in r.finds : f.hi <= Ceiling(row[f.org])
  PROVE  RequestBounded(Continue(r)) /\ RequestBounded(Leave(r))
<1>1. ASSUME NEW q \in Request, q.finds = r.finds
      PROVE  RequestBounded(Continue(q))
  <2>1. Continue(q).finds \subseteq q.finds
    BY DEF Continue, Request, Idle
  <2>2. Continue(q).pc \notin {"record", "present"}
    BY ContinueFacts DEF Working
  <2> QED
    BY <1>1, <2>1, <2>2 DEF RequestBounded
<1>2. /\ [r EXCEPT !.orgs = @ \ {r.org}] \in Request
      /\ [r EXCEPT !.orgs = @ \ {r.org}].finds = r.finds
  BY DEF Request
<1> QED
  BY <1>1, <1>2 DEF Leave

\* Read against the rows as they were, every step leaves its request bounded.
LEMMA RequestStep ==
  ASSUME LedgerInv, [Next]_vars, NEW p \in Procs
  PROVE  RequestBounded(req'[p])
<1> DEFINE q == req[p]
<1>1. /\ req \in [Procs -> Request] /\ q \in Request
      /\ row \in [Orgs -> Watermark] /\ RequestBounded(q)
  BY DEF LedgerInv, Inv, TypeOK, RequestsBounded
<1>a. ASSUME NEW r, r.finds = {}, r.pc \notin {"record", "present"}
      PROVE  RequestBounded(r)
  BY <1>a DEF RequestBounded
<1>b. ASSUME NEW r, r.finds \subseteq q.finds, r.pc \notin {"record", "present"}
      PROVE  RequestBounded(r)
  BY <1>1, <1>b DEF RequestBounded
<1>2. CASE UNCHANGED vars \/ Issue \/ SwitchStream \/ \E o \in Orgs : Age(o)
  BY <1>1, <1>2 DEF vars, Issue, SwitchStream, Age
<1>3. CASE Restart
  BY <1>3, <1>a DEF Restart, Idle
<1>4. ASSUME NEW x \in Procs, x # p,
             Proxy(x) \/ Scan(x) \/ GapsRow(x) \/ Handle(x)
      PROVE  req'[p] = req[p]
  BY <1>4, <1>1 DEF Proxy, SendBatch, DeclareFloor, SendConfirmLost, Scan,
    GapsRow, Handle, BatchTxCommit, BatchTxFails, ReplayEvent, BatchReply,
    AdvanceRead, AdvanceZip, AdvanceMaxSeen, AdvanceWrite, Enumerate,
    RecordLoss, GapsEnumerate, ConfirmCeiling, ConfirmPresent, FloorUpdate,
    FloorSeed, FloorRead, StatementFails
<1>5. CASE Proxy(p) \/ GapsRow(p)
  <2>1. req'[p].finds = {} /\ req'[p].pc \notin {"record", "present"}
    <3>1. CASE SendBatch(p)
      BY <3>1, <1>1 DEF SendBatch, Idle
    <3>2. CASE DeclareFloor(p)
      BY <3>2, <1>1 DEF DeclareFloor, Idle
    <3>3. CASE SendConfirmLost(p)
      BY <3>3, <1>1 DEF SendConfirmLost, Idle
    <3>4. CASE GapsRow(p)
      BY <3>4, <1>1 DEF GapsRow, Idle
    <3> QED
      BY <1>5, <3>1, <3>2, <3>3, <3>4 DEF Proxy
  <2> QED
    BY <2>1, <1>a
<1>6. CASE Scan(p)
  <2>1. /\ req'[p].pc = "scan"
        /\ req'[p].finds = {[org |-> o, lo |-> row[o].contiguous,
                             hi |-> Ceiling(row[o])]
                            : o \in {x \in Orgs : Promotable(row[x])}}
    BY <1>6, <1>1 DEF Scan, Idle
  <2>2. ASSUME NEW f \in req'[p].finds PROVE f.hi <= Ceiling(row[f.org])
    <3>1. PICK o \in Orgs : f = [org |-> o, lo |-> row[o].contiguous,
                                 hi |-> Ceiling(row[o])]
      BY <2>1
    <3>2. Ceiling(row[o]) \in Int
      BY <1>1, CeilingType, Marking
    <3> QED
      BY <3>1, <3>2
  <2> QED
    BY <2>1, <2>2 DEF RequestBounded
<1>7. CASE BatchTxCommit(p)
  <2> DEFINE r == [q EXCEPT !.orgs = OrgsOf(q.seqs \ Poison)]
  <2>1. r \in Request /\ r.finds = q.finds
    BY <1>1, SeqAssumption DEF Request, OrgsOf
  <2> QED
    BY <1>7, <1>1, <2>1, ContinueBounded DEF BatchTxCommit, RequestBounded
<1>8. CASE ReplayEvent(p)
  <2>1. PICK r \in Request :
          /\ r.pc = "event" /\ r.finds = q.finds
          /\ req' = [req EXCEPT ![p] = IF r.seqs = {} THEN Continue(r) ELSE r]
    BY <1>8, ReplayFacts DEF LedgerInv, Inv, Inductive, TypeInv
  <2> QED
    BY <1>1, <1>b, <2>1, ContinueBounded DEF RequestBounded
<1>9. CASE BatchReply(p) \/ GapsEnumerate(p) \/ FloorRead(p)
  BY <1>9, <1>1, <1>a DEF BatchReply, GapsEnumerate, FloorRead, Idle
<1>10. CASE \/ BatchTxFails(p) \/ AdvanceRead(p) \/ AdvanceZip(p)
           \/ AdvanceMaxSeen(p) \/ ConfirmCeiling(p) \/ FloorUpdate(p)
           \/ FloorSeed(p)
  <2>1. CASE ConfirmCeiling(p)
    <3>1. /\ req'[p].pc = "present" /\ req'[p].org = q.org
          /\ req'[p].finds = q.finds /\ req'[p].maxSeen = Ceiling(row[q.org])
      BY <1>1, <2>1 DEF ConfirmCeiling, Request
    <3>2. q.org \in Orgs
      BY <2>1 DEF ConfirmCeiling, LedgerInv, Inv, Inductive, OrgKnown, Working
    <3>3. Ceiling(row[q.org]) \in Int
      BY <1>1, <3>2, CeilingType, Marking
    <3> QED
      BY <1>1, <3>1, <3>3 DEF RequestBounded
  <2>2. CASE \/ BatchTxFails(p) \/ AdvanceRead(p) \/ AdvanceZip(p)
             \/ AdvanceMaxSeen(p) \/ FloorUpdate(p) \/ FloorSeed(p)
    <3>1. req'[p].finds = q.finds /\ req'[p].pc \notin {"record", "present"}
      <4>1. CASE BatchTxFails(p)
        BY <1>1, <4>1 DEF BatchTxFails, Request
      <4>2. CASE AdvanceRead(p)
        BY <1>1, <4>2 DEF AdvanceRead, Request
      <4>3. CASE AdvanceZip(p)
        BY <1>1, <4>3 DEF AdvanceZip, Request
      <4>4. CASE AdvanceMaxSeen(p)
        BY <1>1, <4>4 DEF AdvanceMaxSeen, Request
      <4>5. CASE FloorUpdate(p)
        BY <1>1, <4>5 DEF FloorUpdate, Request
      <4>6. CASE FloorSeed(p)
        BY <1>1, <4>6 DEF FloorSeed, Request
      <4> QED
        BY <2>2, <4>1, <4>2, <4>3, <4>4, <4>5, <4>6
    <3> QED
      BY <3>1, <1>b
  <2> QED
    BY <1>10, <2>1, <2>2
<1>11. CASE AdvanceWrite(p)
  <2> DEFINE r == [q EXCEPT !.reply = q.contiguous]
  <2>1. r \in Request /\ r.finds = q.finds
    BY <1>1 DEF Request
  <2>2. req'[p] = Leave(r)
    BY <1>1, <1>11 DEF AdvanceWrite
  <2> QED
    BY <1>1, <2>1, <2>2, ContinueBounded DEF RequestBounded
<1>12. CASE Enumerate(p)
  <2>1. PICK f \in q.finds :
          req' = [req EXCEPT ![p] =
            IF Missing(f.lo, f.hi) = {}
            THEN Continue([q EXCEPT !.finds = @ \ {f}])
            ELSE [[q EXCEPT !.finds = @ \ {f}]
                    EXCEPT !.pc = "record", !.org = f.org,
                           !.orgs = {f.org}, !.seqs = Missing(f.lo, f.hi)]]
    BY <1>12 DEF Enumerate
  <2> DEFINE rest == [q EXCEPT !.finds = @ \ {f}]
             r == [rest EXCEPT !.pc = "record", !.org = f.org,
                           !.orgs = {f.org}, !.seqs = Missing(f.lo, f.hi)]
  <2>2. /\ rest \in Request /\ rest.finds \subseteq q.finds
        /\ r.pc = "record" /\ r.org = f.org /\ r.seqs = Missing(f.lo, f.hi)
        /\ r.finds = rest.finds
    BY <1>1 DEF Request
  <2>3. \A g \in rest.finds : g.hi <= Ceiling(row[g.org])
    BY <1>1, <2>2 DEF RequestBounded
  <2>4. /\ f.hi <= Ceiling(row[f.org]) /\ f.hi \in Int
        /\ Ceiling(row[f.org]) \in Int
    BY <1>1, CeilingType, Marking DEF RequestBounded, Request, Finding
  <2>5. \A s \in Missing(f.lo, f.hi) : s <= Ceiling(row[f.org])
    BY <2>4, Marking DEF Missing, Window
  <2>6. RequestBounded(r)
    BY <2>2, <2>3, <2>5 DEF RequestBounded
  <2> QED
    BY <1>1, <2>1, <2>2, <2>3, <2>6, ContinueBounded
<1>13. CASE RecordLoss(p)
  <2>1. PICK s \in q.seqs :
          req' = [req EXCEPT ![p] = IF q.seqs = {s} THEN Continue(q)
                                     ELSE [q EXCEPT !.seqs = @ \ {s}]]
    BY <1>13 DEF RecordLoss
  <2> DEFINE r == [q EXCEPT !.seqs = @ \ {s}]
  <2>2. /\ r.pc = q.pc /\ r.org = q.org /\ r.seqs \subseteq q.seqs
        /\ r.finds = q.finds /\ q.pc = "record"
    BY <1>1, <1>13 DEF Request, RecordLoss
  <2>3. RequestBounded(r)
    BY <1>1, <2>2 DEF RequestBounded
  <2> QED
    BY <1>1, <2>1, <2>3, ContinueBounded DEF RequestBounded
<1>14. CASE ConfirmPresent(p)
  <2> DEFINE r == [q EXCEPT !.pc = "record", !.seqs = Absent(q), !.maxSeen = 0]
  <2>1. /\ r.pc = "record" /\ r.org = q.org /\ r.seqs = Absent(q)
        /\ r.finds = q.finds /\ q.pc = "present"
    BY <1>1, <1>14 DEF Request, ConfirmPresent
  <2>2. req' = [req EXCEPT ![p] = IF Absent(q) = {} THEN Continue(q) ELSE r]
    BY <1>14 DEF ConfirmPresent
  <2>3. q.org \in Orgs
    BY <2>1 DEF LedgerInv, Inv, Inductive, OrgKnown, Working
  <2>4. /\ q.maxSeen <= Ceiling(row[q.org]) /\ q.maxSeen \in Int
        /\ Ceiling(row[q.org]) \in Int /\ q.seqs \subseteq Int
    BY <1>1, <2>1, <2>3, CeilingType, Marking DEF RequestBounded, Request
  <2>5. \A s \in Absent(q) : s <= Ceiling(row[q.org])
    BY <2>4 DEF Absent
  <2>6. RequestBounded(r)
    BY <1>1, <2>1, <2>5 DEF RequestBounded
  <2> QED
    BY <1>1, <2>2, <2>6, ContinueBounded DEF RequestBounded
<1>15. CASE StatementFails(p)
  BY <1>15, <1>1, ContinueBounded DEF StatementFails, RequestBounded
<1> QED
  BY <1>1, <1>2, <1>3, <1>4, <1>5, <1>6, <1>7, <1>8, <1>9, <1>10, <1>11,
     <1>12, <1>13, <1>14, <1>15 DEF Next, Proxy, Handle

\* And it stays bounded while the rows move on.
LEMMA RequestsStep ==
  ASSUME LedgerInv, [Next]_vars
  PROVE  RequestsBounded'
<1> SUFFICES ASSUME NEW p \in Procs PROVE RequestBounded(req[p])'
  BY DEF RequestsBounded
<1> DEFINE r == req'[p]
<1>1. /\ TypeOK' /\ OrgKnown' /\ TypeOK
      /\ RequestBounded(r)
  BY RequestStep, InvTyped, TypeStep DEF LedgerInv, TypeInv
<1>2. r \in Request
  BY <1>1 DEF TypeOK
<1>3. ASSUME NEW o \in Orgs
      PROVE  /\ Ceiling(row[o]) <= Ceiling(row'[o])
             /\ Ceiling(row[o]) \in Int /\ Ceiling(row'[o]) \in Int
  BY <1>1, CeilingGrows, CeilingType, Marking DEF LedgerInv, TypeOK
<1>4. ASSUME NEW f \in r.finds PROVE f.hi <= Ceiling(row'[f.org])
  <2>1. f.org \in Orgs /\ f.hi \in Int /\ f.hi <= Ceiling(row[f.org])
    BY <1>1, <1>2, Marking DEF Request, Finding, RequestBounded
  <2> QED
    BY <2>1, <1>3
<1>5. ASSUME r.pc = "record", NEW s \in r.seqs
      PROVE  s <= Ceiling(row'[r.org])
  <2>1. r.org \in Orgs /\ s \in Int /\ s <= Ceiling(row[r.org])
    BY <1>1, <1>2, <1>5, Marking
    DEF Request, OrgKnown, Working, RequestBounded
  <2> QED
    BY <2>1, <1>3
<1>6. ASSUME r.pc = "present" PROVE r.maxSeen <= Ceiling(row'[r.org])
  <2>1. r.org \in Orgs /\ r.maxSeen \in Int /\ r.maxSeen <= Ceiling(row[r.org])
    BY <1>1, <1>2, <1>6, Marking
    DEF Request, OrgKnown, Working, RequestBounded
  <2> QED
    BY <2>1, <1>3
<1> QED
  BY <1>4, <1>5, <1>6 DEF RequestBounded

LEMMA LedgerStep ==
  ASSUME LedgerInv, [Next]_vars
  PROVE  LedgerBounded'
<1> SUFFICES ASSUME NEW l \in ledger' PROVE l[2] <= Ceiling(row'[l[1]])
  BY DEF LedgerBounded
<1>1. /\ TypeOK /\ TypeOK' /\ ledger' \subseteq Orgs \X Seqs
      /\ l[1] \in Orgs /\ l[2] \in Int
  BY InvTyped, TypeStep, Marking DEF LedgerInv, TypeInv, TypeOK
<1>2. SUFFICES l[2] <= Ceiling(row[l[1]])
  BY <1>1, CeilingGrows, CeilingType, Marking DEF LedgerInv, TypeOK
<1>3. CASE l \in ledger
  BY <1>3 DEF LedgerInv, LedgerBounded
<1>4. ASSUME NEW p \in Procs, RecordLoss(p), l \notin ledger
      PROVE  l[2] <= Ceiling(row[l[1]])
  <2>1. PICK s \in req[p].seqs : l = <<req[p].org, s>>
    BY <1>4 DEF RecordLoss
  <2>2. req[p].pc = "record"
    BY <1>4 DEF RecordLoss
  <2> QED
    BY <2>1, <2>2 DEF LedgerInv, RequestsBounded, RequestBounded
<1>5. CASE UNCHANGED ledger
  BY <1>3, <1>5
<1>6. UNCHANGED ledger \/ \E p \in Procs : RecordLoss(p)
  BY ContractFrame
  DEF BatchTxCommit, BatchTxFails, ReplayEvent
<1> QED
  BY <1>3, <1>4, <1>5, <1>6

LEMMA LedgerInit == Init => LedgerBounded /\ RequestsBounded
  BY DEF Init, LedgerBounded, RequestsBounded, RequestBounded, Idle

\* Nothing above what a row knows to be allocated or received is ledgered:
\* not by a promotion working from an old finding, not by a confirmation of
\* numbers the proxy made up.
THEOREM LedgerStaysBounded == Spec => []LedgerBounded
<1>1. LedgerInv /\ [Next]_vars => (LedgerBounded /\ RequestsBounded)'
  BY LedgerStep, RequestsStep
<1>2. LedgerInv <=> Inv /\ LedgerBounded /\ RequestsBounded
  BY DEF LedgerInv
<1> QED
  BY <1>1, <1>2, LedgerInit, InvInit, InvStep, PTL DEF Spec

----------------------------------------------------------------------------
(* What a step leaves in a request's hands.                                *)

\* r is q between two statements: nothing it will do rests on what it has read
\* but its findings and the high-water it carries.
Rests(r, q) ==
  /\ r.pc \notin Working
  /\ r.finds \subseteq q.finds
  /\ r.allocated \in {q.allocated, 0}

\* r is q at another statement.
Follows(r, q) ==
  r.finds \subseteq q.finds /\ r.allocated = q.allocated

LEMMA ContinueRests ==
  ASSUME NEW q, NEW r \in Request, Follows(r, q)
  PROVE  Rests(Continue(r), q) /\ Rests(Leave(r), q)
<1>1. ASSUME NEW x \in Request, Follows(x, q)
      PROVE  Rests(Continue(x), q)
  <2>1. Continue(x).pc \notin Working
    BY ContinueFacts
  <2>2. /\ Continue(x).finds \subseteq x.finds
        /\ Continue(x).allocated \in {x.allocated, 0}
    BY DEF Continue, Request, Idle
  <2> QED
    BY <1>1, <2>1, <2>2 DEF Rests, Follows
<1>2. /\ [r EXCEPT !.orgs = @ \ {r.org}] \in Request
      /\ Follows([r EXCEPT !.orgs = @ \ {r.org}], q)
  BY DEF Request, Follows
<1> QED
  BY <1>1, <1>2 DEF Leave

LEMMA IdleRests == ASSUME NEW q \in Request PROVE Rests(Idle, q)
  BY DEF Rests, Idle, Working

\* A request that works on a row was given to it by one of a dozen statements.
LEMMA HandFrame ==
  ASSUME TypeInv, [Next]_vars, NEW p \in Procs
  PROVE  \/ req'[p] = req[p]
         \/ Rests(req'[p], req[p])
         \/ SendBatch(p) \/ Scan(p) \/ GapsRow(p)
         \/ DeclareFloor(p) \/ FloorUpdate(p) \/ FloorSeed(p)
         \/ AdvanceRead(p) \/ AdvanceZip(p) \/ AdvanceMaxSeen(p)
         \/ SendConfirmLost(p) \/ ConfirmCeiling(p)
         \/ Enumerate(p) \/ RecordLoss(p) \/ ConfirmPresent(p)
<1> DEFINE q == req[p]
<1>1. req \in [Procs -> Request] /\ q \in Request
  BY DEF TypeInv, TypeOK
<1>2. CASE UNCHANGED vars \/ Issue \/ SwitchStream \/ \E o \in Orgs : Age(o)
  BY <1>2 DEF vars, Issue, SwitchStream, Age
<1>3. CASE Restart
  BY <1>1, <1>3, IdleRests DEF Restart
<1>4. ASSUME NEW x \in Procs, x # p,
             Proxy(x) \/ Scan(x) \/ GapsRow(x) \/ Handle(x)
      PROVE  req'[p] = req[p]
  BY <1>4, <1>1 DEF Proxy, SendBatch, DeclareFloor, SendConfirmLost, Scan,
    GapsRow, Handle, BatchTxCommit, BatchTxFails, ReplayEvent, BatchReply,
    AdvanceRead, AdvanceZip, AdvanceMaxSeen, AdvanceWrite, Enumerate,
    RecordLoss, GapsEnumerate, ConfirmCeiling, ConfirmPresent, FloorUpdate,
    FloorSeed, FloorRead, StatementFails
<1>5. CASE BatchTxCommit(p)
  <2> DEFINE r == [q EXCEPT !.orgs = OrgsOf(q.seqs \ Poison)]
  <2>1. r \in Request /\ Follows(r, q)
    BY <1>1, SeqAssumption DEF Request, OrgsOf, Follows
  <2> QED
    BY <1>5, <1>1, <2>1, ContinueRests DEF BatchTxCommit
<1>6. CASE BatchTxFails(p)
  BY <1>6, <1>1 DEF BatchTxFails, Request, Rests, Working
<1>7. CASE ReplayEvent(p)
  <2>1. PICK r \in Request :
          /\ r.pc = "event" /\ Follows(r, q)
          /\ req' = [req EXCEPT ![p] = IF r.seqs = {} THEN Continue(r) ELSE r]
    BY <1>7, ReplayFacts DEF Follows
  <2>2. Rests(r, q)
    BY <2>1 DEF Rests, Follows, Working
  <2> QED
    BY <1>1, <2>1, <2>2, ContinueRests
<1>8. CASE BatchReply(p) \/ GapsEnumerate(p) \/ FloorRead(p)
  BY <1>8, <1>1, IdleRests DEF BatchReply, GapsEnumerate, FloorRead
<1>9. CASE AdvanceWrite(p)
  <2> DEFINE r == [q EXCEPT !.reply = q.contiguous]
  <2>1. r \in Request /\ Follows(r, q)
    BY <1>1 DEF Request, Follows
  <2>2. req'[p] = Leave(r)
    BY <1>1, <1>9 DEF AdvanceWrite
  <2> QED
    BY <2>1, <2>2, ContinueRests
<1>10. CASE StatementFails(p)
  <2>1. Follows(q, q)
    BY DEF Follows
  <2> QED
    BY <1>10, <1>1, <2>1, ContinueRests DEF StatementFails
<1> QED
  BY <1>2, <1>3, <1>4, <1>5, <1>6, <1>7, <1>8, <1>9, <1>10
  DEF Next, Proxy, Handle

\* What the statements of a promotion and of a confirmation leave in hand.
LEMMA EnumerateFacts ==
  ASSUME TypeInv, NEW p \in Procs, Enumerate(p)
  PROVE  \E f \in req[p].finds :
           /\ f \in Finding
           /\ \/ Rests(req'[p], req[p])
              \/ /\ Follows(req'[p], req[p]) /\ req'[p].pc = "record"
                 /\ req'[p].org = f.org /\ req'[p].seqs = Missing(f.lo, f.hi)
<1> DEFINE q == req[p]
<1>1. req \in [Procs -> Request] /\ q \in Request
  BY DEF TypeInv, TypeOK
<1>2. PICK f \in q.finds :
        req' = [req EXCEPT ![p] =
          IF Missing(f.lo, f.hi) = {}
          THEN Continue([q EXCEPT !.finds = @ \ {f}])
          ELSE [[q EXCEPT !.finds = @ \ {f}]
                  EXCEPT !.pc = "record", !.org = f.org,
                         !.orgs = {f.org}, !.seqs = Missing(f.lo, f.hi)]]
  BY DEF Enumerate
<1> DEFINE rest == [q EXCEPT !.finds = @ \ {f}]
           w == [rest EXCEPT !.pc = "record", !.org = f.org,
                         !.orgs = {f.org}, !.seqs = Missing(f.lo, f.hi)]
<1>3. /\ f \in Finding /\ rest \in Request /\ Follows(rest, q) /\ Follows(w, q)
      /\ w.pc = "record" /\ w.org = f.org /\ w.seqs = Missing(f.lo, f.hi)
  BY <1>1 DEF Request, Follows
<1>4. req'[p] = Continue(rest) \/ req'[p] = w
  BY <1>1, <1>2
<1>5. Rests(Continue(rest), q)
  BY <1>3, ContinueRests
<1> HIDE DEF w, rest, q
<1>6. Rests(req'[p], q) \/ req'[p] = w
  BY <1>4, <1>5
<1> QED
  BY <1>3, <1>6 DEF q

LEMMA RecordFacts ==
  ASSUME TypeInv, NEW p \in Procs, RecordLoss(p)
  PROVE  /\ req[p].pc = "record" /\ req[p].org \in Orgs
         /\ \E s \in req[p].seqs : ledger' = ledger \cup {<<req[p].org, s>>}
         /\ \/ Rests(req'[p], req[p])
            \/ /\ Follows(req'[p], req[p]) /\ req'[p].pc = "record"
               /\ req'[p].org = req[p].org /\ req'[p].seqs \subseteq req[p].seqs
<1> DEFINE q == req[p]
<1>1. /\ req \in [Procs -> Request] /\ q \in Request /\ q.pc = "record"
      /\ q.org \in Orgs
  BY DEF TypeInv, TypeOK, RecordLoss, OrgKnown, Working
<1>2. PICK s \in q.seqs :
        /\ ledger' = ledger \cup {<<q.org, s>>}
        /\ req' = [req EXCEPT ![p] = IF q.seqs = {s} THEN Continue(q)
                                     ELSE [q EXCEPT !.seqs = @ \ {s}]]
  BY DEF RecordLoss
<1> DEFINE w == [q EXCEPT !.seqs = @ \ {s}]
<1>3. /\ Follows(q, q) /\ Follows(w, q) /\ w.pc = "record" /\ w.org = q.org
      /\ w.seqs \subseteq q.seqs
  BY <1>1 DEF Request, Follows
<1>4. Rests(Continue(q), q)
  BY <1>1, <1>3, ContinueRests
<1>5. req'[p] = Continue(q) \/ req'[p] = w
  BY <1>1, <1>2
<1> HIDE DEF w, q
<1>6. Rests(req'[p], q) \/ req'[p] = w
  BY <1>4, <1>5
<1> QED
  BY <1>1, <1>2, <1>3, <1>6 DEF q

LEMMA PresentFacts ==
  ASSUME TypeInv, NEW p \in Procs, ConfirmPresent(p)
  PROVE  /\ req[p].pc = "present"
         /\ \/ Rests(req'[p], req[p])
            \/ /\ Follows(req'[p], req[p]) /\ req'[p].pc = "record"
               /\ req'[p].org = req[p].org /\ req'[p].seqs = Absent(req[p])
<1> DEFINE q == req[p]
           w == [q EXCEPT !.pc = "record", !.seqs = Absent(q), !.maxSeen = 0]
<1>1. req \in [Procs -> Request] /\ q \in Request /\ q.pc = "present"
  BY DEF TypeInv, TypeOK, ConfirmPresent
<1>2. req' = [req EXCEPT ![p] = IF Absent(q) = {} THEN Continue(q) ELSE w]
  BY DEF ConfirmPresent
<1>3. /\ Follows(q, q) /\ Follows(w, q) /\ w.pc = "record" /\ w.org = q.org
      /\ w.seqs = Absent(q)
  BY <1>1 DEF Request, Follows
<1>4. Rests(Continue(q), q)
  BY <1>1, <1>3, ContinueRests
<1>5. req'[p] = Continue(q) \/ req'[p] = w
  BY <1>1, <1>2
<1> HIDE DEF w, q
<1>6. Rests(req'[p], q) \/ req'[p] = w
  BY <1>4, <1>5
<1> QED
  BY <1>1, <1>3, <1>6 DEF q

\* The statement a request is at tells the statement it came from.
LEMMA ArrivalFrame ==
  ASSUME TypeInv, [Next]_vars, NEW p \in Procs, req'[p] # req[p]
  PROVE  /\ req'[p].pc = "floorRead" => FloorUpdate(p) \/ FloorSeed(p)
         /\ req'[p].pc = "record" =>
              Enumerate(p) \/ RecordLoss(p) \/ ConfirmPresent(p)
         /\ req'[p].pc = "ceiling" => SendConfirmLost(p)
         /\ req'[p].pc = "present" => ConfirmCeiling(p)
         /\ req'[p].pc = "gapEnum" => GapsRow(p)
         /\ req'[p].pc = "write" => AdvanceMaxSeen(p)
<1> DEFINE q == req[p]
           r == req'[p]
<1>1. req \in [Procs -> Request] /\ q \in Request
  BY DEF TypeInv, TypeOK
<1>2. Rests(r, q) => r.pc \notin Working
  BY DEF Rests
<1>3. /\ SendBatch(p) => r.pc = "tx"
      /\ Scan(p) => r.pc = "scan"
      /\ GapsRow(p) => r.pc = "gapEnum"
      /\ DeclareFloor(p) => r.pc = "floorUpdate"
      /\ SendConfirmLost(p) => r.pc \in {"advance", "ceiling"}
  <2>1. SendBatch(p) => r.pc = "tx"
    BY <1>1 DEF SendBatch, Idle
  <2>2. Scan(p) => r.pc = "scan"
    BY <1>1 DEF Scan, Idle
  <2>3. GapsRow(p) => r.pc = "gapEnum"
    BY <1>1 DEF GapsRow, Idle
  <2>4. DeclareFloor(p) => r.pc = "floorUpdate"
    BY <1>1 DEF DeclareFloor, Idle
  <2>5. SendConfirmLost(p) => r.pc \in {"advance", "ceiling"}
    BY <1>1 DEF SendConfirmLost, Idle
  <2> QED
    BY <2>1, <2>2, <2>3, <2>4, <2>5
<1>4. /\ FloorUpdate(p) => r.pc \in {"floorRead", "floorSeed"}
      /\ FloorSeed(p) => r.pc = "floorRead"
      /\ AdvanceRead(p) => r.pc = "zip"
      /\ AdvanceZip(p) => r.pc = "seen"
      /\ AdvanceMaxSeen(p) => r.pc = "write"
      /\ ConfirmCeiling(p) => r.pc = "present"
  <2>1. FloorUpdate(p) => r.pc \in {"floorRead", "floorSeed"}
    BY <1>1 DEF FloorUpdate, Request
  <2>2. FloorSeed(p) => r.pc = "floorRead"
    BY <1>1 DEF FloorSeed, Request
  <2>3. AdvanceRead(p) => r.pc = "zip"
    BY <1>1 DEF AdvanceRead, Request
  <2>4. AdvanceZip(p) => r.pc = "seen"
    BY <1>1 DEF AdvanceZip, Request
  <2>5. AdvanceMaxSeen(p) => r.pc = "write"
    BY <1>1 DEF AdvanceMaxSeen, Request
  <2>6. ConfirmCeiling(p) => r.pc = "present"
    BY <1>1 DEF ConfirmCeiling, Request
  <2> QED
    BY <2>1, <2>2, <2>3, <2>4, <2>5, <2>6
<1>5. /\ Enumerate(p) => Rests(r, q) \/ r.pc = "record"
      /\ RecordLoss(p) => Rests(r, q) \/ r.pc = "record"
      /\ ConfirmPresent(p) => Rests(r, q) \/ r.pc = "record"
  BY EnumerateFacts, RecordFacts, PresentFacts
<1>6. \/ r = q \/ Rests(r, q)
      \/ SendBatch(p) \/ Scan(p) \/ GapsRow(p)
      \/ DeclareFloor(p) \/ FloorUpdate(p) \/ FloorSeed(p)
      \/ AdvanceRead(p) \/ AdvanceZip(p) \/ AdvanceMaxSeen(p)
      \/ SendConfirmLost(p) \/ ConfirmCeiling(p)
      \/ Enumerate(p) \/ RecordLoss(p) \/ ConfirmPresent(p)
  BY HandFrame
<1>7. r # q
  OBVIOUS
<1> HIDE DEF r, q
<1>8. /\ r.pc = "floorRead" => FloorUpdate(p) \/ FloorSeed(p)
      /\ r.pc = "record" => Enumerate(p) \/ RecordLoss(p) \/ ConfirmPresent(p)
      /\ r.pc = "ceiling" => SendConfirmLost(p)
      /\ r.pc = "present" => ConfirmCeiling(p)
      /\ r.pc = "gapEnum" => GapsRow(p)
      /\ r.pc = "write" => AdvanceMaxSeen(p)
  BY <1>2, <1>3, <1>4, <1>5, <1>6, <1>7 DEF Working
<1> QED
  BY <1>8 DEF r

----------------------------------------------------------------------------
(* Any number of handlers at once.  What a race can take from a row, or    *)
(* from a handler about to write a number off, is noted when it is taken,  *)
(* and stays noted; where nothing is noted, what was read still stands.    *)

Overrun(o) == <<"overrun", o>> \in raced
Lowered(o) == <<"lowered", o>> \in raced

\* A floor is not above contiguous_seq.
FloorsHeld == \A o \in Orgs : row[o].floor <= row[o].contiguous \/ Lowered(o)

\* A row that has acknowledged the floor holds it.
FloorsAcknowledged ==
  \A o \in Orgs \ undeclared, s \in Seqs :
    fate[s] = "terminated" => s <= row[o].floor \/ Overrun(o)

\* So does the row of a declaration that is about to be answered.
AnswersFloored ==
  \A p \in Procs : req[p].pc = "floorRead" =>
    req[p].contiguous <= row[req[p].org].floor \/ Overrun(req[p].org)

\* What is about to be written off is not stored.
WriteOffsAbsent ==
  \A p \in Procs : req[p].pc = "record" =>
    \A s \in req[p].seqs \cap ods : <<"overtaken", s>> \in raced

RacedInv ==
  Inv /\ FloorsHeld /\ FloorsAcknowledged /\ AnswersFloored /\ WriteOffsAbsent

LEMMA RacedTypes ==
  ASSUME Inv, [Next]_vars
  PROVE  /\ TypeInv /\ TypeInv' /\ raced \subseteq raced'
         /\ \A o \in Orgs :
              /\ row[o].contiguous \in Int /\ row'[o].contiguous \in Int
              /\ row[o].floor \in Int /\ row'[o].floor \in Int
              /\ row[o] \in Watermark /\ row'[o] \in Watermark
              /\ row[o].floor <= row'[o].floor
         /\ \A p \in Procs :
              /\ req[p] \in Request /\ req'[p] \in Request
              /\ req[p].contiguous \in Int /\ req[p].contiguous \in Marks
              /\ req[p].maxSeen \in Int /\ req[p].allocated \in Int
              /\ \A f \in req[p].finds :
                   f.org \in Orgs /\ f.lo \in Int /\ f.hi \in Int
<1>1. TypeInv /\ TypeInv' /\ raced \subseteq raced'
  BY InvTyped, TypeStep, RacedStep
<1>2. /\ \A o \in Orgs : row[o] \in Watermark /\ row'[o] \in Watermark
      /\ \A p \in Procs : req[p] \in Request /\ req'[p] \in Request
  BY <1>1 DEF TypeInv, TypeOK
<1>3. \A w \in Watermark : w.contiguous \in Int /\ w.floor \in Int
  BY Marking DEF Watermark
<1>4. \A r \in Request : /\ r.contiguous \in Int /\ r.contiguous \in Marks
                         /\ r.maxSeen \in Int /\ r.allocated \in Int
                         /\ r.finds \subseteq Finding
  BY Marking DEF Request
<1>5. \A f \in Finding : f.org \in Orgs /\ f.lo \in Int /\ f.hi \in Int
  BY Marking DEF Finding
<1>6. \A o \in Orgs : row[o].floor <= row'[o].floor
  BY FloorsGrow
<1> QED
  BY <1>1, <1>2, <1>3, <1>4, <1>5, <1>6

\* The upsert of an advance that lowers contiguous_seq notes it; every other
\* statement leaves it at or above the floor.
LEMMA HeldStep ==
  ASSUME RacedInv, [Next]_vars
  PROVE  FloorsHeld'
<1> SUFFICES ASSUME NEW o \in Orgs
             PROVE  row'[o].floor <= row'[o].contiguous \/ <<"lowered", o>> \in raced'
  BY DEF FloorsHeld, Lowered
<1> DEFINE Held == row'[o].floor <= row'[o].contiguous
<1>1. /\ row \in [Orgs -> Watermark] /\ row[o] \in Watermark
      /\ row[o].contiguous \in Int /\ row[o].floor \in Int
      /\ raced \subseteq raced'
  BY RacedTypes DEF RacedInv, TypeInv, TypeOK
<1>2. CASE Lowered(o)
  BY <1>1, <1>2 DEF Lowered
<1>3. CASE row[o].floor <= row[o].contiguous
  <2>1. ASSUME NEW p \in Procs, AdvanceWrite(p)
        PROVE  Held \/ <<"lowered", o>> \in raced'
    <3>1. req[p].contiguous \in Int
      BY RacedTypes DEF RacedInv
    <3>2. CASE o # req[p].org \/ row[o].contiguous <= req[p].contiguous
      BY <1>1, <1>3, <2>1, <3>1, <3>2 DEF AdvanceWrite, Upserted, Watermark
    <3>3. CASE o = req[p].org /\ req[p].contiguous < row[o].contiguous
      BY <2>1, <3>3 DEF AdvanceWrite, NoteLowered
    <3> QED
      BY <1>1, <3>1, <3>2, <3>3
  <2>2. ASSUME NEW p \in Procs, FloorUpdate(p) PROVE Held
    <3>1. req[p].contiguous \in Int
      BY RacedTypes DEF RacedInv
    <3> QED
      BY <1>1, <1>3, <2>2, <3>1 DEF FloorUpdate, Floored, Watermark
  <2>3. ASSUME NEW p \in Procs, FloorSeed(p) PROVE Held
    <3>1. req[p].contiguous \in Int /\ 0 <= req[p].contiguous
      BY RacedTypes, SeqAssumption DEF Marks, RacedInv
    <3>2. row[o].age = "absent" => row[o] = NoRow
      BY DEF RacedInv, Inv, Inductive, AbsentRowEmpty
    <3> QED
      BY <1>1, <1>3, <2>3, <3>1, <3>2 DEF FloorSeed, Floored, NoRow, Watermark
  <2>4. ASSUME NEW x \in Orgs, Age(x) PROVE Held
    BY <1>1, <1>3, <2>4 DEF Age, Watermark
  <2> QED
    BY <1>3, <2>1, <2>2, <2>3, <2>4, RowFrame
<1> QED
  BY <1>2, <1>3 DEF RacedInv, FloorsHeld

LEMMA AnswersStep ==
  ASSUME RacedInv, [Next]_vars
  PROVE  AnswersFloored'
<1> SUFFICES ASSUME NEW p \in Procs, req'[p].pc = "floorRead"
             PROVE  \/ req'[p].contiguous <= row'[req'[p].org].floor
                    \/ <<"overrun", req'[p].org>> \in raced'
  BY DEF AnswersFloored, Overrun
<1> DEFINE q == req[p]
           r == req'[p]
<1>1. /\ TypeInv /\ TypeInv' /\ raced \subseteq raced'
      /\ req \in [Procs -> Request] /\ q \in Request
      /\ row \in [Orgs -> Watermark] /\ q.contiguous \in Int
  BY RacedTypes DEF RacedInv, TypeInv, TypeOK
<1>2. CASE r = q
  <2>1. q.pc = "floorRead" /\ q.org \in Orgs
    BY <1>1, <1>2 DEF TypeInv, OrgKnown, Working
  <2>2. row[q.org].floor \in Int /\ row'[q.org].floor \in Int
        /\ row[q.org].floor <= row'[q.org].floor
    BY <2>1, RacedTypes DEF RacedInv
  <2>3. q.contiguous <= row[q.org].floor \/ Overrun(q.org)
    BY <2>1 DEF RacedInv, AnswersFloored
  <2> QED
    BY <1>1, <1>2, <2>2, <2>3 DEF Overrun
<1>3. CASE FloorUpdate(p)
  <2>1. /\ r.contiguous = q.contiguous /\ r.org = q.org /\ q.org \in Orgs
        /\ row' = [row EXCEPT ![q.org] = Floored(@, q.contiguous)]
    BY <1>1, <1>3 DEF FloorUpdate, Request, TypeInv, OrgKnown, Working
  <2>2. row'[q.org].floor = q.contiguous
    BY <1>1, <2>1 DEF Floored, Watermark
  <2> QED
    BY <1>1, <2>1, <2>2
<1>4. CASE FloorSeed(p)
  <2>1. /\ r.contiguous = q.contiguous /\ r.org = q.org /\ q.org \in Orgs
    BY <1>1, <1>4 DEF FloorSeed, Request, TypeInv, OrgKnown, Working
  <2>2. CASE row[q.org].age = "absent"
    <3>1. row'[q.org].floor = q.contiguous
      BY <1>1, <1>4, <2>1, <2>2 DEF FloorSeed, Floored, NoRow, Watermark
    <3> QED
      BY <1>1, <2>1, <3>1
  <2>3. CASE row[q.org].age # "absent" /\ row[q.org].floor < q.contiguous
    BY <1>4, <2>1, <2>3 DEF FloorSeed, NoteOverrun
  <2>4. CASE row[q.org].age # "absent" /\ ~(row[q.org].floor < q.contiguous)
    <3>1. row' = row /\ row[q.org].floor \in Int
      BY <1>4, <2>1, <2>4, RacedTypes DEF FloorSeed, RacedInv
    <3> QED
      BY <1>1, <2>1, <2>4, <3>1
  <2> QED
    BY <2>2, <2>3, <2>4
<1> QED
  BY <1>1, <1>2, <1>3, <1>4, ArrivalFrame

\* A floor is acknowledged by a row that holds it, and nothing is terminated
\* while a declaration is under way.
LEMMA AcknowledgedStep ==
  ASSUME RacedInv, [Next]_vars
  PROVE  FloorsAcknowledged'
<1> SUFFICES ASSUME NEW o \in Orgs, o \notin undeclared', NEW s \in Seqs,
                    fate'[s] = "terminated"
             PROVE  s <= row'[o].floor \/ <<"overrun", o>> \in raced'
  BY DEF FloorsAcknowledged, Overrun
<1>1. /\ fate \in [Seqs -> Fates] /\ s \in Int /\ alloc \in Int
      /\ row[o].floor \in Int /\ row'[o].floor \in Int
      /\ row[o].floor <= row'[o].floor /\ raced \subseteq raced'
  BY RacedTypes, Marking DEF RacedInv, TypeInv, TypeOK
<1>2. ~ SwitchStream
  BY DEF SwitchStream
<1>3. fate[s] = "terminated"
  <2>1. CASE UNCHANGED <<fate, alloc>>
    BY <2>1
  <2>2. CASE Issue
    BY <1>1, <2>2 DEF Issue
  <2>3. ASSUME NEW p \in Procs, BatchReply(p) PROVE fate[s] = "terminated"
    BY <1>1, <2>3 DEF BatchReply
  <2> QED
    BY <1>2, <2>1, <2>2, <2>3, FateFrame
<1>4. CASE o \notin undeclared
  <2>1. s <= row[o].floor \/ Overrun(o)
    BY <1>3, <1>4 DEF RacedInv, FloorsAcknowledged
  <2> QED
    BY <1>1, <2>1 DEF Overrun
<1>5. ASSUME NEW p \in Procs, FloorRead(p), o \in undeclared
      PROVE  s <= row'[o].floor \/ <<"overrun", o>> \in raced'
  <2>1. req[p].contiguous = alloc /\ o = req[p].org /\ req[p].pc = "floorRead"
    BY <1>5 DEF FloorRead
  <2>2. alloc <= row[o].floor \/ Overrun(o)
    BY <2>1 DEF RacedInv, AnswersFloored
  <2>3. ~ (alloc < s)
    BY <1>3 DEF RacedInv, Inv, Inductive, NumbersInOrder
  <2> QED
    BY <1>1, <2>2, <2>3 DEF Overrun
<1>6. undeclared' = undeclared \/ \E p \in Procs : FloorRead(p)
  BY <1>2 DEF Next, vars, client, Issue, Restart, Proxy, SendBatch,
         DeclareFloor, SendConfirmLost, Scan, GapsRow, Handle, BatchTxCommit,
         BatchTxFails, ReplayEvent, BatchReply, AdvanceRead, AdvanceZip,
         AdvanceMaxSeen, Enumerate, RecordLoss, GapsEnumerate, ConfirmCeiling,
         ConfirmPresent, StatementFails, Age, AdvanceWrite,
         FloorUpdate, FloorSeed
<1> QED
  BY <1>4, <1>5, <1>6

\* An event stored while a handler is about to write its number off is noted.
LEMMA WriteOffsStep ==
  ASSUME RacedInv, [Next]_vars
  PROVE  WriteOffsAbsent'
<1> SUFFICES ASSUME NEW p \in Procs, req'[p].pc = "record",
                    NEW s \in req'[p].seqs, s \in ods'
             PROVE  <<"overtaken", s>> \in raced'
  BY DEF WriteOffsAbsent
<1>1. TypeInv /\ raced \subseteq raced'
  BY RacedTypes DEF RacedInv
<1>2. CASE req[p].pc = "record" /\ s \in req[p].seqs
  <2>1. CASE s \in ods
    BY <1>1, <1>2, <2>1 DEF RacedInv, WriteOffsAbsent
  <2>2. CASE s \notin ods
    <3>1. NoteOvertaken
      BY <2>2, ContractFrame
      DEF BatchTxCommit, BatchTxFails, ReplayEvent, RecordLoss
    <3>2. s \in Overtaken
      BY <1>2, <2>2 DEF Overtaken
    <3> QED
      BY <3>1, <3>2 DEF NoteOvertaken
  <2> QED
    BY <2>1, <2>2
<1>3. CASE req'[p] = req[p]
  BY <1>2, <1>3
<1>4. ~ Rests(req'[p], req[p])
  BY DEF Rests, Working
<1>5. CASE RecordLoss(p)
  BY <1>1, <1>2, <1>4, <1>5, RecordFacts
<1>6. CASE Enumerate(p)
  <2>1. s \notin Present /\ ods' = ods
    BY <1>1, <1>4, <1>6, EnumerateFacts DEF Missing, Enumerate, tables
  <2> QED
    BY <2>1 DEF Present
<1>7. CASE ConfirmPresent(p)
  <2>1. s \notin Present /\ ods' = ods
    BY <1>1, <1>4, <1>7, PresentFacts DEF Absent, ConfirmPresent, tables
  <2> QED
    BY <2>1 DEF Present
<1> QED
  BY <1>1, <1>3, <1>5, <1>6, <1>7, ArrivalFrame

LEMMA RacedInit == Init => RacedInv
<1> SUFFICES ASSUME Init PROVE RacedInv
  OBVIOUS
<1>1. FloorsHeld /\ AnswersFloored /\ WriteOffsAbsent
  BY DEF Init, FloorsHeld, NoRow, AnswersFloored, WriteOffsAbsent, Idle
<1>2. FloorsAcknowledged
  BY DEF Init, FloorsAcknowledged
<1> QED
  BY <1>1, <1>2, InvInit DEF RacedInv

LEMMA RacedInvStep == RacedInv /\ [Next]_vars => RacedInv'
  BY HeldStep, AnswersStep, AcknowledgedStep, WriteOffsStep, InvStep DEF RacedInv

LEMMA RacedInvariance == Spec => []RacedInv
  BY RacedInit, RacedInvStep, PTL DEF Spec

\* A terminated span is below the floor of every row when the proxy numbers on,
\* also of the lanes that had delivered nothing, whatever handlers run at once:
\* the one exception is a row that came in between the UPDATE and the INSERT of
\* a declaration.
THEOREM FloorsRecorded == Spec => []FloorRecorded
<1>1. RacedInv => FloorRecorded
  BY DEF RacedInv, FloorsAcknowledged, FloorRecorded, Overrun
<1> QED
  BY <1>1, RacedInvariance, PTL

\* What is filed as lost is not in the ODS, unless its event was stored between
\* the handler's presence check and the insert into the ledger.
THEOREM LossesGenuine == Spec => LossIsGenuine
<1>1. ASSUME RacedInv, [Next]_vars, NEW l \in ledger' \ ledger, l[2] \in ods
      PROVE  <<"overtaken", l[2]>> \in raced
  <2>1. PICK p \in Procs : RecordLoss(p)
    BY <1>1, ContractFrame DEF BatchTxCommit, BatchTxFails, ReplayEvent
  <2>2. l[2] \in req[p].seqs /\ req[p].pc = "record"
    BY <1>1, <2>1 DEF RecordLoss
  <2> QED
    BY <1>1, <2>2 DEF RacedInv, WriteOffsAbsent
<1>2. RacedInv /\ [Next]_vars =>
        [\A l \in ledger' \ ledger :
           l[2] \in ods => <<"overtaken", l[2]>> \in raced]_ledger
  BY <1>1
<1> QED
  BY <1>2, RacedInvariance, PTL DEF Spec, LossIsGenuine

----------------------------------------------------------------------------
(* Terminated numbers.  No row knows of one before its floor is declared,  *)
(* and none lies in a range that a finding or a gaps answer spans.         *)

\* Numbers given to an event, or lost on the way to one.
Issued == {s \in Seqs : fate[s] \notin {"free", "terminated"}}

\* A number that may be missing from a row's range, and one that may be filed, by
\* the fates F and the races R.
NamedBy(F, R, o, s) ==
  \/ s \in Seqs /\ F[s] \notin {"free", "terminated"}
  \/ <<"overrun", o>> \in R
  \/ <<"lowered", o>> \in R

ExcusedBy(F, R, o, s) == NamedBy(F, R, o, s) \/ <<"claimed", s>> \in R

Named(o, s) == NamedBy(fate, raced, o, s)
Excused(o, s) == ExcusedBy(fate, raced, o, s)

\* Numbers no row may know of yet: not given out, or terminated by a floor
\* that is still being declared.
Unannounced ==
  {s \in Seqs : \/ fate[s] = "free"
                \/ /\ fate[s] = "terminated"
                   /\ \E o \in Orgs : row[o].floor < s /\ ~ Overrun(o)}

UnannouncedAhead ==
  \A s \in Unannounced :
    /\ \A t \in Seqs : fate[t] \in {"logged", "pruned"} => t < s
    /\ \A o \in Orgs : Ceiling(row[o]) < s

\* Nor does a request carry word of them.
Unheard(r) ==
  \A s \in Unannounced :
    /\ r.allocated < s
    /\ r.pc = "write" => r.maxSeen < s

RequestsUnheard == \A p \in Procs : Unheard(req[p])

StoredLogged == \A s \in ods : fate[s] \in {"logged", "pruned"}

\* What a request has read of a row spans numbers that may be missing from it.
RangesNamed(r) ==
  /\ \A f \in r.finds, s \in Seqs : f.lo < s /\ s <= f.hi => Named(f.org, s)
  /\ r.pc = "gapEnum" =>
       \A s \in Seqs : r.contiguous < s /\ s <= r.maxSeen => Named(r.org, s)

WriteOffsExcused(r) ==
  r.pc \in {"ceiling", "present", "record"} => \A s \in r.seqs : Excused(r.org, s)

\* What is, or is about to be, confirmed or written off.
LossesExcused ==
  /\ \A l \in ledger : Excused(l[1], l[2])
  /\ \A o \in Orgs : \A s \in gaps[o] : Named(o, s)
  /\ \A p \in Procs : RangesNamed(req[p]) /\ WriteOffsExcused(req[p])

IssuedInv ==
  RacedInv /\ UnannouncedAhead /\ RequestsUnheard /\ StoredLogged /\ LossesExcused

LEMMA UnannouncedShrinks ==
  ASSUME RacedInv, [Next]_vars
  PROVE  Unannounced' \subseteq Unannounced
<1> SUFFICES ASSUME NEW s \in Seqs,
               \/ fate'[s] = "free"
               \/ /\ fate'[s] = "terminated"
                  /\ \E o \in Orgs : row'[o].floor < s /\ <<"overrun", o>> \notin raced'
             PROVE  s \in Unannounced
  BY DEF Unannounced, Overrun
<1>1. /\ fate \in [Seqs -> Fates] /\ s \in Int /\ alloc \in Int
      /\ fate[s] = "free" <=> alloc < s
      /\ raced \subseteq raced'
  BY RacedTypes, Marking DEF RacedInv, TypeInv, TypeOK, Inv, Inductive, NumbersInOrder
<1>2. \A o \in Orgs : /\ row[o].floor \in Int /\ row'[o].floor \in Int
                      /\ row[o].floor <= row'[o].floor
  BY RacedTypes DEF RacedInv
<1>3. \A o \in Orgs : row'[o].floor < s /\ <<"overrun", o>> \notin raced'
                        => row[o].floor < s /\ ~ Overrun(o)
  BY <1>1, <1>2 DEF Overrun
<1>4. CASE fate'[s] = fate[s]
  BY <1>3, <1>4 DEF Unannounced
<1>5. CASE Issue
  BY <1>1, <1>3, <1>5 DEF Issue, Unannounced
<1>6. CASE SwitchStream
  BY <1>1, <1>3, <1>6 DEF SwitchStream, Unannounced
<1>7. ASSUME NEW p \in Procs, BatchReply(p) PROVE s \in Unannounced
  BY <1>1, <1>3, <1>7 DEF BatchReply, Unannounced
<1> QED
  BY <1>4, <1>5, <1>6, <1>7, FateFrame

LEMMA IssuedStays ==
  ASSUME RacedInv, [Next]_vars
  PROVE  Issued \subseteq Issued'
<1> SUFFICES ASSUME NEW s \in Seqs, fate[s] \notin {"free", "terminated"}
             PROVE  fate'[s] \notin {"free", "terminated"}
  BY DEF Issued
<1>1. /\ fate \in [Seqs -> Fates] /\ s \in Int /\ alloc \in Int
      /\ ~ (alloc < s)
  BY Marking DEF RacedInv, TypeOK, Inv, Inductive, NumbersInOrder
<1>2. CASE UNCHANGED <<fate, alloc>>
  BY <1>2
<1>3. CASE Issue
  BY <1>1, <1>3 DEF Issue
<1>4. CASE SwitchStream
  BY <1>1, <1>4 DEF SwitchStream
<1>5. ASSUME NEW p \in Procs, BatchReply(p)
      PROVE  fate'[s] \notin {"free", "terminated"}
  BY <1>1, <1>5 DEF BatchReply
<1> QED
  BY <1>2, <1>3, <1>4, <1>5, FateFrame

LEMMA NamedStays ==
  ASSUME RacedInv, [Next]_vars
  PROVE  /\ \A o, s : Named(o, s) => NamedBy(fate', raced', o, s)
         /\ \A o, s : Excused(o, s) => ExcusedBy(fate', raced', o, s)
         /\ \A o, s : Named(o, s) => Excused(o, s)
<1>1. raced \subseteq raced'
  BY RacedTypes DEF RacedInv
<1>2. \A s \in Seqs : fate[s] \notin {"free", "terminated"}
                        => fate'[s] \notin {"free", "terminated"}
  BY IssuedStays DEF Issued
<1> QED
  BY <1>1, <1>2 DEF Named, Excused, NamedBy, ExcusedBy

\* With no declaration under way, what is unannounced was not given out.
LEMMA UnannouncedFree ==
  ASSUME RacedInv, undeclared = {}, NEW s \in Unannounced
  PROVE  s \in Seqs /\ fate[s] = "free" /\ alloc < s
<1>1. s \in Seqs /\ (fate[s] = "free" <=> alloc < s)
  BY DEF Unannounced, RacedInv, Inv, Inductive, NumbersInOrder
<1>2. ASSUME fate[s] = "terminated", NEW o \in Orgs, row[o].floor < s, ~ Overrun(o)
      PROVE  FALSE
  <2>1. s <= row[o].floor
    BY <1>1, <1>2 DEF RacedInv, FloorsAcknowledged
  <2>2. s \in Int /\ row[o].floor \in Int
    BY <1>1, Marking DEF RacedInv, Inv, TypeOK, Watermark
  <2> QED
    BY <1>2, <2>1, <2>2
<1> QED
  BY <1>1, <1>2 DEF Unannounced

\* Between a row's contiguous_seq and its ceiling.
LEMMA RangeNamed ==
  ASSUME IssuedInv, NEW o \in Orgs, NEW s \in Seqs,
         row[o].contiguous < s, s <= Ceiling(row[o])
  PROVE  Named(o, s)
<1>1. /\ s \in Int /\ row[o].floor \in Int /\ row[o].contiguous \in Int
      /\ Ceiling(row[o]) \in Int
  BY Marking, CeilingType DEF IssuedInv, RacedInv, Inv, TypeOK, Watermark
<1>2. s \notin Unannounced
  BY <1>1 DEF IssuedInv, UnannouncedAhead
<1>3. row[o].floor <= row[o].contiguous \/ Lowered(o)
  BY DEF IssuedInv, RacedInv, FloorsHeld
<1> QED
  BY <1>1, <1>2, <1>3 DEF Unannounced, Named, NamedBy, Overrun, Lowered

LEMMA AheadStep ==
  ASSUME IssuedInv, [Next]_vars
  PROVE  UnannouncedAhead'
<1> USE DEF IssuedInv
<1>1. /\ fate \in [Seqs -> Fates] /\ alloc \in Int
      /\ \A s \in Seqs : s \in Int /\ 0 < s
      /\ Unannounced \subseteq Seqs
  BY SeqAssumption, Marking DEF RacedInv, Inv, TypeOK, Unannounced, Seqs
<1> SUFFICES ASSUME NEW s \in Unannounced, s \in Unannounced'
             PROVE  /\ \A t \in Seqs : fate'[t] \in {"logged", "pruned"} => t < s
                    /\ \A o \in Orgs : Ceiling(row'[o]) < s
  BY UnannouncedShrinks DEF UnannouncedAhead
<1>2. ASSUME NEW t \in Seqs, fate'[t] \in {"logged", "pruned"} PROVE t < s
  <2>1. CASE fate[t] \in {"logged", "pruned"}
    BY <2>1 DEF UnannouncedAhead
  <2>2. CASE Issue /\ t = alloc + 1
    <3>1. alloc < s /\ fate'[s] # "logged" /\ fate'[s] # "pruned"
      BY <1>1, <2>2, UnannouncedFree DEF Issue, Unannounced
    <3>2. s # t
      BY <1>2, <3>1
    <3> QED
      BY <1>1, <2>2, <3>1, <3>2
  <2>3. \/ fate[t] \in {"logged", "pruned"}
        \/ Issue /\ t = alloc + 1
    <3>1. CASE UNCHANGED <<fate, alloc>>
      BY <1>2, <3>1
    <3>2. CASE Issue
      BY <1>1, <1>2, <3>2 DEF Issue
    <3>3. CASE SwitchStream
      BY <1>1, <1>2, <3>3 DEF SwitchStream
    <3>4. ASSUME NEW p \in Procs, BatchReply(p)
          PROVE  fate[t] \in {"logged", "pruned"}
      BY <1>1, <1>2, <3>4 DEF BatchReply
    <3> QED
      BY <3>1, <3>2, <3>3, <3>4, FateFrame
  <2> QED
    BY <2>1, <2>2, <2>3
<1>3. ASSUME NEW o \in Orgs PROVE Ceiling(row'[o]) < s
  <2>1. /\ row \in [Orgs -> Watermark] /\ row[o] \in Watermark
        /\ row[o].maxSeen \in Int /\ row[o].allocated \in Int
        /\ Ceiling(row[o]) < s
    BY Marking DEF RacedInv, Inv, TypeOK, Watermark, UnannouncedAhead
  <2>2. CASE row' = row
    BY <2>1, <2>2
  <2>3. ASSUME NEW x \in Orgs, Age(x) PROVE Ceiling(row'[o]) < s
    BY <2>1, <2>3 DEF Age, Watermark, Ceiling
  <2>4. ASSUME NEW p \in Procs, AdvanceWrite(p) PROVE Ceiling(row'[o]) < s
    <3>1. /\ req[p].maxSeen < s /\ req[p].allocated < s
          /\ req[p].maxSeen \in Int /\ req[p].allocated \in Int
      BY <2>4, RacedTypes DEF AdvanceWrite, RacedInv, RequestsUnheard, Unheard
    <3> QED
      BY <1>1, <2>1, <2>4, <3>1
      DEF AdvanceWrite, Upserted, Ceiling, Greatest, Watermark
  <2>5. ASSUME NEW p \in Procs, FloorUpdate(p) PROVE Ceiling(row'[o]) < s
    BY <2>1, <2>5 DEF FloorUpdate, Floored, Watermark, Ceiling
  <2>6. ASSUME NEW p \in Procs, FloorSeed(p) PROVE Ceiling(row'[o]) < s
    BY <1>1, <2>1, <2>6
    DEF FloorSeed, Floored, NoRow, Watermark, Ceiling, Greatest
  <2> QED
    BY <2>2, <2>3, <2>4, <2>5, <2>6, RowFrame
<1> QED
  BY <1>2, <1>3

LEMMA StoredLoggedStep ==
  ASSUME IssuedInv, [Next]_vars
  PROVE  StoredLogged'
<1> SUFFICES ASSUME NEW s \in ods' PROVE fate'[s] \in {"logged", "pruned"}
  BY DEF StoredLogged
<1>1. Inv /\ Inv' /\ ods' \subseteq Seqs
  BY InvStep DEF IssuedInv, RacedInv, Inv, TypeOK
<1>2. SUFFICES fate[s] \in {"logged", "pruned"}
  BY <1>1, LoggedStays
<1>3. ASSUME NEW p \in Procs,
             BatchTxCommit(p) \/ BatchTxFails(p) \/ ReplayEvent(p)
      PROVE  fate[s] \in {"logged", "pruned"}
  BY <1>1, <1>3, BatchStores DEF IssuedInv, StoredLogged
<1>4. CASE ods' = ods
  BY <1>4 DEF IssuedInv, StoredLogged
<1> QED
  BY <1>3, <1>4, ContractFrame DEF RecordLoss

\* Where a request's word of the allocator and its findings come from.
LEMMA CarriedFrame ==
  ASSUME TypeInv, [Next]_vars, NEW p \in Procs
  PROVE  /\ req'[p].allocated \in {0, req[p].allocated} \/ SendBatch(p)
         /\ req'[p].finds \subseteq req[p].finds \/ Scan(p)
<1> DEFINE q == req[p]
           r == req'[p]
           Carried == r.allocated \in {0, q.allocated} /\ r.finds \subseteq q.finds
<1>1. req \in [Procs -> Request] /\ q \in Request
  BY DEF TypeInv, TypeOK
<1>2. CASE SendBatch(p)
  BY <1>1, <1>2 DEF SendBatch, Idle
<1>3. CASE Scan(p)
  BY <1>1, <1>3 DEF Scan, Idle
<1>4. GapsRow(p) \/ DeclareFloor(p) \/ SendConfirmLost(p) => Carried
  <2>1. GapsRow(p) => Carried
    BY <1>1 DEF GapsRow, Idle
  <2>2. DeclareFloor(p) => Carried
    BY <1>1 DEF DeclareFloor, Idle
  <2>3. SendConfirmLost(p) => Carried
    BY <1>1 DEF SendConfirmLost, Idle
  <2> QED
    BY <2>1, <2>2, <2>3
<1>5. FloorUpdate(p) => Carried
  BY <1>1 DEF FloorUpdate, Request
<1>6. FloorSeed(p) => Carried
  BY <1>1 DEF FloorSeed, Request
<1>7. AdvanceRead(p) => Carried
  BY <1>1 DEF AdvanceRead, Request
<1>8. AdvanceZip(p) => Carried
  BY <1>1 DEF AdvanceZip, Request
<1>9. AdvanceMaxSeen(p) => Carried
  BY <1>1 DEF AdvanceMaxSeen, Request
<1>10. ConfirmCeiling(p) => Carried
  BY <1>1 DEF ConfirmCeiling, Request
<1>11. Rests(r, q) \/ Follows(r, q) => Carried
  BY DEF Rests, Follows
<1>12. Enumerate(p) \/ RecordLoss(p) \/ ConfirmPresent(p) => Carried
  BY <1>11, EnumerateFacts, RecordFacts, PresentFacts
<1>13. r = q => Carried
  OBVIOUS
<1> HIDE DEF Carried
<1>14. Carried \/ SendBatch(p) \/ Scan(p)
  BY <1>4, <1>5, <1>6, <1>7, <1>8, <1>9, <1>10, <1>11, <1>12, <1>13, HandFrame
<1> QED
  BY <1>2, <1>3, <1>14 DEF Carried

LEMMA UnheardStep ==
  ASSUME IssuedInv, [Next]_vars
  PROVE  RequestsUnheard'
<1> SUFFICES ASSUME NEW p \in Procs, NEW s \in Unannounced, s \in Unannounced'
             PROVE  /\ req'[p].allocated < s
                    /\ req'[p].pc = "write" => req'[p].maxSeen < s
  BY UnannouncedShrinks DEF IssuedInv, RequestsUnheard, Unheard
<1> DEFINE q == req[p]
           r == req'[p]
<1> USE DEF IssuedInv
<1>1. /\ req \in [Procs -> Request] /\ q \in Request /\ TypeInv
      /\ s \in Int /\ 0 < s
      /\ q.allocated < s /\ (q.pc = "write" => q.maxSeen < s)
  BY SeqAssumption, Marking, InvTyped
  DEF RacedInv, Inv, TypeOK, Unannounced, Seqs, RequestsUnheard, Unheard
<1>2. r.allocated < s
  <2>1. CASE SendBatch(p)
    <3>1. r.allocated \in {0, alloc} /\ Wal # {} /\ UNCHANGED fate
      BY <1>1, <2>1 DEF SendBatch, Idle, client
    <3>2. PICK t \in Seqs : fate[t] = "logged"
      BY <3>1 DEF Wal
    <3>3. t <= alloc
      <4>1. ~ (alloc < t) /\ t \in Int /\ alloc \in Int
        BY <3>2, Marking DEF RacedInv, Inv, TypeOK, Inductive, NumbersInOrder
      <4> QED
        BY <4>1
    <3>4. undeclared = {}
      BY <3>2, <3>3 DEF RacedInv, Inv, Inductive, StreamSettled, Settled
    <3>5. alloc < s
      BY <3>4, UnannouncedFree
    <3> QED
      BY <1>1, <3>1, <3>5
  <2> QED
    BY <1>1, <2>1, CarriedFrame
<1>3. r.pc = "write" => r.maxSeen < s
  <2>1. CASE r = q
    BY <1>1, <2>1
  <2>2. CASE AdvanceMaxSeen(p)
    <3>1. r.maxSeen \in ods \cup {0}
      BY <1>1, <2>2 DEF AdvanceMaxSeen, HighestSeen, Request
    <3>2. ods \subseteq Seqs
      BY DEF RacedInv, Inv, TypeOK
    <3>3. \A t \in ods : t < s
      BY <3>2 DEF StoredLogged, UnannouncedAhead
    <3> QED
      BY <1>1, <3>1, <3>3
  <2> QED
    BY <1>1, <2>1, <2>2, ArrivalFrame
<1> QED
  BY <1>2, <1>3

\* A range read off a row spans what may be missing from it, and still does when
\* the row has moved on.
LEMMA RangesStep ==
  ASSUME IssuedInv, [Next]_vars, NEW p \in Procs
  PROVE  RangesNamed(req[p])'
<1> DEFINE q == req[p]
           r == req'[p]
<1>1. /\ req \in [Procs -> Request] /\ q \in Request /\ TypeInv
      /\ row \in [Orgs -> Watermark]
      /\ RangesNamed(q)
  BY InvTyped DEF IssuedInv, RacedInv, Inv, TypeOK, LossesExcused
<1>2. \A o \in Orgs, s \in Seqs :
        row[o].contiguous < s /\ s <= Ceiling(row[o]) => Named(o, s)
  BY RangeNamed
<1>3. ASSUME NEW f \in r.finds, NEW s \in Seqs, f.lo < s, s <= f.hi
      PROVE  Named(f.org, s)
  <2>1. CASE f \in q.finds
    BY <1>1, <1>3, <2>1 DEF RangesNamed
  <2>2. CASE Scan(p)
    <3>1. PICK o \in Orgs : f = [org |-> o, lo |-> row[o].contiguous,
                                 hi |-> Ceiling(row[o])]
      BY <1>1, <1>3, <2>2 DEF Scan, Idle
    <3> QED
      BY <1>2, <1>3, <3>1
  <2> QED
    BY <1>1, <2>1, <2>2, CarriedFrame
<1>4. ASSUME r.pc = "gapEnum", NEW s \in Seqs, r.contiguous < s, s <= r.maxSeen
      PROVE  Named(r.org, s)
  <2>1. CASE r = q
    BY <1>1, <1>4, <2>1 DEF RangesNamed
  <2>2. CASE GapsRow(p)
    <3>1. PICK o \in Orgs : /\ r.org = o /\ r.contiguous = row[o].contiguous
                            /\ r.maxSeen = Ceiling(row[o])
      BY <1>1, <2>2 DEF GapsRow, Idle
    <3> QED
      BY <1>2, <1>4, <3>1
  <2> QED
    BY <1>1, <1>4, <2>1, <2>2, ArrivalFrame
<1>5. \A o, s : Named(o, s) => NamedBy(fate', raced', o, s)
  BY NamedStays DEF IssuedInv
<1>6. /\ \A f \in r.finds, s \in Seqs :
           f.lo < s /\ s <= f.hi => NamedBy(fate', raced', f.org, s)
      /\ r.pc = "gapEnum" =>
           \A s \in Seqs : r.contiguous < s /\ s <= r.maxSeen
                             => NamedBy(fate', raced', r.org, s)
  BY <1>3, <1>4, <1>5
<1> QED
  BY <1>6 DEF RangesNamed, Named

\* What the proxy confirms was in the gaps answer, or is noted as claimed.
LEMMA ClaimsExcused ==
  ASSUME IssuedInv, NEW p \in Procs, SendConfirmLost(p)
  PROVE  /\ req'[p].pc = "ceiling" =>
              \A s \in req'[p].seqs : ExcusedBy(fate', raced', req'[p].org, s)
         /\ \A o \in Orgs : gaps'[o] \subseteq gaps[o]
<1>1. /\ req \in [Procs -> Request] /\ gaps \in [Orgs -> SUBSET Seqs]
      /\ fate \in [Seqs -> Fates]
  BY DEF IssuedInv, RacedInv, Inv, TypeOK
<1>2. PICK o \in Orgs, S \in SUBSET Seqs :
        /\ req' = [req EXCEPT ![p] =
              IF S = {}
              THEN [Idle EXCEPT !.pc = "advance", !.op = "confirm",
                                !.orgs = {o}]
              ELSE [Idle EXCEPT !.pc = "ceiling", !.op = "confirm",
                                !.org = o, !.orgs = {o}, !.seqs = S]]
        /\ raced' = raced \cup {<<"claimed", s>> : s \in
             {x \in req'[p].seqs \ gaps[o] : fate[x] \in {"free", "terminated"}}}
        /\ gaps' = [gaps EXCEPT ![o] = {}]
        /\ fate' = fate
  BY <1>1 DEF SendConfirmLost
<1>3. ASSUME req'[p].pc = "ceiling", NEW s \in req'[p].seqs
      PROVE  ExcusedBy(fate', raced', req'[p].org, s)
  <2>1. req'[p].org = o /\ s \in Seqs
    BY <1>1, <1>2, <1>3 DEF Idle
  <2>2. CASE s \in gaps[o]
    <3>1. NamedBy(fate, raced, o, s)
      BY <2>2 DEF IssuedInv, LossesExcused, Named
    <3>2. raced \subseteq raced' /\ fate' = fate
      BY <1>2
    <3> QED
      BY <2>1, <3>1, <3>2 DEF ExcusedBy, NamedBy
  <2>3. CASE s \notin gaps[o] /\ fate[s] \in {"free", "terminated"}
    <3>1. <<"claimed", s>> \in raced'
      BY <1>2, <1>3, <2>3
    <3> QED
      BY <3>1 DEF ExcusedBy
  <2>4. CASE fate[s] \notin {"free", "terminated"}
    BY <1>2, <2>1, <2>4 DEF ExcusedBy, NamedBy
  <2> QED
    BY <2>2, <2>3, <2>4
<1> QED
  BY <1>1, <1>2, <1>3

LEMMA LossesStep ==
  ASSUME IssuedInv, [Next]_vars
  PROVE  LossesExcused'
<1> USE DEF IssuedInv
<1>1. /\ TypeInv /\ TypeInv'
      /\ req \in [Procs -> Request] /\ ledger' \subseteq Orgs \X Seqs
      /\ gaps \in [Orgs -> SUBSET Seqs]
  BY RacedTypes DEF RacedInv, TypeInv, TypeOK
<1>a. /\ \A o, s : Named(o, s) => NamedBy(fate', raced', o, s)
      /\ \A o, s : Excused(o, s) => ExcusedBy(fate', raced', o, s)
      /\ \A o, s : Named(o, s) => Excused(o, s)
  BY NamedStays
<1>2. ASSUME NEW l \in ledger' PROVE Excused(l[1], l[2])
  <2>1. CASE l \in ledger
    BY <2>1 DEF LossesExcused
  <2>2. ASSUME NEW p \in Procs, RecordLoss(p), l \notin ledger
        PROVE  Excused(l[1], l[2])
    <3>1. /\ req[p].pc = "record"
          /\ \E s \in req[p].seqs : l = <<req[p].org, s>>
      BY <1>1, <2>2, RecordFacts
    <3> QED
      BY <3>1 DEF LossesExcused, WriteOffsExcused
  <2> QED
    BY <2>1, <2>2, ContractFrame DEF BatchTxCommit, BatchTxFails, ReplayEvent
<1>3. ASSUME NEW o \in Orgs, NEW s \in gaps'[o] PROVE Named(o, s)
  <2>1. CASE s \in gaps[o]
    BY <2>1 DEF LossesExcused
  <2>2. ASSUME NEW p \in Procs, GapsEnumerate(p), s \notin gaps[o]
        PROVE  Named(o, s)
    <3>1. /\ req[p].pc = "gapEnum" /\ o = req[p].org
          /\ s \in Missing(req[p].contiguous, req[p].maxSeen)
      BY <1>1, <1>3, <2>2 DEF GapsEnumerate
    <3>2. s \in Seqs /\ req[p].contiguous < s /\ s <= req[p].maxSeen
      BY <3>1 DEF Missing, Window
    <3> QED
      BY <3>1, <3>2 DEF LossesExcused, RangesNamed
  <2>3. \/ gaps' = gaps
        \/ \E p \in Procs : SendConfirmLost(p) \/ GapsEnumerate(p)
    BY DEF Next, vars, client, Issue, SwitchStream, Restart, Proxy, SendBatch,
         DeclareFloor, Scan, GapsRow, Handle, BatchTxCommit,
         BatchTxFails, ReplayEvent, BatchReply, AdvanceRead, AdvanceZip,
         AdvanceMaxSeen, Enumerate, RecordLoss, ConfirmCeiling,
         ConfirmPresent, FloorRead, StatementFails, Age, AdvanceWrite,
         FloorUpdate, FloorSeed
  <2> QED
    BY <1>3, <2>1, <2>2, <2>3, ClaimsExcused
<1>4. ASSUME NEW p \in Procs, req'[p].pc \in {"ceiling", "present", "record"},
             NEW s \in req'[p].seqs
      PROVE  ExcusedBy(fate', raced', req'[p].org, s)
  <2> DEFINE q == req[p]
             r == req'[p]
  <2>1. /\ q \in Request
        /\ q.pc \in {"ceiling", "present", "record"} =>
             \A x \in q.seqs : Excused(q.org, x)
    BY <1>1 DEF LossesExcused, WriteOffsExcused
  <2>2. CASE r = q
    BY <1>a, <1>4, <2>1, <2>2
  <2>3. ~ Rests(r, q)
    BY <1>4 DEF Rests, Working
  <2>4. CASE SendConfirmLost(p)
    <3>1. r.pc = "ceiling"
      BY <1>1, <1>4, <2>4 DEF SendConfirmLost, Idle
    <3> QED
      BY <1>4, <2>4, <3>1, ClaimsExcused
  <2>5. CASE ConfirmCeiling(p)
    <3>1. r.seqs = q.seqs /\ r.org = q.org /\ q.pc = "ceiling"
      BY <1>1, <2>1, <2>5 DEF ConfirmCeiling, Request
    <3> QED
      BY <1>a, <1>4, <2>1, <3>1
  <2>6. CASE Enumerate(p)
    <3>1. PICK f \in q.finds : r.org = f.org /\ r.seqs = Missing(f.lo, f.hi)
      BY <1>1, <2>3, <2>6, EnumerateFacts
    <3>2. s \in Seqs /\ f.lo < s /\ s <= f.hi
      BY <1>4, <3>1 DEF Missing, Window
    <3>3. Named(f.org, s)
      BY <3>1, <3>2 DEF LossesExcused, RangesNamed
    <3> QED
      BY <1>a, <3>1, <3>3
  <2>7. CASE RecordLoss(p)
    <3>1. q.pc = "record" /\ r.org = q.org /\ r.seqs \subseteq q.seqs
      BY <1>1, <2>3, <2>7, RecordFacts
    <3> QED
      BY <1>a, <1>4, <2>1, <3>1
  <2>8. CASE ConfirmPresent(p)
    <3>1. q.pc = "present" /\ r.org = q.org /\ r.seqs \subseteq q.seqs
      BY <1>1, <2>3, <2>8, PresentFacts DEF Absent
    <3> QED
      BY <1>a, <1>4, <2>1, <3>1
  <2> QED
    BY <1>1, <1>4, <2>2, <2>4, <2>5, <2>6, <2>7, <2>8, ArrivalFrame
<1>5. /\ \A l \in ledger' : ExcusedBy(fate', raced', l[1], l[2])
      /\ \A o \in Orgs : \A s \in gaps'[o] : NamedBy(fate', raced', o, s)
  BY <1>a, <1>2, <1>3
<1>6. \A p \in Procs : RangesNamed(req[p])'
  BY RangesStep
<1>7. \A p \in Procs : WriteOffsExcused(req[p])'
  BY <1>4 DEF WriteOffsExcused, Excused
<1> QED
  BY <1>5, <1>6, <1>7 DEF LossesExcused, Excused, Named

LEMMA IssuedInit == Init => IssuedInv
<1> SUFFICES ASSUME Init PROVE IssuedInv
  OBVIOUS
<1>1. \A s \in Seqs : 0 < s
  BY SeqAssumption DEF Seqs
<1>2. UnannouncedAhead /\ RequestsUnheard
  BY <1>1 DEF Init, UnannouncedAhead, RequestsUnheard, Unheard, Unannounced,
              NoRow, Idle, Ceiling, Greatest
<1>3. StoredLogged /\ LossesExcused
  BY DEF Init, StoredLogged, LossesExcused, RangesNamed, WriteOffsExcused, Idle
<1> QED
  BY <1>2, <1>3, RacedInit DEF IssuedInv

\* A number that was terminated, and so never given to an event, is not filed
\* as a loss, whatever handlers run at once and whatever the proxy confirms:
\* neither the enumeration of a finding nor that of a gaps answer reaches into a
\* span being declared, or below a floor.  The exceptions are a number the proxy
\* claimed unasked, and a row whose declaration was overrun by its first batch or
\* whose contiguous_seq a stale advance lowered.
THEOREM TerminatedStaysUnfiled == Spec => []TerminatedNotLost
<1>1. IssuedInv /\ [Next]_vars => IssuedInv'
  BY RacedInvStep, AheadStep, UnheardStep, StoredLoggedStep, LossesStep
  DEF IssuedInv
<1>2. IssuedInv => TerminatedNotLost
  BY DEF IssuedInv, LossesExcused, Excused, ExcusedBy, NamedBy, TerminatedNotLost
<1> QED
  BY <1>1, <1>2, IssuedInit, PTL DEF Spec
=============================================================================
