----------------------- MODULE ConversationAuditProofs -----------------------
(***************************************************************************)
(* The conversation audit for every set of turns, requests and limits: the *)
(* auditor is shown nothing of another organisation, an export carries     *)
(* every turn it should, the views of one seat add up, and the pages of a  *)
(* list lose no row that is owed.                                          *)
(***************************************************************************)
EXTENDS ConversationAudit, FiniteCollections, FiniteSetTheorems, SequenceTheorems, TLAPS

-----------------------------------------------------------------------------
(* The orders of the queries.                                              *)

Strings == Seq(DOMAIN Lower)

\* s precedes t at the i-th code point.
PrecedesAt(s, t, i) ==
  /\ i \in 1 .. Len(t)
  /\ i - 1 <= Len(s)
  /\ \A j \in 1 .. i - 1 : s[j] = t[j]
  /\ i <= Len(s) => s[i] < t[i]

LEMMA StringFacts ==
  ASSUME NEW s \in Strings
  PROVE  Len(s) \in Nat /\ DOMAIN s = 1 .. Len(s) /\ \A i \in 1 .. Len(s) : s[i] \in Int
<1>1. DOMAIN Lower \subseteq Int
  BY LowerAssumption
<1> QED
  BY <1>1 DEF Strings

LEMMA PrecedesSomewhere ==
  ASSUME NEW s, NEW t
  PROVE  Precedes(s, t) <=> \E i \in 1 .. Len(t) : PrecedesAt(s, t, i)
  BY DEF Precedes, PrecedesAt

\* The order of text columns is linear.
LEMMA PrecedesNotSelf ==
  ASSUME NEW s \in Strings
  PROVE  ~Precedes(s, s)
<1> SUFFICES ASSUME NEW i \in 1 .. Len(s), PrecedesAt(s, s, i) PROVE FALSE
  BY PrecedesSomewhere
<1>1. s[i] \in Int /\ i <= Len(s)
  BY StringFacts
<1> QED
  BY <1>1 DEF PrecedesAt

LEMMA PrecedesOn ==
  ASSUME NEW s \in Strings, NEW t \in Strings, NEW u \in Strings,
         Precedes(s, t), Precedes(t, u)
  PROVE  Precedes(s, u)
<1>1. PICK i \in 1 .. Len(t) : PrecedesAt(s, t, i)
  BY PrecedesSomewhere
<1>2. PICK j \in 1 .. Len(u) : PrecedesAt(t, u, j)
  BY PrecedesSomewhere
<1>3. /\ Len(s) \in Nat /\ Len(t) \in Nat /\ Len(u) \in Nat
      /\ \A k \in 1 .. Len(s) : s[k] \in Int
      /\ \A k \in 1 .. Len(t) : t[k] \in Int
      /\ \A k \in 1 .. Len(u) : u[k] \in Int
  BY StringFacts
<1>4. CASE i < j
  <2>1. i \in 1 .. Len(u) /\ i - 1 <= Len(s) /\ t[i] = u[i]
    BY <1>1, <1>2, <1>3, <1>4 DEF PrecedesAt
  <2>2. \A k \in 1 .. i - 1 : s[k] = u[k]
    BY <1>1, <1>2, <1>3, <1>4 DEF PrecedesAt
  <2>3. i <= Len(s) => s[i] < u[i]
    BY <1>1, <2>1 DEF PrecedesAt
  <2> QED
    BY <2>1, <2>2, <2>3, PrecedesSomewhere DEF PrecedesAt
<1>5. CASE i = j
  <2>1. j <= Len(t) /\ t[j] < u[j]
    BY <1>1, <1>2, <1>3, <1>5 DEF PrecedesAt
  <2>2. \A k \in 1 .. j - 1 : s[k] = u[k]
    BY <1>1, <1>2, <1>5 DEF PrecedesAt
  <2>3. j <= Len(s) => s[j] < u[j]
    <3>1. j <= Len(s) => s[j] < t[j] /\ s[j] \in Int
      BY <1>1, <1>2, <1>3, <1>5 DEF PrecedesAt
    <3>2. t[j] \in Int /\ u[j] \in Int
      BY <1>2, <1>3, <2>1
    <3> QED
      BY <2>1, <3>1, <3>2
  <2>4. j - 1 <= Len(s)
    BY <1>1, <1>5 DEF PrecedesAt
  <2> QED
    BY <2>2, <2>3, <2>4, PrecedesSomewhere DEF PrecedesAt
<1>6. CASE j < i
  <2>1. j - 1 <= Len(s) /\ j <= Len(t) /\ s[j] = t[j] /\ t[j] < u[j]
    BY <1>1, <1>2, <1>3, <1>6 DEF PrecedesAt
  <2>2. \A k \in 1 .. j - 1 : s[k] = u[k]
    BY <1>1, <1>2, <1>3, <1>6 DEF PrecedesAt
  <2>3. s[j] < u[j]
    BY <2>1
  <2> QED
    BY <2>1, <2>2, <2>3, PrecedesSomewhere DEF PrecedesAt
<1> QED
  BY <1>1, <1>2, <1>3, <1>4, <1>5, <1>6

LEMMA PrecedesEither ==
  ASSUME NEW s \in Strings, NEW t \in Strings, s # t
  PROVE  Precedes(s, t) \/ Precedes(t, s)
<1> DEFINE D == {i \in Nat : i >= 1 /\ (i > Len(s) \/ i > Len(t) \/ s[i] # t[i])}
<1>1. /\ Len(s) \in Nat /\ DOMAIN s = 1 .. Len(s) /\ \A i \in 1 .. Len(s) : s[i] \in Int
      /\ Len(t) \in Nat /\ DOMAIN t = 1 .. Len(t) /\ \A i \in 1 .. Len(t) : t[i] \in Int
  BY StringFacts
<1>2. D \in SUBSET Nat /\ D # {}
  <2>1. Len(s) + 1 \in D
    BY <1>1
  <2> QED
    BY <2>1
<1>3. PICK m \in D : \A i \in D : m <= i
  <2> HIDE DEF D
  <2> QED
    BY <1>2, LeastNatural
<1>4. \A j \in 1 .. m - 1 : j <= Len(s) /\ j <= Len(t) /\ s[j] = t[j]
  BY <1>1, <1>3
<1>5. m \in Nat /\ m >= 1 /\ m - 1 <= Len(s) /\ m - 1 <= Len(t)
  BY <1>1, <1>3, <1>4
<1>6. CASE m > Len(s) /\ m > Len(t)
  <2>1. Len(s) = m - 1 /\ Len(t) = m - 1
    BY <1>1, <1>5, <1>6
  <2>2. DOMAIN s = DOMAIN t /\ \A i \in DOMAIN s : s[i] = t[i]
    BY <1>1, <1>4, <2>1
  <2>3. s = [i \in DOMAIN s |-> s[i]] /\ t = [i \in DOMAIN t |-> t[i]]
    BY DEF Strings
  <2> QED
    BY <2>2, <2>3
<1>7. CASE m > Len(s) /\ m <= Len(t)
  BY <1>1, <1>4, <1>5, <1>7 DEF Precedes
<1>8. CASE m <= Len(s) /\ m > Len(t)
  BY <1>1, <1>4, <1>5, <1>8 DEF Precedes
<1>9. CASE m <= Len(s) /\ m <= Len(t)
  <2>1. s[m] < t[m] \/ t[m] < s[m]
    BY <1>1, <1>3, <1>5, <1>9
  <2>2. CASE s[m] < t[m]
    BY <1>1, <1>4, <1>5, <1>9, <2>2 DEF Precedes
  <2>3. CASE t[m] < s[m]
    BY <1>1, <1>4, <1>5, <1>9, <2>3 DEF Precedes
  <2> QED
    BY <2>1, <2>2, <2>3
<1> QED
  BY <1>1, <1>5, <1>6, <1>7, <1>8, <1>9

LEMMA RecordFacts ==
  ASSUME NEW r \in Records
  PROVE  /\ r.event \in Strings /\ r.event # << >> /\ SeatKey(r) \in Strings
         /\ SessionOf(r) \in Strings /\ SessionOf(r) # << >>
         /\ r.time \in Nat /\ r.tokens \in Nat
<1>1. /\ r.event \in Strings /\ r.session \in Strings /\ r.owner \in Strings
      /\ r.seat \in Strings /\ r.event # << >> /\ r.time \in Nat /\ r.tokens \in Nat
  BY RecordAssumption DEF Strings
<1> QED
  BY <1>1 DEF SeatKey, SessionOf

TurnBefore(a, b) ==
  \/ a.time < b.time
  \/ a.time = b.time /\ Precedes(a.event, b.event)

TurnOrder == {e \in Records \X Records : TurnBefore(e[1], e[2])}

\* So is that of the turns of a thread: those of one instant have two ids.
LEMMA TurnsLinear ==
  ASSUME NEW S \in SUBSET Records, \A a, b \in S : a.org = b.org
  PROVE  LinearOn(TurnOrder, S)
<1>1. \A r \in S : r.time \in Nat /\ r.event \in Strings
  BY RecordFacts
<1>2. \A a, b \in Records : <<a, b>> \in TurnOrder <=> TurnBefore(a, b)
  BY DEF TurnOrder
<1>3. \A x \in S : <<x, x>> \notin TurnOrder
  BY <1>1, <1>2, PrecedesNotSelf DEF TurnBefore
<1>4. ASSUME NEW x \in S, NEW y \in S, NEW z \in S,
             <<x, y>> \in TurnOrder, <<y, z>> \in TurnOrder
      PROVE  <<x, z>> \in TurnOrder
  <2>1. x.time \in Nat /\ y.time \in Nat /\ z.time \in Nat
    BY <1>1
  <2>2. Precedes(x.event, y.event) /\ Precedes(y.event, z.event) => Precedes(x.event, z.event)
    BY <1>1, PrecedesOn
  <2>3. TurnBefore(x, y) /\ TurnBefore(y, z)
    BY <1>2, <1>4
  <2>4. TurnBefore(x, z)
    BY <2>1, <2>2, <2>3 DEF TurnBefore
  <2> QED
    BY <1>2, <2>4
<1>5. ASSUME NEW x \in S, NEW y \in S, x # y
      PROVE  <<x, y>> \in TurnOrder \/ <<y, x>> \in TurnOrder
  <2>1. x.time = y.time => x.event # y.event
    BY <1>5, RecordAssumption DEF ConvDate
  <2>2. x.event # y.event => Precedes(x.event, y.event) \/ Precedes(y.event, x.event)
    BY <1>1, PrecedesEither
  <2>3. x.time \in Nat /\ y.time \in Nat
    BY <1>1
  <2>4. TurnBefore(x, y) \/ TurnBefore(y, x)
    BY <2>1, <2>2, <2>3 DEF TurnBefore
  <2> QED
    BY <1>2, <2>4
<1> QED
  BY <1>3, <1>4, <1>5 DEF LinearOn

\* What a thread and an export make of their turns: each once, in order.
LEMMA InOrderFacts ==
  ASSUME NEW S \in SUBSET Records, IsFiniteSet(S), \A a, b \in S : a.org = b.org
  PROVE  /\ InOrder(S) \in Seq(S) /\ Len(InOrder(S)) = Cardinality(S)
         /\ DOMAIN InOrder(S) = 1 .. Cardinality(S) /\ Cardinality(S) \in Nat
         /\ \A r \in S : Cardinality({i \in DOMAIN InOrder(S) : InOrder(S)[i] = r}) = 1
         /\ \A i, j \in DOMAIN InOrder(S) : i < j => InOrder(S)[i].time <= InOrder(S)[j].time
<1> DEFINE n == Cardinality(S)
           turns == InOrder(S)
           At(r) == Rank(TurnOrder, S, r)
<1>1. LinearOn(TurnOrder, S)
  BY TurnsLinear
<1>2. n \in Nat /\ \A r \in S : At(r) \in Nat /\ At(r) < n
  BY <1>1, RankFacts
<1> DEFINE Ahead(r) == {x \in S : \/ x.time < r.time
                                  \/ x.time = r.time /\ Precedes(x.event, r.event)}
<1>3. turns = [i \in 1 .. n |-> CHOOSE r \in S : Cardinality(Ahead(r)) = i - 1]
  BY DEF InOrder, Sorted
<1>4. \A i \in 1 .. n : turns[i] \in S /\ At(turns[i]) = i - 1
  <2> SUFFICES ASSUME NEW i \in 1 .. n PROVE turns[i] \in S /\ At(turns[i]) = i - 1
    OBVIOUS
  <2>1. \A a, b \in Records : <<a, b>> \in TurnOrder <=> TurnBefore(a, b)
    BY DEF TurnOrder
  <2>2. \A r \in S : Ahead(r) = Below(TurnOrder, S, r)
    BY <2>1 DEF Below, TurnBefore
  <2>3. \A r \in S : Cardinality(Ahead(r)) = At(r)
    BY <2>2 DEF Rank
  <2>4. \E r \in S : At(r) = i - 1
    <3>1. i - 1 \in 0 .. Cardinality(S) - 1
      BY <1>2 DEF n
    <3> QED
      BY <1>1, <3>1, RanksOnto
  <2> HIDE DEF At, Ahead, turns
  <2>5. turns[i] = CHOOSE r \in S : Cardinality(Ahead(r)) = i - 1
    BY <1>3
  <2>6. \E r \in S : Cardinality(Ahead(r)) = i - 1
    BY <2>3, <2>4
  <2>7. turns[i] \in S /\ Cardinality(Ahead(turns[i])) = i - 1
    BY <2>5, <2>6
  <2> QED
    BY <2>3, <2>7
<1>5. turns = [i \in 1 .. n |-> turns[i]]
  <2> HIDE DEF Ahead
  <2> QED
    BY <1>3
<1> HIDE DEF turns, n, Ahead
<1>6. turns \in Seq(S) /\ Len(turns) = n /\ DOMAIN turns = 1 .. n
  <2>1. turns \in [1 .. n -> S]
    BY <1>4, <1>5
  <2> QED
    BY <1>2, <2>1
<1>7. ASSUME NEW r \in S PROVE {i \in DOMAIN turns : turns[i] = r} = {At(r) + 1}
  <2>1. At(r) + 1 \in 1 .. n
    BY <1>2
  <2>2. \A x \in S : At(x) = At(r) => x = r
    BY <1>1, RanksApart
  <2> HIDE DEF At
  <2>3. turns[At(r) + 1] = r
    BY <1>2, <1>4, <2>1, <2>2
  <2>4. \A i \in 1 .. n : turns[i] = r => i = At(r) + 1
    BY <1>2, <1>4
  <2> QED
    BY <1>6, <2>1, <2>3, <2>4
<1>8. \A r \in S : Cardinality({i \in DOMAIN turns : turns[i] = r}) = 1
  BY <1>7, FS_Singleton
<1>9. ASSUME NEW i \in 1 .. n, NEW j \in 1 .. n, i < j PROVE turns[i].time <= turns[j].time
  <2>1. turns[i] \in S /\ turns[j] \in S /\ At(turns[i]) < At(turns[j])
    BY <1>2, <1>4, <1>9
  <2>2. <<turns[j], turns[i]>> \notin TurnOrder
    <3>1. \A x, y \in S : <<x, y>> \in TurnOrder => At(x) < At(y)
      BY <1>1, RankFacts
    <3> HIDE DEF At
    <3> QED
      BY <1>2, <2>1, <3>1
  <2>3. turns[i].time \in Nat /\ turns[j].time \in Nat
    BY <2>1, RecordFacts
  <2> QED
    BY <2>1, <2>2, <2>3 DEF TurnOrder, TurnBefore
<1> QED
  BY <1>2, <1>6, <1>8, <1>9 DEF turns, n

-----------------------------------------------------------------------------
(* What the database holds.                                                *)

\* Turns are stored as they were sent, and every prompt is one that a stored turn
\* sent, under its organisation, seat and session.
Stored ==
  /\ records \subseteq Records /\ IsFiniteSet(records)
  /\ \A s \in sessions : \E x \in records :
        /\ s.org = x.org /\ s.session = x.session
        /\ s.owner = SeatKey(x) /\ s.text = x.system

LEMMA TurnStored ==
  ASSUME Stored, NEW r \in Records, Ingest(r)
  PROVE  /\ records' = records \cup {r} /\ records \subseteq records'
         /\ UNCHANGED auditor
<1>1. ASSUME NEW x \in records, x.event = r.event, ConvDate(x) = ConvDate(r)
      PROVE  x = r
  <2>1. x.org = r.org /\ x \in Records
    BY <1>1 DEF Ingest, Stored
  <2> QED
    BY <1>1, <2>1, RecordAssumption
<1>2. records' = records \cup {r}
  BY <1>1 DEF Ingest
<1> QED
  BY <1>2 DEF Ingest

LEMMA StoredStep == Stored /\ [Next]_vars => Stored'
<1> SUFFICES ASSUME Stored, [Next]_vars PROVE Stored'
  OBVIOUS
<1>1. ASSUME NEW r \in Records, Ingest(r) PROVE Stored'
  <2>1. records' = records \cup {r}
    BY <1>1, TurnStored
  <2>2. records' \subseteq Records /\ IsFiniteSet(records')
    BY <2>1, FS_AddElement DEF Stored
  <2>3. ASSUME NEW s \in sessions', s \notin sessions
        PROVE  s = [org |-> r.org, session |-> r.session, owner |-> SeatKey(r), text |-> r.system]
    BY <1>1, <2>3 DEF Ingest, UpsertSession
  <2>4. ASSUME NEW s \in sessions'
        PROVE  \E x \in records' : /\ s.org = x.org /\ s.session = x.session
                                   /\ s.owner = SeatKey(x) /\ s.text = x.system
    <3>1. CASE s \in sessions
      BY <2>1, <3>1 DEF Stored
    <3>2. CASE s \notin sessions
      BY <2>1, <2>3, <3>2
    <3> QED
      BY <3>1, <3>2
  <2> QED
    BY <2>2, <2>4 DEF Stored
<1>2. ASSUME UNCHANGED <<records, sessions>> PROVE Stored'
  BY <1>2 DEF Stored
<1> QED
  BY <1>1, <1>2 DEF Next, OpenList, StartZip, Show, TurnPage, ZipPrompt, ZipTurns, Leave, vars

LEMMA StoredInvariant == Spec => []Stored
<1>1. Init => Stored
  BY FS_EmptySet DEF Init, Stored
<1> QED
  BY <1>1, StoredStep, PTL DEF Spec

\* Every turn of a thread is of its organisation.
LEMMA ThreadTurns ==
  ASSUME Stored, NEW p
  PROVE  /\ TurnsOf(p) \in SUBSET Records /\ IsFiniteSet(TurnsOf(p))
         /\ \A a, b \in TurnsOf(p) : a.org = b.org
<1>1. TurnsOf(p) \subseteq records
  BY DEF TurnsOf
<1>2. \A a \in TurnsOf(p) : a.org = p.org
  BY DEF TurnsOf
<1> QED
  BY <1>1, <1>2, FS_Subset DEF Stored

-----------------------------------------------------------------------------
(* What is asked for, and kept.                                            *)

AskedDomain ==
  {"view", "org", "owner", "session", "start", "end", "limit", "offset", "sort",
   "dir", "search", "keys", "term"}

LEMMA AskedFields ==
  ASSUME NEW p \in Asked
  PROVE  /\ AskedDomain \subseteq DOMAIN p
         /\ p = [x \in DOMAIN p |-> p[x]] /\ p.limit \in Nat
<1>1. PICK q \in Requests : p = ConvParams(q)
  BY DEF Asked
<1>2. /\ AskedDomain \subseteq DOMAIN q
      /\ q.limit \in Int
  BY RequestAssumption DEF AskedDomain
<1>3. DOMAIN p = DOMAIN q /\ p.limit \in Nat
  BY <1>1, <1>2 DEF ConvParams, AskedDomain
<1>4. p = [x \in DOMAIN p |-> p[x]]
  BY <1>1 DEF ConvParams
<1> QED
  BY <1>2, <1>3, <1>4

\* What is open is what was asked for, and a download keeps its fields.
Fields ==
  /\ Listing => /\ auditor.p \in Asked /\ auditor.p.view = auditor.view
                /\ DOMAIN auditor = {"view", "p", "step", "began", "offset", "total",
                                     "late", "shown", "count"}
  /\ auditor.view = "zip" => /\ DOMAIN auditor = {"view", "p", "began", "step", "left", "zip"}
                             /\ AskedDomain \subseteq DOMAIN auditor.p

LEMMA FieldsStep == Fields /\ [Next]_vars => Fields'
<1> SUFFICES ASSUME Fields, [Next]_vars PROVE Fields'
  OBVIOUS
<1>1. ASSUME UNCHANGED auditor PROVE Fields'
  BY <1>1 DEF Fields, Listing
<1>2. ASSUME NEW p \in Asked, NEW before, p.view # "zip", Count(p, before)
      PROVE  Fields'
  <2>1. /\ auditor'.view = p.view /\ auditor'.p = p
        /\ DOMAIN auditor' = {"view", "p", "step", "began", "offset", "total",
                              "late", "shown", "count"}
    BY <1>2 DEF Count
  <2> QED
    BY <1>2, <2>1 DEF Fields
<1>3. ASSUME NEW q \in Requests, OpenList(q) PROVE Fields'
  <2>1. PICK p, before :
          p \in Asked /\ p.view \in {"seats", "sessions"} /\ Count(p, before)
    BY <1>3 DEF OpenList, Asked
  <2> QED
    BY <1>2, <2>1
<1>4. ASSUME Show PROVE Fields'
  <2>1. auditor'.view = auditor.view /\ auditor'.p = auditor.p /\ DOMAIN auditor' = DOMAIN auditor
    BY <1>4 DEF Show, Fields
  <2> QED
    BY <1>4, <2>1 DEF Show, Fields, Listing
<1>5. ASSUME TurnPage PROVE Fields'
  <2>1. auditor.p \in Asked /\ auditor.p.view # "zip"
    BY <1>5 DEF TurnPage, Fields, Listing
  <2> QED
    BY <1>2, <1>5, <2>1 DEF TurnPage
<1>6. ASSUME NEW q \in Requests, StartZip(q) PROVE Fields'
  <2> DEFINE p == ConvParams(q)
  <2>1. AskedDomain \subseteq DOMAIN p
    BY AskedFields DEF Asked
  <2> HIDE DEF p
  <2> QED
    BY <1>6, <2>1 DEF StartZip, Fields, Listing, p
<1>7. ASSUME ZipPrompt PROVE Fields'
  BY <1>7 DEF ZipPrompt, Fields, Listing, AskedDomain
<1>8. ASSUME ZipTurns PROVE Fields'
  BY <1>8 DEF ZipTurns, Fields, Listing
<1>9. ASSUME Leave PROVE Fields'
  BY <1>9 DEF Leave, Closed, Fields, Listing
<1> QED
  BY <1>1, <1>3, <1>5, <1>6, <1>7, <1>8, <1>9, <1>4 DEF Next, vars, Ingest

-----------------------------------------------------------------------------
(* The scope of a tenant.                                                  *)

OrgKeys(org) ==
  LET own == {x \in records : x.org = org}
  IN  {SeatKey(r) : r \in own} \cup {SessionOf(r) : r \in own}

\* A page is made of rows, and a row of turns of the organisation.
LEMMA PageKeys ==
  ASSUME NEW p, NEW offset, NEW page \in Pages(p, offset, records)
  PROVE  page \subseteq Rows(p, records) /\ {row.key : row \in page} \subseteq OrgKeys(p.org)
<1>1. page \subseteq Rows(p, records)
  BY DEF Pages, kSubset
<1>2. ASSUME NEW row \in Seats(p, records)
      PROVE  \E r \in records : r.org = p.org /\ row.key = SeatKey(r)
  <2>1. PICK r, T : r \in records /\ SeatWhere(p, r) /\ row = SeatRow(SeatKey(r), T)
    BY <1>2 DEF Seats
  <2> QED
    BY <2>1 DEF SeatRow, SeatWhere
<1>3. ASSUME NEW row \in Sessions(p, records)
      PROVE  \E r \in records : r.org = p.org /\ row.key = SessionOf(r)
  <2>1. PICK r, T : r \in records /\ SessionWhere(p, r) /\ row = SessionRow(SessionOf(r), T)
    BY <1>3 DEF Sessions
  <2> QED
    BY <2>1 DEF SessionRow, SessionWhere
<1>4. \A row \in Rows(p, records) : row.key \in OrgKeys(p.org)
  BY <1>2, <1>3 DEF Rows, OrgKeys
<1> QED
  BY <1>1, <1>4

ShownOwn == Listing => auditor.shown \subseteq OrgKeys(auditor.p.org)

LEMMA ShowStays ==
  ASSUME Fields, ShownOwn, Show
  PROVE  ShownOwn'
<1>1. PICK page \in Pages(auditor.p, auditor.offset, records) :
        /\ auditor'.p = auditor.p
        /\ auditor'.shown = auditor.shown \cup {row.key : row \in page}
  BY DEF Show, Fields
<1>2. {row.key : row \in page} \subseteq OrgKeys(auditor.p.org)
  BY <1>1, PageKeys
<1>3. OrgKeys(auditor.p.org)' = OrgKeys(auditor.p.org)
  BY <1>1 DEF OrgKeys, Show
<1> QED
  BY <1>1, <1>2, <1>3 DEF ShownOwn, Show

\* To count the rows shows none.
LEMMA CountStays ==
  ASSUME NEW p, NEW before, Count(p, before), UNCHANGED records,
         before.shown \subseteq OrgKeys(p.org)
  PROVE  ShownOwn'
<1>1. auditor'.p = p /\ auditor'.shown = before.shown
  BY DEF Count
<1>2. OrgKeys(p.org)' = OrgKeys(p.org)
  BY DEF OrgKeys
<1> QED
  BY <1>1, <1>2 DEF ShownOwn

LEMMA ShownStep == Stored /\ Fields /\ ShownOwn /\ [Next]_vars => ShownOwn'
<1> SUFFICES ASSUME Stored, Fields, ShownOwn, [Next]_vars PROVE ShownOwn'
  OBVIOUS
<1>1. ASSUME NEW r \in Records, Ingest(r) PROVE ShownOwn'
  <2>1. records \subseteq records' /\ auditor' = auditor
    BY <1>1, TurnStored
  <2>2. ASSUME NEW org PROVE OrgKeys(org) \subseteq OrgKeys(org)'
    BY <2>1 DEF OrgKeys
  <2>3. Listing => OrgKeys(auditor.p.org) \subseteq OrgKeys(auditor.p.org)'
    BY <2>1, <2>2
  <2> QED
    BY <2>1, <2>3 DEF ShownOwn, Listing
<1>2. ASSUME NEW q \in Requests, OpenList(q) PROVE ShownOwn'
  <2> DEFINE before == [began |-> records, offset |-> 0, shown |-> {}, count |-> 0]
  <2>1. PICK p : Count(p, before) /\ UNCHANGED records
    BY <1>2 DEF OpenList
  <2>2. before.shown = {}
    OBVIOUS
  <2> HIDE DEF before
  <2> QED
    BY <2>1, <2>2, CountStays
<1>3. ASSUME TurnPage PROVE ShownOwn'
  BY <1>3, CountStays DEF TurnPage, ShownOwn
<1>4. ASSUME Show PROVE ShownOwn'
  BY <1>4, ShowStays
<1>5. ASSUME NEW q \in Requests, StartZip(q) PROVE ShownOwn'
  BY <1>5 DEF StartZip, ShownOwn, Listing
<1>6. ASSUME ZipPrompt \/ ZipTurns PROVE ShownOwn'
  <2>1. auditor'.view = "zip"
    BY <1>6 DEF ZipPrompt, ZipTurns, Fields
  <2> QED
    BY <2>1 DEF ShownOwn, Listing
<1>7. ASSUME Leave PROVE ShownOwn'
  BY <1>7 DEF Leave, Closed, ShownOwn, Listing
<1>8. ASSUME UNCHANGED vars PROVE ShownOwn'
  BY <1>8 DEF vars, ShownOwn, Listing, OrgKeys
<1> QED
  BY <1>1, <1>2, <1>3, <1>5, <1>6, <1>7, <1>8, <1>4 DEF Next

\* An auditor is shown nothing of another organisation, whatever it searches for,
\* and the prompt of a thread is one its own seat sent in that session, although
\* session ids are not unique (domain.go:75).
THEOREM TenantsApart == Spec => []TenantScope
<1>1. Init => ShownOwn
  BY DEF Init, ShownOwn, Listing, Closed
<1>2. ASSUME Stored, NEW p \in Asked, NEW r \in Records,
             LET thread == [p EXCEPT !.owner = SeatKey(r), !.session = SessionOf(r)]
             IN  SessionSystemText(thread) # << >>
      PROVE  LET thread == [p EXCEPT !.owner = SeatKey(r), !.session = SessionOf(r)]
             IN  \E x \in TurnsOf(thread) : x.system = SessionSystemText(thread)
  <2> DEFINE thread == [p EXCEPT !.owner = SeatKey(r), !.session = SessionOf(r)]
  <2>1. /\ thread.org = p.org /\ thread.owner = SeatKey(r) /\ thread.session = SessionOf(r)
        /\ SessionSystemText(thread) # << >>
    BY <1>2, AskedFields
  <2> HIDE DEF thread
  <2>2. PICK s \in sessions : /\ s.org = thread.org /\ s.owner = thread.owner
                              /\ s.session = thread.session
                              /\ SessionSystemText(thread) = s.text
    BY <2>1 DEF SessionSystemText
  <2>3. PICK x \in records : /\ s.org = x.org /\ s.session = x.session
                             /\ s.owner = SeatKey(x) /\ s.text = x.system
    BY <1>2, <2>2 DEF Stored
  <2>4. SessionOf(x) = thread.session
    BY <2>1, <2>2, <2>3, RecordFacts DEF SessionOf
  <2>5. x \in TurnsOf(thread)
    BY <2>2, <2>3, <2>4 DEF TurnsOf
  <2> QED
    BY <2>2, <2>3, <2>5 DEF thread
<1>3. Init => Fields
  BY DEF Init, Fields, Listing, Closed
<1>4. Stored /\ ShownOwn => TenantScope
  BY <1>2 DEF ShownOwn, TenantScope, OrgKeys
<1> QED
  BY <1>1, <1>4, <1>3, StoredInvariant, FieldsStep, ShownStep, PTL DEF Spec

-----------------------------------------------------------------------------
(* The .zip of a seat.                                                     *)

InPlace(turns, r) ==
  /\ Cardinality({i \in DOMAIN turns : turns[i] = r}) = 1
  /\ \A i, j \in DOMAIN turns : i < j => turns[i].time <= turns[j].time

Carries(e, r) == e.session = SessionOf(r) /\ InPlace(e.turns, r)

\* Where a turn that was there when the .zip was begun is on its way: its session
\* is still to come, or its entry waits for the turns, or has them.
OnItsWay(r) ==
  \/ \E row \in auditor.left : row.key = SessionOf(r)
  \/ /\ auditor.step = "turns" /\ auditor.p.session = SessionOf(r)
     /\ \E e \in auditor.zip : e.session = SessionOf(r)
  \/ \E e \in auditor.zip : Carries(e, r)

ZipSound ==
  auditor.view = "zip" =>
    /\ auditor.began \subseteq records
    /\ \A e \in auditor.zip : DOMAIN e = {"name", "session", "text", "turns"}
    /\ \A r \in auditor.began : SessionWhere(auditor.p, r) => OnItsWay(r)

\* The turns of the export of a session are in place.
LEMMA TurnsInPlace ==
  ASSUME Stored, NEW p, NEW r \in TurnsOf(p)
  PROVE  InPlace(StreamSessionTurns(p), r)
<1> DEFINE S == TurnsOf(p)
<1>1. S \in SUBSET Records /\ IsFiniteSet(S) /\ \A a, b \in S : a.org = b.org
  BY ThreadTurns
<1> HIDE DEF S
<1>2. /\ \A x \in S : Cardinality({i \in DOMAIN InOrder(S) : InOrder(S)[i] = x}) = 1
      /\ \A i, j \in DOMAIN InOrder(S) : i < j => InOrder(S)[i].time <= InOrder(S)[j].time
  BY <1>1, InOrderFacts
<1> QED
  BY <1>2 DEF S, InPlace, StreamSessionTurns

\* A seat's turn has its session in the list of the export.
LEMMA SessionListed ==
  ASSUME NEW p, NEW stored, NEW r \in stored, SessionWhere(p, r)
  PROVE  \E row \in Sessions(p, stored) : row.key = SessionOf(r)
<1> DEFINE S == {x \in stored : SessionWhere(p, x)}
           row == SessionRow(SessionOf(r), {x \in S : SessionOf(x) = SessionOf(r)})
<1>1. r \in S
  OBVIOUS
<1>2. row \in Sessions(p, stored)
  BY <1>1 DEF Sessions
<1>3. row.key = SessionOf(r)
  BY DEF SessionRow
<1> QED
  BY <1>2, <1>3

LEMMA ZipPromptStep ==
  ASSUME Fields, ZipSound, ZipPrompt
  PROVE  ZipSound'
<1>1. /\ auditor.view = "zip" /\ auditor.step = "next" /\ UNCHANGED records
      /\ DOMAIN auditor = {"view", "p", "began", "step", "left", "zip"}
      /\ AskedDomain \subseteq DOMAIN auditor.p
  BY DEF ZipPrompt, Fields
<1>2. PICK row, e :
        /\ row \in auditor.left
        /\ e.session = row.key /\ DOMAIN e = {"name", "session", "text", "turns"}
        /\ auditor' = [auditor EXCEPT
             !.step = "turns", !.p = [auditor.p EXCEPT !.session = row.key],
             !.left = @ \ {row}, !.zip = @ \cup {e}]
  <2>1. PICK row \in auditor.left : LET sp == [auditor.p EXCEPT !.session = row.key]
           IN  auditor' = [auditor EXCEPT
                   !.step = "turns", !.p = sp, !.left = @ \ {row},
                   !.zip = @ \cup {[name |-> SafeFilename(row.key), session |-> row.key,
                                    text |-> SessionSystemText(sp), turns |-> << >>]}]
    BY DEF ZipPrompt
  <2> DEFINE e == [name |-> SafeFilename(row.key), session |-> row.key,
                   text |-> SessionSystemText([auditor.p EXCEPT !.session = row.key]),
                   turns |-> << >>]
  <2>2. e.session = row.key /\ DOMAIN e = {"name", "session", "text", "turns"}
    OBVIOUS
  <2>3. auditor' = [auditor EXCEPT
             !.step = "turns", !.p = [auditor.p EXCEPT !.session = row.key],
             !.left = @ \ {row}, !.zip = @ \cup {e}]
    BY <2>1
  <2> HIDE DEF e
  <2> QED
    BY <2>2, <2>3
<1>3. /\ auditor'.step = "turns" /\ auditor'.p = [auditor.p EXCEPT !.session = row.key]
      /\ auditor'.left = auditor.left \ {row} /\ auditor'.zip = auditor.zip \cup {e}
      /\ auditor'.began = auditor.began
  BY <1>1, <1>2
<1>4. /\ auditor'.p.session = row.key
      /\ \A r : SessionWhere(auditor'.p, r) <=> SessionWhere(auditor.p, r)
  BY <1>1, <1>3 DEF SessionWhere, InRange, AskedDomain
<1>5. ASSUME NEW r \in auditor.began, SessionWhere(auditor.p, r) PROVE OnItsWay(r)'
  <2>1. OnItsWay(r)
    BY <1>1, <1>5 DEF ZipSound
  <2>2. CASE \E x \in auditor.left : x.key = SessionOf(r)
    <3>1. PICK x \in auditor.left : x.key = SessionOf(r)
      BY <2>2
    <3>2. CASE x = row
      BY <1>2, <1>3, <1>4, <3>1, <3>2 DEF OnItsWay
    <3>3. CASE x # row
      BY <1>3, <3>1, <3>3 DEF OnItsWay
    <3> QED
      BY <3>2, <3>3
  <2>3. CASE \E x \in auditor.zip : Carries(x, r)
    BY <1>3, <2>3 DEF OnItsWay
  <2> QED
    BY <1>1, <2>1, <2>2, <2>3 DEF OnItsWay
<1>6. \A x \in auditor'.zip : DOMAIN x = {"name", "session", "text", "turns"}
  BY <1>1, <1>2, <1>3 DEF ZipSound
<1> QED
  BY <1>1, <1>3, <1>4, <1>5, <1>6 DEF ZipSound

LEMMA ZipTurnsStep ==
  ASSUME Stored, Fields, ZipSound, ZipTurns
  PROVE  ZipSound'
<1> DEFINE Filled(e) == IF e.session = auditor.p.session
                        THEN [e EXCEPT !.turns = StreamSessionTurns(auditor.p)]
                        ELSE e
<1>1. /\ auditor.view = "zip" /\ UNCHANGED records
      /\ DOMAIN auditor = {"view", "p", "began", "step", "left", "zip"}
  BY DEF ZipTurns, Fields
<1>2. /\ auditor'.p = auditor.p /\ auditor'.began = auditor.began
      /\ auditor'.left = auditor.left /\ auditor'.zip = {Filled(e) : e \in auditor.zip}
  BY <1>1 DEF ZipTurns
<1>3. ASSUME NEW e \in auditor.zip
      PROVE  /\ DOMAIN Filled(e) = {"name", "session", "text", "turns"}
             /\ Filled(e).session = e.session /\ Filled(e) \in auditor'.zip
             /\ e.session = auditor.p.session =>
                  Filled(e).turns = StreamSessionTurns(auditor.p)
             /\ e.session # auditor.p.session => Filled(e) = e
  BY <1>1, <1>2 DEF ZipSound
<1> HIDE DEF Filled
<1>4. ASSUME NEW r \in auditor.began, SessionWhere(auditor.p, r) PROVE OnItsWay(r)'
  <2>1. OnItsWay(r)
    BY <1>1, <1>4 DEF ZipSound
  <2>2. CASE \E x \in auditor.left : x.key = SessionOf(r)
    BY <1>2, <2>2 DEF OnItsWay
  <2>3. ASSUME NEW e \in auditor.zip, e.session = SessionOf(r),
               e.session = auditor.p.session
        PROVE  OnItsWay(r)'
    <3>1. r \in TurnsOf(auditor.p)
      BY <1>1, <1>4, <2>3 DEF TurnsOf, SessionWhere, ZipSound
    <3>2. InPlace(StreamSessionTurns(auditor.p), r)
      BY <3>1, TurnsInPlace
    <3>3. Filled(e).session = SessionOf(r) /\ Filled(e).turns = StreamSessionTurns(auditor.p)
      BY <1>3, <2>3
    <3>4. Carries(Filled(e), r)
      BY <3>2, <3>3 DEF Carries
    <3> QED
      BY <1>3, <3>4 DEF OnItsWay
  <2>4. ASSUME NEW e \in auditor.zip, Carries(e, r), e.session # auditor.p.session
        PROVE  OnItsWay(r)'
    <3>1. e \in auditor'.zip
      BY <1>3, <2>4
    <3> QED
      BY <2>4, <3>1 DEF OnItsWay
  <2> QED
    BY <2>1, <2>2, <2>3, <2>4 DEF OnItsWay, Carries
<1>5. \A x \in auditor'.zip : DOMAIN x = {"name", "session", "text", "turns"}
  BY <1>2, <1>3
<1> QED
  BY <1>1, <1>2, <1>4, <1>5 DEF ZipSound

LEMMA ZipSoundStep == Stored /\ Fields /\ ZipSound /\ [Next]_vars => ZipSound'
<1> SUFFICES ASSUME Stored, Fields, ZipSound, [Next]_vars PROVE ZipSound'
  OBVIOUS
<1>1. ASSUME UNCHANGED auditor, records \subseteq records' PROVE ZipSound'
  BY <1>1 DEF ZipSound, OnItsWay
<1>2. ASSUME NEW r \in Records, Ingest(r) PROVE ZipSound'
  BY <1>1, <1>2, TurnStored
<1>3. ASSUME auditor'.view # "zip" PROVE ZipSound'
  BY <1>3 DEF ZipSound
<1>4. ASSUME NEW q \in Requests, OpenList(q) PROVE ZipSound'
  BY <1>3, <1>4 DEF OpenList, Count
<1>5. ASSUME TurnPage PROVE ZipSound'
  <2>1. auditor'.view = auditor.p.view /\ auditor.p.view # "zip"
    BY <1>5 DEF TurnPage, Count, Fields, Listing
  <2> QED
    BY <1>3, <2>1
<1>6. ASSUME Show PROVE ZipSound'
  <2>1. auditor'.view = auditor.view /\ auditor.view # "zip"
    BY <1>6 DEF Show, Fields, Listing
  <2> QED
    BY <1>3, <2>1
<1>7. ASSUME NEW q \in Requests, StartZip(q) PROVE ZipSound'
  <2>1. PICK p : /\ UNCHANGED records
                 /\ auditor' = [view |-> "zip", p |-> p, began |-> records, step |-> "next",
                                left |-> Sessions(p, records), zip |-> {}]
    BY <1>7 DEF StartZip
  <2>2. \A r \in records : SessionWhere(p, r) => \E row \in auditor'.left : row.key = SessionOf(r)
    BY <2>1, SessionListed
  <2>3. auditor'.began = records /\ auditor'.p = p /\ auditor'.zip = {}
    BY <2>1
  <2> QED
    BY <2>1, <2>2, <2>3 DEF ZipSound, OnItsWay
<1>8. ASSUME Leave PROVE ZipSound'
  BY <1>3, <1>8 DEF Leave, Closed
<1>9. ASSUME UNCHANGED vars PROVE ZipSound'
  BY <1>1, <1>9 DEF vars
<1> QED
  BY <1>2, <1>4, <1>5, <1>7, <1>8, <1>9, <1>6, ZipPromptStep, ZipTurnsStep DEF Next

\* A finished .zip carries every turn of the range that was there when it was
\* begun, once and in its order, whatever arrived while it was written
\* (conversation_export.go:20).
THEOREM ExportComplete == Spec => []ZipComplete
<1>1. Init => Fields /\ ZipSound
  BY DEF Init, Fields, ZipSound, Listing, Closed
<1>2. ZipSound => ZipComplete
  BY DEF ZipSound, ZipComplete, OnItsWay, Carries, InPlace
<1> QED
  BY <1>1, <1>2, StoredInvariant, FieldsStep, ZipSoundStep, PTL DEF Spec

-----------------------------------------------------------------------------
(* What a row says.                                                        *)

\* What is the greatest is the maximum.
LEMMA GreatestIs ==
  ASSUME NEW S \in SUBSET Nat, IsFiniteSet(S), NEW m \in S, \A x \in S : x <= m
  PROVE  Max(S) = m
<1>1. Max(S) \in S /\ \A x \in S : x <= Max(S)
  BY GreatestFinite
<1>2. Max(S) \in Nat /\ m \in Nat /\ m <= Max(S) /\ Max(S) <= m
  BY <1>1
<1> QED
  BY <1>2

LEMMA SumOfRowTurns ==
  ASSUME NEW S, IsFiniteSet(S), NEW f, \A s \in S : f[s] = s.turns
  PROVE  LET turns(s) == s.turns IN MapThenSumSet(turns, S) = Sum(f, S)
<1> DEFINE turns(s) == s.turns
           Folds(h) == h = [s \in SUBSET S |->
              IF s = {} THEN 0
              ELSE turns(CHOOSE x \in s : TRUE) + h[s \ {CHOOSE x \in s : TRUE}]]
<1>1. ASSUME NEW s \in SUBSET S, s # {}
      PROVE  f[CHOOSE x \in s : TRUE] = turns(CHOOSE x \in s : TRUE)
  <2>1. (CHOOSE x \in s : TRUE) \in S
    BY <1>1
  <2> QED
    BY <2>1
<1>2. \A g : SumsUp(g, f, S) <=> Folds(g)
  BY <1>1 DEF SumsUp
<1>3. PICK g : SumsUp(g, f, S)
  BY SumsUpExists
<1>4. PICK h : Folds(h) /\ MapThenSumSet(turns, S) = h[S]
  <2>1. Folds(g)
    BY <1>2, <1>3
  <2> QED
    BY <2>1 DEF MapThenSumSet, MapThenFoldSet
<1>5. SumsUp(h, f, S)
  BY <1>2, <1>4
<1> HIDE DEF Folds
<1>6. Sum(f, S) = h[S]
  <2>1. S \in SUBSET S /\ IsFiniteSet(S)
    OBVIOUS
  <2> QED
    BY <1>5, <2>1, SumIs
<1> QED
  BY <1>4, <1>6

LEMMA SumOfRowTokens ==
  ASSUME NEW S, IsFiniteSet(S), NEW f, \A s \in S : f[s] = s.tokens
  PROVE  LET tokens(s) == s.tokens IN MapThenSumSet(tokens, S) = Sum(f, S)
<1> DEFINE tokens(s) == s.tokens
           Folds(h) == h = [s \in SUBSET S |->
              IF s = {} THEN 0
              ELSE tokens(CHOOSE x \in s : TRUE) + h[s \ {CHOOSE x \in s : TRUE}]]
<1>1. ASSUME NEW s \in SUBSET S, s # {}
      PROVE  f[CHOOSE x \in s : TRUE] = tokens(CHOOSE x \in s : TRUE)
  <2>1. (CHOOSE x \in s : TRUE) \in S
    BY <1>1
  <2> QED
    BY <2>1
<1>2. \A g : SumsUp(g, f, S) <=> Folds(g)
  BY <1>1 DEF SumsUp
<1>3. PICK g : SumsUp(g, f, S)
  BY SumsUpExists
<1>4. PICK h : Folds(h) /\ MapThenSumSet(tokens, S) = h[S]
  <2>1. Folds(g)
    BY <1>2, <1>3
  <2> QED
    BY <2>1 DEF MapThenSumSet, MapThenFoldSet
<1>5. SumsUp(h, f, S)
  BY <1>2, <1>4
<1> HIDE DEF Folds
<1>6. Sum(f, S) = h[S]
  <2>1. S \in SUBSET S /\ IsFiniteSet(S)
    OBVIOUS
  <2> QED
    BY <1>5, <2>1, SumIs
<1> QED
  BY <1>4, <1>6

TokensOf == [r \in Records |-> r.tokens]

LEMMA TimesFacts ==
  ASSUME NEW T \in SUBSET Records, IsFiniteSet(T), T # {}
  PROVE  /\ Times(T) \in SUBSET Nat /\ IsFiniteSet(Times(T)) /\ Times(T) # {}
         /\ Max(Times(T)) \in Times(T) /\ \A r \in T : r.time <= Max(Times(T))
         /\ Max(Times(T)) \in Nat /\ Min(Times(T)) \in Nat
<1> DEFINE time == [r \in T |-> r.time]
<1>1. Times(T) = {time[r] : r \in T}
  BY DEF Times
<1>2. IsFiniteSet({time[r] : r \in T})
  <2> HIDE DEF time
  <2> QED
    BY Images
<1>3. Times(T) \in SUBSET Nat /\ Times(T) # {} /\ \A r \in T : r.time \in Times(T)
  BY RecordFacts DEF Times
<1>4. Max(Times(T)) \in Times(T) /\ \A x \in Times(T) : x <= Max(Times(T))
  BY <1>1, <1>2, <1>3, GreatestFinite
<1>5. Min(Times(T)) \in Times(T)
  BY <1>3, LeastNatural
<1> QED
  BY <1>1, <1>2, <1>3, <1>4, <1>5

LEMMA TokensFacts ==
  ASSUME NEW T \in SUBSET Records, IsFiniteSet(T)
  PROVE  Tokens(T) = Sum(TokensOf, T) /\ Tokens(T) \in Nat
<1>1. \A r \in T : TokensOf[r] = r.tokens /\ TokensOf[r] \in Nat
  BY RecordFacts DEF TokensOf
<1>2. Tokens(T) = Sum(TokensOf, T)
  BY <1>1, SumOfRowTokens DEF Tokens
<1>3. Sum(TokensOf, T) \in Nat
  <2>1. T \in SUBSET T
    OBVIOUS
  <2> QED
    BY <1>1, <2>1, SumMonotone
<1> QED
  BY <1>2, <1>3

SessionRows(T) ==
  {SessionRow(k, {r \in T : SessionOf(r) = k}) : k \in {SessionOf(r) : r \in T}}

\* What a seat's row says is what those of its sessions add up to.
LEMMA SessionsAddUp ==
  ASSUME NEW T \in SUBSET Records, IsFiniteSet(T), T # {}
  PROVE  LET own       == SessionRows(T)
             turns(s)  == s.turns
             tokens(s) == s.tokens
         IN  /\ Cardinality({SessionOf(r) : r \in T}) = Cardinality(own)
             /\ Cardinality(T) = MapThenSumSet(turns, own)
             /\ Tokens(T) = MapThenSumSet(tokens, own)
             /\ Max(Times(T)) = Max({s.activity : s \in own})
<1> DEFINE own == SessionRows(T)
           K == {SessionOf(r) : r \in T}
           Turns(k) == {r \in T : SessionOf(r) = k}
           row == [k \in K |-> SessionRow(k, Turns(k))]
           key == [r \in T |-> row[SessionOf(r)]]
<1>1. own = {row[k] : k \in K} /\ \A k \in K : row[k] = SessionRow(k, Turns(k))
  BY DEF SessionRows
<1>2. IsFiniteSet(K)
  <2> DEFINE session == [r \in T |-> SessionOf(r)]
  <2>1. K = {session[r] : r \in T}
    OBVIOUS
  <2> HIDE DEF session, K
  <2> QED
    BY <2>1, Images
<1>3. \A k \in K : Turns(k) \in SUBSET Records /\ IsFiniteSet(Turns(k)) /\ Turns(k) # {}
  BY FS_Subset
<1>4. \A k \in K : /\ row[k].key = k /\ row[k].turns = Cardinality(Turns(k))
                   /\ row[k].tokens = Tokens(Turns(k))
                   /\ row[k].activity = Max(Times(Turns(k)))
  BY <1>1 DEF SessionRow
<1>5. \A r \in T : SessionOf(r) \in K /\ r \in Turns(SessionOf(r)) /\ key[r] = row[SessionOf(r)]
  OBVIOUS
<1>6. \A k \in K : Turns(k) = {r \in T : key[r] = row[k]}
  <2> SUFFICES ASSUME NEW k \in K, NEW r \in T PROVE SessionOf(r) = k <=> key[r] = row[k]
    OBVIOUS
  <2> HIDE DEF row, key, K
  <2> QED
    BY <1>4, <1>5
<1> HIDE DEF row, key, K, own
<1>7. /\ IsFiniteSet(own) /\ Cardinality(own) = Cardinality(K)
      /\ \A r \in T : key[r] \in own
  <2>1. \A x, y \in K : row[x] = row[y] => x = y
    BY <1>4
  <2>2. IsFiniteSet({row[k] : k \in K}) /\ Cardinality({row[k] : k \in K}) = Cardinality(K)
    BY <1>2, <2>1, Images
  <2> QED
    BY <1>1, <1>5, <2>2
<1>8. Cardinality(T) = LET turns(s) == s.turns IN MapThenSumSet(turns, own)
  <2> DEFINE ones == [r \in T |-> 1]
             perRow == [s \in own |-> Sum(ones, {r \in T : key[r] = s})]
  <2>1. \A r \in T : ones[r] = 1
    OBVIOUS
  <2> HIDE DEF ones
  <2>2. Sum(ones, T) = Cardinality(T)
    BY <2>1, SumOfOnes
  <2>3. Sum(perRow, own) = Sum(ones, T)
    BY <1>7, <2>1, SumOfGroups
  <2>4. \A s \in own : perRow[s] = s.turns
    <3> SUFFICES ASSUME NEW k \in K PROVE perRow[row[k]] = row[k].turns
      BY <1>1
    <3>1. perRow[row[k]] = Sum(ones, Turns(k))
      BY <1>1, <1>6
    <3>2. Sum(ones, Turns(k)) = Cardinality(Turns(k))
      <4>1. \A r \in Turns(k) : ones[r] = 1
        BY <2>1
      <4> HIDE DEF Turns
      <4> QED
        BY <1>3, <4>1, SumOfOnes
    <3> QED
      BY <1>4, <3>1, <3>2
  <2> HIDE DEF perRow
  <2> QED
    BY <1>7, <2>2, <2>3, <2>4, SumOfRowTurns
<1>9. Tokens(T) = LET tokens(s) == s.tokens IN MapThenSumSet(tokens, own)
  <2> DEFINE perRow == [s \in own |-> Sum(TokensOf, {r \in T : key[r] = s})]
  <2>1. \A r \in T : TokensOf[r] \in Int
    BY RecordFacts DEF TokensOf
  <2>2. Sum(perRow, own) = Sum(TokensOf, T)
    BY <1>7, <2>1, SumOfGroups
  <2>3. \A s \in own : perRow[s] = s.tokens
    <3> SUFFICES ASSUME NEW k \in K PROVE perRow[row[k]] = row[k].tokens
      BY <1>1
    <3>1. perRow[row[k]] = Sum(TokensOf, Turns(k))
      BY <1>1, <1>6
    <3>2. Sum(TokensOf, Turns(k)) = Tokens(Turns(k))
      <4> HIDE DEF Turns
      <4> QED
        BY <1>3, TokensFacts
    <3> QED
      BY <1>4, <3>1, <3>2
  <2> HIDE DEF perRow
  <2> QED
    BY <1>7, <2>2, <2>3, SumOfRowTokens, TokensFacts
<1>10. Max(Times(T)) = Max({s.activity : s \in own})
  <2> DEFINE A == {s.activity : s \in own}
  <2>1. Max(Times(T)) \in Times(T) /\ \A r \in T : r.time <= Max(Times(T)) /\ r.time \in Nat
    BY TimesFacts, RecordFacts
  <2>2. PICK last \in T : last.time = Max(Times(T))
    BY <2>1 DEF Times
  <2>3. ASSUME NEW k \in K
        PROVE  /\ row[k].activity \in Nat /\ row[k].activity <= Max(Times(T))
               /\ \A r \in Turns(k) : r.time <= row[k].activity
    <3>1. /\ Max(Times(Turns(k))) \in Times(Turns(k))
          /\ \A r \in Turns(k) : r.time <= Max(Times(Turns(k)))
      <4> HIDE DEF Turns
      <4> QED
        BY <1>3, TimesFacts
    <3>2. PICK r \in Turns(k) : r.time = Max(Times(Turns(k)))
      BY <3>1 DEF Times
    <3> QED
      BY <1>4, <2>1, <3>1, <3>2
  <2>4. row[SessionOf(last)].activity = Max(Times(T))
    BY <1>5, <2>1, <2>2, <2>3
  <2>5. A \in SUBSET Nat /\ Max(Times(T)) \in A /\ \A x \in A : x <= Max(Times(T))
    BY <1>1, <1>5, <2>3, <2>4
  <2>6. IsFiniteSet(A)
    <3> DEFINE active == [s \in own |-> s.activity]
    <3>1. A = {active[s] : s \in own}
      OBVIOUS
    <3> HIDE DEF active, A
    <3> QED
      BY <1>7, <3>1, Images
  <2> HIDE DEF A
  <2>7. Max(A) = Max(Times(T))
    BY <2>5, <2>6, GreatestIs
  <2> QED
    BY <2>7 DEF A
<1> QED
  BY <1>7, <1>8, <1>9, <1>10 DEF own, K

-----------------------------------------------------------------------------
(* The views of a seat.                                                    *)

Allows(p, k) == p.search => k \in p.keys \/ (p.term # << >> /\ Like(k, p.term))

SeatTurns(p, stored, k) == {r \in stored : SeatWhere(p, r) /\ SeatKey(r) = k}

LEMMA SeatRows ==
  ASSUME NEW p, NEW stored
  PROVE  /\ \A row \in Seats(p, stored) :
              /\ row = SeatRow(row.key, SeatTurns(p, stored, row.key))
              /\ SeatTurns(p, stored, row.key) # {}
         /\ \A k : SeatTurns(p, stored, k) # {} =>
              SeatRow(k, SeatTurns(p, stored, k)) \in Seats(p, stored)
<1> DEFINE S == {r \in stored : SeatWhere(p, r)}
<1>1. \A k : {r \in S : SeatKey(r) = k} = SeatTurns(p, stored, k)
  BY DEF SeatTurns
<1>2. Seats(p, stored) = {SeatRow(k, SeatTurns(p, stored, k)) : k \in {SeatKey(r) : r \in S}}
  BY <1>1 DEF Seats
<1>3. ASSUME NEW row \in Seats(p, stored)
      PROVE  /\ row = SeatRow(row.key, SeatTurns(p, stored, row.key))
             /\ SeatTurns(p, stored, row.key) # {}
  <2>1. PICK x \in S : row = SeatRow(SeatKey(x), SeatTurns(p, stored, SeatKey(x)))
    BY <1>2
  <2>2. row.key = SeatKey(x)
    BY <2>1 DEF SeatRow
  <2>3. x \in SeatTurns(p, stored, row.key)
    BY <2>2 DEF SeatTurns
  <2> QED
    BY <2>1, <2>2, <2>3
<1>4. ASSUME NEW k, SeatTurns(p, stored, k) # {}
      PROVE  SeatRow(k, SeatTurns(p, stored, k)) \in Seats(p, stored)
  <2>1. k \in {SeatKey(r) : r \in S}
    BY <1>4 DEF SeatTurns
  <2> QED
    BY <1>2, <2>1
<1> QED
  BY <1>3, <1>4

\* Two lists that allow a seat say the same of it.
LEMMA SameSeat ==
  ASSUME NEW p, NEW q, q.org = p.org, q.start = p.start, q.end = p.end,
         NEW k, Allows(p, k), Allows(q, k), NEW stored
  PROVE  SeatTurns(q, stored, k) = SeatTurns(p, stored, k)
BY DEF SeatTurns, SeatWhere, InRange, Allows

LEMMA SeatAllowed ==
  ASSUME NEW p, NEW k, NEW stored, SeatTurns(p, stored, k) # {}
  PROVE  Allows(p, k)
BY DEF SeatTurns, SeatWhere, Allows

\* A label contains itself, in either case.
LEMMA FoundByLabel ==
  ASSUME NEW s \in Strings, s # << >>
  PROVE  /\ Like(s, s) /\ Like(s, Lowered(s)) /\ Lowered(s) # << >>
<1>1. Len(s) \in Nat /\ DOMAIN s = 1 .. Len(s) /\ \A i \in 1 .. Len(s) : s[i] \in DOMAIN Lower
  BY DEF Strings
<1>2. /\ Lowered(s) \in Strings /\ Len(Lowered(s)) = Len(s)
      /\ \A i \in 1 .. Len(s) : Lowered(s)[i] = Lower[s[i]]
  <2>1. Lowered(s) \in [1 .. Len(s) -> DOMAIN Lower]
    BY <1>1, LowerAssumption DEF Lowered
  <2> QED
    BY <1>1, <2>1 DEF Lowered, Strings
<1>3. SubSeq(Lowered(s), 1, Len(s)) = Lowered(s)
  BY <1>2, SubSeqFull DEF Strings
<1>4. Lowered(Lowered(s)) = Lowered(s)
  <2>1. DOMAIN Lowered(s) = 1 .. Len(s)
    BY <1>1 DEF Lowered
  <2>2. \A i \in 1 .. Len(s) : Lower[Lowered(s)[i]] = Lowered(s)[i]
    BY <1>1, <1>2, LowerAssumption
  <2>3. Lowered(Lowered(s)) = [i \in 1 .. Len(s) |-> Lower[Lowered(s)[i]]]
    BY <2>1 DEF Lowered
  <2>4. Lowered(s) = [i \in 1 .. Len(s) |-> Lowered(s)[i]]
    BY <1>1 DEF Lowered
  <2> QED
    BY <2>2, <2>3, <2>4
<1>5. Lowered(s) # << >>
  <2>1. Len(s) # 0
    BY EmptySeq DEF Strings
  <2> QED
    BY <1>2, <2>1
<1>6. 0 \in 0 .. Len(s) - Len(s) /\ 0 + 1 = 1 /\ 0 + Len(s) = Len(s)
  BY <1>1
<1> QED
  BY <1>2, <1>3, <1>4, <1>5, <1>6 DEF Like

LEMMA SearchFinds ==
  ASSUME Stored, NEW p \in Asked
  PROVE  LET open == [p EXCEPT !.search = FALSE, !.keys = {}, !.term = << >>]
             search(term) == [open EXCEPT !.search = TRUE, !.term = term]
         IN  /\ Seats(p, records) \subseteq Seats(open, records)
             /\ \A row \in {x \in Seats(open, records) : x.key # << >>} :
                    /\ row \in Seats(search(row.key), records)
                    /\ row \in Seats(search(Lowered(row.key)), records)
<1> DEFINE open == [p EXCEPT !.search = FALSE, !.keys = {}, !.term = << >>]
           search(term) == [open EXCEPT !.search = TRUE, !.term = term]
<1>1. /\ open.org = p.org /\ open.start = p.start /\ open.end = p.end /\ ~open.search
      /\ \A term : /\ search(term).org = p.org /\ search(term).start = p.start
                   /\ search(term).end = p.end /\ search(term).term = term
  BY AskedFields DEF AskedDomain
<1> HIDE DEF open, search
<1>2. \A k : Allows(open, k)
  BY <1>1 DEF Allows
<1>3. ASSUME NEW row \in Seats(p, records) PROVE row \in Seats(open, records)
  <2> DEFINE k == row.key
  <2>1. row = SeatRow(k, SeatTurns(p, records, k)) /\ SeatTurns(p, records, k) # {}
    BY SeatRows
  <2> HIDE DEF k
  <2>2. SeatTurns(open, records, k) = SeatTurns(p, records, k)
    BY <1>1, <1>2, <2>1, SeatAllowed, SameSeat
  <2> QED
    BY <2>1, <2>2, SeatRows
<1>4. ASSUME NEW row \in Seats(open, records), NEW term, term # << >>, Like(row.key, term)
      PROVE  row \in Seats(search(term), records)
  <2> DEFINE k == row.key
             q == search(term)
  <2>1. row = SeatRow(k, SeatTurns(open, records, k)) /\ SeatTurns(open, records, k) # {}
    BY SeatRows
  <2>2. /\ Allows(q, k) /\ q.org = open.org /\ q.start = open.start /\ q.end = open.end
    BY <1>1, <1>4 DEF Allows
  <2> HIDE DEF k, q
  <2>3. SeatTurns(q, records, k) = SeatTurns(open, records, k)
    BY <1>2, <2>2, SameSeat
  <2>4. row \in Seats(q, records)
    BY <2>1, <2>3, SeatRows
  <2> QED
    BY <2>4 DEF q
<1>5. ASSUME NEW row \in Seats(open, records) PROVE row.key \in Strings
  <2>1. SeatTurns(open, records, row.key) # {}
    BY SeatRows
  <2>2. PICK r \in records : SeatKey(r) = row.key
    BY <2>1 DEF SeatTurns
  <2> QED
    BY <2>2, RecordFacts DEF Stored
<1>6. ASSUME NEW row \in Seats(open, records), row.key # << >>
      PROVE  /\ row \in Seats(search(row.key), records)
             /\ row \in Seats(search(Lowered(row.key)), records)
  BY <1>4, <1>5, <1>6, FoundByLabel
<1> QED
  BY <1>3, <1>6 DEF open, search

LEMMA PageOf ==
  ASSUME NEW n \in Nat \ {0}, NEW k \in Nat, NEW i \in Nat \ {0}
  PROVE  (i - 1) \div n = k <=> (k * n + 1 <= i /\ i <= k * n + n)
OBVIOUS

LEMMA ThreadSlice ==
  ASSUME Stored, NEW p, NEW skip \in Nat, NEW n \in Nat,
         p.offset = skip, ClampLimit(p.limit, TurnLimit) = n
  PROVE  LET all   == StreamSessionTurns(p)
             page  == ThreadDetail(p).turns
             there == {i \in DOMAIN all : skip + 1 <= i /\ i <= skip + n}
         IN  /\ DOMAIN page = {i - skip : i \in there}
             /\ \A i \in there : page[i - skip] = all[i]
<1> DEFINE S == TurnsOf(p)
           all == InOrder(S)
           len == Len(all)
           end == Min({skip + n, len})
           first == skip + 1
           page == SubSeq(all, first, end)
           there == {i \in DOMAIN all : first <= i /\ i <= skip + n}
<1>1. S \in SUBSET Records /\ IsFiniteSet(S) /\ \A a, b \in S : a.org = b.org
  BY ThreadTurns
<1>2. /\ all \in [1 .. len -> S] /\ len \in Nat /\ DOMAIN all = 1 .. len
  <2>1. all \in Seq(S) /\ len \in Nat
    <3> HIDE DEF S
    <3> QED
      BY <1>1, InOrderFacts
  <2> HIDE DEF all
  <2> QED
    BY <2>1
<1>3. ThreadDetail(p).turns = page /\ StreamSessionTurns(p) = all
  BY DEF ThreadDetail, StreamSessionTurns
<1> HIDE DEF S, all, len
<1>4. /\ end \in Nat /\ end <= skip + n /\ end <= len
      /\ end = skip + n \/ end = len
  <2> DEFINE ends == {skip + n, len}
  <2>1. ends \in SUBSET Nat /\ ends # {}
    BY <1>2
  <2> HIDE DEF ends
  <2>2. Min(ends) \in ends /\ \A x \in ends : Min(ends) <= x
    BY <2>1, LeastNatural
  <2> QED
    BY <1>2, <2>1, <2>2 DEF ends
<1> HIDE DEF end
<1>5. first \in Nat /\ first = skip + 1 /\ \A i \in first .. end : i \in 1 .. len
  BY <1>2, <1>4
<1>6. /\ Len(page) = IF first <= end THEN end - first + 1 ELSE 0
      /\ page \in Seq(S)
      /\ \A i \in 1 .. end - first + 1 : page[i] = all[first + i - 1]
  <2>1. \A i \in first .. end : all[i] \in S
    BY <1>2, <1>5
  <2> HIDE DEF first
  <2> QED
    BY <1>4, <1>5, <2>1, SubSeqProperties
<1>7. /\ \A i \in there : i \in first .. end
      /\ \A i \in first .. end : i \in there
  BY <1>2, <1>4
<1> HIDE DEF page, there, first
<1>8. DOMAIN page = 1 .. (end - skip)
  <2>1. Len(page) = IF first <= end THEN end - skip ELSE 0
    BY <1>4, <1>5, <1>6
  <2>2. DOMAIN page = 1 .. Len(page)
    BY <1>6
  <2> QED
    BY <1>4, <1>5, <2>1, <2>2
<1>9. ASSUME NEW i \in there
      PROVE  i - skip \in 1 .. (end - skip) /\ page[i - skip] = all[i]
  <2>1. i \in first .. end
    BY <1>7
  <2>2. i - skip \in 1 .. end - first + 1 /\ first + (i - skip) - 1 = i
    BY <1>4, <1>5, <2>1
  <2>3. i - skip \in 1 .. (end - skip)
    BY <1>4, <1>5, <2>1
  <2> QED
    BY <1>6, <2>2, <2>3
<1>10. ASSUME NEW j \in 1 .. (end - skip) PROVE skip + j \in there /\ j = (skip + j) - skip
  <2>1. skip + j \in first .. end /\ j = (skip + j) - skip
    BY <1>4, <1>5
  <2> QED
    BY <1>7, <2>1
<1>11. 1 .. (end - skip) = {i - skip : i \in there}
  BY <1>9, <1>10
<1>12. DOMAIN page = {i - skip : i \in there} /\ \A i \in there : page[i - skip] = all[i]
  BY <1>8, <1>9, <1>11
<1> QED
  BY <1>3, <1>12 DEF there, first

\* Every turn of a thread is on one of its pages, in its place.
LEMMA ThreadPage ==
  ASSUME Stored, NEW p, NEW k \in Nat, p.limit = 0, p.offset = k * TurnLimit
  PROVE  LET all   == StreamSessionTurns(p)
             page  == ThreadDetail(p).turns
             there == {i \in DOMAIN all : (i - 1) \div TurnLimit = k}
         IN  /\ DOMAIN page = {i - k * TurnLimit : i \in there}
             /\ \A i \in there : page[i - k * TurnLimit] = all[i]
<1> DEFINE all == StreamSessionTurns(p)
           page == ThreadDetail(p).turns
           skip == k * TurnLimit
           On(i) == (i - 1) \div TurnLimit = k
           there == {i \in DOMAIN all : On(i)}
<1>1. TurnLimit \in Nat /\ skip \in Nat /\ p.offset = skip
  BY LimitAssumption
<1>2. \A i \in Nat \ {0} : On(i) <=> (skip + 1 <= i /\ i <= skip + TurnLimit)
  BY LimitAssumption, PageOf
<1>3. ClampLimit(p.limit, TurnLimit) = TurnLimit
  BY DEF ClampLimit
<1>4. \A i \in DOMAIN all : i \in Nat \ {0}
  <2>1. /\ TurnsOf(p) \in SUBSET Records /\ IsFiniteSet(TurnsOf(p))
        /\ \A a, b \in TurnsOf(p) : a.org = b.org
    BY ThreadTurns
  <2>2. DOMAIN all = 1 .. Cardinality(TurnsOf(p)) /\ Cardinality(TurnsOf(p)) \in Nat
    BY <2>1, InOrderFacts DEF StreamSessionTurns
  <2> QED
    BY <2>2
<1> HIDE DEF all, page, skip, On
<1>5. there = {i \in DOMAIN all : skip + 1 <= i /\ i <= skip + TurnLimit}
  BY <1>2, <1>4
<1> HIDE DEF there
<1>6. DOMAIN page = {i - skip : i \in there} /\ \A i \in there : page[i - skip] = all[i]
  BY <1>1, <1>3, <1>5, ThreadSlice DEF all, page
<1> QED
  BY <1>6 DEF all, page, skip, On, there

\* The sessions of a seat are those of the turns its row counts.
LEMMA OwnSessions ==
  ASSUME Stored, NEW p \in Asked, NEW row \in Seats(p, records)
  PROVE  LET T == SeatTurns(p, records, row.key)
         IN  /\ Sessions([p EXCEPT !.owner = row.key], records) = SessionRows(T)
             /\ T \in SUBSET Records /\ IsFiniteSet(T) /\ T # {}
             /\ row = SeatRow(row.key, T)
<1> DEFINE T == SeatTurns(p, records, row.key)
           q == [p EXCEPT !.owner = row.key]
           S == {r \in records : SessionWhere(q, r)}
<1>1. /\ q.org = p.org /\ q.start = p.start /\ q.end = p.end /\ q.owner = row.key
  BY AskedFields DEF AskedDomain
<1> HIDE DEF q
<1>2. row = SeatRow(row.key, T) /\ T # {} /\ Allows(p, row.key)
  BY SeatRows, SeatAllowed
<1>3. T \in SUBSET Records /\ IsFiniteSet(T)
  <2>1. T \subseteq records
    BY DEF SeatTurns
  <2> HIDE DEF T
  <2> QED
    BY <2>1, FS_Subset DEF Stored
<1>4. S = T
  BY <1>1, <1>2 DEF SeatTurns, SessionWhere, SeatWhere, InRange, Allows
<1>5. Sessions(q, records) = SessionRows(S)
  BY DEF Sessions, SessionRows
<1> QED
  BY <1>2, <1>3, <1>4, <1>5 DEF q

LEMMA SeatAddsUp ==
  ASSUME Stored, NEW p \in Asked, NEW row \in Seats(p, records)
  PROVE  LET own       == Sessions([p EXCEPT !.owner = row.key], records)
             turns(s)  == s.turns
             tokens(s) == s.tokens
         IN  /\ row.sessions = Cardinality(own)
             /\ row.turns = MapThenSumSet(turns, own)
             /\ row.tokens = MapThenSumSet(tokens, own)
             /\ row.activity = Max({s.activity : s \in own})
<1> DEFINE T == SeatTurns(p, records, row.key)
<1>1. /\ Sessions([p EXCEPT !.owner = row.key], records) = SessionRows(T)
      /\ T \in SUBSET Records /\ IsFiniteSet(T) /\ T # {} /\ row = SeatRow(row.key, T)
  BY OwnSessions
<1> HIDE DEF T
<1>2. /\ row.sessions = Cardinality({SessionOf(r) : r \in T}) /\ row.turns = Cardinality(T)
      /\ row.tokens = Tokens(T) /\ row.activity = Max(Times(T))
  BY <1>1 DEF SeatRow
<1> QED
  BY <1>1, <1>2, SessionsAddUp

LEMMA ThreadAgrees ==
  ASSUME Stored, NEW p \in Asked, p.start = Unbounded, p.end = Unbounded,
         NEW row \in Seats(p, records),
         NEW s \in Sessions([p EXCEPT !.owner = row.key], records)
  PROVE  LET at(offset) == [p EXCEPT !.owner = row.key, !.session = s.key,
                                     !.offset = offset, !.limit = 0]
             all == StreamSessionTurns(at(0))
         IN  /\ Len(all) = s.turns
             /\ \A k \in 0 .. s.turns :
                    LET page  == ThreadDetail(at(k * TurnLimit)).turns
                        there == {i \in DOMAIN all : (i - 1) \div TurnLimit = k}
                    IN  /\ DOMAIN page = {i - k * TurnLimit : i \in there}
                        /\ \A i \in there : page[i - k * TurnLimit] = all[i]
<1> DEFINE T == SeatTurns(p, records, row.key)
           at(offset) == [p EXCEPT !.owner = row.key, !.session = s.key,
                                   !.offset = offset, !.limit = 0]
           own == {r \in T : SessionOf(r) = s.key}
<1>1. /\ Sessions([p EXCEPT !.owner = row.key], records) = SessionRows(T)
      /\ T # {} /\ Allows(p, row.key)
  BY OwnSessions, SeatRows, SeatAllowed
<1>2. s.turns = Cardinality(own)
  <2>1. PICK k : s = SessionRow(k, {r \in T : SessionOf(r) = k})
    BY <1>1 DEF SessionRows
  <2>2. s.key = k
    BY <2>1 DEF SessionRow
  <2> QED
    BY <2>1, <2>2 DEF SessionRow
<1>3. ASSUME NEW offset
      PROVE  /\ at(offset).offset = offset /\ at(offset).limit = 0
             /\ at(offset).org = p.org /\ at(offset).owner = row.key
             /\ at(offset).session = s.key
  BY AskedFields DEF AskedDomain
<1> HIDE DEF at
<1>4. ASSUME NEW offset PROVE TurnsOf(at(offset)) = own
  BY <1>1, <1>3 DEF TurnsOf, SeatTurns, SeatWhere, InRange, Allows
<1> HIDE DEF own, T
<1>5. \A offset : StreamSessionTurns(at(offset)) = InOrder(own)
  BY <1>4 DEF StreamSessionTurns
<1>6. Len(InOrder(own)) = Cardinality(own) /\ Cardinality(own) \in Nat
  <2>1. /\ own \in SUBSET Records /\ IsFiniteSet(own) /\ \A a, b \in own : a.org = b.org
    BY <1>4, ThreadTurns
  <2> QED
    BY <2>1, InOrderFacts
<1>7. ASSUME NEW k \in 0 .. s.turns
      PROVE  LET all   == StreamSessionTurns(at(0))
                 page  == ThreadDetail(at(k * TurnLimit)).turns
                 there == {i \in DOMAIN all : (i - 1) \div TurnLimit = k}
             IN  /\ DOMAIN page = {i - k * TurnLimit : i \in there}
                 /\ \A i \in there : page[i - k * TurnLimit] = all[i]
  <2> DEFINE q == at(k * TurnLimit)
  <2>1. k \in Nat /\ q.limit = 0 /\ q.offset = k * TurnLimit
    BY <1>2, <1>3, <1>6
  <2>2. StreamSessionTurns(q) = StreamSessionTurns(at(0))
    BY <1>5
  <2> HIDE DEF q
  <2>3. LET all   == StreamSessionTurns(q)
            page  == ThreadDetail(q).turns
            there == {i \in DOMAIN all : (i - 1) \div TurnLimit = k}
        IN  /\ DOMAIN page = {i - k * TurnLimit : i \in there}
            /\ \A i \in there : page[i - k * TurnLimit] = all[i]
    BY <2>1, ThreadPage
  <2> QED
    BY <2>2, <2>3 DEF q
<1>8. Len(StreamSessionTurns(at(0))) = s.turns
  BY <1>2, <1>5, <1>6
<1> QED
  BY <1>7, <1>8 DEF at

\* What the list of seats says of a seat is what its sessions add up to, and they
\* to the turns of their threads and of their exports; every turn of a thread is
\* on one of its pages; and a search finds what is shown (repository_sql.go:131).
THEOREM SeatViewsAgree == Spec => []ViewsAgree
<1>1. Stored => SearchFindsShown
  BY SearchFinds DEF SearchFindsShown
<1>2. Stored => ViewsAgree
  <2> SUFFICES ASSUME Stored PROVE ViewsAgree
    OBVIOUS
  <2>1. ASSUME NEW p \in Asked, NEW row \in Seats(p, records)
        PROVE  LET own       == Sessions([p EXCEPT !.owner = row.key], records)
                   turns(s)  == s.turns
                   tokens(s) == s.tokens
               IN  /\ row.sessions = Cardinality(own)
                   /\ row.turns = MapThenSumSet(turns, own)
                   /\ row.tokens = MapThenSumSet(tokens, own)
                   /\ row.activity = Max({s.activity : s \in own})
    BY SeatAddsUp
  <2>2. ASSUME NEW p \in Asked, NEW row \in Seats(p, records),
               p.start = Unbounded, p.end = Unbounded,
               NEW s \in Sessions([p EXCEPT !.owner = row.key], records)
        PROVE  LET at(offset) == [p EXCEPT !.owner = row.key, !.session = s.key,
                                           !.offset = offset, !.limit = 0]
                   all == StreamSessionTurns(at(0))
               IN  /\ Len(all) = s.turns
                   /\ \A k \in 0 .. s.turns :
                          LET page  == ThreadDetail(at(k * TurnLimit)).turns
                              there == {i \in DOMAIN all : (i - 1) \div TurnLimit = k}
                          IN  /\ DOMAIN page = {i - k * TurnLimit : i \in there}
                              /\ \A i \in there : page[i - k * TurnLimit] = all[i]
    BY <2>2, ThreadAgrees
  <2> QED
    BY <1>1, <2>1, <2>2, Zenon DEF ViewsAgree
<1> QED
  BY <1>2, StoredInvariant, PTL

-----------------------------------------------------------------------------
(* The order of a list.                                                    *)

SessionTurns(p, stored, k) == {r \in stored : SessionWhere(p, r) /\ SessionOf(r) = k}

LEMMA SessionRowsOf ==
  ASSUME NEW p, NEW stored, NEW row \in Sessions(p, stored)
  PROVE  /\ row = SessionRow(row.key, SessionTurns(p, stored, row.key))
         /\ SessionTurns(p, stored, row.key) # {}
<1> DEFINE S == {r \in stored : SessionWhere(p, r)}
<1>1. \A k : {r \in S : SessionOf(r) = k} = SessionTurns(p, stored, k)
  BY DEF SessionTurns
<1>2. PICK x \in S : row = SessionRow(SessionOf(x), SessionTurns(p, stored, SessionOf(x)))
  BY <1>1 DEF Sessions
<1>3. row.key = SessionOf(x)
  BY <1>2 DEF SessionRow
<1>4. x \in SessionTurns(p, stored, row.key)
  BY <1>3 DEF SessionTurns
<1> QED
  BY <1>2, <1>3, <1>4

\* What a row counts is a number.
LEMMA SeatRowFacts ==
  ASSUME NEW D \in SUBSET Records, IsFiniteSet(D), NEW p, NEW row \in Seats(p, D)
  PROVE  /\ row.key \in Strings
         /\ row.sessions \in Nat /\ row.turns \in Nat
         /\ row.tokens \in Nat /\ row.activity \in Nat
<1> DEFINE T == SeatTurns(p, D, row.key)
<1>1. row = SeatRow(row.key, T) /\ T # {}
  BY SeatRows
<1>2. T \in SUBSET Records /\ IsFiniteSet(T) /\ \A r \in T : SeatKey(r) = row.key
  <2>1. T \subseteq D /\ \A r \in T : SeatKey(r) = row.key
    BY DEF SeatTurns
  <2> HIDE DEF T
  <2> QED
    BY <2>1, FS_Subset
<1> HIDE DEF T
<1>3. row.key \in Strings
  BY <1>1, <1>2, RecordFacts
<1>4. Cardinality({SessionOf(r) : r \in T}) \in Nat
  <2> DEFINE session == [r \in T |-> SessionOf(r)]
  <2>1. {SessionOf(r) : r \in T} = {session[r] : r \in T}
    OBVIOUS
  <2> HIDE DEF session
  <2>2. IsFiniteSet({session[r] : r \in T})
    BY <1>2, Images
  <2> QED
    BY <2>1, <2>2, FS_CardinalityType
<1>5. Cardinality(T) \in Nat /\ Tokens(T) \in Nat /\ Max(Times(T)) \in Nat
  BY <1>1, <1>2, FS_CardinalityType, TokensFacts, TimesFacts
<1>6. /\ row.sessions = Cardinality({SessionOf(r) : r \in T}) /\ row.turns = Cardinality(T)
      /\ row.tokens = Tokens(T) /\ row.activity = Max(Times(T))
  BY <1>1 DEF SeatRow
<1> QED
  BY <1>3, <1>4, <1>5, <1>6

LEMMA SessionRowFacts ==
  ASSUME NEW D \in SUBSET Records, IsFiniteSet(D), NEW p, NEW row \in Sessions(p, D)
  PROVE  /\ row.created \in Nat /\ row.turns \in Nat
         /\ row.tokens \in Nat /\ row.activity \in Nat
<1> DEFINE T == SessionTurns(p, D, row.key)
<1>1. row = SessionRow(row.key, T) /\ T # {}
  BY SessionRowsOf
<1>2. T \in SUBSET Records /\ IsFiniteSet(T)
  <2>1. T \subseteq D
    BY DEF SessionTurns
  <2> HIDE DEF T
  <2> QED
    BY <2>1, FS_Subset
<1> HIDE DEF T
<1>3. /\ Cardinality(T) \in Nat /\ Tokens(T) \in Nat
      /\ Max(Times(T)) \in Nat /\ Min(Times(T)) \in Nat
  BY <1>1, <1>2, FS_CardinalityType, TokensFacts, TimesFacts
<1>4. /\ row.created = Min(Times(T)) /\ row.turns = Cardinality(T)
      /\ row.tokens = Tokens(T) /\ row.activity = Max(Times(T))
  BY <1>1 DEF SessionRow
<1> QED
  BY <1>3, <1>4

LEMMA RowsFinite ==
  ASSUME NEW D \in SUBSET Records, IsFiniteSet(D), NEW p
  PROVE  IsFiniteSet(Rows(p, D))
<1> DEFINE S == {r \in D : SeatWhere(p, r)}
           seat == [r \in S |-> SeatRow(SeatKey(r), {x \in S : SeatKey(x) = SeatKey(r)})]
           V == {r \in D : SessionWhere(p, r)}
           session == [r \in V |->
                         SessionRow(SessionOf(r), {x \in V : SessionOf(x) = SessionOf(r)})]
<1>1. Seats(p, D) = {seat[r] : r \in S}
  BY DEF Seats
<1>2. Sessions(p, D) = {session[r] : r \in V}
  BY DEF Sessions
<1>3. IsFiniteSet(S) /\ IsFiniteSet(V)
  BY FS_Subset
<1> HIDE DEF S, seat, V, session
<1>4. IsFiniteSet(Seats(p, D)) /\ IsFiniteSet(Sessions(p, D))
  BY <1>1, <1>2, <1>3, Images
<1> QED
  BY <1>4 DEF Rows

\* The two orders are lexicographic.
LEMMA SeatOrder ==
  ASSUME NEW p
  PROVE  \E c \in SeatSortCols : \A a, b :
           SeatBefore(p, a, b) <=>
             \/ Ascending(p, SeatSortCols) /\ a[c] < b[c]
             \/ ~Ascending(p, SeatSortCols) /\ a[c] > b[c]
             \/ /\ a[c] = b[c]
                /\ \/ a.activity > b.activity
                   \/ a.activity = b.activity /\ Precedes(a.key, b.key)
<1> DEFINE c == IF p.sort \in SeatSortCols THEN p.sort ELSE "tokens"
<1>1. c \in SeatSortCols
  BY DEF SeatSortCols
<1> QED
  BY <1>1 DEF SeatBefore, OrderBy

LEMMA SessionOrder ==
  ASSUME NEW p
  PROVE  \E c \in SessionSortCols : \A a, b :
           SessionBefore(p, a, b) <=>
             \/ Ascending(p, SessionSortCols) /\ a[c] < b[c]
             \/ ~Ascending(p, SessionSortCols) /\ a[c] > b[c]
             \/ a[c] = b[c] /\ a.created > b.created
<1> DEFINE c == IF p.sort \in SessionSortCols THEN p.sort ELSE "activity"
<1>1. c \in SessionSortCols
  BY DEF SessionSortCols
<1> QED
  BY <1>1 DEF SessionBefore, OrderBy

Order(p, D) == {e \in Rows(p, D) \X Rows(p, D) : Before(p, e[1], e[2])}

\* A row does not stand before itself, and stands before what stands after the
\* rows it stands before.
LEMMA OrderStrict ==
  ASSUME NEW D \in SUBSET Records, IsFiniteSet(D), NEW p
  PROVE  /\ \A x \in Rows(p, D) : ~Before(p, x, x)
         /\ \A x, y, z \in Rows(p, D) : Before(p, x, y) /\ Before(p, y, z) => Before(p, x, z)
<1>1. ASSUME p.view = "seats", NEW x \in Rows(p, D), NEW y \in Rows(p, D), NEW z \in Rows(p, D)
      PROVE  /\ ~SeatBefore(p, x, x)
             /\ SeatBefore(p, x, y) /\ SeatBefore(p, y, z) => SeatBefore(p, x, z)
  <2>1. x \in Seats(p, D) /\ y \in Seats(p, D) /\ z \in Seats(p, D)
    BY <1>1 DEF Rows
  <2>2. PICK c \in SeatSortCols : \A a, b :
           SeatBefore(p, a, b) <=>
             \/ Ascending(p, SeatSortCols) /\ a[c] < b[c]
             \/ ~Ascending(p, SeatSortCols) /\ a[c] > b[c]
             \/ /\ a[c] = b[c]
                /\ \/ a.activity > b.activity
                   \/ a.activity = b.activity /\ Precedes(a.key, b.key)
    BY SeatOrder
  <2>3. /\ x[c] \in Nat /\ y[c] \in Nat /\ z[c] \in Nat
        /\ x.activity \in Nat /\ y.activity \in Nat /\ z.activity \in Nat
    BY <2>1, SeatRowFacts DEF SeatSortCols
  <2>4. /\ ~Precedes(x.key, x.key)
        /\ Precedes(x.key, y.key) /\ Precedes(y.key, z.key) => Precedes(x.key, z.key)
    <3>1. x.key \in Strings /\ y.key \in Strings /\ z.key \in Strings
      BY <2>1, SeatRowFacts
    <3> QED
      BY <3>1, PrecedesNotSelf, PrecedesOn
  <2>5. ~SeatBefore(p, x, x)
    BY <2>2, <2>3, <2>4
  <2>6. ASSUME SeatBefore(p, x, y), SeatBefore(p, y, z) PROVE SeatBefore(p, x, z)
    <3>1. CASE Ascending(p, SeatSortCols)
      BY <2>2, <2>3, <2>4, <2>6, <3>1
    <3>2. CASE ~Ascending(p, SeatSortCols)
      BY <2>2, <2>3, <2>4, <2>6, <3>2
    <3> QED
      BY <3>1, <3>2
  <2> QED
    BY <2>5, <2>6
<1>2. ASSUME p.view # "seats", NEW x \in Rows(p, D), NEW y \in Rows(p, D), NEW z \in Rows(p, D)
      PROVE  /\ ~SessionBefore(p, x, x)
             /\ SessionBefore(p, x, y) /\ SessionBefore(p, y, z) => SessionBefore(p, x, z)
  <2>1. x \in Sessions(p, D) /\ y \in Sessions(p, D) /\ z \in Sessions(p, D)
    BY <1>2 DEF Rows
  <2>2. PICK c \in SessionSortCols : \A a, b :
           SessionBefore(p, a, b) <=>
             \/ Ascending(p, SessionSortCols) /\ a[c] < b[c]
             \/ ~Ascending(p, SessionSortCols) /\ a[c] > b[c]
             \/ a[c] = b[c] /\ a.created > b.created
    BY SessionOrder
  <2>3. /\ x[c] \in Nat /\ y[c] \in Nat /\ z[c] \in Nat
        /\ x.created \in Nat /\ y.created \in Nat /\ z.created \in Nat
    BY <2>1, SessionRowFacts DEF SessionSortCols
  <2>4. ~SessionBefore(p, x, x)
    BY <2>2, <2>3
  <2>5. ASSUME SessionBefore(p, x, y), SessionBefore(p, y, z) PROVE SessionBefore(p, x, z)
    <3>1. CASE Ascending(p, SessionSortCols)
      BY <2>2, <2>3, <2>5, <3>1
    <3>2. CASE ~Ascending(p, SessionSortCols)
      BY <2>2, <2>3, <2>5, <3>2
    <3> QED
      BY <3>1, <3>2
  <2> QED
    BY <2>4, <2>5
<1> QED
  BY <1>1, <1>2 DEF Before

\* The label of a seat decides what the other columns leave tied.
LEMMA SeatsDecided ==
  ASSUME NEW D \in SUBSET Records, IsFiniteSet(D), NEW p, p.view = "seats"
  PROVE  ~Undecided(p, D)
<1> SUFFICES ASSUME NEW x \in Seats(p, D), NEW y \in Seats(p, D), x # y
             PROVE  SeatBefore(p, x, y) \/ SeatBefore(p, y, x)
  BY DEF Undecided, Rows, Before
<1>1. x.key # y.key
  BY SeatRows
<1>2. Precedes(x.key, y.key) \/ Precedes(y.key, x.key)
  <2>1. x.key \in Strings /\ y.key \in Strings
    BY SeatRowFacts
  <2> QED
    BY <1>1, <2>1, PrecedesEither
<1>3. PICK c \in SeatSortCols : \A a, b :
         SeatBefore(p, a, b) <=>
           \/ Ascending(p, SeatSortCols) /\ a[c] < b[c]
           \/ ~Ascending(p, SeatSortCols) /\ a[c] > b[c]
           \/ /\ a[c] = b[c]
              /\ \/ a.activity > b.activity
                 \/ a.activity = b.activity /\ Precedes(a.key, b.key)
  BY SeatOrder
<1>4. x[c] \in Nat /\ y[c] \in Nat /\ x.activity \in Nat /\ y.activity \in Nat
  BY SeatRowFacts DEF SeatSortCols
<1> QED
  BY <1>2, <1>3, <1>4

LEMMA OrderLinear ==
  ASSUME NEW D \in SUBSET Records, IsFiniteSet(D), NEW p, ~Undecided(p, D)
  PROVE  LinearOn(Order(p, D), Rows(p, D))
<1> DEFINE S == Rows(p, D)
<1>1. \A x, y \in S : <<x, y>> \in Order(p, D) <=> Before(p, x, y)
  BY DEF Order
<1>2. /\ \A x \in S : ~Before(p, x, x)
      /\ \A x, y, z \in S : Before(p, x, y) /\ Before(p, y, z) => Before(p, x, z)
  BY OrderStrict
<1>3. \A x, y \in S : x = y \/ Before(p, x, y) \/ Before(p, y, x)
  BY DEF Undecided
<1> HIDE DEF S
<1>4. LinearOn(Order(p, D), S)
  BY <1>1, <1>2, <1>3 DEF LinearOn
<1> QED
  BY <1>4 DEF S

-----------------------------------------------------------------------------
(* The pages of a list.                                                    *)

At(p, D, row) == Rank(Order(p, D), Rows(p, D), row)

LEMMA PageSize ==
  ASSUME NEW n \in Nat
  PROVE  ClampLimit(n, DefaultLimit) \in Nat \ {0}
<1>1. DefaultLimit \in Nat \ {0} /\ MaxLimit \in Nat /\ DefaultLimit <= MaxLimit
  BY LimitAssumption
<1>2. CASE n <= 0
  BY <1>1, <1>2 DEF ClampLimit
<1>3. CASE ~(n <= 0)
  <2> DEFINE sizes == {n, MaxLimit}
  <2>1. sizes \in SUBSET Nat /\ sizes # {}
    BY <1>1
  <2>2. \A x \in sizes : x \in Nat \ {0}
    BY <1>1, <1>3
  <2>3. ClampLimit(n, DefaultLimit) = Min(sizes)
    BY <1>3 DEF ClampLimit
  <2> HIDE DEF sizes
  <2>4. Min(sizes) \in sizes
    BY <2>1, LeastNatural
  <2> QED
    BY <2>2, <2>3, <2>4
<1> QED
  BY <1>2, <1>3

LEMMA LesserOf ==
  ASSUME NEW a \in Nat, NEW b \in Nat
  PROVE  /\ Min({a, b}) \in Nat /\ Min({a, b}) <= a /\ Min({a, b}) <= b
         /\ Min({a, b}) = a \/ Min({a, b}) = b
<1> DEFINE S == {a, b}
<1>1. S \in SUBSET Nat /\ S # {}
  OBVIOUS
<1> HIDE DEF S
<1>2. Min(S) \in S /\ \A x \in S : Min(S) <= x
  BY <1>1, LeastNatural
<1> QED
  BY <1>1, <1>2 DEF S

\* A page is the rows whose places are on it, if no two rows tie.
LEMMA PageIs ==
  ASSUME NEW D \in SUBSET Records, IsFiniteSet(D), NEW p, ~Undecided(p, D),
         NEW limit \in Nat \ {0}, limit = ClampLimit(p.limit, DefaultLimit),
         NEW offset \in Nat, NEW page \in Pages(p, offset, D)
  PROVE  page = {row \in Rows(p, D) : offset <= At(p, D, row) /\ At(p, D, row) < offset + limit}
<1> DEFINE all == Rows(p, D)
           n == Cardinality(all)
           skip == Min({offset, n})
           take == Min({limit, n - skip})
           heads(m, S) == {H \in kSubset(m, S) : \A a \in H, b \in S \ H : ~Before(p, b, a)}
<1>1. IsFiniteSet(all) /\ LinearOn(Order(p, D), all) /\ n \in Nat
  BY RowsFinite, OrderLinear, FS_CardinalityType
<1>2. PICK skipped \in heads(skip, all) : page \in heads(take, all \ skipped)
  BY DEF Pages
<1>3. /\ skipped \in SUBSET all /\ Cardinality(skipped) = skip
      /\ \A a \in skipped, b \in all \ skipped : ~Before(p, b, a)
      /\ page \in SUBSET (all \ skipped) /\ Cardinality(page) = take
      /\ \A a \in page, b \in (all \ skipped) \ page : ~Before(p, b, a)
  BY <1>2 DEF kSubset
<1>4. /\ \A a \in skipped, b \in all \ skipped : <<b, a>> \notin Order(p, D)
      /\ \A a \in page, b \in (all \ skipped) \ page : <<b, a>> \notin Order(p, D)
  BY <1>3 DEF Order
<1>5. /\ skip \in Nat /\ skip <= offset /\ skip <= n
      /\ skip = offset \/ skip = n
      /\ take \in Nat /\ take <= limit /\ take <= n - skip
      /\ take = limit \/ take = n - skip
  <2> HIDE DEF n
  <2>1. skip \in Nat /\ skip <= offset /\ skip <= n /\ (skip = offset \/ skip = n)
    BY <1>1, LesserOf
  <2> HIDE DEF skip
  <2>2. n - skip \in Nat
    BY <1>1, <2>1
  <2>3. take \in Nat /\ take <= limit /\ take <= n - skip /\ (take = limit \/ take = n - skip)
    BY <2>2, LesserOf
  <2> QED
    BY <2>1, <2>3
<1> HIDE DEF heads, all, skip, take
<1>6. page = {x \in all : Rank(Order(p, D), all, x) \in skip .. skip + take - 1}
  BY <1>1, <1>3, <1>4, PageRows
<1>7. \A x \in all : Rank(Order(p, D), all, x) \in Nat /\ Rank(Order(p, D), all, x) < n
  BY <1>1, RankFacts DEF n
<1> HIDE DEF n
<1>8. ASSUME NEW x \in all
      PROVE  Rank(Order(p, D), all, x) \in skip .. skip + take - 1
               <=> (offset <= Rank(Order(p, D), all, x)
                    /\ Rank(Order(p, D), all, x) < offset + limit)
  <2> DEFINE i == Rank(Order(p, D), all, x)
  <2>1. i \in Nat /\ i < n
    BY <1>7
  <2> HIDE DEF i
  <2>2. i \in skip .. skip + take - 1 <=> (offset <= i /\ i < offset + limit)
    <3>1. n \in Nat
      BY <1>1
    <3>2. CASE skip = n
      BY <1>5, <2>1, <3>1, <3>2
    <3>3. CASE skip = offset /\ take = limit
      BY <1>5, <2>1, <3>1, <3>3
    <3>4. CASE skip = offset /\ take = n - skip
      BY <1>5, <2>1, <3>1, <3>4
    <3> QED
      BY <1>5, <3>2, <3>3, <3>4
  <2> QED
    BY <2>2 DEF i
<1>9. page = {x \in all : offset <= Rank(Order(p, D), all, x)
                             /\ Rank(Order(p, D), all, x) < offset + limit}
  BY <1>6, <1>8
<1> QED
  BY <1>9 DEF all, At

\* The rows of the pages before the offset, in a database at rest.
Ahead(p, D, offset) == {row \in Rows(p, D) : At(p, D, row) < offset}

LEMMA AheadFacts ==
  ASSUME NEW D \in SUBSET Records, IsFiniteSet(D), NEW p, ~Undecided(p, D),
         NEW limit \in Nat \ {0}, limit = ClampLimit(p.limit, DefaultLimit),
         NEW offset \in Nat, NEW page \in Pages(p, offset, D)
  PROVE  /\ Ahead(p, D, offset + limit) = Ahead(p, D, offset) \cup page
         /\ Cardinality(Ahead(p, D, offset + limit)) =
              Cardinality(Ahead(p, D, offset)) + Cardinality(page)
<1> DEFINE A == Ahead(p, D, offset)
<1>1. page = {row \in Rows(p, D) : offset <= At(p, D, row) /\ At(p, D, row) < offset + limit}
  BY PageIs
<1>2. \A row \in Rows(p, D) : At(p, D, row) \in Nat
  BY RowsFinite, OrderLinear, RankFacts DEF At
<1>3. Ahead(p, D, offset + limit) = A \cup page
  BY <1>1, <1>2 DEF Ahead
<1>4. A \cap page = {}
  BY <1>1, <1>2 DEF Ahead
<1>5. IsFiniteSet(A) /\ IsFiniteSet(page)
  <2>1. A \in SUBSET Rows(p, D) /\ page \in SUBSET Rows(p, D)
    BY <1>1 DEF Ahead
  <2> HIDE DEF A
  <2> QED
    BY <2>1, RowsFinite, FS_Subset
<1> HIDE DEF A
<1>6. Cardinality(A \cup page) = Cardinality(A) + Cardinality(page)
  <2>1. Cardinality(A \cup page) = Cardinality(A) + Cardinality(page) - Cardinality(A \cap page)
    BY <1>5, FS_Union
  <2>2. Cardinality(A \cap page) = 0 /\ Cardinality(A) \in Nat /\ Cardinality(page) \in Nat
    BY <1>4, <1>5, FS_EmptySet, FS_CardinalityType
  <2> QED
    BY <2>1, <2>2
<1> QED
  BY <1>3, <1>6 DEF A

\* While turns arrive, a seat without a new one keeps its row, and none of those
\* that stood before it in a descending list comes to stand after it.
LEMMA SeatsMoveUp ==
  ASSUME NEW E \in SUBSET Records, IsFiniteSet(E), NEW D \in SUBSET E,
         NEW p, p.view = "seats", ~Ascending(p, SeatSortCols),
         NEW row \in Seats(p, D), SeatTurns(p, E, row.key) = SeatTurns(p, D, row.key)
  PROVE  /\ row \in Seats(p, E)
         /\ At(p, D, row) \in Nat /\ At(p, E, row) \in Nat /\ At(p, D, row) <= At(p, E, row)
<1> DEFINE X == Rows(p, D)
           Y == Rows(p, E)
           Q == Order(p, D)
           R == Order(p, E)
           up == [x \in X |-> SeatRow(x.key, SeatTurns(p, E, x.key))]
<1>1. D \in SUBSET Records /\ IsFiniteSet(D)
  BY FS_Subset
<1>2. X = Seats(p, D) /\ Y = Seats(p, E)
  BY DEF Rows
<1>3. row \in Seats(p, E) /\ up[row] = row
  BY <1>2, SeatRows
<1>4. \A x \in X : up[x] \in Y /\ up[x].key = x.key
  <2> SUFFICES ASSUME NEW x \in Seats(p, D)
               PROVE  /\ SeatRow(x.key, SeatTurns(p, E, x.key)) \in Seats(p, E)
                      /\ SeatRow(x.key, SeatTurns(p, E, x.key)).key = x.key
    BY <1>2
  <2>1. SeatTurns(p, D, x.key) # {}
    BY SeatRows
  <2>2. SeatTurns(p, E, x.key) # {}
    BY <2>1 DEF SeatTurns
  <2> QED
    BY <2>2, SeatRows DEF SeatRow
<1>5. ASSUME NEW x \in X
      PROVE  /\ up[x].sessions >= x.sessions /\ up[x].turns >= x.turns
             /\ up[x].tokens >= x.tokens /\ up[x].activity >= x.activity
  <2> DEFINE T == SeatTurns(p, D, x.key)
             U == SeatTurns(p, E, x.key)
  <2>1. x = SeatRow(x.key, T) /\ up[x] = SeatRow(x.key, U) /\ T # {}
    BY <1>2, SeatRows
  <2>2. T \in SUBSET U /\ U \subseteq E
    BY DEF SeatTurns
  <2> HIDE DEF T, U
  <2>3. /\ U \in SUBSET Records /\ IsFiniteSet(U) /\ U # {}
        /\ T \in SUBSET Records /\ IsFiniteSet(T)
    BY <2>1, <2>2, FS_Subset
  <2>4. Cardinality({SessionOf(r) : r \in T}) <= Cardinality({SessionOf(r) : r \in U})
    <3> DEFINE session == [r \in U |-> SessionOf(r)]
               V == {session[r] : r \in U}
    <3>1. {SessionOf(r) : r \in U} = V /\ {SessionOf(r) : r \in T} \in SUBSET V
      BY <2>2
    <3>2. IsFiniteSet(V)
      <4> HIDE DEF session
      <4> QED
        BY <2>3, Images
    <3> HIDE DEF V
    <3> QED
      BY <3>1, <3>2, FS_Subset
  <2>5. Cardinality(T) <= Cardinality(U)
    BY <2>2, <2>3, FS_Subset
  <2>6. Tokens(T) <= Tokens(U)
    <3>1. \A r \in U : TokensOf[r] \in Nat
      BY <2>3, RecordFacts DEF TokensOf
    <3>2. Sum(TokensOf, T) <= Sum(TokensOf, U)
      BY <2>2, <2>3, <3>1, SumMonotone
    <3> QED
      BY <2>3, <3>2, TokensFacts
  <2>7. Max(Times(T)) <= Max(Times(U))
    <3>1. Max(Times(T)) \in Times(T) /\ \A r \in U : r.time <= Max(Times(U))
      BY <2>1, <2>3, TimesFacts
    <3> QED
      BY <2>2, <3>1 DEF Times
  <2>8. /\ x.sessions = Cardinality({SessionOf(r) : r \in T}) /\ x.turns = Cardinality(T)
        /\ x.tokens = Tokens(T) /\ x.activity = Max(Times(T))
    BY <2>1 DEF SeatRow
  <2>9. /\ up[x].sessions = Cardinality({SessionOf(r) : r \in U}) /\ up[x].turns = Cardinality(U)
        /\ up[x].tokens = Tokens(U) /\ up[x].activity = Max(Times(U))
    BY <2>1 DEF SeatRow
  <2>10. /\ x.sessions \in Nat /\ x.turns \in Nat /\ x.tokens \in Nat /\ x.activity \in Nat
         /\ up[x].sessions \in Nat /\ up[x].turns \in Nat
         /\ up[x].tokens \in Nat /\ up[x].activity \in Nat
    BY <1>1, <1>2, <1>4, SeatRowFacts
  <2> HIDE DEF up
  <2> QED
    BY <2>4, <2>5, <2>6, <2>7, <2>8, <2>9, <2>10
<1> HIDE DEF up
<1>6. ASSUME NEW x \in X, SeatBefore(p, x, row) PROVE SeatBefore(p, up[x], row)
  <2>1. PICK c \in SeatSortCols : \A a, b :
           SeatBefore(p, a, b) <=>
             \/ Ascending(p, SeatSortCols) /\ a[c] < b[c]
             \/ ~Ascending(p, SeatSortCols) /\ a[c] > b[c]
             \/ /\ a[c] = b[c]
                /\ \/ a.activity > b.activity
                   \/ a.activity = b.activity /\ Precedes(a.key, b.key)
    BY SeatOrder
  <2>2. up[x][c] >= x[c] /\ up[x].activity >= x.activity /\ up[x].key = x.key
    BY <1>4, <1>5 DEF SeatSortCols
  <2>3. /\ x[c] \in Nat /\ row[c] \in Nat /\ up[x][c] \in Nat
        /\ x.activity \in Nat /\ row.activity \in Nat /\ up[x].activity \in Nat
    BY <1>1, <1>2, <1>4, SeatRowFacts DEF SeatSortCols
  <2> QED
    BY <1>6, <2>1, <2>2, <2>3
<1>7. row \in X /\ row \in Y
  BY <1>2, <1>3
<1> DEFINE B == Below(Q, X, row)
<1>8. /\ \A x, y \in X : <<x, y>> \in Q <=> SeatBefore(p, x, y)
      /\ \A x, y \in Y : <<x, y>> \in R <=> SeatBefore(p, x, y)
  BY DEF Order, Before
<1>9. IsFiniteSet(X) /\ IsFiniteSet(Y)
  BY <1>1, RowsFinite
<1> HIDE DEF X, Y, Q, R
<1>10. \A x \in B : up[x] \in Below(R, Y, row)
  BY <1>4, <1>6, <1>7, <1>8 DEF Below
<1>11. B \in SUBSET X /\ IsFiniteSet(B)
  <2>1. B \in SUBSET X
    BY DEF Below
  <2> HIDE DEF B
  <2> QED
    BY <1>9, <2>1, FS_Subset
<1>12. Cardinality({up[x] : x \in B}) = Cardinality(B)
  <2>1. \A x, y \in B : up[x] = up[y] => x = y
    <3>1. \A x, y \in X : x.key = y.key => x = y
      BY <1>2, SeatRows
    <3> QED
      BY <1>4, <1>11, <3>1
  <2> HIDE DEF B
  <2> QED
    BY <1>11, <2>1, Images
<1> HIDE DEF B
<1>13. /\ {up[x] : x \in B} \in SUBSET Below(R, Y, row) /\ IsFiniteSet(Below(R, Y, row))
  <2>1. Below(R, Y, row) \in SUBSET Y
    BY DEF Below
  <2>2. IsFiniteSet(Below(R, Y, row))
    BY <1>9, <2>1, FS_Subset
  <2> QED
    BY <1>10, <2>2
<1>14. /\ Cardinality(B) <= Cardinality(Below(R, Y, row))
       /\ Cardinality(B) \in Nat /\ Cardinality(Below(R, Y, row)) \in Nat
  <2>1. Cardinality({up[x] : x \in B}) <= Cardinality(Below(R, Y, row))
    BY <1>13, FS_Subset
  <2> QED
    BY <1>11, <1>12, <1>13, <2>1, FS_CardinalityType
<1> QED
  BY <1>3, <1>14 DEF At, Rank, B, X, Y, Q, R

\* In a database at rest the auditor has seen the rows of the pages before the
\* offset, and as many as they are.
SeenAhead(p, D, offset, shown, count) ==
  ~Undecided(p, D) =>
    /\ \A row \in Ahead(p, D, offset) : row.key \in shown
    /\ count = Cardinality(Ahead(p, D, offset))

\* Of a descending list, a seat without a new turn since then was seen, or stands
\* behind the offset.
Moved(p, D, began) ==
  {row \in Seats(p, began) : SeatTurns(p, D, row.key) # SeatTurns(p, began, row.key)}

Descending(p) == p.view = "seats" /\ ~Ascending(p, SeatSortCols)

Unseen(p, D, began, shown) == {row \in Seats(p, began) \ Moved(p, D, began) : row.key \notin shown}

SeenOrAhead(p, D, began, offset, shown) ==
  Descending(p) => \A row \in Unseen(p, D, began, shown) : offset <= At(p, D, row)

\* What holds of an open list: before is what the auditor has of it, offset where
\* the next page starts.
Kept(p, D, before, offset) ==
  /\ before.began \subseteq D /\ offset \in Nat
  /\ before.began = D => SeenAhead(p, D, offset, before.shown, before.count)
  /\ SeenOrAhead(p, D, before.began, offset, before.shown)

\* What holds of its count, and, at its end, of the rows that were not shown.
Counted(p, D, a) ==
  /\ a.total \in Nat /\ a.late \in Nat
  /\ a.total <= Cardinality(Rows(p, D))
  /\ a.began = D => a.total = Cardinality(Rows(p, D))
  /\ Descending(p) /\ a.step = "shown" /\ ~(a.offset < a.total) =>
       Cardinality(Unseen(p, D, a.began, a.shown)) <= a.late

NoLoss ==
  Listing => /\ Kept(auditor.p, records, auditor, auditor.offset)
             /\ Counted(auditor.p, records, auditor)

LEMMA PageSeen ==
  ASSUME NEW D \in SUBSET Records, IsFiniteSet(D), NEW p,
         NEW limit \in Nat \ {0}, limit = ClampLimit(p.limit, DefaultLimit),
         NEW offset \in Nat, NEW page \in Pages(p, offset, D), NEW shown, NEW count,
         SeenAhead(p, D, offset, shown, count)
  PROVE  SeenAhead(p, D, offset + limit, shown \cup {row.key : row \in page},
                   count + Cardinality(page))
<1> SUFFICES ASSUME ~Undecided(p, D)
             PROVE  /\ \A row \in Ahead(p, D, offset + limit) :
                          row.key \in shown \cup {x.key : x \in page}
                    /\ count + Cardinality(page) = Cardinality(Ahead(p, D, offset + limit))
  BY DEF SeenAhead
<1>1. /\ Ahead(p, D, offset + limit) = Ahead(p, D, offset) \cup page
      /\ Cardinality(Ahead(p, D, offset + limit)) =
           Cardinality(Ahead(p, D, offset)) + Cardinality(page)
  BY AheadFacts
<1>2. /\ \A row \in Ahead(p, D, offset) : row.key \in shown
      /\ count = Cardinality(Ahead(p, D, offset))
  BY DEF SeenAhead
<1> QED
  BY <1>1, <1>2

LEMMA PageOwed ==
  ASSUME NEW D \in SUBSET Records, IsFiniteSet(D), NEW p, NEW began \in SUBSET D,
         NEW limit \in Nat \ {0}, limit = ClampLimit(p.limit, DefaultLimit),
         NEW offset \in Nat, NEW page \in Pages(p, offset, D), NEW shown,
         SeenOrAhead(p, D, began, offset, shown)
  PROVE  SeenOrAhead(p, D, began, offset + limit, shown \cup {row.key : row \in page})
<1> SUFFICES ASSUME Descending(p),
                    NEW row \in Unseen(p, D, began, shown \cup {x.key : x \in page})
             PROVE  offset + limit <= At(p, D, row)
  BY DEF SeenOrAhead
<1>1. /\ row \in Seats(p, began) /\ SeatTurns(p, D, row.key) = SeatTurns(p, began, row.key)
      /\ row \in Unseen(p, D, began, shown) /\ row.key \notin {x.key : x \in page}
  BY DEF Unseen, Moved
<1>2. offset <= At(p, D, row)
  BY <1>1 DEF SeenOrAhead
<1>3. row \in Rows(p, D)
  BY <1>1, SeatsMoveUp DEF Rows, Descending
<1>4. ~Undecided(p, D)
  BY SeatsDecided DEF Descending
<1>5. page = {x \in Rows(p, D) : offset <= At(p, D, x) /\ At(p, D, x) < offset + limit}
  BY <1>4, PageIs
<1>6. At(p, D, row) \in Nat
  BY <1>3, <1>4, RowsFinite, OrderLinear, RankFacts DEF At
<1>7. ~(At(p, D, row) < offset + limit)
  BY <1>1, <1>2, <1>3, <1>5
<1> QED
  BY <1>6, <1>7

\* No more rows stand behind an offset than the list has beyond it.
LEMMA UnseenFew ==
  ASSUME NEW D \in SUBSET Records, IsFiniteSet(D), NEW p, Descending(p),
         NEW began \in SUBSET D, NEW offset \in Nat, NEW shown,
         SeenOrAhead(p, D, began, offset, shown)
  PROVE  LET n == Cardinality(Rows(p, D))
             U == Unseen(p, D, began, shown)
         IN  /\ n \in Nat /\ IsFiniteSet(U) /\ Cardinality(U) \in Nat
             /\ Cardinality(U) <= n - offset \/ Cardinality(U) = 0
<1> DEFINE n == Cardinality(Rows(p, D))
           U == Unseen(p, D, began, shown)
           f == [row \in U |-> At(p, D, row)]
<1>1. IsFiniteSet(Rows(p, D)) /\ LinearOn(Order(p, D), Rows(p, D)) /\ n \in Nat
  BY SeatsDecided, RowsFinite, OrderLinear, FS_CardinalityType DEF Descending
<1>2. U \subseteq Rows(p, D)
  BY SeatsMoveUp DEF Unseen, Moved, Rows, Descending
<1>3. IsFiniteSet(U) /\ Cardinality(U) \in Nat
  <2> HIDE DEF U
  <2> QED
    BY <1>1, <1>2, FS_Subset, FS_CardinalityType
<1>4. \A row \in U : At(p, D, row) \in Nat /\ At(p, D, row) < n /\ offset <= At(p, D, row)
  BY <1>1, <1>2, RankFacts DEF At, SeenOrAhead
<1>5. \A x, y \in U : At(p, D, x) = At(p, D, y) => x = y
  BY <1>1, <1>2, RanksApart DEF At
<1> HIDE DEF n, U
<1>6. f \in [U -> offset .. n - 1] /\ \A x, y \in U : f[x] = f[y] => x = y
  BY <1>1, <1>4, <1>5
<1>7. f \in Injection(U, offset .. n - 1)
  BY <1>6 DEF Injection, IsInjective
<1>8. /\ IsFiniteSet(offset .. n - 1)
      /\ Cardinality(offset .. n - 1) = IF offset > n - 1 THEN 0 ELSE n - 1 - offset + 1
  BY <1>1, FS_Interval
<1>9. Cardinality(U) <= Cardinality(offset .. n - 1)
  BY <1>7, <1>8, FS_Injection
<1>10. Cardinality(U) <= n - offset \/ Cardinality(U) = 0
  BY <1>1, <1>3, <1>8, <1>9
<1> QED
  BY <1>1, <1>3, <1>10 DEF n, U

\* A list only grows.
LEMMA RowsGrow ==
  ASSUME NEW E \in SUBSET Records, IsFiniteSet(E), NEW D \in SUBSET E, NEW p
  PROVE  /\ Cardinality(Rows(p, D)) \in Nat /\ Cardinality(Rows(p, E)) \in Nat
         /\ Cardinality(Rows(p, D)) <= Cardinality(Rows(p, E))
<1> DEFINE X == Rows(p, D)
           Y == Rows(p, E)
           up == [x \in X |-> IF p.view = "seats"
                              THEN SeatRow(x.key, SeatTurns(p, E, x.key))
                              ELSE SessionRow(x.key, SessionTurns(p, E, x.key))]
<1>1. D \in SUBSET Records /\ IsFiniteSet(D)
  BY FS_Subset
<1>2. IsFiniteSet(X) /\ IsFiniteSet(Y)
  BY <1>1, RowsFinite
<1>3. \A x \in X : up[x] \in Y /\ up[x].key = x.key
  <2>1. CASE p.view = "seats"
    <3> SUFFICES ASSUME NEW x \in Seats(p, D)
                 PROVE  /\ SeatRow(x.key, SeatTurns(p, E, x.key)) \in Seats(p, E)
                        /\ SeatRow(x.key, SeatTurns(p, E, x.key)).key = x.key
      BY <2>1 DEF Rows
    <3>1. SeatTurns(p, D, x.key) # {}
      BY SeatRows
    <3>2. SeatTurns(p, E, x.key) # {}
      BY <3>1 DEF SeatTurns
    <3> QED
      BY <3>2, SeatRows DEF SeatRow
  <2>2. CASE p.view # "seats"
    <3> SUFFICES ASSUME NEW x \in Sessions(p, D)
                 PROVE  /\ SessionRow(x.key, SessionTurns(p, E, x.key)) \in Sessions(p, E)
                        /\ SessionRow(x.key, SessionTurns(p, E, x.key)).key = x.key
      BY <2>2 DEF Rows
    <3>1. SessionTurns(p, D, x.key) # {}
      BY SessionRowsOf
    <3>2. PICK r \in E : SessionWhere(p, r) /\ SessionOf(r) = x.key
      BY <3>1 DEF SessionTurns
    <3>3. SessionTurns(p, E, x.key) = {r1 \in {r2 \in E : SessionWhere(p, r2)} : SessionOf(r1) = x.key}
      BY DEF SessionTurns
    <3> QED
      BY <3>2, <3>3 DEF Sessions, SessionRow
  <2> QED
    BY <2>1, <2>2
<1>4. \A x, y \in X : x.key = y.key => x = y
  <2>1. CASE p.view = "seats"
    BY <2>1, SeatRows DEF Rows
  <2>2. CASE p.view # "seats"
    BY <2>2, SessionRowsOf DEF Rows
  <2> QED
    BY <2>1, <2>2
<1> HIDE DEF up, X, Y
<1>5. Cardinality({up[x] : x \in X}) = Cardinality(X)
  <2>1. \A x, y \in X : up[x] = up[y] => x = y
    BY <1>3, <1>4
  <2> QED
    BY <1>2, <2>1, Images
<1>6. {up[x] : x \in X} \in SUBSET Y
  BY <1>3
<1>7. Cardinality(X) <= Cardinality(Y)
  BY <1>2, <1>5, <1>6, FS_Subset
<1> QED
  BY <1>2, <1>7, FS_CardinalityType DEF X, Y

\* The next page keeps what was seen, and adds what is on it.
LEMMA ShowKeeps ==
  ASSUME Stored, Fields, NoLoss, Show
  PROVE  NoLoss'
<1> DEFINE p == auditor.p
           offset == auditor.offset
           began == auditor.began
           limit == ClampLimit(p.limit, DefaultLimit)
           D == records
           n == Cardinality(Rows(p, D))
<1>1. p \in Asked /\ limit \in Nat \ {0}
  BY AskedFields, PageSize DEF Show, Fields
<1>2. /\ Kept(p, D, auditor, offset) /\ Counted(p, D, auditor)
      /\ D \in SUBSET Records /\ IsFiniteSet(D) /\ began \in SUBSET D /\ offset \in Nat
  BY DEF Stored, NoLoss, Show, Kept
<1>3. PICK page \in Pages(p, offset, D) :
        /\ auditor'.p = p /\ auditor'.began = began /\ auditor'.step = "shown"
        /\ auditor'.offset = offset + limit /\ auditor'.total = auditor.total
        /\ auditor'.late = n - auditor.total
        /\ auditor'.shown = auditor.shown \cup {row.key : row \in page}
        /\ auditor'.count = auditor.count + Cardinality(page)
  BY DEF Show, Fields, EffectiveListLimit, Total
<1> DEFINE shown == auditor.shown \cup {row.key : row \in page}
           count == auditor.count + Cardinality(page)
<1>4. began = D => SeenAhead(p, D, offset + limit, shown, count)
  <2>1. began = D => SeenAhead(p, D, offset, auditor.shown, auditor.count)
    BY <1>2 DEF Kept
  <2> HIDE DEF D, p, began, offset, limit
  <2> QED
    BY <1>1, <1>2, <2>1, PageSeen DEF limit
<1>5. SeenOrAhead(p, D, began, offset + limit, shown)
  <2>1. SeenOrAhead(p, D, began, offset, auditor.shown)
    BY <1>2 DEF Kept
  <2> HIDE DEF D, p, began, offset, limit
  <2> QED
    BY <1>1, <1>2, <2>1, PageOwed DEF limit
<1>6. offset + limit \in Nat
  BY <1>1, <1>2
<1>7. Kept(p, D, auditor', offset + limit)
  <2> HIDE DEF D, p, offset, limit
  <2> QED
    BY <1>2, <1>3, <1>4, <1>5, <1>6 DEF Kept
<1>8. auditor.total \in Nat /\ auditor.total <= n /\ (began = D => auditor.total = n) /\ n \in Nat
  BY <1>2, RowsFinite, FS_CardinalityType DEF Counted
<1>9. ASSUME Descending(p), ~(offset + limit < auditor.total)
      PROVE  Cardinality(Unseen(p, D, began, shown)) <= n - auditor.total
  <2>1. LET U == Unseen(p, D, began, shown)
        IN  /\ Cardinality(U) \in Nat
            /\ Cardinality(U) <= n - (offset + limit) \/ Cardinality(U) = 0
    <3> HIDE DEF D, p, began, offset, limit, shown
    <3> QED
      BY <1>2, <1>5, <1>6, <1>9, UnseenFew
  <2> HIDE DEF D, p, began, offset, limit, shown, n
  <2> QED
    BY <1>6, <1>8, <1>9, <2>1
<1>10. Counted(p, D, auditor')
  <2> HIDE DEF D, p, began, offset, limit, n
  <2>1. n - auditor.total \in Nat
    BY <1>8
  <2> QED
    BY <1>3, <1>8, <1>9, <2>1 DEF Counted, n
<1>11. records' = D
  BY DEF Show
<1> QED
  BY <1>3, <1>7, <1>10, <1>11 DEF NoLoss

\* A count is of the list as it is.
LEMMA CountKeeps ==
  ASSUME Stored, NEW p \in Asked, NEW before, Count(p, before), UNCHANGED records,
         Kept(p, records, before, before.offset)
  PROVE  NoLoss'
<1>1. /\ auditor'.p = p /\ auditor'.began = before.began /\ auditor'.step = "counted"
      /\ auditor'.offset = before.offset /\ auditor'.total = Cardinality(Rows(p, records))
      /\ auditor'.late = 0 /\ auditor'.shown = before.shown /\ auditor'.count = before.count
  BY DEF Count, Total
<1>2. Cardinality(Rows(p, records)) \in Nat
  BY RowsFinite, FS_CardinalityType DEF Stored
<1>3. Kept(p, records, auditor', auditor'.offset)
  BY <1>1 DEF Kept
<1>4. Counted(p, records, auditor')
  BY <1>1, <1>2 DEF Counted
<1> QED
  BY <1>1, <1>3, <1>4 DEF NoLoss

\* A turn that arrives loses nothing of what is still to come.
LEMMA IngestKeeps ==
  ASSUME Stored, Fields, NoLoss, NEW r \in Records, Ingest(r)
  PROVE  NoLoss'
<1>1. /\ records \subseteq records' /\ auditor' = auditor
      /\ records' \in SUBSET Records /\ IsFiniteSet(records')
  BY TurnStored, FS_AddElement DEF Stored
<1> SUFFICES ASSUME Listing PROVE NoLoss'
  BY <1>1 DEF NoLoss, Listing
<1> DEFINE p == auditor.p
           began == auditor.began
           C == records
           D == records'
<1>2. Kept(p, C, auditor, auditor.offset) /\ Counted(p, C, auditor)
  BY DEF NoLoss
<1>3. /\ began \subseteq C /\ auditor.offset \in Nat
      /\ SeenOrAhead(p, C, began, auditor.offset, auditor.shown)
  BY <1>2 DEF Kept
<1>4. began = D => D = C
  BY <1>1, <1>3
<1>5. Unseen(p, D, began, auditor.shown) \subseteq Unseen(p, C, began, auditor.shown)
  BY <1>1, <1>3 DEF Unseen, Moved, SeatTurns
<1>6. SeenOrAhead(p, D, began, auditor.offset, auditor.shown)
  <2> SUFFICES ASSUME Descending(p), NEW row \in Unseen(p, D, began, auditor.shown)
               PROVE  auditor.offset <= At(p, D, row)
    BY DEF SeenOrAhead
  <2>1. auditor.offset <= At(p, C, row)
    BY <1>3, <1>5 DEF SeenOrAhead
  <2>2. /\ row \in Seats(p, began)
        /\ SeatTurns(p, D, row.key) = SeatTurns(p, began, row.key)
        /\ SeatTurns(p, C, row.key) = SeatTurns(p, began, row.key)
    BY <1>5 DEF Unseen, Moved
  <2>3. row \in Seats(p, C)
    <3>1. C \in SUBSET Records /\ IsFiniteSet(C) /\ began \in SUBSET C
      BY <1>3 DEF Stored
    <3> HIDE DEF p, began, C, D
    <3> QED
      BY <2>2, <3>1, SeatsMoveUp DEF Descending
  <2>4. /\ At(p, C, row) \in Nat /\ At(p, D, row) \in Nat
        /\ At(p, C, row) <= At(p, D, row)
    <3>1. C \in SUBSET D
      BY <1>1
    <3>2. SeatTurns(p, D, row.key) = SeatTurns(p, C, row.key)
      BY <2>2
    <3>3. D \in SUBSET Records /\ IsFiniteSet(D)
      BY <1>1
    <3> HIDE DEF p, began, C, D
    <3> QED
      BY <2>3, <3>1, <3>2, <3>3, SeatsMoveUp DEF Descending
  <2> QED
    BY <1>3, <2>1, <2>4
<1>7. Kept(p, D, auditor, auditor.offset)
  <2>1. CASE began = D
    BY <1>2, <1>4, <2>1
  <2>2. CASE began # D
    <3> HIDE DEF D, p
    <3> QED
      BY <1>1, <1>3, <1>6, <2>2 DEF Kept, D
  <2> QED
    BY <2>1, <2>2
<1>8. /\ Cardinality(Rows(p, C)) \in Nat /\ Cardinality(Rows(p, D)) \in Nat
      /\ Cardinality(Rows(p, C)) <= Cardinality(Rows(p, D))
  <2>1. C \in SUBSET D
    BY <1>1
  <2>2. D \in SUBSET Records /\ IsFiniteSet(D)
    BY <1>1
  <2> HIDE DEF C, D, p
  <2> QED
    BY <2>1, <2>2, RowsGrow
<1>9. ASSUME Descending(p), auditor.step = "shown", ~(auditor.offset < auditor.total)
      PROVE  Cardinality(Unseen(p, D, began, auditor.shown)) <= auditor.late
  <2> DEFINE U == Unseen(p, C, began, auditor.shown)
             V == Unseen(p, D, began, auditor.shown)
  <2>1. C \in SUBSET Records /\ IsFiniteSet(C) /\ began \in SUBSET C
    BY <1>3 DEF Stored
  <2>2. IsFiniteSet(U) /\ Cardinality(U) \in Nat
    <3> HIDE DEF p, began, C
    <3> QED
      BY <1>3, <1>9, <2>1, UnseenFew
  <2>3. Cardinality(U) <= auditor.late /\ auditor.late \in Nat
    BY <1>2, <1>9 DEF Counted
  <2>4. V \in SUBSET U
    BY <1>5
  <2> HIDE DEF U, V
  <2>5. IsFiniteSet(V) /\ Cardinality(V) <= Cardinality(U) /\ Cardinality(V) \in Nat
    BY <2>2, <2>4, FS_Subset, FS_CardinalityType
  <2>6. Cardinality(V) <= auditor.late
    BY <2>2, <2>3, <2>5
  <2> QED
    BY <2>6 DEF V
<1>10. Counted(p, D, auditor)
  <2>1. /\ auditor.total \in Nat /\ auditor.late \in Nat
        /\ auditor.total <= Cardinality(Rows(p, C))
        /\ began = C => auditor.total = Cardinality(Rows(p, C))
    BY <1>2 DEF Counted
  <2>2. auditor.total <= Cardinality(Rows(p, D))
    BY <1>8, <2>1
  <2> HIDE DEF C, D, p
  <2> QED
    BY <1>4, <1>9, <2>1, <2>2 DEF Counted
<1> QED
  BY <1>1, <1>7, <1>10 DEF NoLoss

LEMMA NoLossStep == Stored /\ Fields /\ NoLoss /\ [Next]_vars => NoLoss'
<1> SUFFICES ASSUME Stored, Fields, NoLoss, [Next]_vars PROVE NoLoss'
  OBVIOUS
<1>1. ASSUME NEW r \in Records, Ingest(r) PROVE NoLoss'
  BY <1>1, IngestKeeps
<1>2. ASSUME NEW q \in Requests, OpenList(q) PROVE NoLoss'
  <2> DEFINE before == [began |-> records, offset |-> 0, shown |-> {}, count |-> 0]
  <2>1. PICK p \in Asked : Count(p, before) /\ UNCHANGED records
    BY <1>2 DEF OpenList, Asked
  <2>2. before.began = records /\ before.offset = 0 /\ before.shown = {} /\ before.count = 0
    OBVIOUS
  <2>3. records \in SUBSET Records /\ IsFiniteSet(records)
    BY DEF Stored
  <2> HIDE DEF before
  <2>4. SeenAhead(p, records, 0, before.shown, before.count)
    <3> SUFFICES ASSUME ~Undecided(p, records)
                 PROVE  Ahead(p, records, 0) = {}
      BY <2>2, FS_EmptySet DEF SeenAhead
    <3>1. \A row \in Rows(p, records) : At(p, records, row) \in Nat
      BY <2>3, RowsFinite, OrderLinear, RankFacts DEF At
    <3> QED
      BY <3>1 DEF Ahead
  <2>5. SeenOrAhead(p, records, records, 0, before.shown)
    <3> SUFFICES ASSUME Descending(p), NEW row \in Seats(p, records)
                 PROVE  0 <= At(p, records, row)
      BY DEF SeenOrAhead, Unseen
    <3>1. row \in Rows(p, records) /\ ~Undecided(p, records)
      BY <2>3, SeatsDecided DEF Rows, Descending
    <3>2. At(p, records, row) \in Nat
      BY <2>3, <3>1, RowsFinite, OrderLinear, RankFacts DEF At
    <3> QED
      BY <3>2
  <2>6. Kept(p, records, before, before.offset)
    BY <2>2, <2>4, <2>5 DEF Kept
  <2> QED
    BY <2>1, <2>6, CountKeeps
<1>3. ASSUME TurnPage PROVE NoLoss'
  <2>1. Listing /\ Count(auditor.p, auditor) /\ UNCHANGED records /\ auditor.p \in Asked
    BY <1>3 DEF TurnPage, Fields
  <2> QED
    BY <2>1, CountKeeps DEF NoLoss
<1>4. ASSUME Show PROVE NoLoss'
  BY <1>4, ShowKeeps
<1>5. ASSUME ~Listing' PROVE NoLoss'
  BY <1>5 DEF NoLoss
<1>6. ASSUME NEW q \in Requests, StartZip(q) PROVE NoLoss'
  BY <1>5, <1>6 DEF StartZip, Listing
<1>7. ASSUME ZipPrompt \/ ZipTurns PROVE NoLoss'
  <2>1. auditor'.view = "zip"
    BY <1>7 DEF ZipPrompt, ZipTurns, Fields
  <2> QED
    BY <1>5, <2>1 DEF Listing
<1>8. ASSUME Leave PROVE NoLoss'
  BY <1>5, <1>8 DEF Leave, Closed, Listing
<1>9. ASSUME UNCHANGED vars PROVE NoLoss'
  BY <1>9 DEF vars, NoLoss, Listing
<1> QED
  BY <1>1, <1>2, <1>3, <1>4, <1>6, <1>7, <1>8, <1>9 DEF Next

\* An auditor who turns the pages of a list to its end misses no more of the rows
\* he is owed than came between the last page's count and the page, and in a quiet
\* database sees each row once (repository_sql.go:142, :172, :193).
THEOREM ListsComplete == Spec => []PagesLoseNothing
<1>1. Init => Fields /\ NoLoss
  BY DEF Init, Fields, NoLoss, Listing, Closed
<1>2. Stored /\ Fields /\ NoLoss => PagesLoseNothing
  <2> SUFFICES ASSUME Stored, NoLoss, AtTheEnd, ~Undecided(auditor.p, records)
               PROVE  /\ Cardinality(Owed \ auditor.shown) <= auditor.late
                      /\ Quiet => auditor.count = Total(auditor.p)
    BY DEF PagesLoseNothing
  <2> DEFINE p == auditor.p
             U == Unseen(p, records, auditor.began, auditor.shown)
  <2>1. /\ records \in SUBSET Records /\ IsFiniteSet(records)
        /\ auditor.began \in SUBSET records /\ auditor.offset \in Nat
        /\ SeenOrAhead(p, records, auditor.began, auditor.offset, auditor.shown)
        /\ auditor.late \in Nat /\ auditor.total \in Nat /\ ~(auditor.offset < auditor.total)
    BY DEF Stored, NoLoss, Kept, Counted, AtTheEnd, More
  <2>2. Quiet => /\ \A row \in Rows(p, records) : row.key \in auditor.shown
                 /\ auditor.count = Total(p)
    <3> SUFFICES ASSUME Quiet
                 PROVE  /\ \A row \in Rows(p, records) : row.key \in auditor.shown
                        /\ auditor.count = Total(p)
      OBVIOUS
    <3>1. /\ SeenAhead(p, records, auditor.offset, auditor.shown, auditor.count)
          /\ Cardinality(Rows(p, records)) = auditor.total
      BY DEF NoLoss, Kept, Counted, Quiet, AtTheEnd
    <3>2. \A row \in Rows(p, records) : /\ At(p, records, row) \in Nat
                                        /\ At(p, records, row) < Cardinality(Rows(p, records))
      BY <2>1, RowsFinite, OrderLinear, RankFacts DEF At
    <3>3. Ahead(p, records, auditor.offset) = Rows(p, records)
      BY <2>1, <3>1, <3>2 DEF Ahead
    <3> QED
      BY <3>1, <3>3 DEF SeenAhead, Total
  <2>3. CASE Quiet \/ ~Descending(p)
    <3>1. Owed \ auditor.shown = {}
      BY <2>2, <2>3 DEF Owed, Quiet, Descending
    <3> QED
      BY <2>1, <2>2, <3>1, FS_EmptySet
  <2>4. CASE ~Quiet /\ Descending(p)
    <3>1. IsFiniteSet(U) /\ Cardinality(U) \in Nat
      <4> HIDE DEF p
      <4> QED
        BY <2>1, <2>4, UnseenFew
    <3>2. Cardinality(U) <= auditor.late
      BY <2>1, <2>4 DEF NoLoss, Counted, AtTheEnd
    <3> DEFINE key == [row \in U |-> row.key]
    <3>3. Owed \ auditor.shown = {key[row] : row \in U}
      <4>1. Owed = {row.key : row \in Seats(p, auditor.began) \ Moved(p, records, auditor.began)}
        BY <2>4 DEF Owed, Descending, Rows, Moved, SeatTurns
      <4> QED
        BY <4>1 DEF Unseen
    <3>4. \A x, y \in U : key[x] = key[y] => x = y
      BY SeatRows DEF Unseen
    <3>5. Cardinality({key[row] : row \in U}) = Cardinality(U)
      <4> HIDE DEF U, key
      <4> QED
        BY <3>1, <3>4, Images
    <3> QED
      BY <2>2, <2>4, <3>2, <3>3, <3>5
  <2> QED
    BY <2>3, <2>4
<1> QED
  BY <1>1, <1>2, StoredInvariant, FieldsStep, NoLossStep, PTL DEF Spec

=============================================================================
