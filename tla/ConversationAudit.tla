------------------------- MODULE ConversationAudit -------------------------
(***************************************************************************)
(* The conversation audit: the turns and session prompts the collector     *)
(* stores, and the pages the query service reads from them -- seats, the   *)
(* sessions of a seat, the thread of a session, the exports -- while more  *)
(* turns arrive.  One auditor turns the pages of a list, or downloads the  *)
(* .zip of a seat, which reads session after session.                      *)
(*                                                                         *)
(* An id or a name is a sequence of code points; << >> is the empty one,   *)
(* and NULL where the collector stores an empty column as NULL.            *)
(***************************************************************************)
EXTENDS Integers, Sequences, FiniteSetsExt

CONSTANTS Records,       \* the turns the proxies may upload
          Requests,      \* the lists and exports an auditor may ask for
          DefaultLimit,  \* defaultListLimit
          MaxLimit,      \* maxListLimit
          TurnLimit,     \* defaultTurnLimit
          MaxSeatKeys,   \* maxSeatKeys
          DayLength,     \* the length of a day of conv_date
          SafeChars,     \* the code points safeFilename keeps
          Underscore,    \* the one it writes instead of the others
          Lower,         \* LOWER, a function of code points
          Unbounded,     \* no date
          Malformed      \* a date that does not parse

ASSUME LimitAssumption ==
    /\ {DefaultLimit, TurnLimit} \subseteq Nat \ {0} /\ MaxLimit \in Nat
    /\ DefaultLimit <= MaxLimit /\ TurnLimit <= MaxLimit

\* The LOWER of what LOWER returned is the same again.
ASSUME LowerAssumption ==
    /\ DOMAIN Lower \subseteq Int
    /\ \A c \in DOMAIN Lower : Lower[c] \in DOMAIN Lower /\ Lower[Lower[c]] = Lower[c]

\* The fields a request has, whatever it leaves empty.
ASSUME RequestAssumption ==
    \A q \in Requests :
        /\ {"view", "org", "owner", "session", "start", "end", "limit", "offset", "sort",
            "dir", "search", "keys", "term"} \subseteq DOMAIN q
        /\ q.limit \in Int

VARIABLES records,   \* conversation_records
          sessions,  \* conversation_sessions: [org, session, owner, text]
          auditor    \* what the auditor has open, and has been shown of it

vars == <<records, sessions, auditor>>

-----------------------------------------------------------------------------
\* strings

\* the order of text columns
Precedes(s, t) ==
    \E i \in 1 .. Len(t) :
        /\ i - 1 <= Len(s)
        /\ \A j \in 1 .. i - 1 : s[j] = t[j]
        /\ i <= Len(s) => s[i] < t[i]

Lowered(s) == [i \in DOMAIN s |-> Lower[s[i]]]

\* LOWER(s) LIKE '%' || LOWER(term) || '%', the term escaped
Like(s, term) ==
    \E i \in 0 .. Len(s) - Len(term) :
        SubSeq(Lowered(s), i + 1, i + Len(term)) = Lowered(term)

SafeFilename(s) ==
    [i \in DOMAIN s |-> IF s[i] \in SafeChars THEN s[i] ELSE Underscore]

-----------------------------------------------------------------------------
\* how a turn is filed

ConvDate(r) == r.time \div DayLength

\* seatKeyExpr
SeatKey(r) == IF r.seat # << >> THEN r.seat ELSE r.owner

\* COALESCE(session_id, event_id)
SessionOf(r) == IF r.session # << >> THEN r.session ELSE r.event

\* Times are epoch milliseconds, token counts are counts, and no turn is accepted
\* without an event id, which with its day names the turn within the organisation:
\* a proxy sends a turn again as it sent it first.
ASSUME RecordAssumption ==
    /\ \A r \in Records :
           /\ {r.event, r.session, r.owner, r.seat} \subseteq Seq(DOMAIN Lower)
           /\ r.event # << >>
           /\ {r.time, r.tokens} \subseteq Nat
    /\ \A r, s \in Records :
           r.org = s.org /\ r.event = s.event /\ ConvDate(r) = ConvDate(s) => r = s

-----------------------------------------------------------------------------
\* the parameters of a request

ValidConvDate(date) == IF date = Malformed THEN Unbounded ELSE date

\* parseConvParams
ConvParams(q) ==
    [q EXCEPT !.start = ValidConvDate(@), !.end = ValidConvDate(@),
              !.limit = IF @ > 0 THEN @ ELSE 0]

ClampLimit(n, default) ==
    IF n <= 0 THEN default ELSE Min({n, MaxLimit})

\* Seeded fault: the page size echoed is the one that was asked for
EchoRequested(n) == IF n <= 0 THEN DefaultLimit ELSE n

EffectiveListLimit(n) == ClampLimit(n, DefaultLimit)

\* appendDateRange
InRange(p, r) ==
    /\ p.start = Unbounded \/ p.start <= ConvDate(r)
    /\ p.end = Unbounded \/ ConvDate(r) <= p.end

\* org, dates and appendSeatFilter; a search for nothing finds nothing
SeatWhere(p, r) ==
    /\ r.org = p.org
    /\ InRange(p, r)
    /\ p.search => \/ SeatKey(r) \in p.keys
                   \/ p.term # << >> /\ Like(SeatKey(r), p.term)

\* Seeded fault: one of the queries of a seat goes by the owner of the virtual key
SessionWhereOwner(p, r) ==
    r.org = p.org /\ r.owner = p.owner /\ InRange(p, r)

SessionWhere(p, r) ==
    r.org = p.org /\ SeatKey(r) = p.owner /\ InRange(p, r)

-----------------------------------------------------------------------------
\* the rows of the two lists

Tokens(S) == LET tokens(r) == r.tokens IN MapThenSumSet(tokens, S)
Times(S) == {r.time : r \in S}

SeatRow(k, S) ==
    [key      |-> k,
     sessions |-> Cardinality({SessionOf(r) : r \in S}),
     turns    |-> Cardinality(S),
     tokens   |-> Tokens(S),
     activity |-> Max(Times(S))]

SessionRow(k, S) ==
    [key      |-> k,
     created  |-> Min(Times(S)),
     turns    |-> Cardinality(S),
     tokens   |-> Tokens(S),
     activity |-> Max(Times(S))]

Seats(p, stored) ==
    LET S == {r \in stored : SeatWhere(p, r)}
    IN  {SeatRow(k, {r \in S : SeatKey(r) = k}) : k \in {SeatKey(r) : r \in S}}

Sessions(p, stored) ==
    LET S == {r \in stored : SessionWhere(p, r)}
    IN  {SessionRow(k, {r \in S : SessionOf(r) = k}) : k \in {SessionOf(r) : r \in S}}

SeatSortCols == {"sessions", "turns", "tokens", "activity"}
SessionSortCols == {"created", "turns", "tokens", "activity"}

Ascending(p, cols) == p.sort \in cols /\ p.dir = "asc"

\* orderByClause: a stands before b, whatever follows if the column ties
OrderBy(p, cols, default, a, b, tiebreak) ==
    LET c == IF p.sort \in cols THEN p.sort ELSE default
    IN  \/ IF Ascending(p, cols) THEN a[c] < b[c] ELSE a[c] > b[c]
        \/ a[c] = b[c] /\ tiebreak

SeatBefore(p, a, b) ==
    OrderBy(p, SeatSortCols, "tokens", a, b,
            \/ a.activity > b.activity
            \/ a.activity = b.activity /\ Precedes(a.key, b.key))

SessionBefore(p, a, b) ==
    OrderBy(p, SessionSortCols, "activity", a, b, a.created > b.created)

Rows(p, stored) ==
    IF p.view = "seats" THEN Seats(p, stored) ELSE Sessions(p, stored)

Before(p, a, b) ==
    IF p.view = "seats" THEN SeatBefore(p, a, b) ELSE SessionBefore(p, a, b)

\* ORDER BY ... LIMIT p.limit OFFSET offset: rows the order leaves tied may come
\* either way round, and another way at the next page
Pages(p, offset, stored) ==
    LET all   == Rows(p, stored)
        limit == ClampLimit(p.limit, DefaultLimit)
        skip  == Min({offset, Cardinality(all)})
        take  == Min({limit, Cardinality(all) - skip})
        heads(n, S) == {H \in kSubset(n, S) :
                           \A a \in H, b \in S \ H : ~Before(p, b, a)}
    IN  UNION {heads(take, all \ skipped) : skipped \in heads(skip, all)}

Total(p) == Cardinality(Rows(p, records))

-----------------------------------------------------------------------------
\* a thread, and its exports

TurnsOf(p) ==
    {r \in records : r.org = p.org /\ SeatKey(r) = p.owner /\ SessionOf(r) = p.session}

\* the turns one after the other, each by how many stand before it
Sorted(S, before(_, _)) ==
    [i \in 1 .. Cardinality(S) |->
        CHOOSE r \in S : Cardinality({x \in S : before(x, r)}) = i - 1]

\* Seeded fault: the turns come in the order of their ids
InOrderOfEvents(S) ==
    LET before(a, b) == Precedes(a.event, b.event) IN Sorted(S, before)

\* ORDER BY created_at, event_id
InOrder(S) ==
    LET before(a, b) == \/ a.time < b.time
                        \/ a.time = b.time /\ Precedes(a.event, b.event)
    IN  Sorted(S, before)

\* Seeded fault: the prompt is looked up by the session alone
PromptOfSession(p) ==
    LET rows == {s \in sessions : s.org = p.org /\ s.session = p.session}
    IN  IF rows = {} THEN << >> ELSE (CHOOSE s \in rows : TRUE).text

SessionSystemText(p) ==
    LET rows == {s \in sessions : /\ s.org = p.org
                                  /\ s.owner = p.owner
                                  /\ s.session = p.session}
    IN  IF rows = {} THEN << >> ELSE (CHOOSE s \in rows : TRUE).text

StreamSessionTurns(p) == InOrder(TurnsOf(p))

ThreadDetail(p) ==
    LET all == InOrder(TurnsOf(p))
        end == Min({p.offset + ClampLimit(p.limit, TurnLimit), Len(all)})
    IN  [text |-> SessionSystemText(p), turns |-> SubSeq(all, p.offset + 1, end)]

-----------------------------------------------------------------------------
Closed == [view |-> "none"]

Init ==
    /\ records = {}
    /\ sessions = {}
    /\ auditor = Closed

\* first wins
UpsertSession(r) ==
    sessions' = sessions \cup
        {s \in {[org |-> r.org, session |-> r.session,
                 owner |-> SeatKey(r), text |-> r.system]} :
            \A t \in sessions : t.org # s.org \/ t.session # s.session}

\* The collector stores a turn, or finds it a duplicate, and then the prompt of
\* its session, which may fail without failing the turn.  A turn whose id another
\* tenant holds on the day is refused.
Ingest(r) ==
    /\ \A x \in records : x.event = r.event /\ ConvDate(x) = ConvDate(r) => x.org = r.org
    /\ records' = IF \E x \in records : x.event = r.event /\ ConvDate(x) = ConvDate(r)
                  THEN records ELSE records \cup {r}
    /\ \/ r.system # << >> /\ UpsertSession(r)
       \/ UNCHANGED sessions
    /\ UNCHANGED auditor

\* SeatSummaries and SessionSummaries are two statements of no transaction.
\* countGroups: how many rows the list has
Count(p, before) ==
    auditor' = [view |-> p.view, p |-> p, step |-> "counted", began |-> before.began,
                offset |-> before.offset, total |-> Total(p), late |-> 0,
                shown |-> before.shown, count |-> before.count]

OpenList(q) ==
    LET p == ConvParams(q)
    IN  /\ auditor = Closed
        /\ p.view \in {"seats", "sessions"}
        /\ Cardinality(p.keys) <= MaxSeatKeys
        /\ Count(p, [began |-> records, offset |-> 0, shown |-> {}, count |-> 0])
        /\ UNCHANGED <<records, sessions>>

Listing == auditor.view \in {"seats", "sessions"}

\* the page's own query, after the count: late are the rows that came in between,
\* which the total leaves out
Show ==
    /\ Listing
    /\ auditor.step = "counted"
    /\ \E page \in Pages(auditor.p, auditor.offset, records) :
           auditor' = [auditor EXCEPT
               !.step = "shown", !.offset = @ + EffectiveListLimit(auditor.p.limit),
               !.late = Total(auditor.p) - auditor.total,
               !.shown = @ \cup {row.key : row \in page},
               !.count = @ + Cardinality(page)]
    /\ UNCHANGED <<records, sessions>>

More == auditor.offset < auditor.total

\* the console turns to the next page while the total says there is one
TurnPage ==
    /\ Listing
    /\ auditor.step = "shown"
    /\ More
    /\ Count(auditor.p, auditor)
    /\ UNCHANGED <<records, sessions>>

\* exportSeatZip: StreamSessionIDs
StartZip(q) ==
    LET p == ConvParams(q)
    IN  /\ auditor = Closed
        /\ p.view = "zip"
        /\ auditor' = [view |-> "zip", p |-> p, began |-> records, step |-> "next",
                       left |-> Sessions(p, records), zip |-> {}]
        /\ UNCHANGED <<records, sessions>>

\* the oldest session of those left becomes an entry; its prompt is read
ZipPrompt ==
    /\ auditor.view = "zip" /\ auditor.step = "next"
    /\ \E row \in auditor.left :
        /\ \A x \in auditor.left : row.created <= x.created
        /\ LET sp == [auditor.p EXCEPT !.session = row.key]
           IN  auditor' = [auditor EXCEPT
                   !.step = "turns", !.p = sp, !.left = @ \ {row},
                   !.zip = @ \cup {[name |-> SafeFilename(row.key), session |-> row.key,
                                    text |-> SessionSystemText(sp), turns |-> << >>]}]
    /\ UNCHANGED <<records, sessions>>

\* and then its turns
ZipTurns ==
    /\ auditor.view = "zip" /\ auditor.step = "turns"
    /\ auditor' = [auditor EXCEPT
           !.step = "next",
           !.zip = {IF e.session = auditor.p.session
                    THEN [e EXCEPT !.turns = StreamSessionTurns(auditor.p)]
                    ELSE e : e \in @}]
    /\ UNCHANGED <<records, sessions>>

Leave ==
    /\ auditor # Closed
    /\ auditor' = Closed
    /\ UNCHANGED <<records, sessions>>

Next ==
    \/ \E r \in Records : Ingest(r)
    \/ \E q \in Requests : OpenList(q) \/ StartZip(q)
    \/ Show \/ TurnPage \/ ZipPrompt \/ ZipTurns \/ Leave

Spec == Init /\ [][Next]_vars

-----------------------------------------------------------------------------
(***************************************************************************)
(* Properties                                                              *)
(***************************************************************************)

\* The views do not depend on the auditor: properties that compare them look at
\* the states in which none is open.
Idle == auditor = Closed

Asked == {ConvParams(q) : q \in Requests}

Undecided(p, stored) ==
    \E a, b \in Rows(p, stored) : a # b /\ ~Before(p, a, b) /\ ~Before(p, b, a)

\* the page that is the last by its total has been shown
AtTheEnd == Listing /\ auditor.step = "shown" /\ ~More

\* nothing was stored since the list was opened
Quiet == auditor.began = records

\* The rows of a list the auditor must have seen at its end: all of them if
\* nothing was stored meanwhile; of a descending seat list, the seats without a
\* new turn, since the others only move up.
Owed ==
    LET p == auditor.p
        turns(k, stored) == {r \in stored : SeatWhere(p, r) /\ SeatKey(r) = k}
    IN  {k \in {row.key : row \in Rows(p, auditor.began)} :
            \/ Quiet
            \/ /\ p.view = "seats" /\ ~Ascending(p, SeatSortCols)
               /\ turns(k, auditor.began) = turns(k, records)}

\* An auditor who turns the pages of a list to its end misses no more of the rows
\* he is owed than came between the last page's count and the page itself, however
\* the limit was clamped, and in a quiet database sees each row once and as many as
\* the total says (repository_sql.go:142, TestSeatSummariesPagingIsAPartition): of
\* sessions, while none of them tie.
PagesLoseNothing ==
    AtTheEnd /\ ~Undecided(auditor.p, records) =>
        /\ Cardinality(Owed \ auditor.shown) <= auditor.late
        /\ Quiet => auditor.count = Total(auditor.p)

\* A seat on the list is found by the label it is shown under, if it has one,
\* written in either case, and a search finds nothing the list does not have
\* (domain.go:94).
SearchFindsShown ==
    Idle => \A p \in {x \in Asked : x.view = "seats"} :
        LET open == [p EXCEPT !.search = FALSE, !.keys = {}, !.term = << >>]
            search(term) == [open EXCEPT !.search = TRUE, !.term = term]
        IN  /\ Seats(p, records) \subseteq Seats(open, records)
            /\ \A row \in {x \in Seats(open, records) : x.key # << >>} :
                   /\ row \in Seats(search(row.key), records)
                   /\ row \in Seats(search(Lowered(row.key)), records)

\* What the list of seats says of a seat is what its sessions add up to, and they
\* to the turns of their threads and of their exports, for turns of old and new
\* proxies and turns without a session (repository_sql.go:131); every turn of a
\* thread is on one of its pages, in its place; and a search finds what is shown.
ViewsAgree ==
    /\ SearchFindsShown
    /\ Idle => \A p \in {x \in Asked : x.view = "seats"} : \A row \in Seats(p, records) :
        LET own       == Sessions([p EXCEPT !.owner = row.key], records)
            turns(s)  == s.turns
            tokens(s) == s.tokens
        IN  /\ row.sessions = Cardinality(own)
            /\ row.turns = MapThenSumSet(turns, own)
            /\ row.tokens = MapThenSumSet(tokens, own)
            /\ row.activity = Max({s.activity : s \in own})
            /\ p.start = Unbounded /\ p.end = Unbounded => \A s \in own :
                   LET at(offset) == [p EXCEPT !.owner = row.key, !.session = s.key,
                                               !.offset = offset, !.limit = 0]
                       all == StreamSessionTurns(at(0))
                   IN  /\ Len(all) = s.turns
                       /\ \A k \in 0 .. s.turns :
                              LET page  == ThreadDetail(at(k * TurnLimit)).turns
                                  there == {i \in DOMAIN all : (i - 1) \div TurnLimit = k}
                              IN  /\ DOMAIN page = {i - k * TurnLimit : i \in there}
                                  /\ \A i \in there : page[i - k * TurnLimit] = all[i]

\* An auditor is shown nothing of another organisation, whatever it searches for,
\* and a thread's prompt is one its own seat sent in that session: session ids are
\* not unique across seats or organisations (domain.go:75).
TenantScope ==
    /\ Listing =>
           LET own == {x \in records : x.org = auditor.p.org}
           IN  auditor.shown \subseteq {SeatKey(r) : r \in own} \cup {SessionOf(r) : r \in own}
    /\ Idle => \A p \in Asked, r \in Records :
        LET thread == [p EXCEPT !.owner = SeatKey(r), !.session = SessionOf(r)]
            text   == SessionSystemText(thread)
        IN  text # << >> => \E x \in TurnsOf(thread) : x.system = text

\* A finished .zip carries every turn of the range that was there when it was
\* begun, once, under its session and in its order, although more arrive while it
\* is written (conversation_export.go:20, repository.go:21).
ZipComplete ==
    auditor.view = "zip" /\ auditor.step = "next" /\ auditor.left = {} =>
        \A r \in auditor.began :
            SessionWhere(auditor.p, r) =>
                \E e \in auditor.zip :
                    /\ e.session = SessionOf(r)
                    /\ Cardinality({i \in DOMAIN e.turns : e.turns[i] = r}) = 1
                    /\ \A i, j \in DOMAIN e.turns : i < j => e.turns[i].time <= e.turns[j].time

-----------------------------------------------------------------------------
\* What the comments of the code say and the code does not do

\* "the tiebreak keeps pagination stable when the primary key ties"
\* (repository_sql.go:65), of the sessions of a seat as of the seats.
SessionPagesStable ==
    AtTheEnd /\ Quiet =>
        {row.key : row \in Rows(auditor.p, records)} \subseteq auditor.shown

\* The count "keeps that invariant mechanical", that the console does not show one
\* number of rows "while paging bottoms out at" another (repository_sql.go:146): of
\* a list that is paged to its end, no row that was owed is missing.
OwedAlwaysShown ==
    AtTheEnd /\ ~Undecided(auditor.p, records) => Owed \subseteq auditor.shown

\* "system_text is sent on every turn but stored once per session", and sessions
\* are "always read with org+owner" (domain.go:25, 38 of the collector): a turn
\* of a session that sent a prompt, stored with it, has one in its thread.
PromptShown ==
    \A r \in records :
        r.session # << >> /\ r.system # << >>
        /\ (\E s \in sessions : s.org = r.org /\ s.session = r.session) =>
            SessionSystemText([org |-> r.org, owner |-> SeatKey(r),
                               session |-> r.session]) # << >>

\* "a .zip (one .md per session)" (conversation_export.go:21): no two sessions of
\* it go by one name.
OneFilePerSession ==
    auditor.view = "zip" =>
        \A e, f \in auditor.zip : e.name = f.name => e.session = f.session

\* "Default sort is ACTIVITY (turn_count), not token" (domain.go:14).
SeatsByActivity ==
    \A p \in {x \in Asked : x.view = "seats" /\ x.sort \notin SeatSortCols} :
        \A a, b \in Seats(p, records) : a.turns > b.turns => Before(p, a, b)
=============================================================================
