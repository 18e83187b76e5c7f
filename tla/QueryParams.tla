--------------------------- MODULE QueryParams ---------------------------
(***************************************************************************)
(* How the query service turns a request into query parameters: the query  *)
(* strings the handlers of query-service/internal/api accept, the defaults *)
(* and time zones of usage.QueryParams, and the two ways of putting an     *)
(* instant into a local day or hour (one per SQL dialect).                 *)
(*                                                                         *)
(* Instants are hours since an epoch, a calendar day has DayHours of them, *)
(* and a calendar date is the number of days since the same epoch, so the  *)
(* naive date d starts at UTC instant d * DayHours.  A time zone is an     *)
(* IANA zone with at most one transition: its offset is `before' until     *)
(* instant `at' and `after' from then on.                                  *)
(***************************************************************************)
EXTENDS Integers

CONSTANTS DayHours,   \* hours of a calendar day (24)
          DefaultDays,\* days of the default window (30)
          MaxDetailDays, \* widest window of the audit page (31)
          Now,        \* the instant the charts are asked for, and tables opened from
          NoZone,     \* the zone of a request with an unknown or no ?tz
          None,       \* an absent parameter, a NULL column
          Malformed   \* a date that is not YYYY-MM-DD

ASSUME CalendarAssumption ==
    /\ DayHours \in Nat \ {0}
    /\ DefaultDays \in Nat
    /\ MaxDetailDays \in Nat
    /\ Now \in Nat

UTC == [before |-> 0, after |-> 0, at |-> 0]

\* the offset a zone has at an instant (time.Time.Zone, AT TIME ZONE)
Offset(zone, t) == IF t < zone.at THEN zone.before ELSE zone.after

LocalDate(zone, t) == (t + Offset(zone, t)) \div DayHours

UTCDate(t) == t \div DayHours

\* time.Date(y, m, d, 0, 0, 0, 0, loc)
Midnight(zone, date) ==
    LET early == date * DayHours - zone.before
    IN  IF early < zone.at THEN early ELSE date * DayHours - zone.after

-----------------------------------------------------------------------------
\* a missing and a malformed date both leave the zero time
ParseDate(d) == IF d = Malformed THEN None ELSE d

\* Seeded fault: the offset of the moment the query is made
AnchorNow(start, now) == now

\* the instant whose offset stands for the whole window: the window's naive
\* start, or now when the request names none
Anchor(start, now) == IF start = None THEN now ELSE start * DayHours

\* QueryParams.Defaults, of a request served at an instant
Defaults(q, now) ==
    LET zone   == IF q.tz = NoZone THEN UTC ELSE q.tz
        start  == ParseDate(q.start)
        end    == ParseDate(q.end)
        last   == IF end = None THEN LocalDate(zone, now) ELSE end
    IN  [zone   |-> zone,
         offset |-> IF zone = UTC THEN 0 ELSE Offset(zone, Anchor(start, now)),
         end    |-> last,
         start  |-> IF start = None THEN last - DefaultDays ELSE start]

\* the half-open range of instants of a window of local dates
Window(p) == [from |-> Midnight(p.zone, p.start),
              to   |-> Midnight(p.zone, p.end + 1)]

InWindow(p, t) == Window(p).from <= t /\ t < Window(p).to

\* the one day of the hourly timeline: ?date, or today
HourlyDay(p, date) ==
    IF ParseDate(date) = None THEN LocalDate(p.zone, Now) ELSE date

OneDay(p, day) == [p EXCEPT !.start = day, !.end = day]

\* the day of PersonalByProtocolHourly: today only if the start date is zero,
\* which it never is once Defaults has run
ProtocolHourlyDay(p, date) ==
    IF ParseDate(date) # None THEN date
    ELSE IF p.start = None THEN LocalDate(p.zone, Now)
    ELSE p.start

\* parsePersonalParams accepts a request that names an identity
Identified(q) == q.seat # None \/ q.account # None \/ q.org = "personal"

\* Seeded fault: the caller's word is enough
LocalAllScopeAsked(q, personalDB) == q.scope = "all"

\* personalParams: the deployment allows the wide scope and the caller asks
LocalAllScope(q, personalDB) == personalDB /\ q.scope = "all"

\* the dates of an audit page served at an instant: an explicit range, checked
\* after Defaults has filled what is missing, or the last `days' dates (UTC)
DetailDates(q, now) ==
    IF q.start = None /\ q.end = None
    THEN LET days == IF q.days > MaxDetailDays THEN MaxDetailDays ELSE q.days
         IN  [start |-> UTCDate(now) - (days - 1), end |-> UTCDate(now)]
    ELSE [start |-> Defaults(q, now).start, end |-> Defaults(q, now).end]

DetailAccepted(q, now) ==
    LET dates == DetailDates(q, now)
    IN  /\ dates.start # None /\ dates.end # None
        /\ dates.start <= dates.end
        /\ dates.end - dates.start <= MaxDetailDays

-----------------------------------------------------------------------------
Dialects == {"sqlite", "postgres"}

\* DateOfLocal: SQLite shifts every row by the one offset of the request,
\* PostgreSQL asks the zone row by row
DateOfLocal(dialect, p, t) ==
    IF dialect = "sqlite" THEN (t + p.offset) \div DayHours
    ELSE LocalDate(p.zone, t)

HourBucketLocal(dialect, p, t) ==
    IF dialect = "sqlite" THEN (t + p.offset) % DayHours
    ELSE (t + Offset(p.zone, t)) % DayHours

=============================================================================
