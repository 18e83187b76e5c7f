------------------------ MODULE MCConversationAudit ------------------------
(***************************************************************************)
(* Instances of ConversationAudit: a seat whose turns come from an old     *)
(* proxy, a new one and a pool key, a seat that shares a session id with   *)
(* it, and another organisation.                                           *)
(***************************************************************************)
EXTENDS ConversationAudit, TLC

\* code points: letters 1 and 2, their capital forms 11 and 12, "_" 20, "/" 21
MCLower == [c \in {1, 2, 11, 12, 20, 21} |-> IF c \in {11, 12} THEN c - 10 ELSE c]

Ann == <<11, 20>>
Bob == <<2>>
Pool == <<12, 1>>

Turn ==
    [org |-> "acme", session |-> <<1>>, owner |-> Ann, seat |-> << >>,
     system |-> << >>, tokens |-> 1]

At(event, time) == [event |-> event, time |-> time]

MCRecords ==
    {\* Ann, by an old proxy and with a new one on a pool's key
     At(<<1, 2>>, 1) @@ [Turn EXCEPT !.system = <<1>>],
     At(<<1, 1>>, 4) @@ [Turn EXCEPT !.owner = Pool, !.seat = Ann, !.system = <<2>>, !.tokens = 0],
     \* two of hers of one instant, whose names differ by an unsafe character
     At(<<2, 1>>, 3) @@ [Turn EXCEPT !.session = <<1, 20>>, !.tokens = 0],
     At(<<2, 2>>, 3) @@ [Turn EXCEPT !.session = <<1, 21>>],
     \* Bob in a session of the same id, and without one
     At(<<1>>, 3) @@ [Turn EXCEPT !.owner = Bob, !.system = <<2>>, !.tokens = 2],
     At(<<2>>, 3) @@ [Turn EXCEPT !.owner = Bob, !.session = << >>, !.system = <<1>>],
     \* another organisation, the same names
     At(<<2, 11>>, 2) @@ [Turn EXCEPT !.org = "other", !.owner = Pool, !.system = <<12>>]}

Ask ==
    [view |-> "seats", org |-> "acme", owner |-> << >>, session |-> << >>,
     start |-> Unbounded, end |-> Unbounded, limit |-> 1, offset |-> 0,
     sort |-> "none", dir |-> "none", search |-> FALSE, keys |-> {}, term |-> << >>]

MCRequests ==
    {Ask,
     [Ask EXCEPT !.sort = "turns", !.dir = "asc", !.start = 1],
     [Ask EXCEPT !.start = Malformed, !.end = 0, !.sort = "sessions"],
     [Ask EXCEPT !.limit = 9, !.search = TRUE, !.keys = {Bob}, !.term = <<1>>],
     [Ask EXCEPT !.limit = 0, !.search = TRUE],
     [Ask EXCEPT !.view = "sessions", !.owner = Ann, !.sort = "tokens", !.limit = 9],
     [Ask EXCEPT !.view = "sessions", !.owner = Ann, !.sort = "created", !.dir = "asc"],
     [Ask EXCEPT !.view = "sessions", !.owner = Bob, !.sort = "tokens"],
     [Ask EXCEPT !.view = "zip", !.owner = Ann],
     [Ask EXCEPT !.view = "zip", !.owner = Bob, !.start = 1]}
=============================================================================
