----------------------------- MODULE QueryPool -----------------------------
(***************************************************************************)
(* The connections of the query service: requests of the conversation      *)
(* audit share one pool of database/sql.  A list runs one query after the  *)
(* other.  The .zip of a seat keeps the connection its sessions are        *)
(* streamed from, and takes a second one for every query of a session.     *)
(***************************************************************************)
EXTENDS Integers, FiniteSets

CONSTANTS Zips,         \* the requests for the .zip of a seat
          Lists,        \* the requests for a list
          PoolSize,     \* AIKEY_DB_MAX_OPEN_CONNS, 20 unless set
          MaxSessions   \* bound: the sessions of a seat

ASSUME PoolAssumption ==
    /\ PoolSize \in Nat \ {0}
    /\ MaxSessions \in Nat
    /\ Zips \cap Lists = {}
    /\ IsFiniteSet(Zips) /\ IsFiniteSet(Lists)

VARIABLES at,    \* the step each request is at
          left   \* the sessions a .zip has still to write

vars == <<at, left>>

Requests == Zips \cup Lists

\* steps that wait for a connection with none, with the cursor's, and steps
\* that run a query on a connection of its own
Arriving == {"asked", "counted"}
Rendering == {"wantsPrompt", "wantsTurns"}
Querying == {"counting", "listing", "prompt", "turns"}

\* the steps of a .zip that has its cursor open
WithCursor == {"cursor", "prompt", "turns"} \cup Rendering
Steps == {"idle", "ended"} \cup Arriving \cup Querying \cup WithCursor

TypeOK ==
    /\ at \in [Requests -> Steps]
    /\ left \in [Zips -> 0 .. MaxSessions]
    /\ \A x \in Lists : at[x] \notin WithCursor

\* Seeded fault: the rows of the count stay open until the page is read
StreamingCounts ==
    {x \in Requests : at[x] \in {"counted"} \cup WithCursor}

Streaming == {z \in Zips : at[z] \in WithCursor}
Busy == {x \in Requests : at[x] \in Querying}

Used == Cardinality(Streaming) + Cardinality(Busy)

Free == PoolSize - Used

Goes(x, from, to) ==
    /\ at[x] = from
    /\ at' = [at EXCEPT ![x] = to]

-----------------------------------------------------------------------------
Init ==
    /\ at = [x \in Requests |-> "idle"]
    /\ left = [z \in Zips |-> 0]

Ask(x) == Goes(x, "idle", "asked") /\ UNCHANGED left

\* countGroups, then the page; either may fail
Count(x) == x \in Lists /\ Free > 0 /\ Goes(x, "asked", "counting") /\ UNCHANGED left
Counted(x) == (Goes(x, "counting", "counted") \/ Goes(x, "counting", "ended")) /\ UNCHANGED left
List(x) == Free > 0 /\ Goes(x, "counted", "listing") /\ UNCHANGED left
Listed(x) == Goes(x, "listing", "ended") /\ UNCHANGED left

\* StreamSessionIDs: the rows stay open while each session is rendered, until the
\* last, or until the enumeration fails
OpenCursor(z) ==
    /\ z \in Zips
    /\ Free > 0
    /\ \/ Goes(z, "asked", "cursor") /\ \E n \in 0 .. MaxSessions : left' = [left EXCEPT ![z] = n]
       \/ Goes(z, "asked", "ended") /\ UNCHANGED left

NextSession(z) ==
    /\ z \in Zips
    /\ left[z] > 0
    /\ Goes(z, "cursor", "wantsPrompt")
    /\ left' = [left EXCEPT ![z] = @ - 1]

\* Seeded fault: the enumeration stays open after its last session
CloseCursorLate(z) ==
    /\ z \in Zips
    /\ left[z] > 0
    /\ Goes(z, "cursor", "ended") /\ UNCHANGED left

CloseCursor(z) ==
    /\ z \in Zips
    /\ Goes(z, "cursor", "ended") /\ UNCHANGED left

\* renderSessionMarkdown: SessionSystemText, then StreamSessionTurns; a session
\* that fails is left as it is, and the next one follows
AskPrompt(z) == Free > 0 /\ Goes(z, "wantsPrompt", "prompt") /\ UNCHANGED left
PromptRead(z) ==
    (Goes(z, "prompt", "wantsTurns") \/ Goes(z, "prompt", "cursor")) /\ UNCHANGED left
AskTurns(z) == Free > 0 /\ Goes(z, "wantsTurns", "turns") /\ UNCHANGED left
TurnsRead(z) == Goes(z, "turns", "cursor") /\ UNCHANGED left

\* the caller goes away: its context ends every wait and every query
Disconnect(x) ==
    /\ at[x] \notin {"idle", "ended"}
    /\ at' = [at EXCEPT ![x] = "ended"]
    /\ UNCHANGED left

Step(x) ==
    \/ Count(x) \/ Counted(x) \/ List(x) \/ Listed(x)
    \/ OpenCursor(x) \/ NextSession(x) \/ CloseCursor(x)
    \/ AskPrompt(x) \/ PromptRead(x) \/ AskTurns(x) \/ TurnsRead(x)

Next == \E x \in Requests : Ask(x) \/ Step(x) \/ Disconnect(x)

Spec == Init /\ [][Next]_vars

\* A query answers, and a slow reader's writes end with WriteTimeout (60 s):
\* each request goes on when it can.  Nobody must ask, and nobody need leave.
Fairness == \A x \in Requests : WF_vars(Step(x))

FairSpec == Spec /\ Fairness

-----------------------------------------------------------------------------
(***************************************************************************)
(* Properties                                                              *)
(***************************************************************************)

\* The requests hold no more connections than the pool has, and as long as fewer
\* .zips are asked for than it has, somebody who holds one can go on, or there
\* is one to take: not everyone waits for everyone (conversation_export.go:66).
NobodyStuck ==
    /\ Used <= PoolSize
    /\ Cardinality(Zips) < PoolSize =>
           \/ Free > 0
           \/ Busy # {}
           \/ \E z \in Zips : at[z] = "cursor"

\* Every request ends although its caller waits: in "such errors are logged ...
\* and the stream ends" (conversation_export.go:25) every stream ends.
RequestsEnd == \A x \in Requests : at[x] = "asked" ~> at[x] = "ended"
=============================================================================
