-------------------------- MODULE DeliveryContract --------------------------
(***************************************************************************)
(* What the proxy and the collector promise together, whatever the channel *)
(* and however it numbers, batches, answers and reconciles: an event the   *)
(* proxy logged stays in its log until the collector answers for it, the   *)
(* collector answers only for what it has stored or written off, and it    *)
(* stores only what was logged.  UsageDelivery and Conversation implement  *)
(* this.                                                                   *)
(***************************************************************************)

CONSTANT Events

VARIABLES
  kept,       \* what the proxy still holds and would send again
  logged,     \* what it ever logged
  stored,     \* what the collector has stored
  accounted   \* what it answers for: stored, written off, or refused for good

vars == <<kept, logged, stored, accounted>>

Init ==
  /\ kept = {} /\ logged = {} /\ stored = {}
  /\ accounted \in SUBSET Events

\* The proxy logs a new event.
Log(e) ==
  /\ e \notin logged
  /\ kept' = kept \cup {e}
  /\ logged' = logged \cup {e}
  /\ UNCHANGED <<stored, accounted>>

\* The collector stores events it was sent.  It may answer for others with
\* them: those that claim the same number.
Store(S) ==
  /\ S \subseteq logged
  /\ stored' = stored \cup S
  /\ \E A \in SUBSET Events : S \subseteq A /\ accounted' = accounted \cup A
  /\ UNCHANGED <<kept, logged>>

\* The collector files events as lost.
WriteOff(S) ==
  /\ accounted' = accounted \cup S
  /\ UNCHANGED <<kept, logged, stored>>

\* The proxy lets go of events that are answered for.
Forget(S) ==
  /\ S \subseteq accounted
  /\ kept' = kept \ S
  /\ UNCHANGED <<logged, stored, accounted>>

Next ==
  \/ \E e \in Events : Log(e)
  \/ \E S \in SUBSET Events : Store(S) \/ WriteOff(S) \/ Forget(S)

Spec == Init /\ [][Next]_vars

\* What follows from the contract: an event that was logged is still held by
\* the proxy or answered for by the collector, and nothing is stored that was
\* not logged.
NothingLost ==
  /\ logged \subseteq kept \cup accounted
  /\ stored \subseteq logged \cap accounted
=============================================================================
