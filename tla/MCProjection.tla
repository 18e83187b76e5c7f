---------------------------- MODULE MCProjection ----------------------------
(* Instances of Projection for TLC. *)
EXTENDS Projection, TLC

CONSTANTS seatA, seatB, pool, solo

\* Two rows of one seat and day, the first one unpriced; a row of another seat
\* on the next day of the month, and a fourth one.
MCSeat == [r \in Records |-> <<seatA, seatA, seatB, seatA>>[r]]
MCDay == [r \in Records |-> <<1, 1, 2, 2>>[r]]
MCMonth == [d \in Days |-> 1]
MCWeek == [d \in Days |-> d]
MCUsage ==
  [m \in Metrics |-> [r \in Records |-> IF m = "tokens" THEN <<1, 1, 1, 1>>[r]
                                        ELSE <<0, 1, 1, 1>>[r]]]
MCSubjects == {pool, solo}
SoloOnly == {solo}
MCMembers == (pool :> {seatA, seatB}) @@ (solo :> {seatA})
Warn(n, p) == [at |-> n, pct |-> p, block |-> FALSE, notify |-> TRUE]
Block(n, p) == [at |-> n, pct |-> p, block |-> TRUE, notify |-> FALSE]
\* Two rules of the pool limit one bucket and share a percentage, of which the
\* block counts.
MCRules ==
  (pool :> {[metric |-> "tokens", period |-> "monthly", limit |-> 3,
             thresholds |-> {Warn(1, 50), Block(2, 100)}],
            [metric |-> "tokens", period |-> "monthly", limit |-> 3,
             thresholds |-> {Warn(3, 100)}]})
  @@ (solo :> {[metric |-> "usd", period |-> "daily", limit |-> 1,
                thresholds |-> {Block(1, 100)}]})
=============================================================================
