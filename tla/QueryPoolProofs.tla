-------------------------- MODULE QueryPoolProofs --------------------------
(***************************************************************************)
(* Proofs about QueryPool, for every number of requests and every size of  *)
(* the pool: the types, and that nobody is stuck while fewer .zips are     *)
(* asked for than the pool has connections.                                *)
(*                                                                         *)
(* A step takes a connection only when one is free, and every other step   *)
(* leaves Streaming and Busy as they are or smaller; and when nobody runs  *)
(* a query, only the .zips hold anything, one connection each.             *)
(***************************************************************************)
EXTENDS QueryPool, FiniteSetTheorems, TLAPS

-----------------------------------------------------------------------------
(* Sizes of the sets of requests that hold a connection.                   *)

LEMMA NoBigger ==
    ASSUME NEW S, IsFiniteSet(S), NEW T, T \subseteq S
    PROVE  IsFiniteSet(T) /\ Cardinality(T) \in Nat /\ Cardinality(T) <= Cardinality(S)
BY FS_Subset, FS_CardinalityType

LEMMA OneBigger ==
    ASSUME NEW S, IsFiniteSet(S), NEW x, NEW T, T \subseteq S \cup {x}
    PROVE  IsFiniteSet(T) /\ Cardinality(T) \in Nat /\ Cardinality(T) <= Cardinality(S) + 1
<1>1. IsFiniteSet(S \cup {x}) /\ Cardinality(S \cup {x}) <= Cardinality(S) + 1
  <2>1. Cardinality(S) \in Nat
    BY FS_CardinalityType
  <2>2. /\ IsFiniteSet(S \cup {x})
        /\ Cardinality(S \cup {x}) = IF x \in S THEN Cardinality(S) ELSE Cardinality(S) + 1
    BY FS_AddElement, Zenon
  <2>3. QED
    BY <2>1, <2>2
<1>2. IsFiniteSet(T) /\ Cardinality(T) \in Nat /\ Cardinality(T) <= Cardinality(S \cup {x})
  BY <1>1, NoBigger
<1>3. Cardinality(S) \in Nat /\ Cardinality(S \cup {x}) \in Nat
  BY <1>1, FS_CardinalityType
<1>4. QED
  BY <1>1, <1>2, <1>3

LEMMA FiniteHolders ==
    /\ IsFiniteSet(Streaming) /\ Cardinality(Streaming) \in Nat
    /\ IsFiniteSet(Busy) /\ Cardinality(Busy) \in Nat
    /\ IsFiniteSet(Zips) /\ Cardinality(Zips) \in Nat
    /\ Cardinality(Streaming) <= Cardinality(Zips)
<1>1. IsFiniteSet(Zips) /\ IsFiniteSet(Requests)
  BY PoolAssumption, FS_Union DEF Requests
<1>2. Streaming \subseteq Zips /\ Busy \subseteq Requests
  BY DEF Streaming, Busy
<1>3. QED
  BY <1>1, <1>2, NoBigger, FS_CardinalityType

-----------------------------------------------------------------------------
(* Type correctness.                                                       *)

LEMMA GoesTyped ==
    ASSUME TypeOK, NEW x \in Requests, NEW from, NEW to \in Steps, Goes(x, from, to),
           left' \in [Zips -> 0 .. MaxSessions],
           x \in Lists => to \notin WithCursor
    PROVE  TypeOK'
<1>1. at' = [at EXCEPT ![x] = to] /\ at \in [Requests -> Steps]
  BY DEF Goes, TypeOK
<1>2. at' \in [Requests -> Steps]
  BY <1>1
<1>3. ASSUME NEW y \in Lists PROVE at'[y] \notin WithCursor
  <2>1. y \in Requests
    BY DEF Requests
  <2>2. at'[y] = IF y = x THEN to ELSE at[y]
    BY <1>1, <2>1
  <2>3. at[y] \notin WithCursor
    BY DEF TypeOK
  <2>4. QED
    BY <2>2, <2>3
<1>4. QED
  BY <1>2, <1>3 DEF TypeOK

LEMMA TypedStep == TypeOK /\ [Next]_vars => TypeOK'
<1> USE DEF Steps, WithCursor, Arriving, Rendering, Querying
<1>1. SUFFICES ASSUME TypeOK, [Next]_vars PROVE TypeOK'
  OBVIOUS
<1>2. CASE UNCHANGED vars
  BY <1>1, <1>2 DEF vars, TypeOK
<1>3. ASSUME NEW x \in Requests, Ask(x) \/ Step(x) \/ Disconnect(x) PROVE TypeOK'
  <2>1. left \in [Zips -> 0 .. MaxSessions] /\ MaxSessions \in Nat
    BY <1>1, PoolAssumption DEF TypeOK
  <2>2. x \in Zips => x \notin Lists
    BY PoolAssumption
  <2>3. x \in Lists => at[x] \notin WithCursor
    BY <1>1 DEF TypeOK
  <2>4. ASSUME NEW to \in Steps, Goes(x, at[x], to), UNCHANGED left,
               x \in Lists => to \notin WithCursor
        PROVE  TypeOK'
    BY <1>1, <2>1, <2>4, GoesTyped
  <2>5. CASE Ask(x)
    BY <2>4, <2>5 DEF Ask, Goes
  <2>6. CASE Disconnect(x)
    BY <2>4, <2>6 DEF Disconnect, Goes
  <2>7. CASE Count(x)
    BY <2>4, <2>7 DEF Count, Goes
  <2>8. CASE Counted(x)
    BY <2>4, <2>8 DEF Counted, Goes
  <2>9. CASE List(x)
    BY <2>4, <2>9 DEF List, Goes
  <2>10. CASE Listed(x)
    BY <2>4, <2>10 DEF Listed, Goes
  <2>11. CASE OpenCursor(x)
    <3>1. CASE Goes(x, "asked", "ended") /\ UNCHANGED left
      BY <2>4, <3>1 DEF Goes
    <3>2. CASE Goes(x, "asked", "cursor") /\ \E n \in 0 .. MaxSessions : left' = [left EXCEPT ![x] = n]
      <4>1. left' \in [Zips -> 0 .. MaxSessions]
        BY <2>1, <3>2
      <4>2. x \notin Lists
        BY <2>2, <2>11 DEF OpenCursor
      <4>3. QED
        BY <1>1, <3>2, <4>1, <4>2, GoesTyped
    <3>3. QED
      BY <2>11, <3>1, <3>2 DEF OpenCursor
  <2>12. CASE NextSession(x)
    <3>1. left' \in [Zips -> 0 .. MaxSessions]
      BY <2>1, <2>12 DEF NextSession
    <3>2. x \notin Lists /\ Goes(x, "cursor", "wantsPrompt")
      BY <2>2, <2>12 DEF NextSession
    <3>3. QED
      BY <1>1, <3>1, <3>2, GoesTyped
  <2>13. CASE CloseCursor(x)
    BY <2>4, <2>13 DEF CloseCursor, Goes
  <2>14. CASE AskPrompt(x)
    BY <2>3, <2>4, <2>14 DEF AskPrompt, Goes
  <2>15. CASE PromptRead(x)
    BY <2>3, <2>4, <2>15 DEF PromptRead, Goes
  <2>16. CASE AskTurns(x)
    BY <2>3, <2>4, <2>16 DEF AskTurns, Goes
  <2>17. CASE TurnsRead(x)
    BY <2>3, <2>4, <2>17 DEF TurnsRead, Goes
  <2>18. QED
    BY <1>3, <2>5, <2>6, <2>7, <2>8, <2>9, <2>10, <2>11, <2>12, <2>13, <2>14, <2>15,
       <2>16, <2>17 DEF Step
<1>4. QED
  BY <1>1, <1>2, <1>3 DEF Next

(* Every request is at a step of its own kind, and no .zip has fewer than  *)
(* no sessions left (conversation_export.go:66).                           *)
THEOREM PoolTyped == Spec => []TypeOK
<1>1. Init => TypeOK
  BY PoolAssumption DEF Init, TypeOK, Requests, Steps, WithCursor, Arriving, Rendering, Querying
<1>2. QED
  BY <1>1, TypedStep, PTL DEF Spec

-----------------------------------------------------------------------------
(* The connections in use.                                                 *)

(* a step that takes no connection *)
LEMMA NoMoreUsed ==
    ASSUME Streaming' \subseteq Streaming, Busy' \subseteq Busy
    PROVE  Used' <= Used
<1>1. Cardinality(Streaming') \in Nat /\ Cardinality(Streaming') <= Cardinality(Streaming)
  BY FiniteHolders, NoBigger
<1>2. Cardinality(Busy') \in Nat /\ Cardinality(Busy') <= Cardinality(Busy)
  BY FiniteHolders, NoBigger
<1>3. QED
  BY <1>1, <1>2, FiniteHolders DEF Used

(* a step that takes one *)
LEMMA OneMoreUsed ==
    ASSUME NEW x,
           \/ Streaming' \subseteq Streaming \cup {x} /\ Busy' \subseteq Busy
           \/ Streaming' \subseteq Streaming /\ Busy' \subseteq Busy \cup {x}
    PROVE  Used' <= Used + 1
<1>1. CASE Streaming' \subseteq Streaming \cup {x} /\ Busy' \subseteq Busy
  <2>1. Cardinality(Streaming') \in Nat /\ Cardinality(Streaming') <= Cardinality(Streaming) + 1
    BY <1>1, FiniteHolders, OneBigger
  <2>2. Cardinality(Busy') \in Nat /\ Cardinality(Busy') <= Cardinality(Busy)
    BY <1>1, FiniteHolders, NoBigger
  <2>3. QED
    BY <2>1, <2>2, FiniteHolders DEF Used
<1>2. CASE Streaming' \subseteq Streaming /\ Busy' \subseteq Busy \cup {x}
  <2>1. Cardinality(Streaming') \in Nat /\ Cardinality(Streaming') <= Cardinality(Streaming)
    BY <1>2, FiniteHolders, NoBigger
  <2>2. Cardinality(Busy') \in Nat /\ Cardinality(Busy') <= Cardinality(Busy) + 1
    BY <1>2, FiniteHolders, OneBigger
  <2>3. QED
    BY <2>1, <2>2, FiniteHolders DEF Used
<1>3. QED
  BY <1>1, <1>2

LEMMA PoolKept == TypeOK /\ Used <= PoolSize /\ [Next]_vars => (Used <= PoolSize)'
<1> USE DEF Goes, WithCursor, Arriving, Rendering, Querying, Streaming, Busy
<1>1. SUFFICES ASSUME TypeOK, Used <= PoolSize, [Next]_vars PROVE Used' <= PoolSize
  OBVIOUS
<1>2. Used \in Nat /\ Used' \in Nat /\ PoolSize \in Nat
  <2>1. IsFiniteSet(Streaming') /\ IsFiniteSet(Busy')
    <3>1. IsFiniteSet(Zips) /\ IsFiniteSet(Requests)
      BY PoolAssumption, FS_Union DEF Requests
    <3>2. Streaming' \subseteq Zips /\ Busy' \subseteq Requests
      OBVIOUS
    <3>3. QED
      BY <3>1, <3>2, FS_Subset
  <2>2. QED
    BY <2>1, FiniteHolders, FS_CardinalityType, PoolAssumption DEF Used
<1>3. CASE UNCHANGED vars
  BY <1>1, <1>3 DEF vars, Used
<1>4. ASSUME NEW x \in Requests, Ask(x) \/ Step(x) \/ Disconnect(x) PROVE Used' <= PoolSize
  <2>1. at \in [Requests -> Steps] /\ x \in Requests /\ Zips \subseteq Requests
    BY <1>1, <1>4 DEF TypeOK, Requests
  <2>2. CASE Ask(x) \/ Disconnect(x)
    <3>1. Streaming' \subseteq Streaming /\ Busy' \subseteq Busy
      BY <2>1, <2>2 DEF Ask, Disconnect
    <3>2. QED
      BY <3>1, NoMoreUsed, <1>1, <1>2
  <2>3. CASE Counted(x) \/ Listed(x) \/ NextSession(x) \/ CloseCursor(x)
    <3>1. Streaming' \subseteq Streaming /\ Busy' \subseteq Busy
      BY <2>1, <2>3 DEF Counted, Listed, NextSession, CloseCursor
    <3>2. QED
      BY <3>1, NoMoreUsed, <1>1, <1>2
  <2>4. CASE PromptRead(x) \/ TurnsRead(x)
    <3>1. Streaming' \subseteq Streaming /\ Busy' \subseteq Busy
      BY <2>1, <2>4 DEF PromptRead, TurnsRead
    <3>2. QED
      BY <3>1, NoMoreUsed, <1>1, <1>2
  <2>5. CASE Count(x) \/ List(x) \/ AskPrompt(x) \/ AskTurns(x)
    <3>1. Streaming' \subseteq Streaming /\ Busy' \subseteq Busy \cup {x}
      BY <2>1, <2>5 DEF Count, List, AskPrompt, AskTurns
    <3>2. Free > 0
      BY <2>5 DEF Count, List, AskPrompt, AskTurns
    <3>3. QED
      BY <3>1, <3>2, OneMoreUsed, <1>2 DEF Free
  <2>6. CASE OpenCursor(x)
    <3>1. Streaming' \subseteq Streaming \cup {x} /\ Busy' \subseteq Busy
      BY <2>1, <2>6 DEF OpenCursor
    <3>2. Free > 0
      BY <2>6 DEF OpenCursor
    <3>3. QED
      BY <3>1, <3>2, OneMoreUsed, <1>2 DEF Free
  <2>7. QED
    BY <1>4, <2>2, <2>3, <2>4, <2>5, <2>6 DEF Step
<1>5. QED
  BY <1>1, <1>3, <1>4 DEF Next

LEMMA SomeoneGoesOn ==
    ASSUME Cardinality(Zips) < PoolSize, Busy = {}
    PROVE  Free > 0
BY FiniteHolders, FS_EmptySet, PoolAssumption DEF Free, Used

(* The pool is never overdrawn, and while fewer .zips are asked for than   *)
(* it has connections, not everyone who holds one waits for another        *)
(* (conversation_export.go:66).                                            *)
THEOREM PoolNeverStuck == Spec => []NobodyStuck
<1>1. Init => Used <= PoolSize
  <2>1. SUFFICES ASSUME Init PROVE Used <= PoolSize
    OBVIOUS
  <2>2. Streaming = {} /\ Busy = {}
    BY <2>1 DEF Init, Streaming, Busy, Requests, WithCursor, Rendering, Querying
  <2>3. QED
    BY <2>2, FS_EmptySet, PoolAssumption DEF Used
<1>2. Used <= PoolSize => NobodyStuck
  BY SomeoneGoesOn DEF NobodyStuck
<1>3. QED
  BY <1>1, <1>2, PoolKept, PoolTyped, PTL DEF Spec
=============================================================================
