------------------------- MODULE FiniteCollections -------------------------
(***************************************************************************)
(* What the proofs need to know of finite collections: that Min and Max,   *)
(* which the community modules define by CHOOSE, exist and bound the set;  *)
(* what the ranks of ordered rows are, and which rows make up a page of    *)
(* them; and how sums over sets, which the community modules fold, split.  *)
(***************************************************************************)
EXTENDS Integers, FiniteSetsExt, FiniteSetTheorems, WellFoundedInduction, TLAPS

LEMMA StrictlyInside ==
  ASSUME NEW S, NEW A \in SUBSET S, NEW B \in SUBSET S, A \subseteq B, A # B
  PROVE  <<A, B>> \in StrictSubsetOrdering(S)
  BY DEF StrictSubsetOrdering

\* Of the intervals 0..x, x in S, one has no other inside: strict inclusion of
\* finite sets is well-founded.
LEMMA LeastNatural ==
  ASSUME NEW S \in SUBSET Nat, S # {}
  PROVE  Min(S) \in S /\ \A x \in S : Min(S) <= x
<1> DEFINE T == {0..x : x \in S}
<1>1. T \subseteq FiniteSubsetsOf(Nat) /\ T # {}
  <2>1. ASSUME NEW x \in S PROVE IsFiniteSet(0..x) /\ 0..x \in SUBSET Nat
    <3>1. x \in Int /\ 0 \in Int
      OBVIOUS
    <3> QED
      BY <3>1, FS_Interval
  <2>2. ASSUME NEW I \in T PROVE I \in FiniteSubsetsOf(Nat)
    BY <2>1 DEF FiniteSubsetsOf
  <2> QED
    BY <2>2
<1>2. PICK I \in T : \A J \in T : <<J, I>> \notin StrictSubsetOrdering(Nat)
  BY <1>1, FS_StrictSubsetOrderingWellFounded, WFMin
<1>3. PICK m \in S : I = 0..m
  OBVIOUS
<1>4. ASSUME NEW x \in S, x < m PROVE FALSE
  <2>1. 0..x \subseteq 0..m /\ 0..x \in SUBSET Nat /\ 0..m \in SUBSET Nat
    BY <1>4
  <2>2. m \in 0..m /\ m \notin 0..x
    BY <1>4
  <2>3. 0..x # 0..m
    BY <2>2
  <2>4. <<0..x, 0..m>> \in StrictSubsetOrdering(Nat)
    BY <2>1, <2>3, StrictlyInside
  <2> QED
    BY <1>2, <1>3, <2>4
<1>5. \A x \in S : m <= x
  BY <1>4
<1> QED
  BY <1>5 DEF Min

\* The greatest of numbers up to n is the one nearest to n.
LEMMA GreatestBounded ==
  ASSUME NEW n \in Nat, NEW S \in SUBSET (0..n), S # {}
  PROVE  Max(S) \in S /\ \A x \in S : x <= Max(S)
<1> DEFINE T == {n - x : x \in S}
<1>1. \A x \in S : x \in Int /\ n - x \in Nat
  OBVIOUS
<1>2. T \in SUBSET Nat /\ T # {}
  BY <1>1
<1>3. Min(T) \in T /\ \A y \in S : Min(T) <= n - y
  BY <1>2, LeastNatural
<1>4. PICK x \in S : Min(T) = n - x
  BY <1>3
<1>5. \A y \in S : x >= y
  BY <1>1, <1>3, <1>4
<1>6. Max(S) \in S /\ \A y \in S : Max(S) >= y
  BY <1>5 DEF Max
<1> QED
  BY <1>1, <1>6

\* Of the subsets without a greatest element none is smallest: what is left of
\* one without an element has a greatest, or is empty.
LEMMA GreatestFinite ==
  ASSUME NEW S \in SUBSET Nat, IsFiniteSet(S), S # {}
  PROVE  Max(S) \in S /\ \A x \in S : x <= Max(S)
<1> DEFINE Tops(A) == {m \in A : \A x \in A : x <= m}
           T == {A \in FiniteSubsetsOf(S) : A # {} /\ Tops(A) = {}}
<1>1. T = {}
  <2> SUFFICES ASSUME T # {} PROVE FALSE
    OBVIOUS
  <2>1. PICK A \in T : \A B \in T : <<B, A>> \notin StrictSubsetOrdering(S)
    <3>1. T \subseteq FiniteSubsetsOf(S)
      OBVIOUS
    <3> QED
      BY <3>1, FS_StrictSubsetOrderingWellFounded, WFMin
  <2>2. A \subseteq S /\ IsFiniteSet(A) /\ A # {} /\ Tops(A) = {}
    BY DEF FiniteSubsetsOf
  <2>3. PICK a \in A : TRUE
    BY <2>2
  <2> DEFINE B == A \ {a}
  <2>4. B \subseteq A /\ B # A /\ B \in SUBSET S /\ A \in SUBSET S /\ IsFiniteSet(B)
    BY <2>2, FS_RemoveElement
  <2>5. B \notin T
    BY <2>1, <2>4, StrictlyInside
  <2>6. \A x \in A : x \in Int /\ (x = a \/ x \in B)
    BY <2>2
  <2>7. CASE B = {}
    <3>1. a \in Tops(A)
      BY <2>3, <2>6, <2>7
    <3> QED
      BY <2>2, <3>1
  <2>8. CASE B # {}
    <3>1. PICK m \in B : \A x \in B : x <= m
      BY <2>4, <2>5, <2>8 DEF FiniteSubsetsOf
    <3>2. m \in Int /\ a \in Int
      BY <2>3, <2>4, <2>6
    <3>3. m \in Tops(A) \/ a \in Tops(A)
      BY <2>3, <2>4, <2>6, <3>1, <3>2
    <3> QED
      BY <2>2, <3>3
  <2> QED
    BY <2>7, <2>8
<1>2. S \in FiniteSubsetsOf(S)
  BY DEF FiniteSubsetsOf
<1>3. PICK m \in S : \A x \in S : x <= m
  BY <1>1, <1>2
<1>4. \A x \in S : m >= x
  BY <1>3
<1>5. Max(S) \in S /\ \A x \in S : Max(S) >= x
  BY <1>3, <1>4 DEF Max
<1> QED
  BY <1>5

\* What a function makes of a finite set is finite, and as large if no two agree.
LEMMA Images ==
  ASSUME NEW S, IsFiniteSet(S), NEW f
  PROVE  /\ IsFiniteSet({f[x] : x \in S})
         /\ (\A x, y \in S : f[x] = f[y] => x = y) => Cardinality({f[x] : x \in S}) = Cardinality(S)
<1> DEFINE T == {f[x] : x \in S}
           g == [x \in S |-> f[x]]
<1>1. g \in [S -> T] /\ (\A t \in T : \E x \in S : g[x] = t) /\ DOMAIN g = S
  OBVIOUS
<1>2. (\A x, y \in S : f[x] = f[y] => x = y) => \A x, y \in S : g[x] = g[y] => x = y
  OBVIOUS
<1> HIDE DEF g, T
<1>3. g \in Surjection(S, T)
  BY <1>1 DEF Surjection
<1>4. IsFiniteSet(T) /\ (Cardinality(T) = Cardinality(S) <=> g \in Injection(S, T))
  BY <1>3, FS_Surjection
<1>5. (\A x, y \in S : g[x] = g[y] => x = y) => g \in Injection(S, T)
  BY <1>1 DEF Injection, IsInjective
<1> QED
  BY <1>2, <1>4, <1>5 DEF T

-----------------------------------------------------------------------------
(* Ranks.  ORDER BY over a finite set of rows, as a relation R.            *)

Below(R, S, x) == {y \in S : <<y, x>> \in R}
Rank(R, S, x) == Cardinality(Below(R, S, x))

LinearOn(R, S) ==
  /\ \A x \in S : <<x, x>> \notin R
  /\ \A x, y, z \in S : <<x, y>> \in R /\ <<y, z>> \in R => <<x, z>> \in R
  /\ \A x, y \in S : x = y \/ <<x, y>> \in R \/ <<y, x>> \in R

\* Ranks are numbers below the number of rows, and tell rows apart.
LEMMA RankFacts ==
  ASSUME NEW S, IsFiniteSet(S), NEW R, LinearOn(R, S)
  PROVE  /\ \A x \in S : Rank(R, S, x) \in Nat /\ Rank(R, S, x) < Cardinality(S)
         /\ \A x, y \in S : <<x, y>> \in R => Rank(R, S, x) < Rank(R, S, y)
         /\ Cardinality(S) \in Nat
<1>1. ASSUME NEW T \in SUBSET S, NEW A \in SUBSET T, A # T
      PROVE  Cardinality(A) \in Nat /\ Cardinality(T) \in Nat /\ Cardinality(A) < Cardinality(T)
  <2>1. IsFiniteSet(T)
    BY FS_Subset
  <2>2. IsFiniteSet(A) /\ Cardinality(A) <= Cardinality(T) /\ Cardinality(A) # Cardinality(T)
    BY <1>1, <2>1, FS_Subset
  <2>3. Cardinality(A) \in Nat /\ Cardinality(T) \in Nat
    BY <2>1, <2>2, FS_CardinalityType
  <2> QED
    BY <2>2, <2>3
<1>2. ASSUME NEW x \in S PROVE Rank(R, S, x) \in Nat /\ Rank(R, S, x) < Cardinality(S)
  <2>1. Below(R, S, x) \subseteq S /\ x \notin Below(R, S, x)
    BY DEF Below, LinearOn
  <2> QED
    BY <1>1, <2>1 DEF Rank
<1>3. ASSUME NEW x \in S, NEW y \in S, <<x, y>> \in R
      PROVE  Rank(R, S, x) < Rank(R, S, y)
  <2>1. /\ Below(R, S, x) \subseteq Below(R, S, y) /\ Below(R, S, y) \subseteq S
        /\ x \in Below(R, S, y) /\ x \notin Below(R, S, x)
    BY <1>3 DEF Below, LinearOn
  <2> QED
    BY <1>1, <2>1 DEF Rank
<1>4. Cardinality(S) \in Nat
  BY FS_CardinalityType
<1> QED
  BY <1>2, <1>3, <1>4

LEMMA RanksApart ==
  ASSUME NEW S, IsFiniteSet(S), NEW R, LinearOn(R, S), NEW x \in S, NEW y \in S,
         Rank(R, S, x) = Rank(R, S, y)
  PROVE  x = y
<1>1. x = y \/ <<x, y>> \in R \/ <<y, x>> \in R
  BY DEF LinearOn
<1>2. \A a, b \in S : <<a, b>> \in R => Rank(R, S, a) < Rank(R, S, b)
  BY RankFacts
<1>3. Rank(R, S, x) \in Nat /\ Rank(R, S, y) \in Nat
  BY RankFacts
<1> QED
  BY <1>1, <1>2, <1>3

\* Every rank below the number of rows is some row's.
LEMMA RanksOnto ==
  ASSUME NEW S, IsFiniteSet(S), NEW R, LinearOn(R, S), NEW k \in 0 .. Cardinality(S) - 1
  PROVE  \E x \in S : Rank(R, S, x) = k
<1> DEFINE m == Cardinality(S)
           f == [x \in S |-> Rank(R, S, x)]
<1>1. m \in Nat /\ \A x \in S : Rank(R, S, x) \in Nat /\ Rank(R, S, x) < m
  BY RankFacts
<1> HIDE DEF m
<1>2. f \in Injection(S, 0 .. m - 1)
  <2>1. f \in [S -> 0 .. m - 1]
    BY <1>1
  <2>2. \A x, y \in S : f[x] = f[y] => x = y
    BY RanksApart
  <2> HIDE DEF f
  <2> QED
    BY <2>1, <2>2 DEF Injection, IsInjective
<1>3. IsFiniteSet(0 .. m - 1) /\ Cardinality(0 .. m - 1) = m
  BY <1>1, FS_Interval
<1>4. f \in Surjection(S, 0 .. m - 1)
  <2> HIDE DEF f
  <2> QED
    BY <1>2, <1>3, FS_Injection DEF m
<1>5. k \in 0 .. m - 1
  BY DEF m
<1>6. PICK x \in S : f[x] = k
  <2> HIDE DEF f
  <2> QED
    BY <1>4, <1>5 DEF Surjection
<1> QED
  BY <1>6

\* As many rows have a rank in an interval of ranks as the interval has numbers.
LEMMA RanksBetween ==
  ASSUME NEW S, IsFiniteSet(S), NEW R, LinearOn(R, S),
         NEW T \in SUBSET (0 .. Cardinality(S) - 1)
  PROVE  Cardinality({x \in S : Rank(R, S, x) \in T}) = Cardinality(T)
<1> DEFINE P == {x \in S : Rank(R, S, x) \in T}
           g == [x \in P |-> Rank(R, S, x)]
<1>1. g \in Bijection(P, T)
  <2>1. g \in [P -> T]
    OBVIOUS
  <2>2. \A x, y \in P : g[x] = g[y] => x = y
    BY RanksApart
  <2>3. \A k \in T : \E x \in P : g[x] = k
    BY RanksOnto
  <2> HIDE DEF g, P
  <2>4. g \in Injection(P, T)
    BY <2>1, <2>2 DEF Injection, IsInjective
  <2>5. g \in Surjection(P, T)
    BY <2>1, <2>3 DEF Surjection
  <2> QED
    BY <2>4, <2>5 DEF Bijection
<1>2. IsFiniteSet(P)
  BY FS_Subset
<1>3. Cardinality(T) = Cardinality(P)
  <2> HIDE DEF P, g
  <2> QED
    BY <1>1, <1>2, FS_Bijection DEF ExistsBijection
<1> QED
  BY <1>3

\* A page is full if a row stands behind it.
LEMMA SliceFull ==
  ASSUME NEW S, IsFiniteSet(S), NEW R, LinearOn(R, S), NEW i \in Nat, NEW n \in Nat,
         NEW r \in S, Rank(R, S, r) >= i + n
  PROVE  Cardinality({x \in S : Rank(R, S, x) \in i .. i + n - 1}) = n
<1> DEFINE T == i .. i + n - 1
<1>1. Cardinality(S) \in Nat /\ Rank(R, S, r) \in Nat /\ Rank(R, S, r) < Cardinality(S)
  BY RankFacts
<1>2. T \in SUBSET (0 .. Cardinality(S) - 1)
  BY <1>1
<1>3. Cardinality(T) = n
  BY FS_Interval
<1>4. Cardinality({x \in S : Rank(R, S, x) \in T}) = Cardinality(T)
  <2> HIDE DEF T
  <2> QED
    BY <1>2, RanksBetween
<1> QED
  BY <1>3, <1>4

\* Rows none of the others stands before are those of the lowest ranks.
LEMMA FirstRows ==
  ASSUME NEW S, IsFiniteSet(S), NEW R, LinearOn(R, S), NEW H \in SUBSET S,
         \A a \in H, b \in S \ H : <<b, a>> \notin R
  PROVE  /\ H = {x \in S : Rank(R, S, x) < Cardinality(H)}
         /\ \A a \in H, b \in S \ H : <<a, b>> \in R
<1>1. IsFiniteSet(H) /\ Cardinality(H) \in Nat
  BY FS_Subset, FS_CardinalityType
<1>2. \A a \in H, b \in S \ H : <<a, b>> \in R
  BY DEF LinearOn
<1>3. ASSUME NEW x \in H PROVE Rank(R, S, x) < Cardinality(H)
  <2>1. Below(R, S, x) \subseteq H \ {x}
    BY DEF Below, LinearOn
  <2>2. IsFiniteSet(H \ {x}) /\ Cardinality(H \ {x}) = Cardinality(H) - 1
    BY <1>1, FS_RemoveElement
  <2>3. Cardinality(Below(R, S, x)) <= Cardinality(H \ {x})
    BY <2>1, <2>2, FS_Subset
  <2>4. Rank(R, S, x) \in Nat
    BY RankFacts
  <2> QED
    BY <1>1, <2>2, <2>3, <2>4 DEF Rank
<1>4. ASSUME NEW x \in S \ H PROVE Rank(R, S, x) >= Cardinality(H)
  <2>1. H \subseteq Below(R, S, x) /\ Below(R, S, x) \subseteq S
    BY <1>2 DEF Below
  <2>2. IsFiniteSet(Below(R, S, x))
    BY <2>1, FS_Subset
  <2>3. Cardinality(H) <= Cardinality(Below(R, S, x))
    BY <2>1, <2>2, FS_Subset
  <2>4. Rank(R, S, x) \in Nat
    BY RankFacts
  <2> QED
    BY <1>1, <2>3, <2>4 DEF Rank
<1>5. \A x \in S : Rank(R, S, x) \in Nat
  BY RankFacts
<1>6. \A x \in S : x \in H <=> Rank(R, S, x) < Cardinality(H)
  BY <1>1, <1>3, <1>4, <1>5
<1> QED
  BY <1>2, <1>6

\* The page behind the first rows: the rows of the ranks that follow theirs.
LEMMA PageRows ==
  ASSUME NEW S, IsFiniteSet(S), NEW R, LinearOn(R, S),
         NEW H \in SUBSET S, \A a \in H, b \in S \ H : <<b, a>> \notin R,
         NEW P \in SUBSET (S \ H), \A a \in P, b \in (S \ H) \ P : <<b, a>> \notin R
  PROVE  P = {x \in S : Rank(R, S, x) \in
                           Cardinality(H) .. Cardinality(H) + Cardinality(P) - 1}
<1> DEFINE Q == H \cup P
<1>1. Q \in SUBSET S /\ \A a \in Q, b \in S \ Q : <<b, a>> \notin R
  OBVIOUS
<1>2. H = {x \in S : Rank(R, S, x) < Cardinality(H)}
  BY FirstRows
<1>3. Q = {x \in S : Rank(R, S, x) < Cardinality(Q)}
  <2> HIDE DEF Q
  <2> QED
    BY <1>1, FirstRows
<1>4. IsFiniteSet(H) /\ IsFiniteSet(P) /\ H \cap P = {} /\ S \ H \in SUBSET S
  BY FS_Subset
<1>5. Cardinality(Q) = Cardinality(H) + Cardinality(P)
  <2>1. Cardinality(H \cap P) = 0
    BY <1>4, FS_EmptySet
  <2>2. Cardinality(H \cup P) = Cardinality(H) + Cardinality(P) - Cardinality(H \cap P)
    BY <1>4, FS_Union
  <2>3. Cardinality(H) \in Nat /\ Cardinality(P) \in Nat
    BY <1>4, FS_CardinalityType
  <2>4. Cardinality(H \cup P) = Cardinality(H) + Cardinality(P)
    BY <2>1, <2>2, <2>3
  <2> QED
    BY <2>4
<1>6. Cardinality(H) \in Nat /\ Cardinality(P) \in Nat /\ \A x \in S : Rank(R, S, x) \in Nat
  BY <1>4, RankFacts, FS_CardinalityType
<1>7. \A x \in S : x \in P <=> x \in Q /\ x \notin H
  OBVIOUS
<1>8. \A x \in S : x \in P <=> /\ Rank(R, S, x) < Cardinality(H) + Cardinality(P)
                               /\ ~ Rank(R, S, x) < Cardinality(H)
  <2> HIDE DEF Q
  <2> QED
    BY <1>2, <1>3, <1>5, <1>7
<1>9. \A x \in S : x \in P <=> Rank(R, S, x) \in Cardinality(H) .. Cardinality(H) + Cardinality(P) - 1
  BY <1>6, <1>8
<1> QED
  BY <1>9

\* One row stands before all others.
LEMMA OneFirst ==
  ASSUME NEW S, IsFiniteSet(S), S # {}, NEW R, LinearOn(R, S)
  PROVE  \E x \in S : {y \in S : Below(R, S, y) = {}} = {x}
<1> DEFINE K == {Rank(R, S, x) : x \in S}
<1>1. K \in SUBSET Nat /\ K # {}
  BY RankFacts
<1>2. Min(K) \in K /\ \A k \in K : Min(K) <= k
  <2> HIDE DEF K
  <2> QED
    BY <1>1, LeastNatural
<1>3. PICK x \in S : Rank(R, S, x) = Min(K)
  BY <1>2
<1>4. \A y \in S : Rank(R, S, x) <= Rank(R, S, y)
  BY <1>2, <1>3
<1>5. \A y \in S : <<y, x>> \notin R
  BY <1>4, RankFacts
<1>6. \A y \in S : y = x \/ x \in Below(R, S, y)
  BY <1>5 DEF LinearOn, Below
<1>7. Below(R, S, x) = {}
  BY <1>5 DEF Below
<1> QED
  BY <1>6, <1>7
-----------------------------------------------------------------------------
(* Sums over a finite set.                                                 *)

\* Of some subsets of a finite set, one has none of the others inside.
LEMMA SmallestSubset ==
  ASSUME NEW S, IsFiniteSet(S), NEW T \in SUBSET SUBSET S, T # {}
  PROVE  \E A \in T : \A B \in SUBSET A : B # A => B \notin T
<1>1. T \subseteq FiniteSubsetsOf(S)
  BY FS_Subset DEF FiniteSubsetsOf
<1>2. PICK A \in T : \A B \in T : <<B, A>> \notin StrictSubsetOrdering(S)
  BY <1>1, FS_StrictSubsetOrderingWellFounded, WFMin
<1>3. ASSUME NEW B \in SUBSET A, B # A, B \in T PROVE FALSE
  <2>1. B \in SUBSET S /\ A \in SUBSET S
    OBVIOUS
  <2>2. <<B, A>> \in StrictSubsetOrdering(S)
    BY <1>3, <2>1, StrictlyInside
  <2> QED
    BY <1>2, <1>3, <2>2
<1> QED
  BY <1>2, <1>3

\* g is the function by which the fold of the community modules sums f over S.
SumsUp(g, f, S) ==
  g = [s \in SUBSET S |->
         IF s = {} THEN 0
         ELSE f[CHOOSE x \in s : TRUE] + g[s \ {CHOOSE x \in s : TRUE}]]

LEMMA SumsUpStep ==
  ASSUME NEW f, NEW S, NEW g, SumsUp(g, f, S), NEW A \in SUBSET S
  PROVE  /\ A = {} => g[A] = 0
         /\ A # {} => \E x \in A : /\ x = CHOOSE y \in A : TRUE
                                   /\ g[A] = f[x] + g[A \ {x}]
<1>1. ASSUME A # {} PROVE (CHOOSE y \in A : TRUE) \in A
  BY <1>1
<1>2. g[A] = IF A = {} THEN 0
             ELSE f[CHOOSE x \in A : TRUE] + g[A \ {CHOOSE x \in A : TRUE}]
  BY DEF SumsUp
<1> QED
  BY <1>1, <1>2

LEMMA SumsUpOnce ==
  ASSUME NEW f, NEW T, NEW S \in SUBSET T, IsFiniteSet(S),
         NEW g, SumsUp(g, f, S), NEW h, SumsUp(h, f, T)
  PROVE  g[S] = h[S]
<1> DEFINE D == {B \in SUBSET S : g[B] # h[B]}
<1> SUFFICES ASSUME D # {} PROVE FALSE
  OBVIOUS
<1>1. PICK B \in D : \A C \in SUBSET B : C # B => C \notin D
  <2>1. D \in SUBSET SUBSET S
    OBVIOUS
  <2> HIDE DEF D
  <2> QED
    BY <2>1, SmallestSubset
<1>2. B \in SUBSET S /\ B \in SUBSET T /\ g[B] # h[B]
  OBVIOUS
<1>3. B # {}
  BY <1>2, SumsUpStep
<1>4. PICK x \in B : x = (CHOOSE y \in B : TRUE) /\ g[B] = f[x] + g[B \ {x}]
  BY <1>2, <1>3, SumsUpStep
<1>5. PICK z \in B : z = (CHOOSE y \in B : TRUE) /\ h[B] = f[z] + h[B \ {z}]
  BY <1>2, <1>3, SumsUpStep
<1>6. B \ {x} \in SUBSET B /\ B \ {x} # B
  OBVIOUS
<1>7. g[B \ {x}] = h[B \ {x}]
  BY <1>1, <1>6
<1> QED
  BY <1>2, <1>4, <1>5, <1>7

LEMMA SumsUpExists ==
  ASSUME NEW f, NEW S, IsFiniteSet(S)
  PROVE  \E g : SumsUp(g, f, S)
<1> DEFINE D == {A \in SUBSET S : ~ \E g : SumsUp(g, f, A)}
<1> SUFFICES ASSUME D # {} PROVE FALSE
  OBVIOUS
<1>1. PICK A \in D : \A C \in SUBSET A : C # A => C \notin D
  <2>1. D \in SUBSET SUBSET S
    OBVIOUS
  <2> HIDE DEF D
  <2> QED
    BY <2>1, SmallestSubset
<1>2. A \in SUBSET S /\ IsFiniteSet(A) /\ ~ \E g : SumsUp(g, f, A)
  BY FS_Subset
<1> DEFINE G(C) == CHOOSE g : SumsUp(g, f, C)
           c(C) == CHOOSE x \in C : TRUE
           V(C) == IF C = {} THEN 0 ELSE f[c(C)] + G(C \ {c(C)})[C \ {c(C)}]
           h == [C \in SUBSET A |-> V(C)]
<1>3. ASSUME NEW C \in SUBSET A, C # A PROVE SumsUp(G(C), f, C)
  <2>1. \E g : SumsUp(g, f, C)
    BY <1>1, <1>3
  <2> QED
    BY <2>1
<1>4. ASSUME NEW C \in SUBSET A, C # {}
      PROVE  c(C) \in C /\ C \ {c(C)} \in SUBSET A /\ C \ {c(C)} # A /\ C \ {c(C)} # C
  BY <1>4
<1>5. ASSUME NEW C \in SUBSET A, C # A PROVE V(C) = G(C)[C]
  <2>1. SumsUp(G(C), f, C) /\ C \in SUBSET C
    BY <1>3, <1>5
  <2> HIDE DEF G
  <2>2. CASE C = {}
    <3>1. G(C)[C] = 0
      BY <2>1, <2>2, SumsUpStep
    <3> QED
      BY <2>2, <3>1
  <2>3. CASE C # {}
    <3> DEFINE B == C \ {c(C)}
    <3>1. B \in SUBSET A /\ B # A /\ B \in SUBSET C
      BY <1>4, <2>3
    <3>2. G(C)[C] = f[c(C)] + G(C)[B]
      <4>1. PICK x \in C : x = c(C) /\ G(C)[C] = f[x] + G(C)[C \ {x}]
        <5> HIDE DEF B
        <5> QED
          BY <2>1, <2>3, SumsUpStep
      <4> QED
        BY <4>1
    <3>3. SumsUp(G(B), f, B) /\ IsFiniteSet(B) /\ B \in SUBSET B
      <4> HIDE DEF B
      <4> QED
        BY <1>2, <1>3, <3>1, FS_Subset
    <3>4. G(B)[B] = G(C)[B]
      <4> HIDE DEF B
      <4> QED
        BY <2>1, <3>1, <3>3, SumsUpOnce
    <3> QED
      BY <2>3, <3>2, <3>4
  <2> QED
    BY <2>2, <2>3
<1>6. h = [C \in SUBSET A |-> IF C = {} THEN 0 ELSE f[c(C)] + h[C \ {c(C)}]]
  <2>1. ASSUME NEW C \in SUBSET A PROVE h[C] = IF C = {} THEN 0 ELSE f[c(C)] + h[C \ {c(C)}]
    <3>1. CASE C = {}
      BY <3>1
    <3>2. CASE C # {}
      <4>1. C \ {c(C)} \in SUBSET A /\ C \ {c(C)} # A
        BY <1>4, <3>2
      <4> HIDE DEF G, c
      <4>2. h[C \ {c(C)}] = V(C \ {c(C)})
        BY <4>1
      <4>3. V(C \ {c(C)}) = G(C \ {c(C)})[C \ {c(C)}]
        BY <1>5, <4>1
      <4>4. h[C] = f[c(C)] + G(C \ {c(C)})[C \ {c(C)}]
        BY <3>2
      <4> QED
        BY <3>2, <4>2, <4>3, <4>4
    <3> QED
      BY <3>1, <3>2
  <2> DEFINE h2 == [C \in SUBSET A |-> IF C = {} THEN 0 ELSE f[c(C)] + h[C \ {c(C)}]]
  <2>2. \A C \in SUBSET A : h2[C] = h[C]
    BY <2>1
  <2>3. h = [C \in SUBSET A |-> h[C]] /\ h2 = [C \in SUBSET A |-> h2[C]]
    OBVIOUS
  <2> HIDE DEF h, h2
  <2>4. h = h2
    BY <2>2, <2>3
  <2> QED
    BY <2>4 DEF h2
<1>7. SumsUp(h, f, A)
  <2> HIDE DEF h
  <2> QED
    BY <1>6 DEF SumsUp
<1> QED
  BY <1>2, <1>7

Sum(f, S) == SumFunctionOnSet(f, S)

LEMMA SumFolds ==
  ASSUME NEW f, NEW S, NEW g, SumsUp(g, f, S)
  PROVE  \E h : SumsUp(h, f, S) /\ Sum(f, S) = h[S]
  BY DEF SumsUp, Sum, SumFunctionOnSet, FoldFunctionOnSet, MapThenFoldSet

\* What adds up like the fold is the fold.
LEMMA SumIs ==
  ASSUME NEW f, NEW S, IsFiniteSet(S), NEW T, S \in SUBSET T, NEW g, SumsUp(g, f, T)
  PROVE  Sum(f, S) = g[S]
<1>1. PICK h : SumsUp(h, f, S)
  BY SumsUpExists
<1>2. PICK k : SumsUp(k, f, S) /\ Sum(f, S) = k[S]
  BY <1>1, SumFolds
<1>3. k[S] = g[S]
  BY <1>2, SumsUpOnce
<1> QED
  BY <1>2, <1>3

LEMMA SumEmpty ==
  ASSUME NEW f
  PROVE  Sum(f, {}) = 0
<1>1. IsFiniteSet({})
  BY FS_EmptySet
<1>2. PICK g : SumsUp(g, f, {})
  BY <1>1, SumsUpExists
<1>3. g[{}] = 0
  BY <1>2, SumsUpStep
<1> QED
  BY <1>1, <1>2, <1>3, SumIs

LEMMA SumChosen ==
  ASSUME NEW f, NEW S, IsFiniteSet(S), S # {}
  PROVE  \E x \in S : Sum(f, S) = f[x] + Sum(f, S \ {x})
<1>1. PICK g : SumsUp(g, f, S)
  BY SumsUpExists
<1>2. PICK x \in S : g[S] = f[x] + g[S \ {x}]
  BY <1>1, SumsUpStep
<1>3. IsFiniteSet(S \ {x}) /\ S \ {x} \subseteq S
  BY FS_Subset
<1>4. Sum(f, S) = g[S] /\ Sum(f, S \ {x}) = g[S \ {x}]
  BY <1>1, <1>3, SumIs
<1> QED
  BY <1>2, <1>4

\* A sum of integers is one.
LEMMA SumInteger ==
  ASSUME NEW S, IsFiniteSet(S), NEW f, \A x \in S : f[x] \in Int
  PROVE  Sum(f, S) \in Int
<1> DEFINE D == {A \in SUBSET S : Sum(f, A) \notin Int}
<1> SUFFICES ASSUME D # {} PROVE FALSE
  OBVIOUS
<1>1. PICK A \in D : \A C \in SUBSET A : C # A => C \notin D
  <2>1. D \in SUBSET SUBSET S
    OBVIOUS
  <2> HIDE DEF D
  <2> QED
    BY <2>1, SmallestSubset
<1>2. A \in SUBSET S /\ IsFiniteSet(A) /\ Sum(f, A) \notin Int
  BY FS_Subset
<1>3. A # {}
  BY <1>2, SumEmpty
<1>4. PICK x \in A : Sum(f, A) = f[x] + Sum(f, A \ {x})
  BY <1>2, <1>3, SumChosen
<1>5. A \ {x} \in SUBSET A /\ A \ {x} # A
  OBVIOUS
<1>6. Sum(f, A \ {x}) \in Int /\ f[x] \in Int
  BY <1>1, <1>2, <1>5
<1> QED
  BY <1>2, <1>4, <1>6

\* Any element may be taken out of a sum first.
LEMMA SumTakeOut ==
  ASSUME NEW S, IsFiniteSet(S), NEW f, \A x \in S : f[x] \in Int, NEW r \in S
  PROVE  Sum(f, S) = f[r] + Sum(f, S \ {r})
<1> DEFINE D == {A \in SUBSET S : \E x \in A : Sum(f, A) # f[x] + Sum(f, A \ {x})}
<1> SUFFICES ASSUME D # {} PROVE FALSE
  OBVIOUS
<1>1. PICK A \in D : \A C \in SUBSET A : C # A => C \notin D
  <2>1. D \in SUBSET SUBSET S
    OBVIOUS
  <2> HIDE DEF D
  <2> QED
    BY <2>1, SmallestSubset
<1>2. PICK x \in A : Sum(f, A) # f[x] + Sum(f, A \ {x})
  OBVIOUS
<1>3. A \in SUBSET S /\ IsFiniteSet(A) /\ A # {}
  BY <1>2, FS_Subset
<1>4. PICK y \in A : Sum(f, A) = f[y] + Sum(f, A \ {y})
  BY <1>3, SumChosen
<1>5. x # y
  BY <1>2, <1>4
<1> DEFINE B == A \ {x}
           C == A \ {y}
           E == (A \ {x}) \ {y}
<1>6. /\ B \in SUBSET A /\ B # A /\ y \in B /\ B \ {y} = E
      /\ C \in SUBSET A /\ C # A /\ x \in C /\ C \ {x} = E
      /\ E \in SUBSET S
  BY <1>2, <1>4, <1>5
<1>7. Sum(f, B) = f[y] + Sum(f, B \ {y})
  BY <1>1, <1>6
<1>8. Sum(f, C) = f[x] + Sum(f, C \ {x})
  BY <1>1, <1>6
<1>9. f[x] \in Int /\ f[y] \in Int /\ Sum(f, E) \in Int
  <2>1. IsFiniteSet(E)
    BY <1>3, FS_Subset
  <2> QED
    BY <1>3, <1>6, <2>1, SumInteger
<1>10. Sum(f, A) = f[y] + (f[x] + Sum(f, E)) /\ Sum(f, B) = f[y] + Sum(f, E)
  BY <1>4, <1>6, <1>7, <1>8
<1> HIDE DEF B, C, E
<1>11. Sum(f, A) = f[x] + Sum(f, B)
  BY <1>9, <1>10
<1> QED
  BY <1>2, <1>11 DEF B

\* Only the values on the set count.
LEMMA SumSame ==
  ASSUME NEW S, IsFiniteSet(S), NEW f, NEW g, \A x \in S : f[x] = g[x]
  PROVE  Sum(f, S) = Sum(g, S)
<1>1. PICK h : SumsUp(h, f, S)
  BY SumsUpExists
<1>2. SumsUp(h, g, S)
  <2>1. \A s \in SUBSET S : s # {} => f[CHOOSE x \in s : TRUE] = g[CHOOSE x \in s : TRUE]
    <3> SUFFICES ASSUME NEW s \in SUBSET S, s # {}
                 PROVE  f[CHOOSE x \in s : TRUE] = g[CHOOSE x \in s : TRUE]
      OBVIOUS
    <3>1. (CHOOSE x \in s : TRUE) \in s
      OBVIOUS
    <3> QED
      BY <3>1
  <2> QED
    BY <1>1, <2>1 DEF SumsUp
<1>3. S \in SUBSET S
  OBVIOUS
<1> QED
  BY <1>1, <1>2, <1>3, SumIs

\* What two disjoint sets add up to.
LEMMA SumUnion ==
  ASSUME NEW S, IsFiniteSet(S), NEW T, IsFiniteSet(T), S \cap T = {},
         NEW f, \A x \in S \cup T : f[x] \in Int
  PROVE  Sum(f, S \cup T) = Sum(f, S) + Sum(f, T)
<1> DEFINE D == {A \in SUBSET S : Sum(f, A \cup T) # Sum(f, A) + Sum(f, T)}
<1> SUFFICES ASSUME D # {} PROVE FALSE
  OBVIOUS
<1>1. PICK A \in D : \A C \in SUBSET A : C # A => C \notin D
  <2>1. D \in SUBSET SUBSET S
    OBVIOUS
  <2> HIDE DEF D
  <2> QED
    BY <2>1, SmallestSubset
<1>2. A \in SUBSET S /\ IsFiniteSet(A) /\ Sum(f, A \cup T) # Sum(f, A) + Sum(f, T)
  BY FS_Subset
<1>3. IsFiniteSet(A \cup T) /\ A \cup T \in SUBSET (S \cup T)
  BY <1>2, FS_Union
<1>4. Sum(f, T) \in Int
  BY SumInteger
<1>5. A # {}
  <2> SUFFICES ASSUME A = {} PROVE FALSE
    OBVIOUS
  <2>1. A \cup T = T /\ Sum(f, A) = 0
    BY SumEmpty
  <2> QED
    BY <1>2, <1>4, <2>1
<1>6. PICK x \in A : TRUE
  BY <1>5
<1> DEFINE B == A \ {x}
<1>7. /\ B \in SUBSET A /\ B # A /\ x \in A \cup T /\ (A \cup T) \ {x} = B \cup T
      /\ f[x] \in Int
  BY <1>2, <1>6
<1>8. Sum(f, B \cup T) = Sum(f, B) + Sum(f, T)
  BY <1>1, <1>7
<1>9. Sum(f, A) = f[x] + Sum(f, B) /\ Sum(f, B) \in Int
  <2>1. \A y \in A : f[y] \in Int
    BY <1>2
  <2>2. IsFiniteSet(B) /\ \A y \in B : f[y] \in Int
    BY <1>2, <1>7, FS_Subset
  <2> QED
    BY <1>2, <1>6, <2>1, <2>2, SumTakeOut, SumInteger
<1>10. Sum(f, A \cup T) = f[x] + Sum(f, B \cup T)
  <2>1. \A y \in A \cup T : f[y] \in Int
    BY <1>3
  <2> HIDE DEF B
  <2>2. Sum(f, A \cup T) = f[x] + Sum(f, (A \cup T) \ {x})
    BY <1>3, <1>7, <2>1, SumTakeOut
  <2> QED
    BY <1>7, <2>2
<1> QED
  BY <1>2, <1>4, <1>7, <1>8, <1>9, <1>10

\* More of what is not negative does not add up to less.
LEMMA SumMonotone ==
  ASSUME NEW S, IsFiniteSet(S), NEW A \in SUBSET S, NEW f, \A x \in S : f[x] \in Nat
  PROVE  Sum(f, A) <= Sum(f, S) /\ Sum(f, A) \in Nat
<1> DEFINE D == {B \in SUBSET S : Sum(f, B) \notin Nat}
<1>1. D = {}
  <2> SUFFICES ASSUME D # {} PROVE FALSE
    OBVIOUS
  <2>1. PICK B \in D : \A C \in SUBSET B : C # B => C \notin D
    <3>1. D \in SUBSET SUBSET S
      OBVIOUS
    <3> HIDE DEF D
    <3> QED
      BY <3>1, SmallestSubset
  <2>2. B \in SUBSET S /\ IsFiniteSet(B) /\ Sum(f, B) \notin Nat
    BY FS_Subset
  <2>3. B # {}
    BY <2>2, SumEmpty
  <2>4. PICK x \in B : Sum(f, B) = f[x] + Sum(f, B \ {x})
    BY <2>2, <2>3, SumChosen
  <2>5. B \ {x} \in SUBSET B /\ B \ {x} # B
    OBVIOUS
  <2>6. Sum(f, B \ {x}) \in Nat /\ f[x] \in Nat
    BY <2>1, <2>2, <2>5
  <2> QED
    BY <2>2, <2>4, <2>6
<1>2. /\ IsFiniteSet(A) /\ IsFiniteSet(S \ A) /\ A \cap (S \ A) = {} /\ A \cup (S \ A) = S
      /\ S \ A \in SUBSET S
  BY FS_Subset
<1>3. Sum(f, A) \in Nat /\ Sum(f, S \ A) \in Nat
  BY <1>1, <1>2
<1>4. \A x \in A \cup (S \ A) : f[x] \in Int
  OBVIOUS
<1>5. Sum(f, A \cup (S \ A)) = Sum(f, A) + Sum(f, S \ A)
  BY <1>2, <1>4, SumUnion
<1>6. Sum(f, S) = Sum(f, A) + Sum(f, S \ A)
  BY <1>2, <1>5
<1> QED
  BY <1>3, <1>6

\* Counting is adding ones.
LEMMA SumOfOnes ==
  ASSUME NEW S, IsFiniteSet(S), NEW f, \A x \in S : f[x] = 1
  PROVE  Sum(f, S) = Cardinality(S)
<1> DEFINE D == {A \in SUBSET S : Sum(f, A) # Cardinality(A)}
<1> SUFFICES ASSUME D # {} PROVE FALSE
  OBVIOUS
<1>1. PICK A \in D : \A C \in SUBSET A : C # A => C \notin D
  <2>1. D \in SUBSET SUBSET S
    OBVIOUS
  <2> HIDE DEF D
  <2> QED
    BY <2>1, SmallestSubset
<1>2. A \in SUBSET S /\ IsFiniteSet(A) /\ Sum(f, A) # Cardinality(A)
  BY FS_Subset
<1>3. A # {}
  BY <1>2, SumEmpty, FS_EmptySet
<1>4. PICK x \in A : Sum(f, A) = f[x] + Sum(f, A \ {x})
  BY <1>2, <1>3, SumChosen
<1>5. A \ {x} \in SUBSET A /\ A \ {x} # A
  OBVIOUS
<1>6. Sum(f, A \ {x}) = Cardinality(A \ {x}) /\ f[x] = 1
  BY <1>1, <1>2, <1>5
<1>7. Cardinality(A \ {x}) = Cardinality(A) - 1 /\ Cardinality(A) \in Nat
  BY <1>2, FS_RemoveElement, FS_CardinalityType
<1> QED
  BY <1>2, <1>4, <1>6, <1>7

\* The sums of the groups add up to the sum of the rows.
LEMMA SumOfGroups ==
  ASSUME NEW S, IsFiniteSet(S), NEW f, \A x \in S : f[x] \in Int,
         NEW K, IsFiniteSet(K), NEW key, \A x \in S : key[x] \in K
  PROVE  Sum([k \in K |-> Sum(f, {x \in S : key[x] = k})], K) = Sum(f, S)
<1> DEFINE G(A) == [k \in K |-> Sum(f, {x \in A : key[x] = k})]
           D == {A \in SUBSET S : Sum(G(A), K) # Sum(f, A)}
<1> SUFFICES ASSUME D # {} PROVE FALSE
  OBVIOUS
<1>1. PICK A \in D : \A C \in SUBSET A : C # A => C \notin D
  <2>1. D \in SUBSET SUBSET S
    OBVIOUS
  <2> HIDE DEF D
  <2> QED
    BY <2>1, SmallestSubset
<1>2. A \in SUBSET S /\ IsFiniteSet(A) /\ Sum(G(A), K) # Sum(f, A)
  BY FS_Subset
<1>3. ASSUME NEW B \in SUBSET S, NEW k \in K PROVE G(B)[k] \in Int
  <2>1. IsFiniteSet({x \in B : key[x] = k}) /\ \A x \in {y \in B : key[y] = k} : f[x] \in Int
    BY FS_Subset
  <2> QED
    BY <2>1, SumInteger
<1>4. A # {}
  <2> SUFFICES ASSUME A = {} PROVE FALSE
    OBVIOUS
  <2>1. \A k \in K : {x \in A : key[x] = k} = {}
    OBVIOUS
  <2>2. \A k \in K : G(A)[k] = 0
    BY <2>1, SumEmpty
  <2>3. \A L \in SUBSET K : Sum(G(A), L) = 0
    <3> DEFINE g == G(A)
               N == {L \in SUBSET K : Sum(g, L) # 0}
    <3> SUFFICES ASSUME N # {} PROVE FALSE
      OBVIOUS
    <3>1. \A k \in K : g[k] = 0
      BY <2>2
    <3> HIDE DEF g
    <3>2. PICK L \in N : \A M \in SUBSET L : M # L => M \notin N
      <4>1. N \in SUBSET SUBSET K
        OBVIOUS
      <4> HIDE DEF N
      <4> QED
        BY <4>1, SmallestSubset
    <3>3. L \in SUBSET K /\ IsFiniteSet(L) /\ Sum(g, L) # 0
      BY FS_Subset
    <3>4. L # {}
      BY <3>3, SumEmpty
    <3>5. PICK k \in L : Sum(g, L) = g[k] + Sum(g, L \ {k})
      BY <3>3, <3>4, SumChosen
    <3>6. L \ {k} \in SUBSET L /\ L \ {k} # L
      OBVIOUS
    <3>7. Sum(g, L \ {k}) = 0
      BY <3>2, <3>3, <3>6
    <3> QED
      BY <3>1, <3>3, <3>5, <3>7
  <2>4. Sum(f, A) = 0
    BY SumEmpty
  <2> QED
    BY <1>2, <2>3, <2>4
<1>5. PICK r \in A : TRUE
  BY <1>4
<1> DEFINE B == A \ {r}
           j == key[r]
<1>6. B \in SUBSET A /\ B # A /\ r \in S /\ j \in K /\ B \in SUBSET S /\ f[r] \in Int
  BY <1>2, <1>5
<1>7. Sum(G(B), K) = Sum(f, B)
  BY <1>1, <1>6
<1>8. Sum(f, A) = f[r] + Sum(f, B) /\ Sum(f, B) \in Int
  <2>1. \A y \in A : f[y] \in Int
    BY <1>2
  <2>2. IsFiniteSet(B) /\ \A y \in B : f[y] \in Int
    BY <1>2, <1>6, FS_Subset
  <2> QED
    BY <1>2, <1>5, <2>1, <2>2, SumTakeOut, SumInteger
<1>9. G(A)[j] = f[r] + G(B)[j]
  <2> DEFINE Q == {x \in A : key[x] = j}
  <2>1. /\ Q \in SUBSET S /\ r \in Q /\ {x \in B : key[x] = j} = Q \ {r}
        /\ \A x \in Q : f[x] \in Int
    BY <1>2, <1>5
  <2>2. IsFiniteSet(Q)
    BY <2>1, FS_Subset
  <2>3. G(A)[j] = Sum(f, Q) /\ G(B)[j] = Sum(f, Q \ {r})
    BY <1>6, <2>1
  <2> HIDE DEF Q, G
  <2> QED
    BY <2>1, <2>2, <2>3, SumTakeOut
<1>10. \A k \in K \ {j} : G(A)[k] = G(B)[k]
  <2>1. \A k \in K \ {j} : {x \in A : key[x] = k} = {x \in B : key[x] = k}
    OBVIOUS
  <2> QED
    BY <2>1
<1>11. IsFiniteSet(K \ {j})
  BY FS_Subset
<1>12. Sum(G(A), K \ {j}) = Sum(G(B), K \ {j})
  <2> HIDE DEF G
  <2> QED
    BY <1>10, <1>11, SumSame
<1>13. \A C \in SUBSET S : Sum(G(C), K) = G(C)[j] + Sum(G(C), K \ {j}) /\ Sum(G(C), K \ {j}) \in Int
  <2> SUFFICES ASSUME NEW C \in SUBSET S
               PROVE  Sum(G(C), K) = G(C)[j] + Sum(G(C), K \ {j}) /\ Sum(G(C), K \ {j}) \in Int
    OBVIOUS
  <2>1. \A k \in K : G(C)[k] \in Int
    BY <1>3
  <2> HIDE DEF G
  <2> QED
    BY <1>6, <1>11, <2>1, SumTakeOut, SumInteger
<1>14. G(B)[j] \in Int
  BY <1>3, <1>6
<1>15. Sum(G(A), K) = G(A)[j] + Sum(G(A), K \ {j}) /\ Sum(G(B), K) = G(B)[j] + Sum(G(B), K \ {j})
      /\ Sum(G(B), K \ {j}) \in Int
  <2> HIDE DEF G, B
  <2> QED
    BY <1>2, <1>6, <1>13
<1> HIDE DEF G, B, D
<1>16. Sum(G(A), K) = (f[r] + G(B)[j]) + Sum(G(B), K \ {j})
  BY <1>9, <1>12, <1>15
<1>17. Sum(f, B) = G(B)[j] + Sum(G(B), K \ {j})
  BY <1>7, <1>15
<1> QED
  BY <1>2, <1>6, <1>8, <1>14, <1>15, <1>16, <1>17
=============================================================================
