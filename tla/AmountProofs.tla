---------------------------- MODULE AmountProofs -----------------------------
(***************************************************************************)
(* Facts about amounts that the proofs about the bridge rest on: sums over *)
(* finite sets, with which the coins of accounts, operations, refunds and  *)
(* fees are added up, and truncation and conversion between decimals.      *)
(***************************************************************************)
EXTENDS Amounts, FiniteSets, Functions, FiniteSetTheorems, TLAPS

-----------------------------------------------------------------------------
\* Sums.  The induction is over the subsets of a finite set: a set of
\* counterexamples has a smallest member.

\* The element that the sum takes first, and what g must be to hold the sums of
\* f over all subsets of S
First(s) == CHOOSE x \in s : TRUE

Summing(g, f, S) ==
  g = [s \in SUBSET S |-> IF s = {} THEN 0 ELSE f[First(s)] + g[s \ {First(s)}]]

-----------------------------------------------------------------------------
\* Induction

\* Among some subsets of a finite set there is one with no other inside it.
LEMMA SmallestSubset ==
  ASSUME NEW S, IsFiniteSet(S), NEW Bad, Bad \subseteq SUBSET S, Bad # {}
  PROVE  \E s \in Bad : \A t \in Bad : t \subseteq s => t = s
<1>1. IsWellFoundedOn(StrictSubsetOrdering(S), SUBSET S)
  BY FS_FiniteSubsetsOfFinite, FS_StrictSubsetOrderingWellFounded
<1>2. PICK s \in Bad : \A t \in Bad : ~ (<<t, s>> \in StrictSubsetOrdering(S))
  BY <1>1, WFMin
<1>3. ASSUME NEW t \in Bad, t \subseteq s PROVE t = s
  BY <1>2, <1>3 DEF StrictSubsetOrdering
<1>. QED BY <1>3

\* The first element is an element.
LEMMA FirstIn == ASSUME NEW s, s # {} PROVE First(s) \in s
  BY DEF First

-----------------------------------------------------------------------------
\* The recursion of the sum is well defined.

\* Two such functions agree where both are defined.
LEMMA SummingUnique ==
  ASSUME NEW f, NEW S, NEW T, NEW g, NEW h, Summing(g, f, S), Summing(h, f, T),
         NEW U, IsFiniteSet(U), U \subseteq S, U \subseteq T
  PROVE  g[U] = h[U]
<1> DEFINE Bad == {s \in SUBSET U : g[s] # h[s]}
<1>1. SUFFICES ASSUME Bad # {} PROVE FALSE
  OBVIOUS
<1>2. PICK s \in Bad : \A t \in Bad : t \subseteq s => t = s
  <2>1. Bad \subseteq SUBSET U
    OBVIOUS
  <2> HIDE DEF Bad
  <2>. QED BY <1>1, <2>1, SmallestSubset
<1>3. s \in SUBSET S /\ s \in SUBSET T
  OBVIOUS
<1>4. g[s] = IF s = {} THEN 0 ELSE f[First(s)] + g[s \ {First(s)}]
  BY <1>3 DEF Summing
<1>5. h[s] = IF s = {} THEN 0 ELSE f[First(s)] + h[s \ {First(s)}]
  BY <1>3 DEF Summing
<1>6. s # {}
  BY <1>4, <1>5
<1>7. First(s) \in s
  BY <1>6, FirstIn
<1>8. s \ {First(s)} \notin Bad
  BY <1>2, <1>7
<1>9. g[s \ {First(s)}] = h[s \ {First(s)}]
  BY <1>8
<1>. QED BY <1>4, <1>5, <1>9

\* Over a finite set there is such a function.
LEMMA SummingExists ==
  ASSUME NEW f, NEW S, IsFiniteSet(S)
  PROVE  \E g : Summing(g, f, S)
<1> DEFINE Bad == {s \in SUBSET S : ~ \E g : Summing(g, f, s)}
<1>1. SUFFICES ASSUME Bad # {} PROVE FALSE
  OBVIOUS
<1>2. PICK T \in Bad : \A t \in Bad : t \subseteq T => t = T
  <2>1. Bad \subseteq SUBSET S
    OBVIOUS
  <2> HIDE DEF Bad
  <2>. QED BY <1>1, <2>1, SmallestSubset
<1> DEFINE H(s) == CHOOSE h : Summing(h, f, s)
           g == [s \in SUBSET T |->
                   IF s = {} THEN 0
                   ELSE f[First(s)] + H(s \ {First(s)})[s \ {First(s)}]]
<1>3. ASSUME NEW r, r \subseteq T, r # T PROVE Summing(H(r), f, r)
  <2>1. r \notin Bad
    BY <1>2, <1>3
  <2>2. \E h : Summing(h, f, r)
    BY <1>3, <2>1
  <2>. QED BY <2>2
<1> HIDE DEF H
<1>4. ASSUME NEW r, r \subseteq T, r # T PROVE g[r] = H(r)[r]
  <2>1. H(r)[r] = IF r = {} THEN 0 ELSE f[First(r)] + H(r)[r \ {First(r)}]
    BY <1>3, <1>4, ZenonT(40) DEF Summing
  <2>2. CASE r = {}
    BY <1>4, <2>1, <2>2
  <2>3. CASE r # {}
    <3> DEFINE q == r \ {First(r)}
    <3>1. q \subseteq T /\ q # T /\ q \subseteq r
      BY <1>4, <2>3, FirstIn
    <3>2. IsFiniteSet(q)
      BY <3>1, FS_Subset
    <3>3. Summing(H(r), f, r) /\ Summing(H(q), f, q)
      BY <1>3, <1>4, <3>1
    <3>4. H(r)[q] = H(q)[q]
      BY <3>1, <3>2, <3>3, SummingUnique
    <3>. QED BY <1>4, <2>1, <2>3, <3>4
  <2>. QED BY <2>2, <2>3
<1>5. ASSUME NEW s \in SUBSET T, s # {}
      PROVE  g[s] = f[First(s)] + g[s \ {First(s)}]
  <2> DEFINE r == s \ {First(s)}
  <2>1. r \subseteq T /\ r # T
    BY <1>5, FirstIn
  <2>2. g[r] = H(r)[r]
    BY <1>4, <2>1
  <2>. QED BY <1>5, <2>2
<1>6. g[{}] = 0
  OBVIOUS
<1>7. DOMAIN g = SUBSET T /\ g = [s \in SUBSET T |-> g[s]]
  OBVIOUS
<1> HIDE DEF g
<1>8. Summing(g, f, T)
  BY <1>5, <1>6, <1>7 DEF Summing
<1>. QED BY <1>2, <1>8

\* The sum follows its recursion.
LEMMA SumFirst ==
  ASSUME NEW f, NEW S, IsFiniteSet(S)
  PROVE  SumFunctionOnSet(f, S) =
           IF S = {} THEN 0 ELSE f[First(S)] + SumFunctionOnSet(f, S \ {First(S)})
<1> DEFINE G(T) == CHOOSE g : Summing(g, f, T)
           R == S \ {First(S)}
<1>1. SumFunctionOnSet(f, S) = G(S)[S] /\ SumFunctionOnSet(f, R) = G(R)[R]
  BY DEF SumFunctionOnSet, FoldFunctionOnSet, MapThenFoldSet, Summing, First
<1>2. IsFiniteSet(R) /\ R \subseteq S
  BY FS_RemoveElement
<1>3. Summing(G(S), f, S) /\ Summing(G(R), f, R)
  BY <1>2, SummingExists
<1> HIDE DEF G
<1>4. G(S)[R] = G(R)[R]
  BY <1>2, <1>3, SummingUnique
<1>5. G(S)[S] = IF S = {} THEN 0 ELSE f[First(S)] + G(S)[R]
  BY <1>3 DEF Summing
<1>. QED BY <1>1, <1>4, <1>5

-----------------------------------------------------------------------------
\* What the other proofs use

\* Nothing adds up to zero.
LEMMA SumEmpty == ASSUME NEW f PROVE SumFunctionOnSet(f, {}) = 0
  BY SumFirst, FS_EmptySet

\* Numbers add up to a number, and any one of them may be taken first.
LEMMA SumRemove ==
  ASSUME NEW f, NEW S, IsFiniteSet(S), \A x \in S : f[x] \in Nat
  PROVE  /\ SumFunctionOnSet(f, S) \in Nat
         /\ \A x \in S : SumFunctionOnSet(f, S) = f[x] + SumFunctionOnSet(f, S \ {x})
<1> DEFINE Good(T) == /\ SumFunctionOnSet(f, T) \in Nat
                      /\ \A x \in T : SumFunctionOnSet(f, T)
                                        = f[x] + SumFunctionOnSet(f, T \ {x})
           Bad == {T \in SUBSET S : ~Good(T)}
<1>1. SUFFICES ASSUME Bad # {} PROVE FALSE
  OBVIOUS
<1>2. PICK T \in Bad : \A t \in Bad : t \subseteq T => t = T
  <2>1. Bad \subseteq SUBSET S
    OBVIOUS
  <2> HIDE DEF Bad
  <2>. QED BY <1>1, <2>1, SmallestSubset
<1>3. T \in SUBSET S /\ ~Good(T)
  OBVIOUS
<1>4. ASSUME NEW t, t \subseteq T, t # T PROVE Good(t)
  <2>1. t \notin Bad /\ t \in SUBSET S
    BY <1>2, <1>3, <1>4
  <2>. QED BY <2>1
<1> HIDE DEF Bad
<1>5. IsFiniteSet(T)
  BY <1>3, FS_Subset
<1>6. CASE T = {}
  BY <1>3, <1>6, SumEmpty
<1>7. CASE T # {}
  <2> DEFINE a == First(T)
             R == T \ {a}
  <2>1. a \in T /\ f[a] \in Nat
    BY <1>3, <1>7, FirstIn
  <2>2. SumFunctionOnSet(f, T) = f[a] + SumFunctionOnSet(f, R)
    BY <1>5, <1>7, SumFirst
  <2> HIDE DEF a
  <2>3. Good(R)
    BY <1>4, <2>1
  <2>4. SumFunctionOnSet(f, T) \in Nat
    BY <2>1, <2>2, <2>3
  <2>5. ASSUME NEW x \in T
        PROVE  SumFunctionOnSet(f, T) = f[x] + SumFunctionOnSet(f, T \ {x})
    <3>1. CASE x = a
      BY <2>2, <3>1
    <3>2. CASE x # a
      <4> DEFINE Q == T \ {x}
      <4>1. x \in R /\ f[x] \in Nat
        BY <1>3, <3>2
      <4>2. SumFunctionOnSet(f, R) = f[x] + SumFunctionOnSet(f, R \ {x})
        BY <2>3, <4>1
      <4>3. a \in Q /\ Q \subseteq T /\ Q # T
        BY <2>1, <3>2
      <4>4. SumFunctionOnSet(f, Q) = f[a] + SumFunctionOnSet(f, Q \ {a})
        BY <1>4, <4>3
      <4>5. R \ {x} = Q \ {a} /\ Q \ {a} \subseteq T /\ Q \ {a} # T
        BY <4>3
      <4>6. SumFunctionOnSet(f, Q \ {a}) \in Nat
        BY <1>4, <4>5
      <4> DEFINE rest == SumFunctionOnSet(f, Q \ {a})
      <4>7. /\ SumFunctionOnSet(f, T) = f[a] + (f[x] + rest)
            /\ SumFunctionOnSet(f, Q) = f[a] + rest
        BY <2>2, <4>2, <4>4, <4>5
      <4>8. f[a] + (f[x] + rest) = f[x] + (f[a] + rest)
        BY <2>1, <4>1, <4>6
      <4>. QED BY <4>7, <4>8
    <3>. QED BY <3>1, <3>2
  <2>. QED BY <1>3, <2>4, <2>5
<1>. QED BY <1>6, <1>7

\* The type of a sum
LEMMA SumNat ==
  ASSUME NEW f, NEW S, IsFiniteSet(S), \A x \in S : f[x] \in Nat
  PROVE  SumFunctionOnSet(f, S) \in Nat
  BY SumRemove

\* A summand is at most the sum.
LEMMA SumBounds ==
  ASSUME NEW f, NEW S, IsFiniteSet(S), \A x \in S : f[x] \in Nat, NEW y \in S
  PROVE  f[y] <= SumFunctionOnSet(f, S)
<1>1. SumFunctionOnSet(f, S) = f[y] + SumFunctionOnSet(f, S \ {y})
  BY SumRemove
<1>2. SumFunctionOnSet(f, S \ {y}) \in Nat
  BY SumNat, FS_RemoveElement
<1>. QED BY <1>1, <1>2

\* One more summand
LEMMA SumAdd ==
  ASSUME NEW f, NEW S, IsFiniteSet(S), NEW y, y \notin S, \A x \in S \cup {y} : f[x] \in Nat
  PROVE  SumFunctionOnSet(f, S \cup {y}) = f[y] + SumFunctionOnSet(f, S)
<1>1. IsFiniteSet(S \cup {y}) /\ (S \cup {y}) \ {y} = S
  BY FS_AddElement
<1>. QED BY <1>1, SumRemove

\* The sum depends on the values in the set only.
LEMMA SumSame ==
  ASSUME NEW f, NEW g, NEW S, IsFiniteSet(S), \A x \in S : f[x] = g[x]
  PROVE  SumFunctionOnSet(f, S) = SumFunctionOnSet(g, S)
<1> DEFINE Bad == {T \in SUBSET S : SumFunctionOnSet(f, T) # SumFunctionOnSet(g, T)}
<1>1. SUFFICES ASSUME Bad # {} PROVE FALSE
  OBVIOUS
<1>2. PICK T \in Bad : \A t \in Bad : t \subseteq T => t = T
  <2>1. Bad \subseteq SUBSET S
    OBVIOUS
  <2> HIDE DEF Bad
  <2>. QED BY <1>1, <2>1, SmallestSubset
<1>3. IsFiniteSet(T)
  BY FS_Subset
<1>4. T # {}
  BY SumEmpty
<1>5. First(T) \in T
  BY <1>4, FirstIn
<1>6. T \ {First(T)} \notin Bad
  BY <1>2, <1>5
<1>7. SumFunctionOnSet(f, T \ {First(T)}) = SumFunctionOnSet(g, T \ {First(T)})
  BY <1>6
<1>8. f[First(T)] = g[First(T)]
  BY <1>5
<1>9. SumFunctionOnSet(f, T) = SumFunctionOnSet(g, T)
  BY <1>3, <1>4, <1>7, <1>8, SumFirst
<1>. QED BY <1>9

\* One summand changes.
LEMMA SumChange ==
  ASSUME NEW f, NEW g, NEW S, IsFiniteSet(S), NEW y \in S,
         \A x \in S : f[x] \in Nat /\ g[x] \in Nat,
         \A x \in S \ {y} : f[x] = g[x]
  PROVE  SumFunctionOnSet(g, S) = SumFunctionOnSet(f, S) - f[y] + g[y]
<1> DEFINE R == S \ {y}
<1>1. IsFiniteSet(R)
  BY FS_RemoveElement
<1>2. SumFunctionOnSet(f, R) = SumFunctionOnSet(g, R) /\ SumFunctionOnSet(f, R) \in Nat
  BY <1>1, SumSame, SumNat
<1>3. /\ SumFunctionOnSet(f, S) = f[y] + SumFunctionOnSet(f, R)
      /\ SumFunctionOnSet(g, S) = g[y] + SumFunctionOnSet(g, R)
  BY SumRemove
<1> HIDE DEF R
<1>. QED BY <1>2, <1>3

\* The same amount is added to some of the summands, as in a split of fees.
LEMMA SumShares ==
  ASSUME NEW f, NEW g, NEW S, IsFiniteSet(S), NEW A, A \subseteq S, NEW c \in Nat,
         \A x \in S : f[x] \in Nat,
         \A x \in S : g[x] = IF x \in A THEN f[x] + c ELSE f[x]
  PROVE  SumFunctionOnSet(g, S) = SumFunctionOnSet(f, S) + c * Cardinality(A)
<1> DEFINE Good(T) == SumFunctionOnSet(g, T) = SumFunctionOnSet(f, T) + c * Cardinality(T \cap A)
           Bad == {T \in SUBSET S : ~Good(T)}
<1>1. SUFFICES ASSUME Bad # {} PROVE FALSE
  <2>1. S \cap A = A
    OBVIOUS
  <2>2. S \notin Bad => Good(S)
    OBVIOUS
  <2> HIDE DEF Bad
  <2>. QED BY <1>1, <2>1, <2>2
<1>2. PICK T \in Bad : \A t \in Bad : t \subseteq T => t = T
  <2>1. Bad \subseteq SUBSET S
    OBVIOUS
  <2> HIDE DEF Bad
  <2>. QED BY <1>1, <2>1, SmallestSubset
<1>3. IsFiniteSet(T) /\ T \in SUBSET S /\ ~Good(T)
  BY FS_Subset
<1>4. CASE T = {}
  <2>1. {} \cap A = {} /\ Cardinality({}) = 0 /\ c * 0 = 0
    BY FS_EmptySet
  <2>. QED BY <1>3, <1>4, <2>1, SumEmpty
<1>5. CASE T # {}
  <2> DEFINE a == First(T)
             R == T \ {a}
  <2>1. a \in T /\ a \in S
    BY <1>3, <1>5, FirstIn
  <2> HIDE DEF a
  <2>2. R \notin Bad /\ R \in SUBSET S
    BY <1>2, <1>3, <2>1
  <2>3. Good(R)
    BY <2>2
  <2> HIDE DEF Bad
  <2>4. IsFiniteSet(R) /\ IsFiniteSet(R \cap A) /\ IsFiniteSet(T \cap A)
    BY <1>3, FS_Subset, FS_Intersection
  <2>5. /\ \A x \in T : f[x] \in Nat /\ g[x] \in Nat
        /\ \A x \in R : f[x] \in Nat /\ g[x] \in Nat
    BY <1>3
  <2>6. /\ SumFunctionOnSet(f, T) = f[a] + SumFunctionOnSet(f, R)
        /\ SumFunctionOnSet(g, T) = g[a] + SumFunctionOnSet(g, R)
    BY <1>3, <2>1, <2>5, SumRemove
  <2>7. SumFunctionOnSet(f, R) \in Nat /\ SumFunctionOnSet(g, R) \in Nat
    BY <2>4, <2>5, SumNat
  <2>8. f[a] \in Nat /\ Cardinality(R \cap A) \in Nat
    BY <2>1, <2>4, FS_CardinalityType
  <2>9. CASE a \in A
    <3>1. T \cap A = (R \cap A) \cup {a} /\ a \notin R \cap A
      BY <2>1, <2>9
    <3>2. Cardinality(T \cap A) = Cardinality(R \cap A) + 1
      BY <2>4, <3>1, FS_AddElement
    <3>3. g[a] = f[a] + c
      BY <2>1, <2>9
    <3> DEFINE k == Cardinality(R \cap A)
    <3>4. c * (k + 1) = c * k + c /\ c * k \in Nat
      BY <2>8
    <3> HIDE DEF k, R
    <3>. QED BY <1>3, <2>3, <2>6, <2>7, <2>8, <3>2, <3>3, <3>4 DEF k
  <2>10. CASE a \notin A
    <3>1. T \cap A = R \cap A /\ g[a] = f[a]
      BY <2>1, <2>10
    <3> DEFINE k == c * Cardinality(R \cap A)
    <3>2. k = c * Cardinality(T \cap A)
      BY <3>1
    <3>3. k \in Nat
      BY <2>8
    <3>4. SumFunctionOnSet(g, R) = SumFunctionOnSet(f, R) + k
      BY <2>3
    <3> HIDE DEF k, R
    <3>5. SumFunctionOnSet(g, T) = SumFunctionOnSet(f, T) + k
      BY <2>6, <2>7, <2>8, <3>1, <3>3, <3>4
    <3>. QED BY <1>3, <3>2, <3>5
  <2>. QED BY <2>9, <2>10
<1>. QED BY <1>4, <1>5

\* Part of the summands: their sum is smaller, unless the others are zero.
LEMMA SumPart ==
  ASSUME NEW f, NEW S, IsFiniteSet(S), NEW A, A \subseteq S, \A x \in S : f[x] \in Nat
  PROVE  /\ SumFunctionOnSet(f, A) <= SumFunctionOnSet(f, S)
         /\ (\A x \in S \ A : f[x] = 0) => SumFunctionOnSet(f, A) = SumFunctionOnSet(f, S)
<1> DEFINE Zero == \A x \in S \ A : f[x] = 0
           Good(T) == /\ SumFunctionOnSet(f, T \cap A) <= SumFunctionOnSet(f, T)
                      /\ Zero => SumFunctionOnSet(f, T \cap A) = SumFunctionOnSet(f, T)
           Bad == {T \in SUBSET S : ~Good(T)}
<1>1. SUFFICES ASSUME Bad # {} PROVE FALSE
  <2>1. S \cap A = A
    OBVIOUS
  <2>2. S \notin Bad => Good(S)
    OBVIOUS
  <2> HIDE DEF Bad
  <2>. QED BY <1>1, <2>1, <2>2
<1>2. PICK T \in Bad : \A t \in Bad : t \subseteq T => t = T
  <2>1. Bad \subseteq SUBSET S
    OBVIOUS
  <2> HIDE DEF Bad
  <2>. QED BY <1>1, <2>1, SmallestSubset
<1>3. IsFiniteSet(T) /\ T \in SUBSET S /\ ~Good(T)
  BY FS_Subset
<1>4. CASE T = {}
  <2>1. {} \cap A = {} /\ SumFunctionOnSet(f, {}) = 0
    BY SumEmpty
  <2>. QED BY <1>3, <1>4, <2>1
<1>5. CASE T # {}
  <2> DEFINE a == First(T)
             R == T \ {a}
  <2>1. a \in T /\ a \in S
    BY <1>3, <1>5, FirstIn
  <2> HIDE DEF a
  <2>2. R \notin Bad /\ R \in SUBSET S
    BY <1>2, <1>3, <2>1
  <2>3. Good(R)
    BY <2>2
  <2> HIDE DEF Bad
  <2>4. IsFiniteSet(R) /\ IsFiniteSet(R \cap A) /\ IsFiniteSet(T \cap A)
    BY <1>3, FS_Subset, FS_Intersection
  <2>5. /\ \A x \in T : f[x] \in Nat
        /\ \A x \in R : f[x] \in Nat
        /\ \A x \in R \cap A : f[x] \in Nat
        /\ \A x \in T \cap A : f[x] \in Nat
    BY <1>3
  <2>6. SumFunctionOnSet(f, T) = f[a] + SumFunctionOnSet(f, R)
    BY <1>3, <2>1, <2>5, SumRemove
  <2>7. SumFunctionOnSet(f, R) \in Nat /\ SumFunctionOnSet(f, R \cap A) \in Nat
    BY <2>4, <2>5, SumNat
  <2>8. f[a] \in Nat
    BY <2>1
  <2>9. CASE a \in A
    <3>1. a \in T \cap A /\ (T \cap A) \ {a} = R \cap A
      BY <2>1, <2>9
    <3>2. SumFunctionOnSet(f, T \cap A) = f[a] + SumFunctionOnSet(f, R \cap A)
      BY <2>4, <2>5, <3>1, SumRemove
    <3> HIDE DEF R, Zero
    <3>. QED BY <1>3, <2>3, <2>6, <2>7, <2>8, <3>2
  <2>10. CASE a \notin A
    <3>1. T \cap A = R \cap A /\ (Zero => f[a] = 0)
      BY <2>1, <2>10
    <3> HIDE DEF R, Zero
    <3>. QED BY <1>3, <2>3, <2>6, <2>7, <2>8, <3>1
  <2>. QED BY <2>9, <2>10
<1>. QED BY <1>4, <1>5

-----------------------------------------------------------------------------
\* Sums of all values of a function

AddsUp(f) == IsFiniteSet(DOMAIN f) /\ \A x \in DOMAIN f : f[x] \in Nat

\* The sum is a number.
LEMMA TotalNat == ASSUME NEW f, AddsUp(f) PROVE SumFunction(f) \in Nat
  BY SumNat DEF AddsUp, SumFunction

\* A value is at most the sum.
LEMMA TotalBounds == ASSUME NEW f, AddsUp(f), NEW y \in DOMAIN f PROVE f[y] <= SumFunction(f)
  BY SumBounds DEF AddsUp, SumFunction

\* The function gets one more value.
LEMMA TotalAdd ==
  ASSUME NEW f, AddsUp(f), NEW g, NEW y, y \notin DOMAIN f, DOMAIN g = DOMAIN f \cup {y},
         g[y] \in Nat, \A x \in DOMAIN f : g[x] = f[x]
  PROVE  AddsUp(g) /\ SumFunction(g) = SumFunction(f) + g[y]
<1> DEFINE D == DOMAIN f
<1>1. /\ IsFiniteSet(D) /\ y \notin D
      /\ \A x \in D \cup {y} : g[x] \in Nat
      /\ \A x \in D : f[x] = g[x]
      /\ \A x \in D : f[x] \in Nat
  BY DEF AddsUp
<1>2. SumFunctionOnSet(g, D \cup {y}) = g[y] + SumFunctionOnSet(g, D)
  BY <1>1, SumAdd
<1>3. SumFunctionOnSet(f, D) = SumFunctionOnSet(g, D)
  BY <1>1, SumSame
<1>4. SumFunctionOnSet(f, D) \in Nat
  BY <1>1, SumNat
<1>5. IsFiniteSet(D \cup {y})
  BY <1>1, FS_AddElement
<1>6. SumFunction(g) = SumFunctionOnSet(g, D \cup {y}) /\ SumFunction(f) = SumFunctionOnSet(f, D)
  BY DEF SumFunction
<1>. QED BY <1>1, <1>2, <1>3, <1>4, <1>5, <1>6 DEF AddsUp

\* One of its values changes.
LEMMA TotalChange ==
  ASSUME NEW f, AddsUp(f), NEW g, NEW y \in DOMAIN f, DOMAIN g = DOMAIN f,
         g[y] \in Nat, \A x \in DOMAIN f \ {y} : g[x] = f[x]
  PROVE  AddsUp(g) /\ SumFunction(g) = SumFunction(f) - f[y] + g[y]
<1> DEFINE D == DOMAIN f
<1>1. /\ IsFiniteSet(D) /\ y \in D
      /\ \A x \in D : f[x] \in Nat /\ g[x] \in Nat
      /\ \A x \in D \ {y} : f[x] = g[x]
  BY DEF AddsUp
<1>2. SumFunctionOnSet(g, D) = SumFunctionOnSet(f, D) - f[y] + g[y]
  BY <1>1, SumChange
<1>. QED BY <1>1, <1>2 DEF AddsUp, SumFunction

\* The function loses some of its values.
LEMMA TotalPart ==
  ASSUME NEW f, AddsUp(f), NEW g, DOMAIN g \subseteq DOMAIN f,
         \A x \in DOMAIN g : g[x] = f[x]
  PROVE  /\ AddsUp(g)
         /\ SumFunction(g) <= SumFunction(f)
         /\ (\A x \in DOMAIN f \ DOMAIN g : f[x] = 0) => SumFunction(g) = SumFunction(f)
<1> DEFINE S == DOMAIN f
           A == DOMAIN g
<1>1. /\ IsFiniteSet(S) /\ A \subseteq S
      /\ \A x \in S : f[x] \in Nat
      /\ \A x \in A : g[x] = f[x]
  BY DEF AddsUp
<1>2. IsFiniteSet(A)
  BY <1>1, FS_Subset
<1>3. SumFunctionOnSet(g, A) = SumFunctionOnSet(f, A)
  BY <1>1, <1>2, SumSame
<1>4. /\ SumFunctionOnSet(f, A) <= SumFunctionOnSet(f, S)
      /\ (\A x \in S \ A : f[x] = 0) => SumFunctionOnSet(f, A) = SumFunctionOnSet(f, S)
  BY <1>1, SumPart
<1>. QED BY <1>1, <1>2, <1>3, <1>4 DEF AddsUp, SumFunction

\* The same amount is added to some of the values, and the others stay.
LEMMA TotalShares ==
  ASSUME NEW f, AddsUp(f), NEW g, DOMAIN g = DOMAIN f, NEW A, A \subseteq DOMAIN f, NEW c \in Nat,
         \A x \in DOMAIN f : g[x] = IF x \in A THEN f[x] + c ELSE f[x]
  PROVE  AddsUp(g) /\ SumFunction(g) = SumFunction(f) + c * Cardinality(A)
<1> DEFINE S == DOMAIN f
<1>1. /\ IsFiniteSet(S) /\ A \subseteq S
      /\ \A x \in S : f[x] \in Nat
      /\ \A x \in S : g[x] = IF x \in A THEN f[x] + c ELSE f[x]
  BY DEF AddsUp
<1>2. SumFunctionOnSet(g, S) = SumFunctionOnSet(f, S) + c * Cardinality(A)
  BY <1>1, SumShares
<1>. QED BY <1>1, <1>2 DEF AddsUp, SumFunction

\* The function stays the same.
LEMMA TotalEqual ==
  ASSUME NEW f, AddsUp(f), NEW g, DOMAIN g = DOMAIN f, \A x \in DOMAIN f : g[x] = f[x]
  PROVE  SumFunction(g) = SumFunction(f)
  BY TotalPart

\* The function loses a value.
LEMMA TotalRemove ==
  ASSUME NEW f, AddsUp(f), NEW g, NEW y, y \in DOMAIN f, DOMAIN g = DOMAIN f \ {y},
         \A x \in DOMAIN g : g[x] = f[x]
  PROVE  SumFunction(f) = SumFunction(g) + f[y]
<1>1. f[y] \in Nat /\ y \notin DOMAIN g /\ DOMAIN f = DOMAIN g \cup {y}
  BY DEF AddsUp
<1>2. AddsUp(g)
  BY TotalPart
<1>. QED BY <1>1, <1>2, TotalAdd

-----------------------------------------------------------------------------
\* Division

\* Quotient and rest
LEMMA Division ==
  ASSUME NEW a \in Nat, NEW b \in Nat \ {0}
  PROVE  /\ a \div b \in Nat
         /\ a = (a \div b) * b + (a % b)
         /\ a % b \in 0 .. b - 1
  OBVIOUS

\* A multiple is divided without a rest.
LEMMA ExactDivision ==
  ASSUME NEW q \in Nat, NEW b \in Nat \ {0}
  PROVE  (q * b) \div b = q /\ (q * b) % b = 0
<1>1. (q * b) % b = 0
  OBVIOUS
<1>2. (q * b) \div b = q
  OBVIOUS
<1>. QED BY <1>1, <1>2

\* A multiple that is not above a number has a quotient not above that number's.
LEMMA QuotientBound ==
  ASSUME NEW a \in Nat, NEW b \in Nat \ {0}, NEW r \in Nat, r * b <= a
  PROVE  r <= a \div b
  OBVIOUS

\* A number is divided in one way.
LEMMA QuotientIs ==
  ASSUME NEW q \in Nat, NEW b \in Nat \ {0}, NEW r \in 0 .. b - 1
  PROVE  (q * b + r) \div b = q
  OBVIOUS

\* The quotients of two numbers and that of their sum
LEMMA QuotientSum ==
  ASSUME NEW a \in Nat, NEW c \in Nat, NEW b \in Nat \ {0}
  PROVE  /\ a \div b \in Nat /\ c \div b \in Nat /\ (a + c) \div b \in Nat
         /\ (a \div b) + (c \div b) <= (a + c) \div b
         /\ c % b = 0 => (a + c) \div b = (a \div b) + (c \div b)
<1> DEFINE q == a \div b
           r == c \div b
<1>1. /\ q \in Nat /\ a = q * b + (a % b) /\ a % b \in 0 .. b - 1
      /\ r \in Nat /\ c = r * b + (c % b) /\ c % b \in 0 .. b - 1
  BY Division
<1>2. a + c \in Nat /\ (a + c) \div b \in Nat
  <2>1. a + c \in Nat
    OBVIOUS
  <2>. QED BY <2>1, Division
<1> HIDE DEF q, r
<1>3. (q + r) * b = q * b + r * b /\ q * b \in Nat /\ r * b \in Nat
  BY <1>1
<1>4. (q + r) * b <= a + c
  BY <1>1, <1>3
<1> DEFINE n == q + r
           sum == a + c
<1>5. q + r <= (a + c) \div b
  <2>1. n \in Nat /\ sum \in Nat /\ n * b <= sum
    BY <1>1, <1>2, <1>4
  <2> HIDE DEF n, sum
  <2>2. n <= sum \div b
    BY <2>1, QuotientBound
  <2>. QED BY <2>2 DEF n, sum
<1>6. ASSUME c % b = 0 PROVE (a + c) \div b = q + r
  <2> DEFINE rest == a % b
  <2>1. a = q * b + rest /\ c = r * b + 0 /\ rest \in 0 .. b - 1
    BY <1>1, <1>6
  <2> HIDE DEF rest
  <2>2. rest \in Nat
    BY <2>1
  <2>3. sum = n * b + rest /\ n \in Nat
    BY <1>1, <1>3, <2>1, <2>2
  <2> HIDE DEF n, sum
  <2>4. sum \div b = n
    BY <2>1, <2>3, QuotientIs
  <2>. QED BY <2>4 DEF n, sum
<1> HIDE DEF n, sum
<1>. QED BY <1>1, <1>2, <1>5, <1>6 DEF q, r

\* RoundDown cuts off less than one unit.
LEMMA RoundDownRest ==
  ASSUME NEW a \in Nat, NEW unit \in Nat \ {0}
  PROVE  /\ RoundDown(a, unit) \in 0 .. a
         /\ a - RoundDown(a, unit) \in 0 .. unit - 1
<1> DEFINE q == a \div unit
<1>1. q \in Nat /\ a = q * unit + (a % unit) /\ a % unit \in 0 .. unit - 1
  BY Division
<1>2. RoundDown(a, unit) = q * unit /\ q * unit \in Nat
  BY <1>1 DEF RoundDown
<1>. QED BY <1>1, <1>2

\* RoundDown keeps the order of amounts.
LEMMA RoundDownMonotone ==
  ASSUME NEW a \in Nat, NEW b \in Nat, a <= b, NEW unit \in Nat \ {0}
  PROVE  RoundDown(a, unit) <= RoundDown(b, unit)
<1> DEFINE q == a \div unit
           r == b \div unit
<1>1. q \in Nat /\ r \in Nat /\ q * unit <= a
  BY Division
<1>2. q * unit \in Nat /\ q * unit <= b
  BY <1>1
<1>3. q <= r
  BY <1>1, <1>2, QuotientBound
<1>4. RoundDown(a, unit) = q * unit /\ RoundDown(b, unit) = r * unit
  BY DEF RoundDown
<1> HIDE DEF q, r
<1>5. q * unit <= r * unit
  BY <1>1, <1>3
<1>. QED BY <1>4, <1>5

-----------------------------------------------------------------------------
\* Powers of ten

\* A power in the range of PowersOfTen is positive.
LEMMA PowerPositive ==
  ASSUME NEW n \in 0 .. MaxExponent
  PROVE  10 ^ n \in Nat \ {0}
<1>1. MaxExponent \in Int
  BY LimitsAssumption DEF MaxExponent
<1>. QED BY <1>1, PowersOfTen

\* A number below one of the sums in MaxExponent is an exponent in the range.
LEMMA InRange ==
  ASSUME NEW n \in Nat,
         \/ n <= XRPL_MAX_TRUNCATED_AMOUNT_LENGTH + MAX_COSMOS_TOKEN_DECIMALS - MIN_SENDING_PRECISION
         \/ n <= MAX_COSMOS_TOKEN_DECIMALS
         \/ n <= XRPL_TOKENS_DECIMALS - MIN_SENDING_PRECISION
         \/ n <= XRPL_MAX_TRUNCATED_AMOUNT_LENGTH + UINT128_DIGITS
  PROVE  n \in 0 .. MaxExponent
<1>1. MIN_SENDING_PRECISION <= 0
  BY LimitsAssumption
<1>. QED BY <1>1, LimitsAssumption DEF MaxExponent

\* Unit is a power of ten with the distance of its arguments.
LEMMA UnitPower ==
  ASSUME NEW p \in Int, NEW d \in Int
  PROVE  /\ p <= d => Unit(p, d) = 10 ^ (d - p)
         /\ d <= p => Unit(p, d) = 10 ^ (p - d)
<1>1. ASSUME p <= d PROVE Unit(p, d) = 10 ^ (d - p)
  BY <1>1 DEF Unit
<1>2. ASSUME d < p PROVE Unit(p, d) = 10 ^ (p - d)
  <2>1. -(d - p) = p - d /\ d - p < 0
    BY <1>2
  <2>. QED BY <2>1 DEF Unit
<1>3. ASSUME d = p PROVE Unit(p, d) = 10 ^ (p - d)
  BY <1>3 DEF Unit
<1>. QED BY <1>1, <1>2, <1>3

-----------------------------------------------------------------------------
\* Tokens.  p and d are the sending precision and the decimals of a token that
\* the contract accepted.

LegalPrecision(p, d) ==
  /\ d \in Nat /\ (d <= MAX_COSMOS_TOKEN_DECIMALS \/ d <= XRPL_TOKENS_DECIMALS)
  /\ p \in Int /\ p <= d
  /\ MIN_SENDING_PRECISION <= p /\ p <= XRPL_TOKENS_DECIMALS

\* The unit of truncation
LEMMA LegalUnit ==
  ASSUME NEW p, NEW d, LegalPrecision(p, d)
  PROVE  Unit(p, d) = 10 ^ (d - p) /\ Unit(p, d) \in Nat \ {0}
<1>1. /\ d \in Nat /\ p \in Int /\ p <= d /\ d - p \in Nat
      /\ \/ d - p <= XRPL_MAX_TRUNCATED_AMOUNT_LENGTH + MAX_COSMOS_TOKEN_DECIMALS
                        - MIN_SENDING_PRECISION
         \/ d - p <= XRPL_TOKENS_DECIMALS - MIN_SENDING_PRECISION
  BY LimitsAssumption DEF LegalPrecision
<1>2. Unit(p, d) = 10 ^ (d - p)
  BY <1>1, UnitPower
<1>3. d - p \in 0 .. MaxExponent
  BY <1>1, InRange
<1>. QED BY <1>2, <1>3, PowerPositive

\* What truncation leaves and cuts off.  No overflow is possible: the amounts get
\* smaller.
LEMMA Truncated ==
  ASSUME NEW p, NEW d, LegalPrecision(p, d), NEW a \in Nat
  PROVE  LET t == truncate_amount(p, d, a)
         IN /\ t.sent \in 0 .. a /\ t.remainder \in Nat /\ t.sent + t.remainder = a
            /\ \E q \in Nat : t.sent = q * Unit(p, d)
            /\ CanTruncate(p, d, a) => t.sent > 0
<1> DEFINE unit == Unit(p, d)
           q == a \div unit
           sent == RoundDown(a, unit)
<1>1. unit \in Nat \ {0}
  BY LegalUnit
<1>2. sent \in 0 .. a /\ a - sent \in Nat
  BY <1>1, RoundDownRest
<1>3. q \in Nat /\ sent = q * unit
  BY <1>1, Division DEF RoundDown
<1>4. truncate_amount(p, d, a) = [sent |-> sent, remainder |-> a - sent]
  BY DEF truncate_amount
<1>5. CanTruncate(p, d, a) => q # 0
  BY DEF CanTruncate
<1> HIDE DEF sent, q, unit
<1>6. q # 0 => sent > 0
  BY <1>1, <1>3
<1>. QED BY <1>2, <1>3, <1>4, <1>5, <1>6 DEF unit

\* Truncation keeps the order of amounts.
LEMMA TruncatedMonotone ==
  ASSUME NEW p, NEW d, LegalPrecision(p, d), NEW a \in Nat, NEW b \in Nat, a <= b
  PROVE  truncate_amount(p, d, a).sent <= truncate_amount(p, d, b).sent
  BY LegalUnit, RoundDownMonotone DEF truncate_amount

\* Between the decimals of a token and those of the XRPL
LEMMA LegalConversion ==
  ASSUME NEW p, NEW d, LegalPrecision(p, d), d <= MAX_COSMOS_TOKEN_DECIMALS
  PROVE  LET x == XRPL_TOKENS_DECIMALS
             unit == Unit(x, d)
         IN /\ unit = Unit(d, x)
            /\ unit \in Nat \ {0}
            /\ x <= d => \E n \in Nat : Unit(p, d) = n * unit
            /\ x = d => unit = 1
<1> DEFINE x == XRPL_TOKENS_DECIMALS
           unit == Unit(x, d)
<1>1. /\ d \in Nat /\ p \in Int /\ p <= x /\ p <= d
      /\ x \in Nat /\ MIN_SENDING_PRECISION \in Int /\ MAX_COSMOS_TOKEN_DECIMALS \in Nat
      /\ d - p <= MAX_COSMOS_TOKEN_DECIMALS - MIN_SENDING_PRECISION
      /\ x - p <= x - MIN_SENDING_PRECISION
      /\ MIN_SENDING_PRECISION <= 0
  BY LimitsAssumption DEF LegalPrecision
<1>2. Unit(p, d) = 10 ^ (d - p)
  BY LegalUnit
<1> HIDE DEF x
<1>3. ASSUME x <= d
      PROVE  /\ d - x \in 0 .. MaxExponent /\ x - p \in 0 .. MaxExponent
             /\ d - p \in 0 .. MaxExponent
             /\ unit = 10 ^ (d - x) /\ Unit(d, x) = 10 ^ (d - x)
  <2>1. d - x \in Nat /\ d - x <= MAX_COSMOS_TOKEN_DECIMALS
    BY <1>1, <1>3
  <2>2. x - p \in Nat /\ d - p \in Nat
    BY <1>1
  <2>3. d - x \in 0 .. MaxExponent /\ x - p \in 0 .. MaxExponent /\ d - p \in 0 .. MaxExponent
    BY <1>1, <2>1, <2>2, InRange, LimitsAssumption DEF x
  <2>. QED BY <1>1, <1>3, <2>3, UnitPower
<1>4. ASSUME d < x
      PROVE  /\ x - d \in 0 .. MaxExponent
             /\ unit = 10 ^ (x - d) /\ Unit(d, x) = 10 ^ (x - d)
  <2>1. x - d \in Nat /\ x - d <= x - MIN_SENDING_PRECISION
    BY <1>1, <1>4
  <2>2. x - d \in 0 .. MaxExponent
    BY <2>1, InRange DEF x
  <2>. QED BY <1>1, <1>4, <2>2, UnitPower
<1>5. unit = Unit(d, x) /\ unit \in Nat \ {0}
  BY <1>1, <1>3, <1>4, PowerPositive
<1>6. ASSUME x <= d PROVE \E n \in Nat : Unit(p, d) = n * unit
  <2>1. d - p = (x - p) + (d - x)
    BY <1>1
  <2>2. 10 ^ ((x - p) + (d - x)) = 10 ^ (x - p) * 10 ^ (d - x)
    BY <1>3, <1>6, <2>1, PowersOfTen
  <2>3. 10 ^ (x - p) \in Nat
    BY <1>3, <1>6, PowerPositive
  <2>. QED BY <1>2, <1>3, <1>6, <2>1, <2>2, <2>3
<1>7. ASSUME x = d PROVE unit = 1
  <2>1. d - x = 0
    BY <1>1, <1>7
  <2>2. unit = 10 ^ 0
    BY <1>1, <1>3, <1>7, <2>1
  <2>. QED BY <2>2
<1>. QED BY <1>5, <1>6, <1>7 DEF x

\* An amount of a token in XRPL decimals that its decimals on Cosmos can express
Exact(d, amount) ==
  amount \in Nat /\ (d <= XRPL_TOKENS_DECIMALS =>
                       \E q \in Nat : amount = q * Unit(XRPL_TOKENS_DECIMALS, d))

\* The amount that reaches the XRPL converts back to what the truncation left.
LEMMA ConversionBack ==
  ASSUME NEW p, NEW d, LegalPrecision(p, d), d <= MAX_COSMOS_TOKEN_DECIMALS,
         NEW amount \in Nat, NEW fee \in Nat,
         CanTruncateAndConvert(p, d, XRPL_TOKENS_DECIMALS, amount, fee)
  PROVE  LET a == amount - fee
             t == truncate_amount(p, d, a)
             sent == truncate_and_convert_amount(p, d, XRPL_TOKENS_DECIMALS, amount, fee)
         IN /\ a \in Nat
            /\ amount <= UINT128_MAX => CanConvert(XRPL_TOKENS_DECIMALS, d, sent.sent)
            /\ convert_amount_decimals(XRPL_TOKENS_DECIMALS, d, sent.sent) = t.sent
            /\ sent.remainder = t.remainder
            /\ Exact(d, sent.sent)
<1> DEFINE x == XRPL_TOKENS_DECIMALS
           a == amount - fee
           t == truncate_amount(p, d, a)
           unit == Unit(x, d)
           sent == truncate_and_convert_amount(p, d, x, amount, fee)
           back == convert_amount_decimals(x, d, sent.sent)
           Goal == /\ a \in Nat /\ (amount <= UINT128_MAX => CanConvert(x, d, sent.sent))
                   /\ back = t.sent /\ sent.remainder = t.remainder /\ Exact(d, sent.sent)
<1>1. UINT128_MAX \in Nat /\ d \in Nat /\ x \in Nat
  BY LimitsAssumption DEF LegalPrecision
<1>2. fee <= amount /\ CanConvert(d, x, t.sent)
  BY DEF CanTruncateAndConvert, CanCoverFees
<1>3. a \in Nat
  BY <1>2
<1>4. /\ t.sent \in 0 .. a /\ t.remainder \in Nat /\ t.sent + t.remainder = a
      /\ \E q \in Nat : t.sent = q * Unit(p, d)
  BY <1>3, Truncated
<1>5. /\ unit = Unit(d, x) /\ unit \in Nat \ {0}
      /\ x <= d => \E n \in Nat : Unit(p, d) = n * unit
      /\ x = d => unit = 1
  BY LegalConversion
<1>6. sent.sent = convert_amount_decimals(d, x, t.sent) /\ sent.remainder = t.remainder
  BY DEF truncate_and_convert_amount
<1>7. unit \in Uint128
  BY <1>2, <1>5 DEF CanConvert
<1>8. Exact(d, sent.sent) <=> sent.sent \in Nat /\ (d <= x => \E q \in Nat : sent.sent = q * unit)
  BY DEF Exact
<1> HIDE DEF x, t, unit, sent
<1>9. ASSUME d < x PROVE Goal
  <2>1. sent.sent = t.sent * unit
    BY <1>5, <1>6, <1>9 DEF convert_amount_decimals
  <2>2. back = (t.sent * unit) \div unit
    BY <1>1, <1>9, <2>1 DEF convert_amount_decimals, unit
  <2>3. back = t.sent
    <3>1. t.sent \in Nat
      BY <1>3, <1>4
    <3>. QED BY <1>5, <2>2, <3>1, ExactDivision
  <2>4. CanConvert(x, d, sent.sent)
    BY <1>1, <1>7, <1>9 DEF CanConvert, unit
  <2>5. Exact(d, sent.sent)
    BY <1>4, <1>5, <1>8, <2>1
  <2> HIDE DEF back
  <2>. QED BY <1>3, <1>6, <2>3, <2>4, <2>5
<1>10. ASSUME x <= d PROVE Goal
  <2>1. PICK n \in Nat : Unit(p, d) = n * unit
    BY <1>5, <1>10
  <2>2. PICK q \in Nat : t.sent = q * Unit(p, d)
    BY <1>4
  <2>3. q * n \in Nat /\ t.sent = (q * n) * unit
    BY <1>5, <2>1, <2>2
  <2>4. sent.sent = t.sent \div unit
    BY <1>1, <1>5, <1>6, <1>10 DEF convert_amount_decimals
  <2>5. sent.sent = q * n
    BY <1>5, <2>3, <2>4, ExactDivision
  <2>6. ASSUME x < d PROVE back = sent.sent * unit
    BY <2>6 DEF convert_amount_decimals, unit
  <2>7. ASSUME x = d PROVE back = sent.sent \div 1 /\ unit = 1
    BY <1>1, <1>5, <2>7 DEF convert_amount_decimals, unit
  <2>8. back = t.sent
    <3>1. CASE x < d
      BY <2>3, <2>5, <2>6, <3>1
    <3>2. CASE x = d
      <4>1. sent.sent \in Nat /\ back = sent.sent \div 1 /\ unit = 1
        BY <2>3, <2>5, <2>7, <3>2
      <4>2. back = sent.sent
        BY <4>1
      <4>. QED BY <2>3, <2>5, <4>1, <4>2
    <3>. QED BY <1>1, <1>10, <3>1, <3>2
  <2>9. ASSUME amount <= UINT128_MAX PROVE CanConvert(x, d, sent.sent)
    <3>1. x < d => sent.sent * unit \in Uint128
      BY <1>1, <1>2, <1>4, <2>3, <2>5, <2>9 DEF Uint128
    <3>. QED BY <1>7, <3>1 DEF CanConvert, unit
  <2>10. Exact(d, sent.sent)
    <3>1. sent.sent \in Nat
      BY <2>3, <2>5
    <3>2. ASSUME d <= x PROVE sent.sent = sent.sent * unit
      BY <1>1, <1>5, <1>10, <3>1, <3>2
    <3>. QED BY <1>8, <3>1, <3>2
  <2> HIDE DEF back
  <2>. QED BY <1>3, <1>6, <2>8, <2>9, <2>10
<1>11. Goal
  BY <1>1, <1>9, <1>10
<1>. QED BY <1>11 DEF x, t, sent

\* Conversion of two amounts, one by one or together.
LEMMA ConvertSum ==
  ASSUME NEW p, NEW d, LegalPrecision(p, d), d <= MAX_COSMOS_TOKEN_DECIMALS,
         NEW a \in Nat, NEW b \in Nat
  PROVE  LET Convert(n) == convert_amount_decimals(XRPL_TOKENS_DECIMALS, d, n)
         IN /\ Convert(a) \in Nat
            /\ Convert(a) + Convert(b) <= Convert(a + b)
            /\ Exact(d, b) => Convert(a + b) = Convert(a) + Convert(b)
<1> DEFINE x == XRPL_TOKENS_DECIMALS
           unit == Unit(x, d)
           Convert(n) == convert_amount_decimals(x, d, n)
<1>1. unit \in Nat \ {0} /\ x \in Nat /\ d \in Nat
  BY LegalConversion, LimitsAssumption DEF LegalPrecision
<1>2. ASSUME x < d
      PROVE  /\ Convert(a) = a * unit /\ Convert(b) = b * unit
             /\ Convert(a + b) = (a + b) * unit
  BY <1>2 DEF convert_amount_decimals
<1>3. ASSUME d <= x
      PROVE  /\ Convert(a) = a \div unit /\ Convert(b) = b \div unit
             /\ Convert(a + b) = (a + b) \div unit
  BY <1>1, <1>3 DEF convert_amount_decimals
<1>4. Exact(d, b) /\ d <= x => \E q \in Nat : b = q * unit
  BY DEF Exact
<1> HIDE DEF unit, x, Convert
<1>5. CASE x < d
  <2>1. (a + b) * unit = a * unit + b * unit /\ a * unit \in Nat /\ b * unit \in Nat
    BY <1>1
  <2>. QED BY <1>2, <1>5, <2>1 DEF Convert, x
<1>6. CASE d <= x
  <2> DEFINE q == a \div unit
             r == b \div unit
             s == (a + b) \div unit
  <2>1. q \in Nat /\ r \in Nat /\ q + r <= s /\ s \in Nat
    BY <1>1, QuotientSum
  <2>2. ASSUME NEW m \in Nat, b = m * unit PROVE s = q + r
    <3>1. b % unit = 0
      BY <1>1, <2>2, ExactDivision
    <3>. QED BY <1>1, <3>1, QuotientSum, ZenonT(40)
  <2>7. Exact(d, b) => s = q + r
    BY <1>4, <1>6, <2>2
  <2> HIDE DEF q, r, s
  <2>8. Convert(a) = q /\ Convert(b) = r /\ Convert(a + b) = s
    BY <1>3, <1>6 DEF q, r, s
  <2>. QED BY <2>1, <2>7, <2>8 DEF Convert, x
<1>. QED BY <1>1, <1>5, <1>6

\* Shares and remainder of a fee are the fee.
LEMMA FeeSplit ==
  ASSUME NEW total \in Nat, NEW n \in Nat \ {0}
  PROVE  /\ amount_for_each_relayer(total, n) \in Nat
         /\ fee_remainder(total, n) \in 0 .. n - 1
         /\ amount_for_each_relayer(total, n) * n + fee_remainder(total, n) = total
<1> DEFINE share == total \div n
<1>1. share \in Nat /\ total = share * n + (total % n) /\ total % n \in 0 .. n - 1
  BY Division
<1>2. amount_for_each_relayer(total, n) = share /\ fee_remainder(total, n) = total - share * n
  BY DEF amount_for_each_relayer, fee_remainder
<1> HIDE DEF share
<1>3. share * n \in Nat
  BY <1>1
<1>. QED BY <1>1, <1>2, <1>3

=============================================================================
