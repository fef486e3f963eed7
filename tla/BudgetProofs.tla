---------------------------- MODULE BudgetProofs ----------------------------
(***************************************************************************)
(* For any number of owners, calls, processes, crashes and policies: what  *)
(* an owner and a tenant owe never exceeds their limits, and the provider  *)
(* sees no more calls, requests or tokens than its policy allows.          *)
(*                                                                         *)
(* reserve checks every limit with the new call in it.  No other step owes *)
(* more: rows move on, settle replaces a worst case by what was reported,  *)
(* periods begin and policies widen.  The sums of tokens and expenses over *)
(* a set of rows then grow with that set and with what its rows count for. *)
(***************************************************************************)
EXTENDS GovernedProofs, WellFoundedInduction

\* A proof leaf is sent to Zenon unless it names another prover.
USE ZenonT(60)

(* Sums of finitely many numbers, for the tokens and the expenses of a set of rows. *)

\* A set of naturals that is not empty has a least one.
LEMMA LeastNatural ==
    ASSUME NEW T \in SUBSET Nat, T # {}
    PROVE  \E m \in T : \A n \in T : m <= n
<1> DEFINE R == OpToRel(<, Nat)
<1>1. IsWellFoundedOn(R, Nat)
  BY NatLessThanWellFounded
<1>2. \A x, y \in Nat : <<x, y>> \in R <=> x < y
  BY DEF OpToRel
<1> HIDE DEF R
<1>3. \E x \in T : \A y \in T : <<y, x>> \notin R
  BY <1>1, WFMin
<1>4. \E x \in T : \A y \in T : ~(y < x)
  BY <1>2, <1>3
<1> QED  BY SMT, <1>4

\* A set of naturals that has 0 and the successor of each of its members has them all.
LEMMA Induction ==
    ASSUME NEW T \in SUBSET Nat, 0 \in T, \A n \in T : n + 1 \in T
    PROVE  T = Nat
<1> SUFFICES ASSUME Nat \ T # {} PROVE FALSE
  OBVIOUS
<1>1. PICK m \in Nat \ T : \A n \in Nat \ T : m <= n
  BY LeastNatural
<1>2. m # 0 /\ m \in Nat
  BY <1>1
<1>3. m - 1 \in Nat /\ m = (m - 1) + 1 /\ ~(m <= m - 1)
  BY SMTT(60), <1>2
<1>4. m - 1 \in T
  BY <1>1, <1>3
<1>5. m \in T
  BY <1>3, <1>4
<1> QED  BY <1>1, <1>5

\* Among sets of finite sets there is a smallest one.
LEMMA Smallest ==
    ASSUME NEW C, C # {}, \A S \in C : IsFiniteSet(S)
    PROVE  \E S \in C : \A T \in C : Cardinality(S) <= Cardinality(T)
<1> DEFINE N == {Cardinality(S) : S \in C}
<1>1. N \in SUBSET Nat /\ N # {}
  BY FS_CardinalityType
<1>2. PICK m \in N : \A n \in N : m <= n
  BY <1>1, LeastNatural
<1> QED  BY <1>2

Chosen(S) == CHOOSE x \in S : TRUE
IsSum(g, f, S) ==
    \A T \in SUBSET S : g[T] = IF T = {} THEN 0 ELSE f[Chosen(T)] + g[T \ {Chosen(T)}]

\* The recursion of a sum over the subsets of a finite set has a solution ...
LEMMA SumExists ==
    ASSUME NEW S, IsFiniteSet(S), NEW f, \A x \in S : f[x] \in Nat
    PROVE  \E g \in [SUBSET S -> Nat] : g = [T \in SUBSET S |-> g[T]] /\ IsSum(g, f, S)
<1> DEFINE Grown(g) == [T \in SUBSET S |-> IF T = {} THEN 0 ELSE f[Chosen(T)] + g[T \ {Chosen(T)}]]
           Upto(g, n) == \A T \in SUBSET S : Cardinality(T) <= n => g[T] = Grown(g)[T]
           N == {n \in Nat : \E g \in [SUBSET S -> Nat] : Upto(g, n)}
<1>0. \A T \in SUBSET S : IsFiniteSet(T) /\ Cardinality(T) \in Nat
  BY FS_Subset, FS_CardinalityType
<1>1. \A T \in SUBSET S : T # {} => Chosen(T) \in T /\ Chosen(T) \in S /\ T \ {Chosen(T)} \in SUBSET S
  BY DEF Chosen
<1>2. \A g \in [SUBSET S -> Nat] : Grown(g) \in [SUBSET S -> Nat]
  BY SMTT(60), <1>1
<1>3. 0 \in N
  <2> DEFINE g == [T \in SUBSET S |-> 0]
  <2>1. g \in [SUBSET S -> Nat]
    BY SMTT(60)
  <2>2. ASSUME NEW T \in SUBSET S, Cardinality(T) <= 0 PROVE g[T] = Grown(g)[T]
    <3>1. Cardinality(T) = 0
      BY SMTT(60), <1>0, <2>2
    <3>2. T = {}
      BY <1>0, <3>1, FS_EmptySet
    <3> QED  BY SMTT(60), <3>2
  <2> HIDE DEF g
  <2>3. 0 \in Nat
    BY SMTT(60)
  <2> QED  BY <2>1, <2>2, <2>3
<1>4. ASSUME NEW n \in N PROVE n + 1 \in N
  <2>1. PICK g \in [SUBSET S -> Nat] : Upto(g, n)
    OBVIOUS
  <2> DEFINE h == Grown(g)
  <2>2. h \in [SUBSET S -> Nat]
    BY <1>2
  <2>3. ASSUME NEW T \in SUBSET S, Cardinality(T) <= n + 1 PROVE h[T] = Grown(h)[T]
    <3>1. CASE T = {}
      BY SMTT(60), <3>1
    <3>2. CASE T # {}
      <4> DEFINE U == T \ {Chosen(T)}
      <4>1. U \in SUBSET S /\ Cardinality(U) <= n
        <5>1. Cardinality(U) = Cardinality(T) - 1
          BY <1>0, <1>1, <3>2, FS_RemoveElement
        <5> QED  BY SMTT(60), <5>1, <1>0, <2>3, <1>1, <3>2
      <4>2. g[U] = h[U]
        BY <4>1, <2>1
      <4>3. h[T] = f[Chosen(T)] + g[U]
        BY <3>2
      <4>4. Grown(h)[T] = f[Chosen(T)] + h[U]
        BY <3>2
      <4> QED  BY <4>2, <4>3, <4>4
    <3> QED  BY <3>1, <3>2
  <2>4. n + 1 \in Nat
    BY SMTT(60)
  <2> HIDE DEF h
  <2> QED  BY <2>2, <2>3, <2>4
<1>5. N = Nat
  <2> HIDE DEF N
  <2>1. N \in SUBSET Nat
    BY DEF N
  <2> QED  BY <1>3, <1>4, <2>1, Induction
<1>6. PICK g \in [SUBSET S -> Nat] : Upto(g, Cardinality(S))
  BY <1>5, FS_CardinalityType
<1>7. \A T \in SUBSET S : g[T] = Grown(g)[T]
  BY <1>6, FS_Subset
<1> QED  BY <1>7, <1>6 DEF IsSum


\* ... and one only, also between the sums over two sets (tokens of two sets of rows).
LEMMA SumUnique ==
    ASSUME NEW S, IsFiniteSet(S), NEW f, NEW g, NEW R, IsSum(g, f, S),
           NEW h, IsSum(h, f, R), NEW T \in SUBSET (S \cap R)
    PROVE  g[T] = h[T]
<1> DEFINE C == {U \in SUBSET (S \cap R) : g[U] # h[U]}
<1> SUFFICES ASSUME C # {} PROVE FALSE
  OBVIOUS
<1>1. \A U \in C : IsFiniteSet(U)
  BY FS_Subset
<1>2. PICK U \in C : \A V \in C : Cardinality(U) <= Cardinality(V)
  BY <1>1, Smallest
<1>3. U \in SUBSET S /\ U \in SUBSET R /\ IsFiniteSet(U) /\ g[U] # h[U]
  BY <1>1, <1>2
<1>4. U # {}
  BY <1>3 DEF IsSum
<1> DEFINE V == U \ {Chosen(U)}
<1>5. Chosen(U) \in U /\ V \in SUBSET (S \cap R)
  BY <1>3, <1>4 DEF Chosen
<1>6. Cardinality(V) = Cardinality(U) - 1 /\ Cardinality(U) \in Nat
  BY <1>3, <1>5, FS_RemoveElement, FS_CardinalityType
<1>7. ~(Cardinality(U) <= Cardinality(V))
  BY SMTT(60), <1>6
<1>8. g[V] = h[V]
  BY <1>2, <1>5, <1>7
<1>9. g[U] = f[Chosen(U)] + g[V] /\ h[U] = f[Chosen(U)] + h[V]
  BY <1>3, <1>4 DEF IsSum
<1> QED  BY <1>3, <1>8, <1>9


\* The sum of the ledger is that solution (the sums of reserve and acquire).
LEMMA SumIsSum ==
    ASSUME NEW S, IsFiniteSet(S), NEW f, \A x \in S : f[x] \in Nat
    PROVE  \E g \in [SUBSET S -> Nat] : IsSum(g, f, S) /\ SumFunctionOnSet(f, S) = g[S]
<1> DEFINE Grown(g) == [T \in SUBSET S |-> IF T = {} THEN 0 ELSE f[Chosen(T)] + g[T \ {Chosen(T)}]]
           it == CHOOSE g : g = Grown(g)
<1>1. SumFunctionOnSet(f, S) = it[S]
  BY DEF SumFunctionOnSet, FoldFunctionOnSet, MapThenFoldSet, Chosen
<1>2. PICK g \in [SUBSET S -> Nat] : g = [T \in SUBSET S |-> g[T]] /\ IsSum(g, f, S)
  BY SumExists
<1>3. g = Grown(g)
  <2>1. \A T \in SUBSET S : g[T] = Grown(g)[T]
    BY <1>2 DEF IsSum
  <2> QED  BY <1>2, <2>1
<1>4. it = Grown(it)
  BY <1>3
<1> HIDE DEF it
<1>5. IsSum(it, f, S)
  <2> SUFFICES ASSUME NEW T \in SUBSET S
               PROVE  it[T] = IF T = {} THEN 0 ELSE f[Chosen(T)] + it[T \ {Chosen(T)}]
    BY DEF IsSum
  <2>1. it[T] = Grown(it)[T]
    BY <1>4
  <2> QED  BY <2>1
<1>6. it[S] = g[S]
  <2>1. S \in SUBSET (S \cap S)
    OBVIOUS
  <2> HIDE DEF Grown
  <2> QED  BY SMTT(60), <1>2, <1>5, <2>1, SumUnique
<1> QED  BY <1>1, <1>2, <1>6

\* A sum is a natural number, and nothing adds up to 0.
LEMMA SumType ==
    ASSUME NEW S, IsFiniteSet(S), NEW f, \A x \in S : f[x] \in Nat
    PROVE  SumFunctionOnSet(f, S) \in Nat
<1>1. PICK g \in [SUBSET S -> Nat] : IsSum(g, f, S) /\ SumFunctionOnSet(f, S) = g[S]
  BY SumIsSum
<1> QED  BY <1>1

\* No rows, no tokens.
LEMMA SumEmpty == ASSUME NEW f PROVE SumFunctionOnSet(f, {}) = 0
<1>1. IsFiniteSet({}) /\ \A x \in {} : f[x] \in Nat
  BY FS_EmptySet
<1>2. PICK g \in [SUBSET {} -> Nat] : IsSum(g, f, {}) /\ SumFunctionOnSet(f, {}) = g[{}]
  BY <1>1, SumIsSum
<1> QED  BY <1>2 DEF IsSum

\* The chosen member comes first.
LEMMA SumChosen ==
    ASSUME NEW S, IsFiniteSet(S), NEW f, \A x \in S : f[x] \in Nat, S # {}
    PROVE  Chosen(S) \in S /\ SumFunctionOnSet(f, S) = f[Chosen(S)] + SumFunctionOnSet(f, S \ {Chosen(S)})
<1> DEFINE R == S \ {Chosen(S)}
<1>1. Chosen(S) \in S /\ IsFiniteSet(R) /\ \A x \in R : f[x] \in Nat
  BY FS_RemoveElement DEF Chosen
<1>2. PICK g \in [SUBSET S -> Nat] : IsSum(g, f, S) /\ SumFunctionOnSet(f, S) = g[S]
  BY SumIsSum
<1>3. PICK h \in [SUBSET R -> Nat] : IsSum(h, f, R) /\ SumFunctionOnSet(f, R) = h[R]
  BY <1>1, SumIsSum
<1>4. g[S] = f[Chosen(S)] + g[R]
  BY <1>2 DEF IsSum
<1>5. R \in SUBSET (S \cap R)
  OBVIOUS
<1> HIDE DEF R
<1>6. g[R] = h[R]
  BY SMTT(60), <1>2, <1>3, <1>5, SumUnique
<1> QED  BY <1>1, <1>2, <1>3, <1>4, <1>6 DEF R

\* Any member may come first.
LEMMA SumSplit ==
    ASSUME NEW S, IsFiniteSet(S), NEW f, \A x \in S : f[x] \in Nat, NEW a \in S
    PROVE  SumFunctionOnSet(f, S) = f[a] + SumFunctionOnSet(f, S \ {a})
<1> DEFINE Splits(U, x) == SumFunctionOnSet(f, U) = f[x] + SumFunctionOnSet(f, U \ {x})
           C == {U \in SUBSET S : \E x \in U : ~Splits(U, x)}
<1> SUFFICES ASSUME C # {} PROVE FALSE
  OBVIOUS
<1>1. \A U \in SUBSET S : IsFiniteSet(U) /\ Cardinality(U) \in Nat
  BY FS_Subset, FS_CardinalityType
<1>2. PICK U \in C : \A V \in C : Cardinality(U) <= Cardinality(V)
  BY <1>1, Smallest
<1>3. PICK x \in U : ~Splits(U, x)
  BY <1>2
<1> DEFINE c == Chosen(U)
<1>4. U \in SUBSET S /\ U # {} /\ IsFiniteSet(U) /\ \A y \in U : f[y] \in Nat
  BY <1>1, <1>2, <1>3
<1>5. c \in U /\ SumFunctionOnSet(f, U) = f[c] + SumFunctionOnSet(f, U \ {c})
  BY <1>4, SumChosen
<1>6. x # c
  BY <1>3, <1>5
<1>7. ASSUME NEW y \in U PROVE U \ {y} \in SUBSET S /\ U \ {y} \notin C
  <2>1. U \ {y} \in SUBSET S /\ Cardinality(U \ {y}) = Cardinality(U) - 1
    BY <1>4, FS_RemoveElement
  <2>2. ~(Cardinality(U) <= Cardinality(U \ {y}))
    BY SMTT(60), <2>1, <1>1, <1>4
  <2> QED  BY <1>2, <2>1, <2>2
<1>8. Splits(U \ {c}, x)
  BY <1>5, <1>6, <1>7
<1>9. Splits(U \ {x}, c)
  BY <1>5, <1>6, <1>7
<1> DEFINE s == SumFunctionOnSet(f, (U \ {c}) \ {x})
<1>10. (U \ {c}) \ {x} = (U \ {x}) \ {c}
  OBVIOUS
<1>11. SumFunctionOnSet(f, U) = f[c] + (f[x] + s)
  BY <1>5, <1>8
<1>12. f[x] + SumFunctionOnSet(f, U \ {x}) = f[x] + (f[c] + s)
  BY <1>9, <1>10
<1>13. f[c] \in Nat /\ f[x] \in Nat /\ s \in Nat
  <2>1. IsFiniteSet((U \ {c}) \ {x}) /\ \A y \in (U \ {c}) \ {x} : f[y] \in Nat
    BY <1>4, FS_RemoveElement
  <2> QED  BY <1>4, <1>5, <2>1, SumType
<1> HIDE DEF s, c
<1>14. f[c] + (f[x] + s) = f[x] + (f[c] + s)
  BY SMTT(60), <1>13
<1> QED  BY <1>3, <1>11, <1>12, <1>14

\* A smaller sum: over fewer members, of values none of which is larger.
LEMMA SumMonotone ==
    ASSUME NEW S, IsFiniteSet(S), NEW R \in SUBSET S, NEW f, NEW g,
           \A x \in S : g[x] \in Nat, \A x \in R : f[x] \in Nat /\ f[x] <= g[x]
    PROVE  SumFunctionOnSet(f, R) <= SumFunctionOnSet(g, S)
<1> DEFINE Less(U) == SumFunctionOnSet(f, U \cap R) <= SumFunctionOnSet(g, U)
           C == {U \in SUBSET S : ~Less(U)}
<1> SUFFICES ASSUME C # {} PROVE FALSE
  <2>1. S \in SUBSET S /\ S \cap R = R
    OBVIOUS
  <2>2. S \notin C => Less(S)
    BY <2>1
  <2> QED  BY <2>1, <2>2
<1>1. \A U \in SUBSET S : IsFiniteSet(U) /\ Cardinality(U) \in Nat
  BY FS_Subset, FS_CardinalityType
<1>2. PICK U \in C : \A V \in C : Cardinality(U) <= Cardinality(V)
  BY <1>1, Smallest
<1>3. U \in SUBSET S /\ IsFiniteSet(U) /\ ~Less(U) /\ \A y \in U : g[y] \in Nat
  BY <1>1, <1>2
<1>4. U # {}
  <2>1. ASSUME U = {} PROVE Less(U)
    <3>1. SumFunctionOnSet(f, U \cap R) = 0 /\ SumFunctionOnSet(g, U) = 0
      BY <2>1, SumEmpty
    <3> QED  BY SMTT(60), <3>1
  <2> QED  BY <1>3, <2>1
<1>5. PICK a : a \in U
  BY <1>4
<1> DEFINE V == U \ {a}
<1>6. V \in SUBSET S /\ IsFiniteSet(V) /\ \A y \in V : g[y] \in Nat
  BY <1>3, <1>1
<1>7. Less(V)
  <2>1. Cardinality(V) = Cardinality(U) - 1
    BY <1>3, <1>5, FS_RemoveElement
  <2>2. ~(Cardinality(U) <= Cardinality(V))
    BY SMTT(60), <2>1, <1>1, <1>3
  <2> QED  BY <1>2, <1>6, <2>2
<1>8. SumFunctionOnSet(g, U) = g[a] + SumFunctionOnSet(g, V) /\ g[a] \in Nat /\ SumFunctionOnSet(g, V) \in Nat
  BY <1>3, <1>5, <1>6, SumSplit, SumType
<1>9. IsFiniteSet(U \cap R) /\ \A x \in U \cap R : f[x] \in Nat
  BY <1>3, FS_Subset
<1>10. SumFunctionOnSet(f, V \cap R) \in Nat
  <2>1. IsFiniteSet(V \cap R) /\ \A x \in V \cap R : f[x] \in Nat
    BY <1>6, FS_Subset
  <2> QED  BY <2>1, SumType
<1>11. CASE a \in R
  <2>1. SumFunctionOnSet(f, U \cap R) = f[a] + SumFunctionOnSet(f, (U \cap R) \ {a})
    BY <1>5, <1>9, <1>11, SumSplit
  <2>2. (U \cap R) \ {a} = V \cap R
    OBVIOUS
  <2>3. f[a] \in Nat /\ f[a] <= g[a]
    BY <1>11
  <2> HIDE DEF V
  <2> QED  BY SMTT(60), <1>3, <1>7, <1>8, <1>10, <2>1, <2>2, <2>3
<1>12. CASE a \notin R
  <2>1. U \cap R = V \cap R
    BY <1>12
  <2> HIDE DEF V
  <2> QED  BY SMTT(60), <1>3, <1>7, <1>8, <1>10, <2>1
<1> QED  BY <1>11, <1>12

-----------------------------------------------------------------------------
(* The budgets of owners and tenants. *)

\* One more member adds its value at most.
LEMMA SumOneMore ==
  ASSUME NEW S, IsFiniteSet(S), NEW c, NEW T \in SUBSET (S \cup {c}), NEW f, NEW g, NEW w \in Nat,
         \A x \in S : g[x] \in Nat, \A x \in T : f[x] \in Nat,
         \A x \in T \ {c} : f[x] <= g[x], c \in T => f[c] <= w
  PROVE  SumFunctionOnSet(f, T) <= SumFunctionOnSet(g, S) + w
<1> DEFINE R == T \ {c}
<1>1. R \in SUBSET S /\ IsFiniteSet(R) /\ \A x \in R : f[x] \in Nat /\ f[x] <= g[x]
  BY FS_Subset
<1>2. SumFunctionOnSet(f, R) <= SumFunctionOnSet(g, S)
  BY <1>1, SumMonotone
<1>3. SumFunctionOnSet(f, R) \in Nat /\ SumFunctionOnSet(g, S) \in Nat
  BY <1>1, SumType
<1>4. CASE c \in T
  <2>1. IsFiniteSet(T)
    <3>1. IsFiniteSet(S \cup {c})
      BY FS_AddElement
    <3> QED
      BY <3>1, FS_Subset
  <2>2. SumFunctionOnSet(f, T) = f[c] + SumFunctionOnSet(f, R)
    BY <1>4, <2>1, SumSplit
  <2>3. f[c] \in Nat /\ f[c] <= w
    BY <1>4
  <2> HIDE DEF R
  <2> QED
    BY SMTT(60), <1>2, <1>3, <2>2, <2>3
<1>5. CASE c \notin T
  <2>1. R = T
    BY <1>5
  <2> HIDE DEF R
  <2> QED
    BY SMTT(60), <1>2, <1>3, <2>1
<1> QED
  BY <1>4, <1>5

\* The start of a period never goes back.
LEMMA PeriodsPass ==
  ASSUME NEW t \in Nat, NEW d \in Nat \ {0}
  PROVE  t - (t % d) \in Int /\ t - (t % d) <= (t + 1) - ((t + 1) % d)
<1>1. PICK a \in Int : a = t \div d
  BY SMTT(60)
<1>2. PICK b \in Int : b = (t + 1) \div d
  BY SMTT(60)
<1>3. PICK r \in Int : r = t % d
  BY SMTT(60)
<1>4. PICK s \in Int : s = (t + 1) % d
  BY SMTT(60)
<1>5. t = d * a + r /\ 0 <= r /\ r < d
  BY SMTT(60), <1>1, <1>3
<1>6. t + 1 = d * b + s /\ 0 <= s /\ s < d
  BY SMTT(60), <1>2, <1>4
<1>7. a <= b
  BY SMTT(60), <1>5, <1>6
<1>8. d * a <= d * b
  BY SMTT(60), <1>7
<1>9. t - r <= (t + 1) - s
  BY SMTT(60), <1>5, <1>6, <1>8
<1> QED
  BY SMTT(60), <1>3, <1>4, <1>9

\* A product grows with its factor (a price and a count).
LEMMA ProductsGrow ==
  ASSUME NEW p \in Nat, NEW a \in Nat, NEW b \in Nat, a <= b
  PROVE  p * a \in Nat /\ p * b \in Nat /\ p * a <= p * b
  BY SMTT(60)

\* Fewer tokens cost no more (the pricing of reserve and settle).
LEMMA CostsGrow ==
  ASSUME NEW u, NEW v, u.input \in Nat, u.output \in Nat, v.input \in Nat, v.output \in Nat,
         u.input <= v.input, u.output <= v.output
  PROVE  /\ u.input + u.output \in Nat /\ u.input + u.output <= v.input + v.output
         /\ v.input + v.output \in Nat
         /\ Cost(u) \in Nat /\ Cost(v) \in Nat /\ Cost(u) <= Cost(v)
<1>1. /\ InputPrice * u.input \in Nat /\ InputPrice * v.input \in Nat
      /\ InputPrice * u.input <= InputPrice * v.input
      /\ OutputPrice * u.output \in Nat /\ OutputPrice * v.output \in Nat
      /\ OutputPrice * u.output <= OutputPrice * v.output
  BY ProductsGrow, LedgerTypes
<1>2. Cost(u) \in Nat /\ Cost(v) \in Nat /\ Cost(u) <= Cost(v)
  BY SMTT(60), <1>1 DEF Cost
<1> QED
  BY SMTT(60), <1>2

\* A row counts for a number of tokens, its worst case included (reserve).
LEMMA CountsType ==
  ASSUME BookInv, NEW c \in Call
  PROVE  /\ Counts(c).input \in Nat /\ Counts(c).output \in Nat
         /\ WorstCase(c).input = InputOf[c] /\ WorstCase(c).output = OutputOf[c]
         /\ InputOf[c] \in Nat /\ OutputOf[c] \in Nat
<1>1. InputOf[c] \in Nat /\ OutputOf[c] \in Nat
  BY SMTT(60), CallTypes
<1>2. WorstCase(c).input = InputOf[c] /\ WorstCase(c).output = OutputOf[c]
  BY SMTT(60) DEF WorstCase
<1>3. CASE row[c].state = "SETTLED"
  <2>1. row[c].actual \in Usage /\ Known(row[c].actual)
    BY SMTT(60), <1>3 DEF BookInv, Counted, RowType
  <2>2. row[c].actual.input \in Nat /\ row[c].actual.output \in Nat
    BY SMTT(60), <2>1 DEF Usage, CountValue, Known
  <2> QED
    BY <1>1, <1>2, <1>3, <2>2 DEF Counts
<1>4. CASE row[c].state # "SETTLED"
  BY <1>1, <1>2, <1>4 DEF Counts
<1> QED
  BY <1>3, <1>4

\* The same for all rows.
LEMMA AllCounts == BookInv => \A d \in Call : Counts(d).input \in Nat /\ Counts(d).output \in Nat
  BY CountsType

\* The part a reservation covers is at most what the row counts for and at most the
\* reservation, and is the reservation until the row is settled.
LEMMA CoveredType ==
  ASSUME BookInv, NEW c \in Call
  PROVE  /\ Covered(c).input \in Nat /\ Covered(c).output \in Nat
         /\ Covered(c).input <= Counts(c).input /\ Covered(c).output <= Counts(c).output
         /\ Covered(c).input <= WorstCase(c).input /\ Covered(c).output <= WorstCase(c).output
         /\ row[c].state # "SETTLED" => Covered(c) = WorstCase(c)
<1>1. /\ Counts(c).input \in Nat /\ Counts(c).output \in Nat
      /\ WorstCase(c).input = InputOf[c] /\ WorstCase(c).output = OutputOf[c]
      /\ InputOf[c] \in Nat /\ OutputOf[c] \in Nat
  BY CountsType
<1>2. \A m, n \in Nat : Smaller(m, n) \in Nat /\ Smaller(m, n) <= m /\ Smaller(m, n) <= n /\ Smaller(n, n) = n
  BY SMTT(60) DEF Smaller
<1>3. /\ Covered(c).input = Smaller(Counts(c).input, InputOf[c])
      /\ Covered(c).output = Smaller(Counts(c).output, OutputOf[c])
  BY DEF Covered
<1>4. ASSUME row[c].state # "SETTLED" PROVE Covered(c) = WorstCase(c)
  <2>1. Counts(c) = WorstCase(c)
    BY <1>4 DEF Counts
  <2>2. Smaller(Counts(c).input, InputOf[c]) = InputOf[c] /\ Smaller(Counts(c).output, OutputOf[c]) = OutputOf[c]
    BY <1>1, <1>2, <2>1
  <2> QED
    BY <2>2 DEF Covered, WorstCase
<1> QED
  BY <1>1, <1>2, <1>3, <1>4

\* The same for all rows.
LEMMA AllCovered ==
  BookInv => \A d \in Call :
                /\ Covered(d).input \in Nat /\ Covered(d).output \in Nat
                /\ Covered(d).input <= Counts(d).input /\ Covered(d).output <= Counts(d).output
                /\ Covered(d).input <= WorstCase(d).input /\ Covered(d).output <= WorstCase(d).output
                /\ row[d].state # "SETTLED" => Covered(d) = WorstCase(d)
  BY CoveredType

\* And after a step.
LEMMA AllCoveredNext ==
  BookInv' => \A d \in Call :
                /\ Covered(d)'.input \in Nat /\ Covered(d)'.output \in Nat
                /\ Covered(d)'.input <= Counts(d)'.input /\ Covered(d)'.output <= Counts(d)'.output
                /\ Covered(d)'.input <= WorstCase(d).input /\ Covered(d)'.output <= WorstCase(d).output
                /\ row'[d].state # "SETTLED" => Covered(d)' = WorstCase(d)
<1>1. (BookInv => \A d \in Call :
                /\ Covered(d).input \in Nat /\ Covered(d).output \in Nat
                /\ Covered(d).input <= Counts(d).input /\ Covered(d).output <= Counts(d).output
                /\ Covered(d).input <= WorstCase(d).input /\ Covered(d).output <= WorstCase(d).output
                /\ row[d].state # "SETTLED" => Covered(d) = WorstCase(d))'
  BY AllCovered, PTL
<1> QED
  BY <1>1 DEF WorstCase

\* Rows A that are counted, and B of them that are counted for no more after the step.
LEMMA FewerTokens ==
  ASSUME BookInv, BookInv', NEW A \in SUBSET Call, IsFiniteSet(A), NEW B \in SUBSET A,
         \A d \in B : Covered(d)'.input <= Covered(d).input /\ Covered(d)'.output <= Covered(d).output
  PROVE  /\ CoveredTokens(A) \in Nat /\ CoveredTokens(B)' \in Nat /\ CoveredTokens(B)' <= CoveredTokens(A)
         /\ CoveredCost(A) \in Nat /\ CoveredCost(B)' \in Nat /\ CoveredCost(B)' <= CoveredCost(A)
<1>1. \A d \in Call : /\ Covered(d).input \in Nat /\ Covered(d).output \in Nat
                      /\ Covered(d)'.input \in Nat /\ Covered(d)'.output \in Nat
  BY AllCovered, AllCoveredNext
<1> DEFINE g == [d \in A |-> Covered(d).input + Covered(d).output]
           h == [d \in A |-> Cost(Covered(d))]
           gb == [d \in B |-> Covered(d)'.input + Covered(d)'.output]
           hb == [d \in B |-> Cost(Covered(d)')]
<1>2. ASSUME NEW d \in A
      PROVE  g[d] \in Nat /\ h[d] \in Nat
  <2>1. Covered(d).input <= Covered(d).input /\ Covered(d).output <= Covered(d).output
    BY SMTT(60), <1>1
  <2>2. Covered(d).input + Covered(d).output \in Nat /\ Cost(Covered(d)) \in Nat
    BY <1>1, <2>1, CostsGrow
  <2> QED
    BY <2>2
<1>3. ASSUME NEW d \in B
      PROVE  gb[d] \in Nat /\ hb[d] \in Nat /\ gb[d] <= g[d] /\ hb[d] <= h[d]
  <2>1. /\ Covered(d)'.input + Covered(d)'.output \in Nat /\ Cost(Covered(d)') \in Nat
        /\ Covered(d)'.input + Covered(d)'.output <= Covered(d).input + Covered(d).output
        /\ Cost(Covered(d)') <= Cost(Covered(d))
    BY <1>1, CostsGrow
  <2> QED
    BY <2>1
<1>4. CoveredTokens(A) = SumFunctionOnSet(g, A) /\ CoveredCost(A) = SumFunctionOnSet(h, A)
  BY DEF CoveredTokens, CoveredCost
<1>5. CoveredTokens(B)' = SumFunctionOnSet(gb, B) /\ CoveredCost(B)' = SumFunctionOnSet(hb, B)
  BY DEF CoveredTokens, CoveredCost, Cost
<1> HIDE DEF g, h, gb, hb
<1>6. IsFiniteSet(B)
  BY FS_Subset
<1>7. /\ SumFunctionOnSet(g, A) \in Nat /\ SumFunctionOnSet(h, A) \in Nat
      /\ SumFunctionOnSet(gb, B) \in Nat /\ SumFunctionOnSet(hb, B) \in Nat
  BY <1>2, <1>3, <1>6, SumType
<1>8. SumFunctionOnSet(gb, B) <= SumFunctionOnSet(g, A) /\ SumFunctionOnSet(hb, B) <= SumFunctionOnSet(h, A)
  BY <1>2, <1>3, SumMonotone
<1> QED
  BY <1>4, <1>5, <1>7, <1>8

\* The same when c joins them with its worst case.
LEMMA OneMoreTokens ==
  ASSUME BookInv, BookInv', NEW A \in SUBSET Call, IsFiniteSet(A), NEW c \in Call, NEW B \in SUBSET (A \cup {c}),
         \A d \in B \ {c} : Covered(d)'.input <= Counts(d).input /\ Covered(d)'.output <= Counts(d).output,
         Covered(c)' = WorstCase(c)
  PROVE  /\ CoveredTokens(B)' <= Tokens(A) + Estimate(c) /\ CoveredCost(B)' <= Expense(A) + Cost(WorstCase(c))
         /\ Tokens(A) \in Nat /\ CoveredTokens(B)' \in Nat /\ Estimate(c) \in Nat
         /\ Expense(A) \in Nat /\ CoveredCost(B)' \in Nat /\ Cost(WorstCase(c)) \in Nat
<1>1. \A d \in Call : /\ Counts(d).input \in Nat /\ Counts(d).output \in Nat
                      /\ Covered(d)'.input \in Nat /\ Covered(d)'.output \in Nat
  BY AllCounts, AllCoveredNext
<1>a. \A u : u.input \in Nat /\ u.output \in Nat => u.input + u.output \in Nat /\ Cost(u) \in Nat
  <2> SUFFICES ASSUME NEW u, u.input \in Nat, u.output \in Nat
               PROVE  u.input + u.output \in Nat /\ Cost(u) \in Nat
    OBVIOUS
  <2>1. u.input <= u.input /\ u.output <= u.output
    BY SMTT(60)
  <2> QED
    BY <2>1, CostsGrow
<1> DEFINE g == [d \in A |-> Counts(d).input + Counts(d).output]
           h == [d \in A |-> Cost(Counts(d))]
           gb == [d \in B |-> Covered(d)'.input + Covered(d)'.output]
           hb == [d \in B |-> Cost(Covered(d)')]
           e == Estimate(c)
           k == Cost(WorstCase(c))
<1>b. /\ WorstCase(c).input = InputOf[c] /\ WorstCase(c).output = OutputOf[c]
      /\ InputOf[c] \in Nat /\ OutputOf[c] \in Nat
  BY CountsType
<1>c. e \in Nat /\ k \in Nat /\ e = WorstCase(c).input + WorstCase(c).output
  BY <1>a, <1>b DEF Estimate
<1>2. \A d \in A : g[d] \in Nat /\ h[d] \in Nat
  BY <1>1, <1>a
<1>3. \A d \in B : gb[d] \in Nat /\ hb[d] \in Nat
  BY <1>1, <1>a
<1>d. \A n \in Nat : n <= n
  BY SMTT(60)
<1>4. \A d \in B \ {c} : gb[d] <= g[d] /\ hb[d] <= h[d]
  <2> SUFFICES ASSUME NEW d \in B, d # c PROVE gb[d] <= g[d] /\ hb[d] <= h[d]
    OBVIOUS
  <2>1. d \in A /\ d \in Call
    OBVIOUS
  <2>2. /\ Covered(d)'.input + Covered(d)'.output <= Counts(d).input + Counts(d).output
        /\ Cost(Covered(d)') <= Cost(Counts(d))
    BY <1>1, <2>1, CostsGrow
  <2> QED
    BY <2>1, <2>2
<1>5. c \in B => gb[c] <= e /\ hb[c] <= k
  BY <1>c, <1>d
<1>6. Tokens(A) = SumFunctionOnSet(g, A) /\ Expense(A) = SumFunctionOnSet(h, A)
  BY DEF Tokens, Expense
<1>7. CoveredTokens(B)' = SumFunctionOnSet(gb, B) /\ CoveredCost(B)' = SumFunctionOnSet(hb, B)
  BY DEF CoveredTokens, CoveredCost, Cost
<1> HIDE DEF g, h, gb, hb, e, k
<1>8. IsFiniteSet(B)
  <2>1. IsFiniteSet(A \cup {c})
    BY FS_AddElement
  <2> QED
    BY <2>1, FS_Subset
<1>9. /\ SumFunctionOnSet(g, A) \in Nat /\ SumFunctionOnSet(h, A) \in Nat
      /\ SumFunctionOnSet(gb, B) \in Nat /\ SumFunctionOnSet(hb, B) \in Nat
  BY <1>2, <1>3, <1>8, SumType
<1>10. SumFunctionOnSet(gb, B) <= SumFunctionOnSet(g, A) + e
  BY <1>2, <1>3, <1>4, <1>5, <1>c, SumOneMore
<1>11. SumFunctionOnSet(hb, B) <= SumFunctionOnSet(h, A) + k
  BY <1>2, <1>3, <1>4, <1>5, <1>c, SumOneMore
<1> QED
  BY <1>6, <1>7, <1>9, <1>10, <1>11, <1>c DEF e, k

Holding == {"RESERVED", "ADMITTING", "STARTED"}
Unpaid == Holding \cup {"UNKNOWN"}

\* What a step other than reserve does to a row r: nothing that owes more of its reservation.
Calmer(r, s) ==
    /\ s.created = r.created
    /\ s.state = "NONE" <=> r.state = "NONE"
    /\ s.state \in Holding => r.state \in Holding
    /\ s.state \in Unpaid => r.state \in Unpaid
    /\ s.state = "SETTLED" => s = r \/ r.state \in Unpaid

\* The clock and the periods go on.
Passing ==
    /\ now \in Nat /\ now' \in Nat /\ now <= now'
    /\ DayStart \in Int /\ DayStart' \in Int /\ DayStart <= DayStart'
    /\ MonthStart \in Int /\ MonthStart' \in Int /\ MonthStart <= MonthStart'

\* The sets of reserve and those of the limits are the same.
LEMMA OwedIsSince ==
  ASSUME BookInv, NEW S \in SUBSET Call
  PROVE  Unsettled(S) = Open(S) /\ \A t : Since(S, t) = Owed(S, t)
<1>1. \A c \in S : row[c].state \in States
  BY SMTT(60) DEF BookInv, RowType
<1>2. \A c \in S : row[c].state \notin {"NONE", "RELEASED", "SETTLED"}
                     <=> row[c].state \in {"RESERVED", "ADMITTING", "STARTED", "UNKNOWN"}
  BY SMTT(60), <1>1 DEF States
<1>3. Unsettled(S) = Open(S)
  BY <1>2 DEF Unsettled, Spent, Rows, Open
<1>4. ASSUME NEW t PROVE Since(S, t) = Owed(S, t)
  <2>1. Since(S, t) = {c \in Spent(S) : row[c].created >= t} \cup Open(S)
    BY <1>3 DEF Since
  <2>2. \A c \in Spent(S) : c \in Open(S) \/ row[c].state = "SETTLED"
    BY <1>3 DEF Unsettled
  <2>3. \A c \in S : row[c].state = "SETTLED" => c \in Spent(S)
    BY DEF Spent, Rows
  <2>4. Spent(S) \subseteq S
    BY DEF Spent, Rows
  <2> QED
    BY <2>1, <2>2, <2>3, <2>4 DEF Owed
<1> QED
  BY <1>3, <1>4

\* Open and settled rows are rows.
LEMMA OwedAreRows ==
  ASSUME NEW S \in SUBSET Call, IsFiniteSet(Rows(S))
  PROVE  /\ Open(S) \in SUBSET Call /\ IsFiniteSet(Open(S))
         /\ \A t : Owed(S, t) \in SUBSET Call /\ IsFiniteSet(Owed(S, t))
<1>1. Open(S) \subseteq Rows(S)
  BY DEF Open, Rows
<1>2. \A t : Owed(S, t) \subseteq Rows(S)
  BY <1>1 DEF Owed, Rows
<1>3. Rows(S) \subseteq Call
  BY DEF Rows
<1> QED
  BY <1>1, <1>2, <1>3, FS_Subset

\* Less is owed, and each row of it is counted for less.
LEMMA CalmIsOwed ==
  ASSUME BookInv, BookInv', NEW S \in SUBSET Call, \A c \in S : Calmer(row[c], row'[c]),
         NEW t \in Int, NEW u \in Int, t <= u
  PROVE  /\ Open(S)' \subseteq Open(S) /\ Owed(S, u)' \subseteq Owed(S, t)
         /\ \A d \in Owed(S, u)' :
               Covered(d)'.input <= Covered(d).input /\ Covered(d)'.output <= Covered(d).output
         /\ \A d \in Open(S)' :
               Covered(d)'.input <= Covered(d).input /\ Covered(d)'.output <= Covered(d).output
<1>0. \A c \in S : row[c].created \in Nat
  BY SMTT(60) DEF BookInv, RowType
<1>1. \A c \in S : (c \in Open(S)' <=> row'[c].state \in Unpaid) /\ (c \in Open(S) <=> row[c].state \in Unpaid)
  BY DEF Open, Unpaid, Holding
<1>2. Open(S)' \subseteq Open(S)
  <2>1. \A c \in S : row'[c].state \in Unpaid => row[c].state \in Unpaid
    BY DEF Calmer
  <2>2. \A c \in Open(S)' : c \in S
    BY DEF Open
  <2> QED
    BY <1>1, <2>1, <2>2
<1>3. Owed(S, u)' \subseteq Owed(S, t)
  <2> SUFFICES ASSUME NEW c \in S, c \in Owed(S, u)'
               PROVE  c \in Owed(S, t)
    BY DEF Owed, Open
  <2>1. CASE c \in Open(S)'
    BY <1>2, <2>1 DEF Owed
  <2>2. CASE row'[c].state = "SETTLED" /\ row'[c].created >= u
    <3>1. row'[c] = row[c] \/ row[c].state \in Unpaid
      BY <2>2 DEF Calmer
    <3>2. CASE row'[c] = row[c]
      <4>1. row[c].created >= t
        BY SMTT(60), <1>0, <2>2, <3>2
      <4> QED
        BY <2>2, <3>2, <4>1 DEF Owed
    <3>3. CASE row[c].state \in Unpaid
      BY <1>1, <3>3 DEF Owed
    <3> QED
      BY <3>1, <3>2, <3>3
  <2> QED
    BY <2>1, <2>2 DEF Owed
<1>4. ASSUME NEW d \in S, row'[d].state \in Unpaid \/ row'[d].state = "SETTLED"
      PROVE  Covered(d)'.input <= Covered(d).input /\ Covered(d)'.output <= Covered(d).output
  <2>1. /\ Covered(d).input \in Nat /\ Covered(d).output \in Nat
        /\ Covered(d)'.input <= WorstCase(d).input /\ Covered(d)'.output <= WorstCase(d).output
        /\ row[d].state # "SETTLED" => Covered(d) = WorstCase(d)
    BY AllCovered, AllCoveredNext
  <2>2. \A n \in Nat : n <= n
    BY SMTT(60)
  <2>3. CASE row'[d].state \in Unpaid
    <3>1. row[d].state \in Unpaid /\ "SETTLED" \notin Unpaid
      BY <2>3 DEF Calmer, Unpaid, Holding
    <3> QED
      BY <2>1, <3>1
  <2>4. CASE row'[d].state = "SETTLED" /\ row'[d] = row[d]
    <3>1. Covered(d)' = Covered(d)
      BY <2>4 DEF Covered, Counts, WorstCase
    <3> QED
      BY <2>1, <2>2, <3>1
  <2>5. CASE row'[d].state = "SETTLED" /\ row[d].state \in Unpaid
    <3>1. row[d].state # "SETTLED"
      BY <2>5 DEF Unpaid, Holding
    <3> QED
      BY <2>1, <3>1
  <2> QED
    BY <1>4, <2>3, <2>4, <2>5 DEF Calmer
<1>5. \A d \in Open(S)' : d \in S /\ row'[d].state \in Unpaid
  BY DEF Open, Unpaid, Holding
<1>6. \A d \in Owed(S, u)' : d \in S /\ (row'[d].state \in Unpaid \/ row'[d].state = "SETTLED")
  BY <1>5 DEF Owed
<1> QED
  BY <1>2, <1>3, <1>4, <1>5, <1>6

\* Without a new reservation the calls S stay within limits that do not shrink.
LEMMA CalmIsWithin ==
  ASSUME BookInv, BookInv', NEW S \in SUBSET Call, IsFiniteSet(Rows(S)),
         \A c \in S : Calmer(row[c], row'[c]), Passing,
         NEW l \in Limits, NEW m \in Limits, Wider(l, m), Within(l, S)
  PROVE  Within(m, S)'
<1>0. /\ l.requests_per_window \in Nat /\ l.window \in Nat /\ l.reserved_tokens \in Nat
      /\ l.daily_tokens \in Nat /\ l.monthly_tokens \in Nat /\ l.monthly_cost \in Nat
      /\ m.requests_per_window \in Nat /\ m.window \in Nat /\ m.reserved_tokens \in Nat
      /\ m.daily_tokens \in Nat /\ m.monthly_tokens \in Nat /\ m.monthly_cost \in Nat
  BY SMTT(60) DEF Limits
<1>1. /\ l.requests_per_window <= m.requests_per_window /\ m.window <= l.window
      /\ l.reserved_tokens <= m.reserved_tokens /\ l.daily_tokens <= m.daily_tokens
      /\ l.monthly_tokens <= m.monthly_tokens /\ l.monthly_cost <= m.monthly_cost
  BY DEF Wider
<1> DEFINE A == {c \in Rows(S) : row[c].created > now - l.window}
           B == {c \in Rows(S)' : row'[c].created > now' - m.window}
<1>2. Cardinality(B) <= m.requests_per_window
  <2>1. \A c \in S : row[c].created \in Nat /\ row'[c].created = row[c].created
    <3>1. \A c \in S : row'[c].created = row[c].created
      BY DEF Calmer
    <3> QED
      BY SMTT(60), <3>1 DEF BookInv, RowType
  <2>2. \A n \in Nat : n > now' - m.window => n > now - l.window
    BY SMTT(60), <1>0, <1>1 DEF Passing
  <2>3. Rows(S)' = Rows(S)
    BY DEF Rows, Calmer
  <2>4. B \subseteq A
    BY <2>1, <2>2, <2>3 DEF Rows
  <2>5. IsFiniteSet(A) /\ Cardinality(A) <= l.requests_per_window
    <3>1. A \subseteq Rows(S)
      OBVIOUS
    <3>2. IsFiniteSet(A)
      BY <3>1, FS_Subset
    <3> QED
      BY <3>2 DEF Within
  <2> HIDE DEF A, B
  <2>6. Cardinality(B) <= Cardinality(A) /\ Cardinality(A) \in Nat /\ Cardinality(B) \in Nat
    BY <2>4, <2>5, FS_Subset, FS_CardinalityType
  <2> QED
    BY SMTT(60), <1>0, <1>1, <2>5, <2>6
<1>3. PICK t \in Int : t = DayStart
  BY DEF Passing
<1>4. PICK u \in Int : u = DayStart' /\ t <= u
  BY <1>3 DEF Passing
<1>5. PICK v \in Int : v = MonthStart
  BY DEF Passing
<1>6. PICK w \in Int : w = MonthStart' /\ v <= w
  BY <1>5 DEF Passing
<1>7. PICK O : O = Open(S)'
  OBVIOUS
<1>8. PICK D : D = Owed(S, u)'
  OBVIOUS
<1>9. PICK M : M = Owed(S, w)'
  OBVIOUS
<1>10. /\ O \in SUBSET Open(S) /\ D \in SUBSET Owed(S, t) /\ M \in SUBSET Owed(S, v)
       /\ \A d \in O \cup D \cup M :
             Covered(d)'.input <= Covered(d).input /\ Covered(d)'.output <= Covered(d).output
  <2>1. /\ O \in SUBSET Open(S) /\ D \in SUBSET Owed(S, t)
        /\ \A d \in O \cup D :
              Covered(d)'.input <= Covered(d).input /\ Covered(d)'.output <= Covered(d).output
    BY <1>4, <1>7, <1>8, CalmIsOwed
  <2>2. /\ M \in SUBSET Owed(S, v)
        /\ \A d \in M :
              Covered(d)'.input <= Covered(d).input /\ Covered(d)'.output <= Covered(d).output
    BY <1>6, <1>9, CalmIsOwed
  <2> QED
    BY <2>1, <2>2
<1>11. /\ Open(S) \in SUBSET Call /\ IsFiniteSet(Open(S))
       /\ \A x : Owed(S, x) \in SUBSET Call /\ IsFiniteSet(Owed(S, x))
  BY OwedAreRows
<1>12. CoveredTokens(O)' <= m.reserved_tokens
  <2>1. CoveredTokens(O)' <= CoveredTokens(Open(S)) /\ CoveredTokens(O)' \in Nat /\ CoveredTokens(Open(S)) \in Nat
    BY <1>10, <1>11, FewerTokens
  <2>2. CoveredTokens(Open(S)) <= l.reserved_tokens
    BY DEF Within
  <2> QED
    BY SMTT(60), <1>0, <1>1, <2>1, <2>2
<1>13. CoveredTokens(D)' <= m.daily_tokens
  <2>1. CoveredTokens(D)' <= CoveredTokens(Owed(S, t)) /\ CoveredTokens(D)' \in Nat /\ CoveredTokens(Owed(S, t)) \in Nat
    BY <1>10, <1>11, FewerTokens
  <2>2. CoveredTokens(Owed(S, t)) <= l.daily_tokens
    BY <1>3 DEF Within
  <2> QED
    BY SMTT(60), <1>0, <1>1, <2>1, <2>2
<1>14. CoveredTokens(M)' <= m.monthly_tokens /\ CoveredCost(M)' <= m.monthly_cost
  <2>1. /\ CoveredTokens(M)' <= CoveredTokens(Owed(S, v)) /\ CoveredTokens(M)' \in Nat /\ CoveredTokens(Owed(S, v)) \in Nat
        /\ CoveredCost(M)' <= CoveredCost(Owed(S, v)) /\ CoveredCost(M)' \in Nat /\ CoveredCost(Owed(S, v)) \in Nat
    BY <1>10, <1>11, FewerTokens
  <2>2. CoveredTokens(Owed(S, v)) <= l.monthly_tokens /\ CoveredCost(Owed(S, v)) <= l.monthly_cost
    BY <1>5 DEF Within
  <2> QED
    BY SMTT(60), <1>0, <1>1, <2>1, <2>2
<1>15. /\ CoveredTokens(Open(S))' = CoveredTokens(O)' /\ CoveredTokens(Owed(S, DayStart))' = CoveredTokens(D)'
       /\ CoveredTokens(Owed(S, MonthStart))' = CoveredTokens(M)' /\ CoveredCost(Owed(S, MonthStart))' = CoveredCost(M)'
  BY <1>4, <1>6, <1>7, <1>8, <1>9
<1> QED
  BY <1>2, <1>12, <1>13, <1>14, <1>15 DEF Within

Workload == {"INTERACTIVE", "DOCUMENT_BACKGROUND"}

\* The calls in flight do not grow either.
LEMMA CalmIsCurrent ==
  ASSUME NEW S \in SUBSET Call, IsFiniteSet(Rows(S)), \A c \in S : Calmer(row[c], row'[c]),
         NEW w \in Workload, NEW l \in Limits, NEW m \in Limits, Wider(l, m),
         Cardinality(Current(S, w)) <= Cap(l, w)
  PROVE  Cardinality(Current(S, w)') <= Cap(m, w)
<1>1. Cap(l, w) \in Nat /\ Cap(m, w) \in Nat /\ Cap(l, w) <= Cap(m, w)
  <2>1. l.interactive_concurrent <= m.interactive_concurrent /\ l.background_concurrent <= m.background_concurrent
    BY DEF Wider
  <2>2. /\ l.interactive_concurrent \in Nat /\ l.background_concurrent \in Nat
        /\ m.interactive_concurrent \in Nat /\ m.background_concurrent \in Nat
    BY SMTT(60) DEF Limits
  <2> QED
    BY <2>1, <2>2 DEF Cap
<1>2. Current(S, w)' \subseteq Current(S, w)
  BY DEF Current, Calmer, Holding
<1>3. Current(S, w) \subseteq Rows(S)
  BY DEF Current, Rows
<1>4. /\ Cardinality(Current(S, w)') <= Cardinality(Current(S, w))
      /\ Cardinality(Current(S, w)') \in Nat /\ Cardinality(Current(S, w)) \in Nat
  <2>1. IsFiniteSet(Current(S, w))
    BY <1>3, FS_Subset
  <2> QED
    BY <1>2, <2>1, FS_Subset, FS_CardinalityType
<1> QED
  BY SMTT(60), <1>1, <1>4

\* reserve checks each limit with the new call in it.
LEMMA ReservedIsWithin ==
  ASSUME BookInv, BookInv', NEW S \in SUBSET Call, IsFiniteSet(Rows(S)), NEW c \in S,
         \A d \in S \ {c} : row'[d] = row[d], row'[c] = Reservation("RESERVED", now, NoCounts),
         now' = now, Passing, NEW l \in Limits, ~Exceeds(l, S, c)
  PROVE  /\ Within(l, S)'
         /\ \A w \in Workload : \/ Current(S, w)' \subseteq Current(S, w)
                                \/ Cardinality(Current(S, w)') <= Cap(l, w)
<1>0. /\ l.requests_per_window \in Nat /\ l.window \in Nat /\ l.reserved_tokens \in Nat
      /\ l.daily_tokens \in Nat /\ l.monthly_tokens \in Nat /\ l.monthly_cost \in Nat
      /\ l.interactive_concurrent \in Nat /\ l.background_concurrent \in Nat
  BY SMTT(60) DEF Limits
<1>1. row'[c].state = "RESERVED"
  BY SMTT(60) DEF Reservation
<1>2. Covered(c)' = WorstCase(c) /\ \A d \in S \ {c} : Counts(d)' = Counts(d)
  <2>1. Covered(c)' = WorstCase(c)
    BY <1>1, AllCoveredNext
  <2> QED
    BY <2>1 DEF Counts, WorstCase
<1>3. Unsettled(S) = Open(S) /\ \A t : Since(S, t) = Owed(S, t)
  BY OwedIsSince
<1>4. /\ Open(S) \in SUBSET Call /\ IsFiniteSet(Open(S))
      /\ \A x : Owed(S, x) \in SUBSET Call /\ IsFiniteSet(Owed(S, x))
  BY OwedAreRows
<1>5. PICK t \in Int : t = DayStart /\ t = DayStart'
  BY DEF Passing, DayStart
<1>6. PICK v \in Int : v = MonthStart /\ v = MonthStart'
  BY DEF Passing, MonthStart
<1>7. PICK O : O = Open(S)'
  OBVIOUS
<1>8. PICK D : D = Owed(S, t)'
  OBVIOUS
<1>9. PICK M : M = Owed(S, v)'
  OBVIOUS
<1>10. O \in SUBSET (Open(S) \cup {c})
  BY <1>7 DEF Open
<1>11. D \in SUBSET (Owed(S, t) \cup {c}) /\ M \in SUBSET (Owed(S, v) \cup {c})
  BY <1>8, <1>9 DEF Open, Owed
<1>12. \A d \in (O \cup D \cup M) \ {c} :
          Covered(d)'.input <= Counts(d).input /\ Covered(d)'.output <= Counts(d).output
  <2>1. Open(S) \subseteq S /\ \A x : Owed(S, x) \subseteq S
    BY DEF Open, Owed
  <2> QED
    BY <1>2, <1>10, <1>11, <2>1, AllCoveredNext
<1>13. CoveredTokens(O)' <= l.reserved_tokens
  <2>1. /\ CoveredTokens(O)' <= Tokens(Open(S)) + Estimate(c)
        /\ Tokens(Open(S)) \in Nat /\ CoveredTokens(O)' \in Nat /\ Estimate(c) \in Nat
    BY <1>2, <1>4, <1>10, <1>12, OneMoreTokens
  <2>2. ~(Tokens(Open(S)) + Estimate(c) > l.reserved_tokens)
    BY <1>3 DEF Exceeds
  <2> QED
    BY SMTT(60), <1>0, <2>1, <2>2
<1>14. CoveredTokens(D)' <= l.daily_tokens
  <2>1. /\ CoveredTokens(D)' <= Tokens(Owed(S, t)) + Estimate(c)
        /\ Tokens(Owed(S, t)) \in Nat /\ CoveredTokens(D)' \in Nat /\ Estimate(c) \in Nat
    BY <1>2, <1>4, <1>11, <1>12, OneMoreTokens
  <2>2. ~(Tokens(Owed(S, t)) + Estimate(c) > l.daily_tokens)
    BY <1>3, <1>5 DEF Exceeds
  <2> QED
    BY SMTT(60), <1>0, <2>1, <2>2
<1>15. CoveredTokens(M)' <= l.monthly_tokens /\ CoveredCost(M)' <= l.monthly_cost
  <2>1. /\ CoveredTokens(M)' <= Tokens(Owed(S, v)) + Estimate(c)
        /\ CoveredCost(M)' <= Expense(Owed(S, v)) + Cost(WorstCase(c))
        /\ Tokens(Owed(S, v)) \in Nat /\ CoveredTokens(M)' \in Nat /\ Estimate(c) \in Nat
        /\ Expense(Owed(S, v)) \in Nat /\ CoveredCost(M)' \in Nat /\ Cost(WorstCase(c)) \in Nat
    BY <1>2, <1>4, <1>11, <1>12, OneMoreTokens
  <2>2. ~(Tokens(Owed(S, v)) + Estimate(c) > l.monthly_tokens)
    BY <1>3, <1>6 DEF Exceeds
  <2>3. ~(Expense(Owed(S, v)) + Cost(WorstCase(c)) > l.monthly_cost)
    BY <1>3, <1>6 DEF Exceeds
  <2> QED
    BY SMTT(60), <1>0, <2>1, <2>2, <2>3
<1> DEFINE A == {d \in Rows(S) : row[d].created > now - l.window}
           B == {d \in Rows(S)' : row'[d].created > now' - l.window}
<1>16. Cardinality(B) <= l.requests_per_window
  <2>1. B \subseteq A \cup {c}
    BY DEF Rows
  <2>2. IsFiniteSet(A)
    <3>1. A \subseteq Rows(S)
      OBVIOUS
    <3> QED
      BY <3>1, FS_Subset
  <2>3. ~(Cardinality(A) >= l.requests_per_window)
    BY DEF Exceeds
  <2> HIDE DEF A, B
  <2>4. AtMost(B, l.requests_per_window)
    BY <1>0, <2>1, <2>2, <2>3, OneMoreIsAtMost
  <2> QED
    BY <2>4 DEF AtMost
<1>17. /\ CoveredTokens(Open(S))' = CoveredTokens(O)' /\ CoveredTokens(Owed(S, DayStart))' = CoveredTokens(D)'
       /\ CoveredTokens(Owed(S, MonthStart))' = CoveredTokens(M)' /\ CoveredCost(Owed(S, MonthStart))' = CoveredCost(M)'
  BY <1>5, <1>6, <1>7, <1>8, <1>9
<1>18. Within(l, S)'
  BY <1>13, <1>14, <1>15, <1>16, <1>17 DEF Within
<1>19. ASSUME NEW w \in Workload
       PROVE  Current(S, w)' \subseteq Current(S, w) \/ Cardinality(Current(S, w)') <= Cap(l, w)
  <2>1. CASE w = WorkloadOf[c]
    <3>1. Current(S, w)' \subseteq Current(S, w) \cup {c}
      BY DEF Current
    <3>2. Current(S, w) \subseteq Rows(S)
      BY DEF Current, Rows
    <3>3. IsFiniteSet(Current(S, w))
      BY <3>2, FS_Subset
    <3>4. ~(Cardinality(Current(S, w)) >= Cap(l, w))
      BY <2>1 DEF Exceeds
    <3>5. Cap(l, w) \in Nat
      BY <1>0 DEF Cap
    <3>6. AtMost(Current(S, w)', Cap(l, w))
      BY <3>1, <3>3, <3>4, <3>5, OneMoreIsAtMost
    <3> QED
      BY <3>6 DEF AtMost
  <2>2. CASE w # WorkloadOf[c]
    <3>1. c \notin Current(S, w)'
      BY <2>2 DEF Current
    <3> QED
      BY <3>1 DEF Current
  <2> QED
    BY <2>1, <2>2
<1> QED
  BY <1>18, <1>19

\* The limits select returns.
LEMMA SelectType ==
  ASSUME NEW k \in 1..Len(Policies), NEW o
  PROVE  Select(k, o).owner \in Limits /\ Select(k, o).tenant \in Limits
<1>1. Policies[k] \in QuotaPolicy
  BY SMTT(60), LedgerTypes
<1>2. Policies[k].owner \in Limits /\ Policies[k].tenant \in Limits /\ Policies[k].evaluation \in Limits
  <2> HIDE DEF Limits
  <2> QED
    BY SMTT(60), <1>1 DEF QuotaPolicy
<1> QED
  BY SMTT(60), <1>2 DEF Select

\* A policy that is not replaced.
LEMMA WiderItself ==
  ASSUME NEW l \in Limits
  PROVE  Wider(l, l)
<1>1. \A n \in Nat : n <= n
  BY SMTT(60)
<1>2. /\ l.requests_per_window \in Nat /\ l.window \in Nat /\ l.interactive_concurrent \in Nat
      /\ l.background_concurrent \in Nat /\ l.reserved_tokens \in Nat /\ l.daily_tokens \in Nat
      /\ l.monthly_tokens \in Nat /\ l.monthly_cost \in Nat
  BY SMTT(60) DEF Limits
<1> QED
  BY <1>1, <1>2 DEF Wider

\* The owners of the tenant of o; they have the tenant's calls in common.
Peers(o) == {q \in Owner : TenantOf[q] = TenantOf[o]}
Flying(l, S) == \A w \in Workload : Cardinality(Current(S, w)) <= Cap(l, w)
Budget(k, o) ==
    /\ Within(Select(k, o).owner, OfOwner(o)) /\ Flying(Select(k, o).owner, OfOwner(o))
    /\ \E q \in Peers(o) : Within(Select(k, q).tenant, OfTenant(o))
    /\ \A w \in Workload : \E q \in Peers(o) :
          Cardinality(Current(OfTenant(o), w)) <= Cap(Select(k, q).tenant, w)

\* The limits of the owners one by one.
LEMMA BudgetsOneByOne == BudgetsHold <=> \A o \in Owner : Budget(policy, o)
  BY DEF BudgetsHold, Budget, Flying, Peers, Workload

\* Beside BudgetsHold: rows are finitely many, and none is of the future.
BudgetInv ==
    /\ BookInv /\ policy \in 1..Len(Policies)
    /\ IsFiniteSet(Rows(Call)) /\ \A c \in Call : row[c].created <= now
    /\ BudgetsHold

\* The rows of an owner or a tenant are among all rows.
LEMMA RowsOfSome ==
  ASSUME IsFiniteSet(Rows(Call)), NEW S \in SUBSET Call
  PROVE  IsFiniteSet(Rows(S))
<1>1. Rows(S) \subseteq Rows(Call)
  BY DEF Rows
<1> QED
  BY <1>1, FS_Subset

\* The calls of an owner and of a tenant are calls.
LEMMA OwnersCalls ==
  ASSUME NEW o
  PROVE  OfOwner(o) \in SUBSET Call /\ OfTenant(o) \in SUBSET Call
  BY DEF OfOwner, OfTenant

\* A later policy allows what the one before allowed.
LEMMA SelectGrows ==
  ASSUME NEW k \in 1..Len(Policies), NEW n \in 1..Len(Policies), n = k \/ n = k + 1, NEW o \in Owner
  PROVE  /\ Select(k, o).owner \in Limits /\ Select(n, o).owner \in Limits
         /\ Select(k, o).tenant \in Limits /\ Select(n, o).tenant \in Limits
         /\ Wider(Select(k, o).owner, Select(n, o).owner)
         /\ Wider(Select(k, o).tenant, Select(n, o).tenant)
<1>1. /\ Select(k, o).owner \in Limits /\ Select(n, o).owner \in Limits
      /\ Select(k, o).tenant \in Limits /\ Select(n, o).tenant \in Limits
  BY SelectType
<1>2. CASE n = k
  BY <1>1, <1>2, WiderItself
<1>3. CASE n = k + 1
  <2>1. Len(Policies) \in Nat
    BY SMTT(60), LedgerTypes
  <2>2. k \in 1..(Len(Policies) - 1)
    BY SMTT(60), <1>3, <2>1
  <2> QED
    BY <1>1, <1>3, <2>2, PoliciesGrow
<1> QED
  BY <1>2, <1>3

\* Without a reservation every budget holds on.
LEMMA CalmBudgets ==
  ASSUME BudgetInv, BookInv', \A c \in Call : Calmer(row[c], row'[c]), Passing,
         policy' \in 1..Len(Policies), policy' = policy \/ policy' = policy + 1
  PROVE  BudgetInv'
<1>1. Rows(Call)' = Rows(Call)
  BY DEF Rows, Calmer
<1>2. \A c \in Call : row'[c].created <= now'
  <2>1. \A c \in Call : row'[c].created = row[c].created /\ row[c].created <= now
    BY DEF Calmer, BudgetInv
  <2>2. \A c \in Call : row[c].created \in Nat
    BY SMTT(60) DEF BudgetInv, BookInv, RowType
  <2> QED
    BY SMTT(60), <2>1, <2>2 DEF Passing
<1>3. PICK k \in 1..Len(Policies) : k = policy
  BY DEF BudgetInv
<1>4. PICK n \in 1..Len(Policies) : n = policy' /\ (n = k \/ n = k + 1)
  BY <1>3
<1>5. ASSUME NEW S \in SUBSET Call, NEW l \in Limits, NEW m \in Limits, Wider(l, m)
      PROVE  /\ Within(l, S) => Within(m, S)'
             /\ \A w \in Workload :
                   Cardinality(Current(S, w)) <= Cap(l, w) => Cardinality(Current(S, w)') <= Cap(m, w)
  <2>1. IsFiniteSet(Rows(S)) /\ BookInv
    BY RowsOfSome DEF BudgetInv
  <2>2. \A c \in S : Calmer(row[c], row'[c])
    OBVIOUS
  <2> QED
    BY <1>5, <2>1, <2>2, CalmIsWithin, CalmIsCurrent
<1>6. ASSUME NEW o \in Owner
      PROVE  Budget(n, o)'
  <2>1. Budget(k, o)
    BY <1>3, BudgetsOneByOne DEF BudgetInv
  <2>2. PICK l \in Limits : l = Select(k, o).owner
    BY SelectType
  <2>3. PICK m \in Limits : m = Select(n, o).owner
    BY SelectType
  <2>4. Wider(l, m)
    BY <1>4, <2>2, <2>3, SelectGrows
  <2>5. PICK S \in SUBSET Call : S = OfOwner(o)
    BY OwnersCalls
  <2>6. PICK T \in SUBSET Call : T = OfTenant(o)
    BY OwnersCalls
  <2>7. Within(m, S)'
    BY <1>5, <2>1, <2>2, <2>4, <2>5 DEF Budget
  <2>8. \A w \in Workload : Cardinality(Current(S, w)') <= Cap(m, w)
    BY <1>5, <2>1, <2>2, <2>4, <2>5 DEF Budget, Flying
  <2>9. \A q \in Peers(o) : /\ Select(k, q).tenant \in Limits /\ Select(n, q).tenant \in Limits
                            /\ Wider(Select(k, q).tenant, Select(n, q).tenant)
    BY <1>4, SelectGrows DEF Peers
  <2>10. \E q \in Peers(o) : Within(Select(n, q).tenant, T)'
    BY <1>5, <2>1, <2>6, <2>9 DEF Budget
  <2>11. \A w \in Workload : \E q \in Peers(o) : Cardinality(Current(T, w)') <= Cap(Select(n, q).tenant, w)
    BY <1>5, <2>1, <2>6, <2>9 DEF Budget
  <2>12. Flying(m, S)'
    BY <2>8 DEF Flying, Cap
  <2>13. \A w \in Workload : \E q \in Peers(o) : (Cardinality(Current(T, w)) <= Cap(Select(n, q).tenant, w))'
    BY <2>11 DEF Cap, Select
  <2> QED
    BY <2>3, <2>5, <2>6, <2>7, <2>10, <2>12, <2>13 DEF Budget, OfOwner, OfTenant, Select, Peers
<1>7. BudgetsHold'
  <2>1. (\A o \in Owner : Budget(policy, o))'
    BY <1>4, <1>6
  <2>2. (BudgetsHold <=> \A o \in Owner : Budget(policy, o))'
    BY BudgetsOneByOne, PTL
  <2> QED
    BY <2>1, <2>2
<1> QED
  BY <1>1, <1>2, <1>7 DEF BudgetInv

\* The clock stands or ticks.
LEMMA TimePasses ==
  ASSUME now \in Nat, now' = now \/ now' = now + 1
  PROVE  Passing
<1>1. Day \in Nat \ {0} /\ Month \in Nat \ {0}
  BY LedgerTypes
<1>2. ASSUME NEW t \in Nat, t = now
      PROVE  /\ t - (t % Day) \in Int /\ t - (t % Day) <= (t + 1) - ((t + 1) % Day)
             /\ (t + 1) - ((t + 1) % Day) \in Int
             /\ t - (t % Month) \in Int /\ t - (t % Month) <= (t + 1) - ((t + 1) % Month)
             /\ (t + 1) - ((t + 1) % Month) \in Int
  <2>1. t + 1 \in Nat
    BY SMTT(60)
  <2> QED
    BY <1>1, <2>1, PeriodsPass
<1>3. \A n \in Int : n <= n
  BY SMTT(60)
<1>4. now \in Nat /\ now' \in Nat /\ now <= now'
  BY SMTT(60)
<1>5. DayStart \in Int /\ DayStart' \in Int /\ DayStart <= DayStart'
  BY <1>2, <1>3 DEF DayStart
<1>6. MonthStart \in Int /\ MonthStart' \in Int /\ MonthStart <= MonthStart'
  BY <1>2, <1>3 DEF MonthStart
<1> QED
  BY <1>4, <1>5, <1>6 DEF Passing

\* reserve keeps every budget: the limits of the caller were checked, those of the others see
\* no new call.
LEMMA ReserveBudgets ==
  ASSUME BudgetInv, BookInv', NEW c \in Call, Reserve(c, policy), now' = now
  PROVE  BudgetInv'
<1>0. Passing /\ BookInv
  BY TimePasses DEF BudgetInv, BookInv
<1>1. /\ row[c].state = "NONE" /\ ~QuotaDenied(c, policy) /\ policy' = policy
      /\ row' = [row EXCEPT ![c] = Reservation("RESERVED", now, NoCounts)]
  BY DEF Reserve
<1> DEFINE new == Reservation("RESERVED", now, NoCounts)
<1>2. row'[c] = new /\ \A d \in Call \ {c} : row'[d] = row[d]
  BY <1>0, <1>1 DEF BookInv
<1>3. new.created = now /\ new.state = "RESERVED"
  BY SMTT(60) DEF Reservation
<1>4. IsFiniteSet(Rows(Call))'
  <2>1. Rows(Call)' \subseteq Rows(Call) \cup {c}
    BY <1>2 DEF Rows
  <2>2. IsFiniteSet(Rows(Call) \cup {c})
    BY FS_AddElement DEF BudgetInv
  <2> QED
    BY <2>1, <2>2, FS_Subset
<1>5. \A d \in Call : row'[d].created <= now'
  <2>1. now <= now
    BY SMTT(60), <1>0 DEF Passing
  <2> HIDE DEF new
  <2> QED
    BY <1>2, <1>3, <2>1 DEF BudgetInv
<1>6. PICK k \in 1..Len(Policies) : k = policy /\ k = policy'
  BY <1>1 DEF BudgetInv
<1>7. PICK a \in Owner : a = OwnerOf[c]
  BY SMTT(60), LedgerTypes
<1>8. ~Exceeds(Select(k, a).tenant, OfTenant(a), c) /\ ~Exceeds(Select(k, a).owner, OfOwner(a), c)
  BY <1>1, <1>6, <1>7 DEF QuotaDenied
\* A set of calls with c, and one without.
<1>9. ASSUME NEW S \in SUBSET Call, c \in S, NEW l \in Limits, ~Exceeds(l, S, c)
      PROVE  /\ Within(l, S)'
             /\ \A w \in Workload : \/ Current(S, w)' \subseteq Current(S, w)
                                    \/ Cardinality(Current(S, w)') <= Cap(l, w)
  <2>1. IsFiniteSet(Rows(S))
    BY RowsOfSome DEF BudgetInv
  <2>2. \A d \in S \ {c} : row'[d] = row[d]
    BY <1>2
  <2> QED
    BY <1>0, <1>2, <1>9, <2>1, <2>2, ReservedIsWithin
<1>10. ASSUME NEW S \in SUBSET Call, c \notin S, NEW l \in Limits, Within(l, S)
       PROVE  Within(l, S)'
  <2>1. IsFiniteSet(Rows(S))
    BY RowsOfSome DEF BudgetInv
  <2>2. \A d \in S : Calmer(row[d], row'[d])
    BY <1>2, <1>10 DEF Calmer
  <2> QED
    BY <1>0, <1>10, <2>1, <2>2, CalmIsWithin, WiderItself
<1>11. ASSUME NEW S \in SUBSET Call, NEW w \in Workload, NEW l \in Limits,
              Current(S, w)' \subseteq Current(S, w), Cardinality(Current(S, w)) <= Cap(l, w)
       PROVE  Cardinality(Current(S, w)') <= Cap(l, w)
  <2>1. Current(S, w) \subseteq Rows(S)
    BY DEF Current, Rows
  <2>2. IsFiniteSet(Rows(S))
    BY RowsOfSome DEF BudgetInv
  <2>3. IsFiniteSet(Current(S, w))
    BY <2>1, <2>2, FS_Subset
  <2>4. Cap(l, w) \in Nat
    BY SMTT(60) DEF Limits, Cap
  <2>5. AtMost(Current(S, w), Cap(l, w))
    BY <1>11, <2>3 DEF AtMost
  <2>6. AtMost(Current(S, w)', Cap(l, w))
    BY <1>11, <2>4, <2>5, FewerAreAtMost
  <2> QED
    BY <2>6 DEF AtMost
<1>12. ASSUME NEW S \in SUBSET Call, c \notin S, NEW w \in Workload
       PROVE  Current(S, w)' \subseteq Current(S, w)
  BY <1>2, <1>12 DEF Current
<1>13. ASSUME NEW o \in Owner
       PROVE  Budget(k, o)'
  <2>1. Budget(k, o)
    BY <1>6, BudgetsOneByOne DEF BudgetInv
  <2>2. PICK l \in Limits : l = Select(k, o).owner
    BY SelectType
  <2>3. PICK S \in SUBSET Call : S = OfOwner(o)
    BY OwnersCalls
  <2>4. PICK T \in SUBSET Call : T = OfTenant(o)
    BY OwnersCalls
  <2>5. Within(l, S) /\ \A w \in Workload : Cardinality(Current(S, w)) <= Cap(l, w)
    BY <2>1, <2>2, <2>3 DEF Budget, Flying
  <2>6. Within(l, S)' /\ \A w \in Workload : Cardinality(Current(S, w)') <= Cap(l, w)
    <3>1. CASE c \in S
      <4>1. o = a
        BY <1>7, <2>3, <3>1 DEF OfOwner
      <4>2. ~Exceeds(l, S, c)
        BY <1>8, <2>2, <2>3, <4>1
      <4> QED
        BY <1>9, <1>11, <2>5, <3>1, <4>2
    <3>2. CASE c \notin S
      BY <1>10, <1>11, <1>12, <2>5, <3>2
    <3> QED
      BY <3>1, <3>2
  <2>7. Flying(l, S)'
    BY <2>6 DEF Flying, Cap
  <2>8. \A q \in Peers(o) : Select(k, q).tenant \in Limits
    BY SelectType
  <2>9. PICK q \in Peers(o) : Within(Select(k, q).tenant, T)
    BY <2>1, <2>4 DEF Budget
  <2>10. \A w \in Workload : \E p \in Peers(o) : Cardinality(Current(T, w)) <= Cap(Select(k, p).tenant, w)
    BY <2>1, <2>4 DEF Budget
  <2>11. /\ \E p \in Peers(o) : Within(Select(k, p).tenant, T)'
         /\ \A w \in Workload : \E p \in Peers(o) : Cardinality(Current(T, w)') <= Cap(Select(k, p).tenant, w)
    <3>1. CASE c \in T
      <4>1. a \in Peers(o) /\ T = OfTenant(a)
        BY <1>7, <2>4, <3>1 DEF OfTenant, Peers
      <4>2. PICK m \in Limits : m = Select(k, a).tenant
        BY SelectType
      <4>3. ~Exceeds(m, T, c)
        BY <1>8, <4>1, <4>2
      <4>4. /\ Within(m, T)'
            /\ \A w \in Workload : \/ Current(T, w)' \subseteq Current(T, w)
                                   \/ Cardinality(Current(T, w)') <= Cap(m, w)
        BY <1>9, <3>1, <4>3
      <4>5. \E p \in Peers(o) : Within(Select(k, p).tenant, T)'
        BY <4>1, <4>2, <4>4
      <4>6. ASSUME NEW w \in Workload
            PROVE  \E p \in Peers(o) : Cardinality(Current(T, w)') <= Cap(Select(k, p).tenant, w)
        <5>1. CASE Cardinality(Current(T, w)') <= Cap(m, w)
          BY <4>1, <4>2, <5>1
        <5>2. CASE Current(T, w)' \subseteq Current(T, w)
          BY <1>11, <2>8, <2>10, <5>2
        <5> QED
          BY <4>4, <5>1, <5>2
      <4> QED
        BY <4>5, <4>6
    <3>2. CASE c \notin T
      <4>1. Within(Select(k, q).tenant, T)'
        BY <1>10, <2>8, <2>9, <3>2
      <4>2. ASSUME NEW w \in Workload
            PROVE  \E p \in Peers(o) : Cardinality(Current(T, w)') <= Cap(Select(k, p).tenant, w)
        BY <1>11, <1>12, <2>8, <2>10, <3>2
      <4> QED
        BY <2>9, <4>1, <4>2
    <3> QED
      BY <3>1, <3>2
  <2>12. \A w \in Workload : \E p \in Peers(o) : (Cardinality(Current(T, w)) <= Cap(Select(k, p).tenant, w))'
    BY <2>11 DEF Cap, Select
  <2> QED
    BY <2>2, <2>3, <2>4, <2>6, <2>7, <2>11, <2>12 DEF Budget, OfOwner, OfTenant, Select, Peers
<1>14. BudgetsHold'
  <2>1. (\A o \in Owner : Budget(policy, o))'
    BY <1>6, <1>13
  <2>2. (BudgetsHold <=> \A o \in Owner : Budget(policy, o))'
    BY BudgetsOneByOne, PTL
  <2> QED
    BY <2>1, <2>2
<1> QED
  BY <1>4, <1>5, <1>6, <1>14 DEF BudgetInv

\* A row that stays as it is.
LEMMA StillIsCalm ==
  ASSUME UNCHANGED row
  PROVE  \A c \in Call : Calmer(row[c], row'[c])
  BY DEF Calmer

\* A write of one row that owes no more.
LEMMA OneRowIsCalm ==
  ASSUME BookInv, NEW c \in Call, NEW r, row' = [row EXCEPT ![c] = r], Calmer(row[c], r)
  PROVE  \A d \in Call : Calmer(row[d], row'[d])
<1>1. row'[c] = r /\ \A d \in Call : d # c => row'[d] = row[d]
  BY DEF BookInv
<1>2. \A d \in Call : Calmer(row[d], row[d])
  BY DEF Calmer
<1> QED
  BY <1>1, <1>2

\* transition admits, starts or releases a call.
LEMMA TransitionIsCalm ==
  ASSUME BookInv, NEW c \in Call, NEW before \in {"RESERVED", "ADMITTING"},
         NEW after \in {"ADMITTING", "STARTED", "RELEASED"}, Transition(c, before, after)
  PROVE  \A d \in Call : Calmer(row[d], row'[d])
<1> DEFINE new == [row[c] EXCEPT !.state = after]
<1>1. new.state = after /\ new.created = row[c].created
  BY SMTT(60) DEF BookInv, RowType
<1>2. row' = [row EXCEPT ![c] = new] /\ row[c].state = before
  BY DEF Transition
<1> HIDE DEF new
<1>3. Calmer(row[c], new)
  BY <1>1, <1>2 DEF Calmer, Unpaid, Holding
<1> QED
  BY <1>2, <1>3, OneRowIsCalm

\* settle replaces the worst case by what the provider reported, or keeps it.
LEMMA SettleIsCalm ==
  ASSUME BookInv, NEW c \in Call, NEW u \in Usages(c), Settle(c, u)
  PROVE  \A d \in Call : Calmer(row[d], row'[d])
<1> DEFINE s == IF Known(u) THEN "SETTLED" ELSE "UNKNOWN"
           new == Reservation(s, row[c].created, u)
<1>1. row' = [row EXCEPT ![c] = new] /\ row[c].state \in {"STARTED", "UNKNOWN"}
  BY DEF Settle, MaySettle
<1>2. s \in {"SETTLED", "UNKNOWN"}
  OBVIOUS
<1> HIDE DEF s
<1>3. new.state = s /\ new.created = row[c].created /\ new.actual = u
  BY SMTT(60) DEF Reservation
<1> HIDE DEF new
<1>4. Calmer(row[c], new)
  BY <1>1, <1>2, <1>3 DEF Calmer, Unpaid, Holding
<1> QED
  BY <1>1, <1>4, OneRowIsCalm

\* The budgets when the ledger is empty.
LEMMA InitBudgets ==
  ASSUME now = 0, LedgerInit
  PROVE  BudgetInv
<1>1. BookInv
  BY InitBooks
<1>2. policy \in 1..Len(Policies)
  <2>1. Len(Policies) \in Nat /\ Len(Policies) # 0
    BY SMTT(60), LedgerTypes
  <2> QED
    BY SMTT(60), <2>1 DEF LedgerInit
<1>3. \A c \in Call : row[c].state = "NONE" /\ row[c].created = 0
  <2>1. NoReservation.state = "NONE" /\ NoReservation.created = 0
    BY SMTT(60) DEF NoReservation, Reservation
  <2> QED
    BY <2>1 DEF LedgerInit
<1>4. \A S \in SUBSET Call : Rows(S) = {} /\ Open(S) = {}
  BY <1>3 DEF Rows, Open
<1>5. \A S \in SUBSET Call : (\A t : Owed(S, t) = {}) /\ \A w : Current(S, w) = {}
  BY <1>3, <1>4 DEF Owed, Current
<1>6. CoveredTokens({}) = 0 /\ CoveredCost({}) = 0
  BY SumEmpty DEF CoveredTokens, CoveredCost
<1>7. Cardinality({}) = 0 /\ IsFiniteSet({})
  BY FS_EmptySet
<1>8. \A n \in Nat : 0 <= n
  BY SMTT(60)
<1>9. ASSUME NEW S \in SUBSET Call, NEW l \in Limits
      PROVE  Within(l, S) /\ \A w \in Workload : Cardinality(Current(S, w)) <= Cap(l, w)
  <2>1. /\ l.requests_per_window \in Nat /\ l.reserved_tokens \in Nat
        /\ l.daily_tokens \in Nat /\ l.monthly_tokens \in Nat /\ l.monthly_cost \in Nat
        /\ l.interactive_concurrent \in Nat /\ l.background_concurrent \in Nat
    BY SMTT(60) DEF Limits
  <2>2. {c \in Rows(S) : row[c].created > now - l.window} = {}
    BY <1>4
  <2>3. Within(l, S)
    BY <1>4, <1>5, <1>6, <1>7, <1>8, <2>1, <2>2 DEF Within
  <2> QED
    BY <1>5, <1>7, <1>8, <2>1, <2>3 DEF Cap
<1>10. \A o \in Owner : Budget(policy, o)
  <2> SUFFICES ASSUME NEW o \in Owner PROVE Budget(policy, o)
    OBVIOUS
  <2>1. OfOwner(o) \in SUBSET Call /\ OfTenant(o) \in SUBSET Call
    BY OwnersCalls
  <2>2. Select(policy, o).owner \in Limits /\ Select(policy, o).tenant \in Limits
    BY <1>2, SelectType
  <2>3. o \in Peers(o)
    BY DEF Peers
  <2> QED
    BY <1>9, <2>1, <2>2, <2>3 DEF Budget, Flying
<1>11. \A c \in Call : row[c].created <= now
  BY SMTT(60), <1>3
<1>12. IsFiniteSet(Rows(Call))
  BY <1>4, <1>7
<1> QED
  BY <1>1, <1>2, <1>10, <1>11, <1>12, BudgetsOneByOne DEF BudgetInv

\* A migration goes to the next policy.
LEMMA MigrateBudgets ==
  ASSUME BudgetInv, BookInv', Migrate, now' = now
  PROVE  BudgetInv'
<1>1. policy < Len(Policies) /\ policy' = policy + 1 /\ UNCHANGED row
  BY DEF Migrate, MayMigrate
<1>2. policy' \in 1..Len(Policies)
  <2>1. Len(Policies) \in Nat
    BY SMTT(60), LedgerTypes
  <2> QED
    BY SMTT(60), <1>1, <2>1 DEF BudgetInv
<1>3. Passing
  BY TimePasses DEF BudgetInv, BookInv
<1> QED
  BY <1>1, <1>2, <1>3, StillIsCalm, CalmBudgets

\* So does a step that writes no row that owes more, and leaves the policy.
LEMMA QuietBudgets ==
  ASSUME BudgetInv, BookInv', \A c \in Call : Calmer(row[c], row'[c]), policy' = policy,
         now' = now \/ now' = now + 1
  PROVE  BudgetInv'
<1>1. Passing /\ policy' \in 1..Len(Policies)
  BY TimePasses DEF BudgetInv, BookInv
<1> QED
  BY <1>1, CalmBudgets

\* Any client of the ledger keeps the budgets.
LEMMA ApiBudgets ==
  ASSUME BudgetInv, BookInv', ApiStep, now' = now
  PROVE  BudgetInv'
<1>0. BookInv
  BY DEF BudgetInv
<1>1. ASSUME NEW c \in Call, Reserve(c, policy) PROVE BudgetInv'
  BY <1>1, ReserveBudgets
<1>2. ASSUME NEW c \in Call, DenyReserve(c, policy) PROVE BudgetInv'
  BY <1>2, StillIsCalm, QuietBudgets DEF DenyReserve
<1>3. ASSUME NEW c \in Call, UNCHANGED policy,
             \/ Transition(c, "RESERVED", "ADMITTING") \/ Transition(c, "ADMITTING", "STARTED")
             \/ Transition(c, "ADMITTING", "RELEASED") \/ \E u \in Usages(c) : Settle(c, u)
      PROVE  BudgetInv'
  <2>1. \A d \in Call : Calmer(row[d], row'[d])
    BY <1>0, <1>3, TransitionIsCalm, SettleIsCalm
  <2> QED
    BY <1>3, <2>1, QuietBudgets
<1>4. CASE Migrate
  BY <1>4, MigrateBudgets
<1> QED
  BY <1>1, <1>2, <1>3, <1>4 DEF ApiStep

\* However its clients order their calls, and whichever policies replace each other, the
\* ledger lets no owner and no tenant owe more than a limit, what providers report beyond a
\* reservation left aside (reserve, settle).
THEOREM LedgerBudgetsHold == LedgerSpec => []BudgetsHold
<1>1. now = 0 /\ AdmissionInit /\ LedgerInit => BudgetInv
  BY InitBudgets
<1>2. ASSUME BudgetInv, [LedgerNext]_<<now, started, active, ledgerVars>>
      PROVE  BudgetInv'
  <2>0. BookInv
    BY <1>2 DEF BudgetInv
  <2>1. BookInv'
    BY <1>2, <2>0, LedgerBooks, MovesKeepBooks
  <2>2. CASE ApiStep /\ UNCHANGED <<now, started, active>>
    BY <1>2, <2>1, <2>2, ApiBudgets
  <2>3. CASE Tick
    BY <1>2, <2>1, <2>3, StillIsCalm, QuietBudgets DEF Tick, ledgerVars
  <2>4. CASE UNCHANGED <<now, started, active, ledgerVars>>
    BY <1>2, <2>1, <2>4, StillIsCalm, QuietBudgets DEF ledgerVars
  <2> QED
    BY <1>2, <2>2, <2>3, <2>4 DEF LedgerNext
<1>3. BudgetInv => BudgetsHold
  BY DEF BudgetInv
<1> QED
  BY <1>1, <1>2, <1>3, PTL DEF LedgerSpec

\* What the processes and counters hold beside Shape and Tickets; what is settled was reported.
Extras ==
    /\ events \in (0..EventLimit) \cup (0..MigrationLimit) /\ faults \in Nat
    /\ active \subseteq Call /\ lost \subseteq Call
    /\ \A p \in Process : proc[p].policy \in 1..Len(Policies)
    /\ \A p \in Process : proc[p].pc = "settle" => proc[p].usage \in Usages(proc[p].call)

\* The counters after any step.
LEMMA CountersStay ==
  ASSUME Extras, [Next]_vars
  PROVE  events' \in (0..EventLimit) \cup (0..MigrationLimit) /\ faults' \in Nat
<1>1. EventLimit \in Nat /\ MigrationLimit \in Nat
  BY LedgerTypes
<1>2. /\ events' = events \/ (events < EventLimit /\ events' = events + 1)
                          \/ (events < MigrationLimit /\ events' = events + 1)
      /\ faults' = faults \/ faults' = faults + 1
  <2>1. ASSUME NEW p \in Process,
               \/ Step(p) \/ Crash(p) \/ Reopen(p) \/ \E c \in Call : Begin(p, c)
        PROVE  <1>2!:
    BY <2>1 DEF Step, ReserveStep, AdmitStep, AcquireStep, ReleaseStep, CheckStep, ReturnStep, SettleStep,
         DropStep, FinishStep, Reserve, DenyReserve, Event, Fault, Crash, Reopen, Begin, ledgerVars
  <2>2. CASE MigrateStep \/ TickStep \/ UNCHANGED vars
    BY <2>2 DEF MigrateStep, TickStep, Migrate, Tick, vars, ledgerVars, execVars
  <2> QED
    BY <2>1, <2>2 DEF Next
<1> QED
  BY SMTT(60), <1>1, <1>2 DEF Extras

\* Slots are taken and lost by calls.
LEMMA SlotSetsStay ==
  ASSUME Extras, Shape, [Next]_vars
  PROVE  active' \subseteq Call /\ lost' \subseteq Call
<1>1. active \subseteq Call /\ lost \subseteq Call
  BY DEF Extras
<1>2. \A p \in Process : proc[p].pc # "idle" => proc[p].call \in Call
  BY DEF Shape
<1>3. ASSUME NEW p \in Process, AcquireStep(p) \/ FinishStep(p) \/ Crash(p)
      PROVE  active' \subseteq active \cup {proc[p].call} /\ lost' \subseteq lost \cup {proc[p].call}
             /\ proc[p].pc # "idle"
  BY <1>3 DEF AcquireStep, FinishStep, Crash, Acquire, Finish, UnchangedAdmission, UnchangedHistory, At
<1>4. ASSUME NEW p \in Process,
             \/ ReserveStep(p) \/ AdmitStep(p) \/ ReleaseStep(p) \/ CheckStep(p) \/ ReturnStep(p)
             \/ SettleStep(p) \/ DropStep(p) \/ Reopen(p) \/ \E c \in Call : Begin(p, c)
      PROVE  UNCHANGED <<active, lost>>
  BY <1>4 DEF ReserveStep, AdmitStep, ReleaseStep, CheckStep, ReturnStep, SettleStep, DropStep, Reopen,
         Begin, UnchangedAdmission, UnchangedHistory
<1>5. CASE MigrateStep \/ TickStep \/ UNCHANGED vars
  <2>1. UNCHANGED <<active, lost>>
    BY <1>5 DEF MigrateStep, TickStep, Tick, vars, execVars, UnchangedAdmission
  <2> QED
    BY <1>1, <2>1
<1> QED
  BY <1>1, <1>2, <1>3, <1>4, <1>5 DEF Next, Step

\* A process keeps its policy or takes the configured one, and settles what was reported.
Sane(r) ==
    /\ r.policy \in 1..Len(Policies)
    /\ r.pc = "settle" => r.usage \in Usages(r.call)

\* So after every step (execute, and the restart of a process).
LEMMA ProcessesStay ==
  ASSUME Extras, Shape, policy \in 1..Len(Policies), [Next]_vars
  PROVE  \A p \in Process : Sane(proc'[p])
<1>0. \A p \in Process : Sane(proc[p])
  BY DEF Extras, Sane
<1>1. ASSUME NEW p \in Process, NEW r, proc' = [proc EXCEPT ![p] = r], Sane(r)
      PROVE  \A q \in Process : Sane(proc'[q])
  <2>1. proc'[p] = r /\ \A q \in Process : q # p => proc'[q] = proc[q]
    BY <1>1 DEF Shape
  <2> QED
    BY <1>0, <1>1, <2>1
<1>2. ASSUME NEW p \in Process, NEW pc, pc # "settle", Goto(p, pc)
      PROVE  \A q \in Process : Sane(proc'[q])
  <2> DEFINE r == [proc[p] EXCEPT !.pc = pc]
  <2>1. r.pc = pc /\ r.policy = proc[p].policy
    BY SMTT(60) DEF Shape
  <2>2. proc' = [proc EXCEPT ![p] = r]
    BY <1>2 DEF Goto
  <2> HIDE DEF r
  <2>3. Sane(r)
    BY <1>0, <1>2, <2>1 DEF Sane
  <2> QED
    BY <1>1, <2>2, <2>3
<1>3. ASSUME NEW pc, NEW c, NEW k \in 1..Len(Policies), NEW u, pc = "settle" => u \in Usages(c)
      PROVE  Sane(Running(pc, c, k, u))
  <2>1. /\ Running(pc, c, k, u).pc = pc /\ Running(pc, c, k, u).call = c
        /\ Running(pc, c, k, u).policy = k /\ Running(pc, c, k, u).usage = u
    BY SMTT(60) DEF Running
  <2> QED
    BY <1>3, <2>1 DEF Sane
<1>4. \A p \in Process : proc[p].policy \in 1..Len(Policies)
  BY DEF Extras
<1>5. ASSUME NEW k \in 1..Len(Policies) PROVE Sane(Idle(k))
  <2>1. "idle" # "settle"
    OBVIOUS
  <2> QED
    BY <1>3, <2>1 DEF Idle
<1>6. ASSUME NEW p \in Process, Return(p) PROVE \A q \in Process : Sane(proc'[q])
  BY <1>1, <1>4, <1>5, <1>6 DEF Return
<1>7. ASSUME NEW p \in Process, Crash(p) \/ Reopen(p) PROVE \A q \in Process : Sane(proc'[q])
  BY <1>1, <1>5, <1>7 DEF Crash, Reopen
<1>8. ASSUME NEW p \in Process, NEW c \in Call, Begin(p, c) PROVE \A q \in Process : Sane(proc'[q])
  <2>1. "reserve" # "settle"
    OBVIOUS
  <2>2. proc' = [proc EXCEPT ![p] = Running("reserve", c, proc[p].policy, NoCounts)]
    BY <1>8 DEF Begin
  <2>3. Sane(Running("reserve", c, proc[p].policy, NoCounts))
    BY <1>3, <1>4, <2>1
  <2> QED
    BY <1>1, <2>2, <2>3
<1>9. ASSUME NEW p \in Process, ReturnStep(p) PROVE \A q \in Process : Sane(proc'[q])
  <2>1. PICK u \in Usages(proc[p].call) :
           proc' = [proc EXCEPT ![p] = Running("settle", proc[p].call, proc[p].policy, u)]
    BY <1>9 DEF ReturnStep
  <2>2. Sane(Running("settle", proc[p].call, proc[p].policy, u))
    BY <1>3, <1>4
  <2> QED
    BY <1>1, <2>1, <2>2
<1>10. ASSUME NEW p \in Process, Step(p) PROVE \A q \in Process : Sane(proc'[q])
  <2>1. Return(p) \/ ReturnStep(p) \/ \E pc \in {"admit", "acquire", "check", "release", "calling", "drop", "finish"} : Goto(p, pc)
    BY <1>10 DEF Step, ReserveStep, AdmitStep, AcquireStep, ReleaseStep, CheckStep, SettleStep, DropStep, FinishStep
  <2>2. \A pc \in {"admit", "acquire", "check", "release", "calling", "drop", "finish"} : pc # "settle"
    OBVIOUS
  <2> QED
    BY <1>2, <1>6, <1>9, <2>1, <2>2
<1>11. CASE MigrateStep \/ TickStep \/ UNCHANGED vars
  <2>1. proc' = proc
    BY <1>11 DEF MigrateStep, TickStep, vars, execVars
  <2> QED
    BY <1>0, <2>1
<1> QED
  BY <1>7, <1>8, <1>10, <1>11 DEF Next

\* What execute settles is within the reservation.
LEMMA StepIsCalm ==
  ASSUME BookInv, Shape, Extras, NEW p \in Process, Step(p)
  PROVE  \/ \A c \in Call : Calmer(row[c], row'[c])
         \/ \E c \in Call : Reserve(c, policy)
<1> DEFINE c == proc[p].call
<1>1. ~At(p, "idle") => c \in Call
  BY DEF Shape, At
<1>2. At(p, "settle") => proc[p].usage \in Usages(c)
  BY DEF Extras, At
<1> HIDE DEF c
<1>3. CASE ReserveStep(p)
  <2>1. c \in Call
    BY <1>1, <1>3 DEF ReserveStep, At
  <2>2. Reserve(c, proc[p].policy) \/ UNCHANGED row
    BY <1>3 DEF ReserveStep, DenyReserve, ledgerVars, c
  <2>3. Reserve(c, proc[p].policy) => Reserve(c, policy)
    BY DEF Reserve
  <2> QED
    BY <2>1, <2>2, <2>3, StillIsCalm
<1>4. CASE AdmitStep(p)
  BY <1>1, <1>4, TransitionIsCalm, StillIsCalm DEF AdmitStep, At, ledgerVars, c
<1>5. CASE AcquireStep(p) \/ ReturnStep(p) \/ FinishStep(p)
  BY <1>5, StillIsCalm DEF AcquireStep, ReturnStep, FinishStep, ledgerVars
<1>6. CASE ReleaseStep(p)
  BY <1>1, <1>6, TransitionIsCalm DEF ReleaseStep, At, c
<1>7. CASE CheckStep(p)
  BY <1>1, <1>7, TransitionIsCalm, StillIsCalm DEF CheckStep, At, ledgerVars, c
<1>8. CASE SettleStep(p)
  BY <1>1, <1>2, <1>8, SettleIsCalm, StillIsCalm DEF SettleStep, At, ledgerVars, c
<1>9. CASE DropStep(p)
  BY <1>1, <1>9, TransitionIsCalm, StillIsCalm DEF DropStep, At, ledgerVars, c
<1> QED
  BY <1>3, <1>4, <1>5, <1>6, <1>7, <1>8, <1>9 DEF Step

\* Every step keeps the budgets.
LEMMA NextBudgets ==
  ASSUME BudgetInv, Shape, Extras, [Next]_vars
  PROVE  BudgetInv'
<1>0. BookInv
  BY DEF BudgetInv
<1>1. BookInv'
  BY <1>0, ExecutionBooks, MovesKeepBooks
<1>2. ASSUME NEW p \in Process, Step(p) PROVE BudgetInv'
  <2>1. policy' = policy /\ now' = now
    BY <1>0, <1>2, StepBooks
  <2> QED
    BY <1>0, <1>1, <1>2, <2>1, StepIsCalm, ReserveBudgets, QuietBudgets
<1>3. ASSUME NEW p \in Process, Crash(p) \/ Reopen(p) \/ \E c \in Call : Begin(p, c) PROVE BudgetInv'
  BY <1>1, <1>3, StillIsCalm, QuietBudgets DEF Crash, Reopen, Begin, ledgerVars
<1>4. CASE MigrateStep
  BY <1>1, <1>4, MigrateBudgets DEF MigrateStep
<1>5. CASE TickStep
  BY <1>1, <1>5, StillIsCalm, QuietBudgets DEF TickStep, Tick, ledgerVars
<1>6. CASE UNCHANGED vars
  BY <1>1, <1>6, StillIsCalm, QuietBudgets DEF vars, ledgerVars
<1> QED
  BY <1>2, <1>3, <1>4, <1>5, <1>6 DEF Next

\* The tokens of a minute are numbers.
LEMMA TokenLimits ==
  /\ P.tpm \in Nat /\ P.tpm - P.interactive_tpm \in Nat /\ \A c \in Call : Estimate(c) \in Nat
<1>1. P.tpm \in Nat /\ P.interactive_tpm \in Nat /\ P.interactive_tpm < P.tpm
  BY SMTT(60), PolicyBounds
<1>2. ASSUME NEW c \in Call PROVE Estimate(c) \in Nat
  <2>1. InputOf[c] \in Nat /\ OutputOf[c] \in Nat
    BY SMTT(60), CallTypes
  <2> QED
    BY SMTT(60), <2>1 DEF Estimate
<1>3. P.tpm - P.interactive_tpm \in Nat
  BY SMTT(60), <1>1
<1> QED
  BY <1>1, <1>2, <1>3

\* Fewer rows reserve fewer tokens, one more at most its estimate.
LEMMA FewerReserved ==
  ASSUME NEW S \in SUBSET Call, IsFiniteSet(S), NEW T \in SUBSET S
  PROVE  Reserved(T) <= Reserved(S) /\ Reserved(S) \in Nat /\ Reserved(T) \in Nat
<1> DEFINE g == [c \in S |-> Estimate(c)]
           f == [c \in T |-> Estimate(c)]
<1>1. (\A c \in S : g[c] \in Nat) /\ \A c \in T : f[c] \in Nat /\ f[c] = g[c]
  BY TokenLimits
<1>2. \A n \in Nat : n <= n
  BY SMTT(60)
<1>3. Reserved(S) = SumFunctionOnSet(g, S) /\ Reserved(T) = SumFunctionOnSet(f, T)
  BY DEF Reserved
<1> HIDE DEF f, g
<1>4. \A c \in T : f[c] \in Nat /\ f[c] <= g[c]
  BY <1>1, <1>2
<1>5. SumFunctionOnSet(f, T) <= SumFunctionOnSet(g, S)
  BY <1>1, <1>4, SumMonotone
<1>6. IsFiniteSet(T)
  BY FS_Subset
<1>7. SumFunctionOnSet(g, S) \in Nat /\ SumFunctionOnSet(f, T) \in Nat
  BY <1>1, <1>6, SumType
<1> QED
  BY <1>3, <1>5, <1>7

\* One more row reserves its estimate at most.
LEMMA OneMoreReserved ==
  ASSUME NEW S \in SUBSET Call, IsFiniteSet(S), NEW c \in Call, NEW T \in SUBSET (S \cup {c}),
         NEW n \in Nat, ~(Reserved(S) + Estimate(c) > n)
  PROVE  Reserved(T) <= n
<1> DEFINE g == [d \in S |-> Estimate(d)]
           f == [d \in T |-> Estimate(d)]
           e == Estimate(c)
<1>1. (\A d \in S : g[d] \in Nat) /\ (\A d \in T : f[d] \in Nat) /\ e \in Nat
  BY TokenLimits
<1>2. \A k \in Nat : k <= k
  BY SMTT(60)
<1>3. Reserved(S) = SumFunctionOnSet(g, S) /\ Reserved(T) = SumFunctionOnSet(f, T)
  BY DEF Reserved
<1>4. (\A d \in T \ {c} : f[d] <= g[d]) /\ (c \in T => f[c] <= e)
  <2>1. (\A d \in T \ {c} : d \in S /\ f[d] = g[d]) /\ (c \in T => f[c] = e)
    OBVIOUS
  <2> HIDE DEF f, g, e
  <2> QED
    BY <1>1, <1>2, <2>1
<1>5. ~(Reserved(S) + e > n)
  OBVIOUS
<1> HIDE DEF f, g, e
<1>6. SumFunctionOnSet(f, T) <= SumFunctionOnSet(g, S) + e
  BY <1>1, <1>4, SumOneMore
<1>7. IsFiniteSet(T)
  <2>1. IsFiniteSet(S \cup {c})
    BY FS_AddElement
  <2> QED
    BY <2>1, FS_Subset
<1>8. SumFunctionOnSet(g, S) \in Nat /\ SumFunctionOnSet(f, T) \in Nat
  BY <1>1, <1>7, SumType
<1> QED
  BY SMTT(60), <1>1, <1>3, <1>5, <1>6, <1>8

\* Rows that leave the minute give their tokens back.
LEMMA FewerTokensStay ==
  ASSUME Tickets, TokensRespected, Recent' \subseteq Recent
  PROVE  TokensRespected'
<1>1. PICK Q : Q = Recent'
  OBVIOUS
<1>2. Recent \in SUBSET Call /\ IsFiniteSet(Recent) /\ Q \in SUBSET Recent
  BY <1>1 DEF Tickets, Shared, AtMost, Recent
<1>3. Docs(Recent) \in SUBSET Call /\ IsFiniteSet(Docs(Recent)) /\ Docs(Q) \in SUBSET Docs(Recent)
  <2>1. Docs(Recent) \in SUBSET Recent
    BY DEF Docs
  <2>2. IsFiniteSet(Docs(Recent))
    BY <1>2, <2>1, FS_Subset
  <2> QED
    BY <1>2, <2>1, <2>2 DEF Docs
<1>4. Reserved(Q) <= P.tpm
  <2>1. Reserved(Q) <= Reserved(Recent) /\ Reserved(Q) \in Nat /\ Reserved(Recent) \in Nat
    BY <1>2, FewerReserved
  <2>2. Reserved(Recent) <= P.tpm
    BY DEF TokensRespected
  <2> QED
    BY SMTT(60), <2>1, <2>2, TokenLimits
<1>5. Reserved(Docs(Q)) <= P.tpm - P.interactive_tpm
  <2>1. /\ Reserved(Docs(Q)) <= Reserved(Docs(Recent)) /\ Reserved(Docs(Q)) \in Nat
        /\ Reserved(Docs(Recent)) \in Nat
    BY <1>3, FewerReserved
  <2>2. Reserved(Docs(Recent)) <= P.tpm - P.interactive_tpm
    BY DEF TokensRespected
  <2> QED
    BY SMTT(60), <2>1, <2>2, TokenLimits
<1>6. Reserved(Recent') <= P.tpm /\ Reserved(Docs(Recent')) <= P.tpm - P.interactive_tpm
  BY <1>1, <1>4, <1>5
<1> QED
  BY <1>6 DEF TokensRespected, Reserved, Docs, Estimate, Background

\* acquire checks the tokens of the minute with the new row in it.
LEMMA AcquireTokens ==
  ASSUME Tickets, TokensRespected, NEW c \in Call, Acquire(c), now' = now
  PROVE  TokensRespected'
<1>1. ~Denied(c) /\ started' = [started EXCEPT ![c] = now]
  BY DEF Acquire, CanAcquire
<1>2. \A d \in Call : d # c => started'[d] = started[d]
  BY <1>1 DEF Tickets
<1>3. PICK Q : Q = Recent'
  OBVIOUS
<1>4. Q \in SUBSET (Recent \cup {c}) /\ Recent \in SUBSET Call /\ IsFiniteSet(Recent)
  BY <1>2, <1>3 DEF Recent, Tickets, Shared, AtMost
<1>5. Docs(Recent) \in SUBSET Call /\ IsFiniteSet(Docs(Recent))
  <2>1. Docs(Recent) \in SUBSET Recent
    BY DEF Docs
  <2>2. IsFiniteSet(Docs(Recent))
    BY <1>4, <2>1, FS_Subset
  <2> QED
    BY <1>4, <2>1, <2>2
<1>6. Reserved(Q) <= P.tpm
  <2>1. ~(Reserved(Recent) + Estimate(c) > P.tpm)
    BY <1>1 DEF Denied
  <2> QED
    BY <1>4, <2>1, TokenLimits, OneMoreReserved
<1>7. Reserved(Docs(Q)) <= P.tpm - P.interactive_tpm
  <2>1. PICK n \in Nat : n = P.tpm - P.interactive_tpm
    BY TokenLimits
  <2>2. CASE Background(c)
    <3>1. Docs(Q) \in SUBSET (Docs(Recent) \cup {c})
      BY <1>4 DEF Docs
    <3>2. ~(Reserved(Docs(Recent)) + Estimate(c) > n)
      BY <1>1, <2>1, <2>2 DEF Denied, TokenCap
    <3> QED
      BY <1>5, <2>1, <3>1, <3>2, OneMoreReserved
  <2>3. CASE ~Background(c)
    <3>1. Docs(Q) \in SUBSET Docs(Recent)
      BY <1>4, <2>3 DEF Docs
    <3>2. /\ Reserved(Docs(Q)) <= Reserved(Docs(Recent)) /\ Reserved(Docs(Q)) \in Nat
          /\ Reserved(Docs(Recent)) \in Nat
      BY <1>5, <3>1, FewerReserved
    <3>3. Reserved(Docs(Recent)) <= n
      BY <2>1 DEF TokensRespected
    <3>4. Reserved(Docs(Q)) <= n
      BY SMTT(60), <3>2, <3>3
    <3> QED
      BY <2>1, <3>4
  <2> QED
    BY <2>2, <2>3
<1>8. Reserved(Recent') <= P.tpm /\ Reserved(Docs(Recent')) <= P.tpm - P.interactive_tpm
  BY <1>3, <1>6, <1>7
<1> QED
  BY <1>8 DEF TokensRespected, Reserved, Docs, Estimate, Background

\* Every step leaves the tokens of a minute within the policy.
LEMMA NextTokens ==
  ASSUME Tickets, Shape, TokensRespected, [Next]_vars
  PROVE  TokensRespected'
<1>1. ASSUME NEW p \in Process, AcquireStep(p)
      PROVE  TokensRespected'
  <2>1. proc[p].call \in Call /\ now' = now
    BY <1>1 DEF AcquireStep, At, Shape
  <2>2. Acquire(proc[p].call) \/ UNCHANGED <<started, now>>
    BY <1>1, <2>1 DEF AcquireStep, UnchangedAdmission
  <2>3. UNCHANGED <<started, now>> => Recent' \subseteq Recent
    BY DEF Recent
  <2> QED
    BY <2>1, <2>2, <2>3, AcquireTokens, FewerTokensStay
<1>2. ASSUME NEW p \in Process,
             \/ ReserveStep(p) \/ AdmitStep(p) \/ ReleaseStep(p) \/ CheckStep(p) \/ ReturnStep(p)
             \/ SettleStep(p) \/ DropStep(p) \/ FinishStep(p)
             \/ Crash(p) \/ Reopen(p) \/ \E c \in Call : Begin(p, c)
      PROVE  UNCHANGED <<now, started>>
  BY <1>2 DEF ReserveStep, AdmitStep, ReleaseStep, CheckStep, ReturnStep, SettleStep, DropStep,
              FinishStep, Finish, Crash, Reopen, Begin, UnchangedAdmission
<1>3. CASE MigrateStep \/ UNCHANGED vars
  <2>1. UNCHANGED <<now, started>>
    BY <1>3 DEF MigrateStep, UnchangedAdmission, vars
  <2>2. Recent' \subseteq Recent
    BY <2>1 DEF Recent
  <2> QED
    BY <2>2, FewerTokensStay
<1>4. CASE TickStep
  <2>1. now' = now + 1 /\ UNCHANGED started
    BY <1>4 DEF TickStep, Tick
  <2>2. \A c \in Call : started[c] \in Int
    BY SMTT(60) DEF Tickets, NoRow
  <2>3. \A c \in Call : started[c] > (now + 1) - Minute => started[c] > now - Minute
    BY SMTT(60), <2>2, ShareLimits DEF Tickets
  <2>4. Recent' \subseteq Recent
    BY <2>1, <2>3 DEF Recent
  <2> QED
    BY <2>4, FewerTokensStay
<1>5. UNCHANGED <<now, started>> => Recent' \subseteq Recent
  BY DEF Recent
<1> QED
  BY <1>1, <1>2, <1>3, <1>4, <1>5, FewerTokensStay DEF Next, Step

\* At the start nothing is reserved, counted or lost.
LEMMA InitLimits ==
  ASSUME Init
  PROVE  BudgetInv /\ Extras /\ TokensRespected
<1>1. BudgetInv
  BY InitBudgets DEF Init
<1>2. TokensRespected
  <2>1. Recent = {}
    BY DEF Init, AdmissionInit, Recent
  <2>2. Docs({}) = {}
    BY DEF Docs
  <2>3. Reserved({}) = 0
    BY SumEmpty DEF Reserved
  <2>4. 0 <= P.tpm /\ 0 <= P.tpm - P.interactive_tpm
    BY SMTT(60), TokenLimits
  <2> QED
    BY <2>1, <2>2, <2>3, <2>4 DEF TokensRespected
<1>3. events = 0 /\ faults = 0 /\ active = {} /\ lost = {} /\ \A p \in Process : proc[p] = Idle(1)
  BY DEF Init, LedgerInit, AdmissionInit
<1>4. Idle(1).pc = "idle" /\ Idle(1).policy = 1
  BY SMTT(60) DEF Idle, Running
<1>5. 1 \in 1..Len(Policies)
  <2>1. Len(Policies) \in Nat /\ Len(Policies) # 0
    BY SMTT(60), LedgerTypes
  <2> QED
    BY SMTT(60), <2>1
<1>6. 0 \in (0..EventLimit) \cup (0..MigrationLimit) /\ 0 \in Nat
  BY SMTT(60), LedgerTypes
<1>7. Extras
  BY <1>3, <1>4, <1>5, <1>6 DEF Extras
<1> QED
  BY <1>1, <1>2, <1>7

\* The parts of the invariant make up what the databases promise.
LEMMA LimitsFollow ==
  ASSUME Shape, BudgetInv, Extras, Tickets, TokensRespected, SlotsHaveHolders
  PROVE  LimitsHold
<1>1. TypeOK
  <2>1. proc \in [Process -> [pc : PCs, call : Call \cup {NoCall}, policy : 1..Len(Policies), usage : Usage]]
    <3> SUFFICES ASSUME NEW p \in Process
                 PROVE  proc[p] \in [pc : PCs, call : Call \cup {NoCall}, policy : 1..Len(Policies), usage : Usage]
      BY DEF Shape
    <3>1. proc[p].policy \in 1..Len(Policies)
      BY DEF Extras
    <3>2. proc[p] \in [pc : PCs, call : Call \cup {NoCall}, policy : Int, usage : Usage]
      BY DEF Shape
    <3> HIDE DEF Extras, Shape
    <3> QED
      BY SMTT(60), <3>1, <3>2
  <2>2. row \in [Call -> [state : States, created : Nat, actual : Usage]]
    BY DEF Shape
  <2> QED
    BY <2>1, <2>2 DEF TypeOK, Shape, BudgetInv, Extras, Tickets
<1>2. LedgerTypeOK
  <2>1. now \in Nat /\ policy \in 1..Len(Policies) /\ events \in (0..EventLimit) \cup (0..MigrationLimit)
    BY DEF Shape, BudgetInv, Extras
  <2>2. ASSUME NEW c \in Call
        PROVE  row[c].created \in 0..now
    <3>1. row[c].created \in Nat /\ row[c].created <= now
      <4>1. row[c].created \in Nat
        BY SMTT(60) DEF BudgetInv, BookInv, RowType
      <4> QED
        BY <4>1 DEF BudgetInv
    <3> QED
      BY SMTT(60), <2>1, <3>1
  <2>3. ASSUME NEW c \in Call
        PROVE  \/ row[c].state \in {"NONE", "RESERVED", "ADMITTING", "STARTED", "RELEASED"}
                  /\ row[c].actual = NoCounts
               \/ row[c].state = "UNKNOWN" /\ ~Known(row[c].actual)
               \/ row[c].state = "SETTLED" /\ Known(row[c].actual)
    <3>1. row[c].state \in States
      BY SMTT(60) DEF BudgetInv, BookInv, RowType
    <3>2. Counted(row[c])
      BY DEF BudgetInv, BookInv
    <3> QED
      BY <3>1, <3>2 DEF Counted, States
  <2> QED
    BY <2>1, <2>2, <2>3 DEF LedgerTypeOK
<1>3. CallsRespected
  BY DEF Tickets, Shared, AtMost, CallsRespected
<1> QED
  BY <1>1, <1>2, <1>3 DEF LimitsHold, SharesRespected, BudgetInv

\* What an owner and a tenant owe never exceeds their limits but by what providers report beyond a
\* reservation; the provider sees no more calls,
\* requests or tokens than its policy allows, and no slot is left behind, for any number of
\* processes, calls, crashes and policies (reserve, settle, acquire, execute).
THEOREM LimitsAreKept == ExecutionSpec => []LimitsHold
<1>1. Init => BudgetInv /\ Extras /\ TokensRespected
  BY InitLimits
<1>2. ASSUME CallInv, Tickets, BudgetInv /\ Extras /\ TokensRespected, [Next]_vars
      PROVE  (BudgetInv /\ Extras /\ TokensRespected)'
  <2>1. Shape /\ policy \in 1..Len(Policies)
    BY <1>2 DEF CallInv, BudgetInv
  <2>2. BudgetInv'
    BY <1>2, <2>1, NextBudgets
  <2>3. TokensRespected'
    BY <1>2, <2>1, NextTokens
  <2>4. Extras'
    BY <1>2, <2>1, CountersStay, SlotSetsStay, ProcessesStay DEF Extras, Sane
  <2> QED
    BY <2>2, <2>3, <2>4
<1>3. CallInv /\ Tickets /\ SlotsHaveHolders /\ BudgetInv /\ Extras /\ TokensRespected => LimitsHold
  BY LimitsFollow DEF CallInv
<1> QED
  BY <1>1, <1>2, <1>3, CallsInvariant, TicketsInvariant, SlotsAreHeld, PTL DEF ExecutionSpec

=============================================================================
