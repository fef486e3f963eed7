-------------------------- MODULE FileMemoryProofs --------------------------
(* The file of the conversation memory, for any number of sessions, calls, failures and clearings
   and any limit. *)
EXTENDS FileMemory, FiniteSetTheorems, SequenceTheorems, WellFoundedInduction, TLAPS

\* A proof leaf is sent to Zenon unless it names another prover.
USE ZenonT(60)

\* A set of naturals that has 0 and the successor of each of its members has them all.
LEMMA Induction ==
    ASSUME NEW T \in SUBSET Nat, 0 \in T, \A n \in T : n + 1 \in T
    PROVE  T = Nat
<1> DEFINE R == OpToRel(<, Nat)
<1> SUFFICES ASSUME Nat \ T # {} PROVE FALSE
  OBVIOUS
<1>1. IsWellFoundedOn(R, Nat)
  BY NatLessThanWellFounded
<1>2. \A x, y \in Nat : <<x, y>> \in R <=> x < y
  BY DEF OpToRel
<1> HIDE DEF R
<1>3. \E x \in Nat \ T : \A y \in Nat \ T : <<y, x>> \notin R
  BY <1>1, WFMin
<1>4. PICK m \in Nat \ T : \A n \in Nat \ T : ~(n < m)
  BY <1>2, <1>3
<1>5. m # 0 /\ m \in Nat
  BY <1>4
<1>6. m - 1 \in Nat /\ m = (m - 1) + 1 /\ m - 1 < m
  BY SMTT(60), <1>5
<1>7. m - 1 \in T
  BY <1>4, <1>6
<1> QED  BY <1>4, <1>6, <1>7

\* What holds at 0 and, up to N, of the successor of every number it holds of, holds up to N.
LEMMA UpTo ==
    ASSUME NEW N \in Nat, NEW T, 0 \in T, \A n \in 1..N : n - 1 \in T => n \in T
    PROVE  \A n \in 0..N : n \in T
<1> DEFINE U == {n \in Nat : n <= N => n \in T}
<1>1. 0 \in U
  BY SMTT(60)
<1>2. ASSUME NEW n \in U PROVE n + 1 \in U
  <2>1. n \in Nat /\ n + 1 \in Nat /\ (n <= N => n \in T)
    BY SMTT(60)
  <2>2. CASE n + 1 <= N
    <3>1. n <= N /\ n + 1 \in 1..N /\ (n + 1) - 1 = n
      BY SMTT(60), <2>1, <2>2
    <3> QED  BY <2>1, <3>1
  <2> QED  BY <2>1, <2>2
<1>3. U \in SUBSET Nat
  OBVIOUS
<1> HIDE DEF U
<1>4. U = Nat
  BY <1>1, <1>2, <1>3, Induction
<1>5. ASSUME NEW n \in 0..N PROVE n \in T
  <2>1. n \in Nat /\ n <= N
    BY SMTT(60)
  <2> QED  BY <1>4, <2>1 DEF U
<1> QED  BY <1>5

\* One step of a comprehension.
Taken(g, f, S) ==
    [n \in 0..Len(f) |->
        IF n = 0 THEN <<>> ELSE IF n \in S THEN Append(g[n - 1], f[n]) ELSE g[n - 1]]

\* The items kept of the first places, for each number of them.
KeptUpTo(f, S) == CHOOSE u : u = Taken(u, f, S)

\* A comprehension is defined: it can be built place by place.
LEMMA KeptExists ==
    ASSUME NEW f \in Seq(FileMessage), NEW S
    PROVE  \E g \in [0..Len(f) -> Seq(FileMessage)] : g = Taken(g, f, S)
<1> DEFINE D == 0..Len(f)
           T == {n \in D : \E g \in [D -> Seq(FileMessage)] : \A m \in D : m <= n => g[m] = Taken(g, f, S)[m]}
<1>1. Len(f) \in Nat /\ \A n \in 1..Len(f) : f[n] \in FileMessage /\ n - 1 \in D /\ n \in D /\ n # 0
  BY SMTT(60)
<1>2. ASSUME NEW g \in [D -> Seq(FileMessage)] PROVE Taken(g, f, S) \in [D -> Seq(FileMessage)]
  <2>1. ASSUME NEW n \in D
        PROVE  (IF n = 0 THEN <<>> ELSE IF n \in S THEN Append(g[n - 1], f[n]) ELSE g[n - 1]) \in Seq(FileMessage)
    <3>1. CASE n = 0
      BY SMTT(60), <3>1
    <3>2. CASE n # 0
      <4>1. n \in 1..Len(f)
        BY SMTT(60), <1>1, <3>2
      <4>2. g[n - 1] \in Seq(FileMessage) /\ f[n] \in FileMessage
        BY <1>1, <4>1
      <4>3. Append(g[n - 1], f[n]) \in Seq(FileMessage)
        BY <4>2, AppendProperties
      <4> QED  BY <3>2, <4>2, <4>3
    <3> QED  BY <3>1, <3>2
  <2> QED  BY <2>1 DEF Taken
<1>3. 0 \in T
  <2> DEFINE g == [n \in D |-> <<>>]
  <2>1. g \in [D -> Seq(FileMessage)] /\ 0 \in D
    BY SMTT(60), <1>1
  <2>2. ASSUME NEW m \in D, m <= 0 PROVE g[m] = Taken(g, f, S)[m]
    <3>1. m = 0
      BY SMTT(60), <2>2
    <3> QED  BY <3>1 DEF Taken
  <2> HIDE DEF g
  <2> QED  BY <2>1, <2>2
<1>4. ASSUME NEW n \in 1..Len(f), n - 1 \in T PROVE n \in T
  <2>1. PICK g \in [D -> Seq(FileMessage)] : \A m \in D : m <= n - 1 => g[m] = Taken(g, f, S)[m]
    BY <1>4
  <2> DEFINE h == Taken(g, f, S)
  <2>2. h \in [D -> Seq(FileMessage)]
    BY <1>2
  <2>3. ASSUME NEW m \in D, m <= n PROVE h[m] = Taken(h, f, S)[m]
    <3>1. CASE m = 0
      BY <3>1 DEF Taken
    <3>2. CASE m # 0
      <4>1. m - 1 \in D /\ m - 1 <= n - 1
        BY SMTT(60), <1>1, <2>3, <3>2
      <4>2. g[m - 1] = h[m - 1]
        BY <2>1, <4>1
      <4> QED  BY <3>2, <4>2 DEF Taken
    <3> QED  BY <3>1, <3>2
  <2> HIDE DEF h
  <2>4. n \in D
    BY <1>1
  <2> QED  BY <2>2, <2>3, <2>4
<1> HIDE DEF T
<1>5. Len(f) \in T
  <2>1. Len(f) \in D
    BY SMTT(60), <1>1
  <2> QED  BY <1>1, <1>3, <1>4, <2>1, UpTo
<1>6. PICK g \in [D -> Seq(FileMessage)] : \A m \in D : m <= Len(f) => g[m] = Taken(g, f, S)[m]
  BY <1>5 DEF T
<1>7. \A m \in D : m <= Len(f)
  BY SMTT(60), <1>1
<1>8. \A m \in D : g[m] = Taken(g, f, S)[m]
  BY <1>6, <1>7
<1>9. g = [m \in D |-> g[m]] /\ Taken(g, f, S) = [m \in D |-> Taken(g, f, S)[m]]
  BY <1>2
<1> QED  BY <1>8, <1>9

\* u[n] are the items at those of the first n places of f that are in S.
Builds(u, f, S) ==
    /\ u[0] = <<>> /\ \A n \in 0..Len(f) : u[n] \in Seq(FileMessage)
    /\ \A n \in 1..Len(f) : u[n] = IF n \in S THEN Append(u[n - 1], f[n]) ELSE u[n - 1]

\* The items kept of the first n places, from those of the first n - 1.
LEMMA KeptFacts ==
    ASSUME NEW f \in Seq(FileMessage), NEW S
    PROVE  Builds(KeptUpTo(f, S), f, S)
<1> DEFINE u == KeptUpTo(f, S)
<1>1. PICK g \in [0..Len(f) -> Seq(FileMessage)] : g = Taken(g, f, S)
  BY KeptExists
<1>3. u = Taken(u, f, S)
  BY <1>1 DEF KeptUpTo
<1> HIDE DEF u
<1>4. Len(f) \in Nat /\ 0 \in 0..Len(f) /\ \A n \in 1..Len(f) : n \in 0..Len(f) /\ n # 0 /\ f[n] \in FileMessage
                                                                /\ n - 1 \in 0..Len(f)
  BY SMTT(60)
<1>5. u[0] = <<>>
  BY <1>3, <1>4 DEF Taken
<1>6. \A n \in 1..Len(f) : u[n] = IF n \in S THEN Append(u[n - 1], f[n]) ELSE u[n - 1]
  BY <1>3, <1>4 DEF Taken
<1> DEFINE T == {n \in 0..Len(f) : u[n] \in Seq(FileMessage)}
<1>7. 0 \in T
  <2>1. <<>> \in Seq(FileMessage)
    BY SMTT(60)
  <2> QED  BY <1>4, <1>5, <2>1
<1>8. ASSUME NEW n \in 1..Len(f), n - 1 \in T PROVE n \in T
  <2>1. u[n - 1] \in Seq(FileMessage)
    BY <1>8
  <2>2. Append(u[n - 1], f[n]) \in Seq(FileMessage)
    BY <1>4, <2>1, AppendProperties
  <2> QED  BY <1>4, <1>6, <2>1, <2>2
<1> HIDE DEF T
<1>9. \A n \in 0..Len(f) : n \in T
  BY <1>4, <1>7, <1>8, UpTo
<1>10. \A n \in 0..Len(f) : u[n] \in Seq(FileMessage)
  BY <1>9 DEF T
<1> QED  BY <1>5, <1>6, <1>10 DEF Builds, u

\* The first m places of f and g are the same, and so are those in S and in T.
Alike(f, g, S, T, m) ==
    m <= Len(f) /\ m <= Len(g) /\ \A i \in 1..m : f[i] = g[i] /\ (i \in S <=> i \in T)

\* What is kept of the first m places depends on those places only.
LEMMA KeptAgree ==
    ASSUME NEW f \in Seq(FileMessage), NEW g \in Seq(FileMessage), NEW S, NEW T, NEW m \in Nat,
           Alike(f, g, S, T, m)
    PROVE  KeptUpTo(f, S)[m] = KeptUpTo(g, T)[m]
<1>0. PICK u, v : u = KeptUpTo(f, S) /\ v = KeptUpTo(g, T)
  OBVIOUS
<1> DEFINE E == {n \in 0..m : u[n] = v[n]}
<1>1. /\ u[0] = <<>> /\ \A n \in 1..Len(f) : u[n] = IF n \in S THEN Append(u[n - 1], f[n]) ELSE u[n - 1]
      /\ v[0] = <<>> /\ \A n \in 1..Len(g) : v[n] = IF n \in T THEN Append(v[n - 1], g[n]) ELSE v[n - 1]
  <2>1. Builds(u, f, S) /\ Builds(v, g, T)
    BY <1>0, KeptFacts
  <2> QED  BY <2>1 DEF Builds
<1>2. 0 \in 0..m /\ m \in 0..m /\ \A n \in 1..m : n \in 1..Len(f) /\ n \in 1..Len(g) /\ n \in 0..m
  BY SMTT(60) DEF Alike
<1>3. 0 \in E
  BY <1>1, <1>2
<1>4. ASSUME NEW n \in 1..m, n - 1 \in E PROVE n \in E
  <2>1. u[n - 1] = v[n - 1] /\ f[n] = g[n] /\ (n \in S <=> n \in T)
    BY <1>4 DEF Alike
  <2>2. u[n] = v[n]
    BY <1>1, <1>2, <2>1
  <2> QED  BY <1>2, <2>2
<1> HIDE DEF E
<1>5. m \in E
  BY <1>2, <1>3, <1>4, UpTo
<1> QED  BY <1>0, <1>5 DEF E

\* A comprehension goes through the whole file.
LEMMA KeptIsAll ==
    ASSUME NEW f \in Seq(FileMessage), NEW S \in SUBSET Nat
    PROVE  Kept[f][S] = KeptUpTo(f, S)[Len(f)]
<1>1. Kept = [g \in Seq(FileMessage) |-> [T \in SUBSET Nat |-> KeptUpTo(g, T)[Len(g)]]]
  BY DEF Kept, KeptUpTo, Taken
<1> QED  BY <1>1

\* A comprehension is a sequence of the kept items.
LEMMA KeptType ==
    ASSUME NEW f \in Seq(FileMessage), NEW S \in SUBSET Nat
    PROVE  /\ Kept[f][S] \in Seq(FileMessage)
           /\ \A j \in 1..Len(Kept[f][S]) : \E i \in 1..Len(f) : i \in S /\ Kept[f][S][j] = f[i]
<1>0. PICK u : u = KeptUpTo(f, S)
  OBVIOUS
<1> DEFINE E == {n \in 0..Len(f) : \A j \in 1..Len(u[n]) : \E i \in 1..Len(f) : i \in S /\ u[n][j] = f[i]}
<1>1. /\ u[0] = <<>> /\ \A n \in 0..Len(f) : u[n] \in Seq(FileMessage)
      /\ \A n \in 1..Len(f) : u[n] = IF n \in S THEN Append(u[n - 1], f[n]) ELSE u[n - 1]
  <2>1. Builds(u, f, S)
    BY <1>0, KeptFacts
  <2> QED  BY <2>1 DEF Builds
<1>2. /\ Len(f) \in Nat /\ 0 \in 0..Len(f) /\ Len(f) \in 0..Len(f)
      /\ \A n \in 1..Len(f) : n \in 0..Len(f) /\ n - 1 \in 0..Len(f) /\ f[n] \in FileMessage
  BY SMTT(60)
<1>3. 0 \in E
  <2>1. Len(<<>>) = 0 /\ 1..0 = {}
    BY SMTT(60)
  <2> QED  BY <1>1, <1>2, <2>1
<1>4. ASSUME NEW n \in 1..Len(f), n - 1 \in E PROVE n \in E
  <2>1. PICK h : h = u[n - 1]
    OBVIOUS
  <2>2. h \in Seq(FileMessage) /\ \A j \in 1..Len(h) : \E i \in 1..Len(f) : i \in S /\ h[j] = f[i]
    BY <1>1, <1>2, <1>4, <2>1
  <2>3. CASE n \in S
    <3>1. u[n] = Append(h, f[n])
      BY <1>1, <2>1, <2>3
    <3>0. PICK e : e = f[n]
      OBVIOUS
    <3>2. Len(u[n]) = Len(h) + 1 /\ u[n][Len(h) + 1] = f[n] /\ \A j \in 1..Len(h) : u[n][j] = h[j]
      <4>1. e \in FileMessage /\ u[n] = Append(h, e)
        BY <1>2, <3>0, <3>1
      <4>2. h \in Seq(FileMessage)
        BY <2>2
      <4>3. /\ Len(Append(h, e)) = Len(h) + 1 /\ Append(h, e)[Len(h) + 1] = e
            /\ \A j \in 1..Len(h) : Append(h, e)[j] = h[j]
        BY <4>1, <4>2, AppendProperties
      <4> QED  BY <3>0, <4>1, <4>3
    <3>3. \A j \in 1..Len(h) + 1 : j \in 1..Len(h) \/ j = Len(h) + 1
      BY SMTT(60), <2>2
    <3> QED  BY <1>2, <2>2, <2>3, <3>2, <3>3
  <2>4. CASE n \notin S
    BY <1>1, <1>2, <2>1, <2>2, <2>4
  <2> QED  BY <2>3, <2>4
<1> HIDE DEF E
<1>5. Len(f) \in E
  BY <1>2, <1>3, <1>4, UpTo
<1>6. Kept[f][S] = u[Len(f)]
  BY <1>0, KeptIsAll
<1>7. u[Len(f)] \in Seq(FileMessage)
  BY <1>1, <1>2
<1>8. \A j \in 1..Len(u[Len(f)]) : \E i \in 1..Len(f) : i \in S /\ u[Len(f)][j] = f[i]
  BY <1>5 DEF E
<1> QED  BY <1>6, <1>7, <1>8

\* A message at the end goes to the end of its session.
LEMMA OfAppend ==
    ASSUME NEW f \in Seq(FileMessage), NEW m \in FileMessage, NEW s
    PROVE  Of(Append(f, m), s) = IF m.session = s THEN Append(Of(f, s), m) ELSE Of(f, s)
<1>1. PICK g : g = Append(f, m)
  OBVIOUS
<1>2. PICK n : n = Len(f) + 1
  OBVIOUS
<1>3. g \in Seq(FileMessage) /\ Len(g) = n /\ g[n] = m /\ \A i \in 1..Len(f) : g[i] = f[i]
  BY <1>1, <1>2, AppendProperties
<1>4. n \in 1..n /\ n - 1 = Len(f) /\ Len(f) \in Nat /\ Len(f) <= n /\ Len(f) <= Len(f) /\ \A i \in 1..Len(f) : i \in 1..n
  BY SMTT(60), <1>2
<1>5. PICK P, Q : P = PlacesOf(g, s) /\ Q = PlacesOf(f, s)
  OBVIOUS
<1>6. \A i \in 1..Len(f) : i \in P <=> i \in Q
  BY <1>3, <1>4, <1>5 DEF PlacesOf
<1>7. n \in P <=> m.session = s
  BY <1>3, <1>4, <1>5 DEF PlacesOf
<1>8. KeptUpTo(g, P)[Len(f)] = KeptUpTo(f, Q)[Len(f)]
  <2>1. PICK l : l = Len(f)
    OBVIOUS
  <2>2. \A i \in 1..l : g[i] = f[i] /\ (i \in P <=> i \in Q)
    BY <1>3, <1>6, <2>1
  <2>3. l \in Nat /\ l <= Len(f) /\ l <= Len(g) /\ g \in Seq(FileMessage)
    BY <1>3, <1>4, <2>1
  <2>4. KeptUpTo(g, P)[l] = KeptUpTo(f, Q)[l]
    <3>1. Alike(g, f, P, Q, l)
      BY <2>2, <2>3 DEF Alike
    <3> QED  BY SMTT(60), <2>3, <3>1, KeptAgree
  <2> QED  BY <2>1, <2>4
<1>9. KeptUpTo(g, P)[n] = IF n \in P THEN Append(KeptUpTo(g, P)[n - 1], g[n]) ELSE KeptUpTo(g, P)[n - 1]
  <2>1. PICK u : u = KeptUpTo(g, P)
    OBVIOUS
  <2>2. \A k \in 1..Len(g) : u[k] = IF k \in P THEN Append(u[k - 1], g[k]) ELSE u[k - 1]
    <3>1. Builds(u, g, P)
      BY <1>3, <2>1, KeptFacts
    <3> QED  BY <3>1 DEF Builds
  <2> QED  BY <1>3, <1>4, <2>1, <2>2
<1>10. Of(g, s) = KeptUpTo(g, P)[n] /\ Of(f, s) = KeptUpTo(f, Q)[Len(f)]
  <2>1. P \in SUBSET Nat /\ Q \in SUBSET Nat
    BY SMTT(60), <1>5 DEF PlacesOf
  <2> QED  BY <1>3, <1>5, <2>1, KeptIsAll DEF Of
<1> QED  BY <1>1, <1>3, <1>4, <1>7, <1>8, <1>9, <1>10

\* An empty file has no messages of a session.
LEMMA OfEmpty == \A s : Of(<<>>, s) = <<>>
<1> TAKE s
<1>1. <<>> \in Seq(FileMessage) /\ Len(<<>>) = 0
  BY SMTT(60)
<1>2. KeptUpTo(<<>>, PlacesOf(<<>>, s))[0] = <<>>
  <2>1. Builds(KeptUpTo(<<>>, PlacesOf(<<>>, s)), <<>>, PlacesOf(<<>>, s))
    BY <1>1, KeptFacts
  <2> QED  BY <2>1 DEF Builds
<1>3. PlacesOf(<<>>, s) \in SUBSET Nat
  BY SMTT(60) DEF PlacesOf
<1> QED  BY <1>1, <1>2, <1>3, KeptIsAll DEF Of

\* The messages of a session among the kept ones are the kept ones of the session.
LEMMA OfKept ==
    ASSUME NEW f \in Seq(FileMessage), NEW S \in SUBSET Nat, NEW s
    PROVE  Of(Kept[f][S], s) = Kept[f][S \cap PlacesOf(f, s)]
<1>0. PICK T, u, v : T = S \cap PlacesOf(f, s) /\ u = KeptUpTo(f, S) /\ v = KeptUpTo(f, T)
  OBVIOUS
<1> DEFINE E == {n \in 0..Len(f) : Of(u[n], s) = v[n]}
<1>1. /\ u[0] = <<>> /\ \A n \in 0..Len(f) : u[n] \in Seq(FileMessage)
      /\ \A n \in 1..Len(f) : u[n] = IF n \in S THEN Append(u[n - 1], f[n]) ELSE u[n - 1]
  <2>1. Builds(u, f, S)
    BY <1>0, KeptFacts
  <2> QED  BY <2>1 DEF Builds
<1>2. v[0] = <<>> /\ \A n \in 1..Len(f) : v[n] = IF n \in T THEN Append(v[n - 1], f[n]) ELSE v[n - 1]
  <2>1. Builds(v, f, T)
    BY <1>0, KeptFacts
  <2> QED  BY <2>1 DEF Builds
<1>3. \A n \in 1..Len(f) : n \in T <=> n \in S /\ f[n].session = s
  BY <1>0 DEF PlacesOf
<1>4. /\ Len(f) \in Nat /\ 0 \in 0..Len(f) /\ Len(f) \in 0..Len(f)
      /\ \A n \in 1..Len(f) : n \in 0..Len(f) /\ n - 1 \in 0..Len(f) /\ f[n] \in FileMessage
  BY SMTT(60)
<1>5. 0 \in E
  BY <1>1, <1>2, <1>4, OfEmpty
<1>6. ASSUME NEW n \in 1..Len(f), n - 1 \in E PROVE n \in E
  <2>1. u[n - 1] \in Seq(FileMessage) /\ Of(u[n - 1], s) = v[n - 1]
    BY <1>1, <1>4, <1>6
  <2>2. Of(Append(u[n - 1], f[n]), s) = IF f[n].session = s THEN Append(v[n - 1], f[n]) ELSE v[n - 1]
    <3>1. PICK e, h : e = f[n] /\ h = u[n - 1]
      OBVIOUS
    <3>2. e \in FileMessage /\ h \in Seq(FileMessage)
      BY <1>4, <2>1, <3>1
    <3>3. Of(Append(h, e), s) = IF e.session = s THEN Append(Of(h, s), e) ELSE Of(h, s)
      BY <3>2, OfAppend
    <3> QED  BY <2>1, <3>1, <3>3
  <2>3. Of(u[n], s) = v[n]
    BY <1>1, <1>2, <1>3, <2>1, <2>2
  <2> QED  BY <1>4, <2>3
<1> HIDE DEF E
<1>7. Len(f) \in E
  BY <1>4, <1>5, <1>6, UpTo
<1>8. T \in SUBSET Nat
  BY <1>0
<1> QED  BY <1>0, <1>7, <1>8, KeptIsAll DEF E

\* The last part of a sequence that grows at the end grows there too.
LEMMA LastGrows ==
    ASSUME NEW h \in Seq(FileMessage), NEW e \in FileMessage, NEW d \in Nat, d <= Len(h)
    PROVE  SubSeq(Append(h, e), d + 1, Len(h) + 1) = Append(SubSeq(h, d + 1, Len(h)), e)
<1>1. PICK g : g = Append(h, e)
  OBVIOUS
<1>2. PICK l : l = Len(h)
  OBVIOUS
<1>3. g \in Seq(FileMessage) /\ Len(g) = l + 1 /\ g[l + 1] = e /\ \A i \in 1..l : g[i] = h[i]
  BY <1>1, <1>2, AppendProperties
<1>4. PICK a : a = SubSeq(g, d + 1, l + 1)
  OBVIOUS
<1>5. PICK b : b = SubSeq(h, d + 1, l)
  OBVIOUS
<1>6. l \in Nat /\ d <= l
  BY SMTT(60), <1>2
<1>7. a \in Seq(FileMessage) /\ Len(a) = l + 1 - d /\ \A i \in 1..l + 1 - d : a[i] = g[d + i]
  BY SMTT(60), <1>3, <1>4, <1>6
<1>8. b \in Seq(FileMessage) /\ Len(b) = l - d /\ \A i \in 1..l - d : b[i] = h[d + i]
  BY SMTT(60), <1>2, <1>5, <1>6
<1>9. PICK c : c = Append(b, e)
  OBVIOUS
<1>10. c \in Seq(FileMessage) /\ Len(c) = Len(b) + 1 /\ c[Len(b) + 1] = e /\ \A i \in 1..Len(b) : c[i] = b[i]
  <2>1. b \in Seq(FileMessage)
    BY <1>8
  <2> QED  BY <1>9, <2>1, AppendProperties
<1>11. Len(c) = Len(a)
  BY SMTT(60), <1>6, <1>7, <1>8, <1>10
<1>12. ASSUME NEW i \in 1..Len(a) PROVE a[i] = c[i]
  <2>1. CASE i = l + 1 - d
    <3>1. d + i = l + 1 /\ i = Len(b) + 1 /\ i \in 1..l + 1 - d
      BY SMTT(60), <1>6, <1>7, <1>8, <2>1
    <3> QED  BY <1>3, <1>7, <1>10, <3>1
  <2>2. CASE i # l + 1 - d
    <3>1. i \in 1..l - d /\ d + i \in 1..l /\ i \in 1..l + 1 - d /\ i \in 1..Len(b)
      BY SMTT(60), <1>6, <1>7, <1>8, <2>2
    <3> QED  BY <1>3, <1>7, <1>8, <1>10, <3>1
  <2> QED  BY <2>1, <2>2
<1>13. a = c
  BY <1>7, <1>10, <1>11, <1>12, SeqEqual
<1> QED  BY <1>1, <1>2, <1>4, <1>5, <1>9, <1>13

\* Leaving out what is among the first d of the kept items leaves the rest of them.
LEMMA KeptRest ==
    ASSUME NEW f \in Seq(FileMessage), NEW S \in SUBSET Nat, NEW T \in SUBSET Nat, NEW d \in Nat,
           \A n \in 1..Len(f) : n \in T <=> n \in S /\ Len(KeptUpTo(f, S)[n]) > d
    PROVE  Kept[f][T] = SubSeq(Kept[f][S], d + 1, Len(Kept[f][S]))
<1>0. PICK u, v : u = KeptUpTo(f, S) /\ v = KeptUpTo(f, T)
  OBVIOUS
<1> DEFINE E == {n \in 0..Len(f) : v[n] = SubSeq(u[n], d + 1, Len(u[n]))}
<1>1. /\ u[0] = <<>> /\ \A n \in 0..Len(f) : u[n] \in Seq(FileMessage)
      /\ \A n \in 1..Len(f) : u[n] = IF n \in S THEN Append(u[n - 1], f[n]) ELSE u[n - 1]
  <2>1. Builds(u, f, S)
    BY <1>0, KeptFacts
  <2> QED  BY <2>1 DEF Builds
<1>2. v[0] = <<>> /\ \A n \in 1..Len(f) : v[n] = IF n \in T THEN Append(v[n - 1], f[n]) ELSE v[n - 1]
  <2>1. Builds(v, f, T)
    BY <1>0, KeptFacts
  <2> QED  BY <2>1 DEF Builds
<1>3. \A n \in 1..Len(f) : n \in T <=> n \in S /\ Len(u[n]) > d
  BY <1>0
<1>4. /\ Len(f) \in Nat /\ 0 \in 0..Len(f) /\ Len(f) \in 0..Len(f)
      /\ \A n \in 1..Len(f) : n \in 0..Len(f) /\ n - 1 \in 0..Len(f) /\ f[n] \in FileMessage
  BY SMTT(60)
<1>5. 0 \in E
  <2>1. SubSeq(<<>>, d + 1, Len(<<>>)) = <<>>
    BY SMTT(60)
  <2> QED  BY <1>1, <1>2, <1>4, <2>1
<1>6. ASSUME NEW n \in 1..Len(f), n - 1 \in E PROVE n \in E
  <2>1. PICK h, e : h = u[n - 1] /\ e = f[n]
    OBVIOUS
  <2>2. h \in Seq(FileMessage) /\ e \in FileMessage /\ v[n - 1] = SubSeq(h, d + 1, Len(h))
    BY <1>1, <1>4, <1>6, <2>1
  <2>3. CASE n \notin S
    BY <1>1, <1>2, <1>3, <1>4, <2>1, <2>2, <2>3
  <2>4. CASE n \in S
    <3>1. u[n] = Append(h, e) /\ Len(u[n]) = Len(h) + 1
      <4>1. Len(Append(h, e)) = Len(h) + 1
        BY <2>2, AppendProperties
      <4> QED  BY <1>1, <2>1, <2>4, <4>1
    <3>2. CASE Len(u[n]) > d
      <4>1. d <= Len(h)
        BY SMTT(60), <2>2, <3>1, <3>2
      <4>2. v[n] = Append(SubSeq(h, d + 1, Len(h)), e)
        BY <1>2, <1>3, <2>1, <2>2, <2>4, <3>2
      <4>3. SubSeq(Append(h, e), d + 1, Len(h) + 1) = Append(SubSeq(h, d + 1, Len(h)), e)
        BY <2>2, <4>1, LastGrows
      <4> QED  BY <1>4, <3>1, <4>2, <4>3
    <3>3. CASE ~(Len(u[n]) > d)
      <4>1. SubSeq(h, d + 1, Len(h)) = <<>> /\ SubSeq(u[n], d + 1, Len(u[n])) = <<>>
        <5>1. Len(h) < d + 1 /\ Len(u[n]) < d + 1 /\ Len(h) \in Int /\ Len(u[n]) \in Int /\ d + 1 \in Int
          BY SMTT(60), <2>2, <3>1, <3>3
        <5> QED  BY <5>1, SubSeqEmpty
      <4>2. v[n] = v[n - 1]
        BY <1>2, <1>3, <3>3
      <4> QED  BY <1>4, <2>2, <4>1, <4>2
    <3> QED  BY <3>2, <3>3
  <2> QED  BY <2>3, <2>4
<1> HIDE DEF E
<1>7. Len(f) \in E
  BY <1>4, <1>5, <1>6, UpTo
<1>8. Kept[f][S] = u[Len(f)] /\ Kept[f][T] = v[Len(f)]
  BY <1>0, KeptIsAll
<1> QED  BY <1>7, <1>8 DEF E

\* As many items are kept of the first n places as there are of these places.
LEMMA KeptCount ==
    ASSUME NEW f \in Seq(FileMessage), NEW S \in SUBSET Nat
    PROVE  \A n \in 0..Len(f) : /\ IsFiniteSet(S \cap 1..n)
                                /\ Len(KeptUpTo(f, S)[n]) = Cardinality(S \cap 1..n)
<1>0. PICK u : u = KeptUpTo(f, S)
  OBVIOUS
<1> DEFINE E == {n \in 0..Len(f) : IsFiniteSet(S \cap 1..n) /\ Len(u[n]) = Cardinality(S \cap 1..n)}
<1>1. /\ u[0] = <<>> /\ \A n \in 0..Len(f) : u[n] \in Seq(FileMessage)
      /\ \A n \in 1..Len(f) : u[n] = IF n \in S THEN Append(u[n - 1], f[n]) ELSE u[n - 1]
  <2>1. Builds(u, f, S)
    BY <1>0, KeptFacts
  <2> QED  BY <2>1 DEF Builds
<1>2. /\ Len(f) \in Nat /\ 0 \in 0..Len(f)
      /\ \A n \in 1..Len(f) : n \in 0..Len(f) /\ n - 1 \in 0..Len(f) /\ f[n] \in FileMessage
  BY SMTT(60)
<1>3. 0 \in E
  <2>1. S \cap 1..0 = {} /\ Len(<<>>) = 0
    BY SMTT(60)
  <2> QED  BY <1>1, <1>2, <2>1, FS_EmptySet
<1>4. ASSUME NEW n \in 1..Len(f), n - 1 \in E PROVE n \in E
  <2>1. PICK C, D, h, e : C = S \cap 1..n - 1 /\ D = S \cap 1..n /\ h = u[n - 1] /\ e = f[n]
    OBVIOUS
  <2>2. IsFiniteSet(C) /\ Len(h) = Cardinality(C) /\ h \in Seq(FileMessage) /\ e \in FileMessage
    BY <1>1, <1>2, <1>4, <2>1
  <2>3. CASE n \in S
    <3>1. D = C \cup {n} /\ n \notin C
      BY SMTT(60), <2>1, <2>3
    <3>2. IsFiniteSet(D) /\ Cardinality(D) = Cardinality(C) + 1
      BY <2>2, <3>1, FS_AddElement
    <3>3. Len(Append(h, e)) = Len(h) + 1
      BY <2>2, AppendProperties
    <3>4. Len(u[n]) = Cardinality(D)
      BY <1>1, <2>1, <2>2, <2>3, <3>2, <3>3
    <3> QED  BY <1>2, <2>1, <3>2, <3>4
  <2>4. CASE n \notin S
    <3>1. D = C
      BY SMTT(60), <2>1, <2>4
    <3> QED  BY <1>1, <1>2, <2>1, <2>2, <2>4, <3>1
  <2> QED  BY <2>3, <2>4
<1> HIDE DEF E
<1>5. \A n \in 0..Len(f) : n \in E
  BY <1>2, <1>3, <1>4, UpTo
<1> QED  BY <1>0, <1>5 DEF E

\* Of a trimmed file the session has its last messages, and the others have all of theirs
\* (append_exchange).
LEMMA TrimmedFacts ==
    ASSUME NEW f \in Seq(FileMessage), NEW s \in FileSession
    PROVE  /\ Trimmed[f][s] \in Seq(FileMessage)
           /\ \A j \in 1..Len(Trimmed[f][s]) : \E i \in 1..Len(f) : Trimmed[f][s][j] = f[i]
           /\ Of(Trimmed[f][s], s) = Log!Last(Of(f, s), FileLimit)
           /\ \A t : t # s => Of(Trimmed[f][s], t) = Of(f, t)
<1>1. PICK N : N = Len(f)
  OBVIOUS
<1>2. PICK M : M = PlacesOf(f, s)
  OBVIOUS
<1>3. PICK P : P = {i \in 1..Len(f) : f[i].session = s =>
                       Cardinality({j \in i..Len(f) : f[j].session = s}) <= FileLimit}
  OBVIOUS
<1>4. Trimmed[f][s] = Kept[f][P]
  BY <1>3 DEF Trimmed
<1>5. N \in Nat /\ P \in SUBSET Nat /\ M \in SUBSET Nat /\ FileLimit \in Nat
  BY SMTT(60), <1>1, <1>2, <1>3, FileHistory DEF PlacesOf
<1>6. \A i \in 1..N : i \in M <=> f[i].session = s
  BY <1>1, <1>2 DEF PlacesOf
<1>7. PICK u : u = KeptUpTo(f, M)
  OBVIOUS
<1>8. PICK h : h = Of(f, s)
  OBVIOUS
<1>9. h = Kept[f][M] /\ h = u[N] /\ h \in Seq(FileMessage)
  <2>1. h = Kept[f][M]
    BY <1>2, <1>8 DEF Of
  <2>2. Kept[f][M] = u[N]
    BY <1>1, <1>5, <1>7, KeptIsAll
  <2>3. Kept[f][M] \in Seq(FileMessage)
    BY <1>5, KeptType
  <2> QED  BY <2>1, <2>2, <2>3
<1>10. PICK d : d = IF Len(h) > FileLimit THEN Len(h) - FileLimit ELSE 0
  OBVIOUS
<1>11. Len(h) \in Nat /\ d \in Nat
  BY SMTT(60), <1>5, <1>9, <1>10
<1>12. ASSUME NEW n \in 1..Len(f) PROVE n \in P \cap M <=> n \in M /\ Len(u[n]) > d
  <2>1. n \in 1..N /\ n \in 0..N /\ n - 1 \in 0..N /\ N \in 0..N
    BY SMTT(60), <1>1, <1>5
  <2>2. PICK A, B, C : A = M \cap 1..n - 1 /\ B = M \cap 1..N /\ C = {j \in n..Len(f) : f[j].session = s}
    OBVIOUS
  <2>3. IsFiniteSet(A) /\ IsFiniteSet(B) /\ Len(u[n - 1]) = Cardinality(A) /\ Len(h) = Cardinality(B)
    <3>1. \A m \in 0..Len(f) : IsFiniteSet(M \cap 1..m) /\ Len(KeptUpTo(f, M)[m]) = Cardinality(M \cap 1..m)
      BY <1>5, KeptCount
    <3>2. \A m \in 0..N : IsFiniteSet(M \cap 1..m) /\ Len(u[m]) = Cardinality(M \cap 1..m)
      BY <1>1, <1>7, <3>1
    <3> QED  BY <1>9, <2>1, <2>2, <3>2
  <2>4. \A j \in n..N : j \in 1..N
    BY SMTT(60), <2>1
  <2>5. C = M \cap n..N
    BY <1>1, <1>6, <2>2, <2>4
  <2>6. B = A \cup C /\ A \cap C = {} /\ C \in SUBSET B
    BY SMTT(60), <1>5, <2>1, <2>2, <2>5
  <2>7. IsFiniteSet(C) /\ Cardinality(A) \in Nat /\ Cardinality(C) \in Nat
    BY <2>3, <2>6, FS_Subset, FS_CardinalityType
  <2>8. Cardinality(B) = Cardinality(A) + Cardinality(C)
    <3>1. Cardinality(A \cup C) = Cardinality(A) + Cardinality(C) - Cardinality({})
      BY <2>3, <2>6, <2>7, FS_Union
    <3>2. Cardinality({}) = 0
      BY FS_EmptySet
    <3> QED  BY SMTT(60), <2>6, <2>7, <3>1, <3>2
  <2>9. CASE n \in M
    <3>1. u[n] = Append(u[n - 1], f[n]) /\ u[n - 1] \in Seq(FileMessage)
      <4>1. Builds(u, f, M)
        BY <1>7, KeptFacts
      <4> QED  BY <1>1, <2>1, <2>9, <4>1 DEF Builds
    <3>2. Len(u[n]) = Len(u[n - 1]) + 1
      <4>1. PICK g, e : g = u[n - 1] /\ e = f[n]
        OBVIOUS
      <4>2. g \in Seq(FileMessage) /\ e \in FileMessage
        BY SMTT(60), <3>1, <4>1
      <4>3. Len(Append(g, e)) = Len(g) + 1
        BY <4>2, AppendProperties
      <4> QED  BY <3>1, <4>1, <4>3
    <3>3. n \in P <=> Cardinality(C) <= FileLimit
      BY <1>1, <1>3, <1>6, <2>1, <2>2, <2>9
    <3>4. PICK a, c, l, k : a = Cardinality(A) /\ c = Cardinality(C) /\ l = Len(h) /\ k = Len(u[n])
      OBVIOUS
    <3>5. a \in Nat /\ c \in Nat /\ l = a + c /\ k = a + 1 /\ d = IF l > FileLimit THEN l - FileLimit ELSE 0
      BY <1>10, <2>3, <2>7, <2>8, <3>2, <3>4
    <3>6. c <= FileLimit <=> k > d
      BY SMTT(60), <1>5, <3>5
    <3> QED  BY <2>9, <3>3, <3>4, <3>6
  <2> QED  BY <2>9
<1>13. Kept[f][P \cap M] = SubSeq(h, d + 1, Len(h))
  <2>1. PICK T : T = P \cap M
    OBVIOUS
  <2>2. T \in SUBSET Nat
    BY <1>5, <2>1
  <2>3. \A n \in 1..Len(f) : n \in T <=> n \in M /\ Len(KeptUpTo(f, M)[n]) > d
    BY <1>7, <1>12, <2>1
  <2>4. Kept[f][T] = SubSeq(Kept[f][M], d + 1, Len(Kept[f][M]))
    BY <1>5, <1>11, <2>2, <2>3, KeptRest
  <2> QED  BY <1>9, <2>1, <2>4
<1>14. SubSeq(h, d + 1, Len(h)) = Log!Last(h, FileLimit)
  <2>1. d + 1 = IF Len(h) > FileLimit THEN Len(h) - FileLimit + 1 ELSE 1
    BY SMTT(60), <1>5, <1>10, <1>11
  <2> QED  BY <2>1 DEF Log!Last
<1>15. Of(Kept[f][P], s) = Kept[f][P \cap M]
  BY <1>2, <1>5, OfKept
<1>16. ASSUME NEW t, t # s PROVE Of(Kept[f][P], t) = Of(f, t)
  <2>1. P \cap PlacesOf(f, t) = PlacesOf(f, t)
    BY <1>3, <1>16 DEF PlacesOf
  <2>2. Of(Kept[f][P], t) = Kept[f][P \cap PlacesOf(f, t)]
    BY <1>5, OfKept
  <2> QED  BY <2>1, <2>2 DEF Of
<1>17. /\ Kept[f][P] \in Seq(FileMessage)
       /\ \A j \in 1..Len(Kept[f][P]) : \E i \in 1..Len(f) : i \in P /\ Kept[f][P][j] = f[i]
  BY <1>5, KeptType
<1> QED  BY <1>4, <1>8, <1>13, <1>14, <1>15, <1>16, <1>17

\* Of the remaining file the cleared sessions have nothing, and the others have all of theirs
\* (clear_session, clear_all).
LEMMA RemainingFacts ==
    ASSUME NEW f \in Seq(FileMessage), NEW S
    PROVE  /\ Remaining(f, S) \in Seq(FileMessage)
           /\ \A j \in 1..Len(Remaining(f, S)) : \E i \in 1..Len(f) : Remaining(f, S)[j] = f[i]
           /\ \A t : Of(Remaining(f, S), t) = IF t \in S THEN <<>> ELSE Of(f, t)
<1>1. PICK P : P = {i \in 1..Len(f) : f[i].session \notin S}
  OBVIOUS
<1>2. Remaining(f, S) = Kept[f][P]
  BY <1>1 DEF Remaining
<1>3. P \in SUBSET Nat
  BY SMTT(60), <1>1
<1>4. /\ Kept[f][P] \in Seq(FileMessage)
      /\ \A j \in 1..Len(Kept[f][P]) : \E i \in 1..Len(f) : i \in P /\ Kept[f][P][j] = f[i]
  BY <1>3, KeptType
<1>5. ASSUME NEW t PROVE Of(Kept[f][P], t) = IF t \in S THEN <<>> ELSE Of(f, t)
  <2>1. Of(Kept[f][P], t) = Kept[f][P \cap PlacesOf(f, t)]
    BY <1>3, OfKept
  <2>2. CASE t \in S
    <3>1. P \cap PlacesOf(f, t) = {}
      BY <1>1, <2>2 DEF PlacesOf
    <3>2. PICK e, k : e = {} /\ k = Kept[f][e]
      OBVIOUS
    <3>3. e \in SUBSET Nat
      BY <3>2
    <3>4. k \in Seq(FileMessage) /\ \A j \in 1..Len(k) : \E i \in 1..Len(f) : i \in e /\ k[j] = f[i]
      <4>1. /\ Kept[f][e] \in Seq(FileMessage)
            /\ \A j \in 1..Len(Kept[f][e]) : \E i \in 1..Len(f) : i \in e /\ Kept[f][e][j] = f[i]
        BY <3>3, KeptType
      <4> QED  BY <3>2, <4>1
    <3>5. \A j \in 1..Len(k) : FALSE
      BY <3>2, <3>4
    <3>6. k = <<>>
      BY SMTT(60), <3>4, <3>5
    <3> QED  BY <2>1, <2>2, <3>1, <3>2, <3>6
  <2>3. CASE t \notin S
    <3>1. P \cap PlacesOf(f, t) = PlacesOf(f, t)
      BY <1>1, <2>3 DEF PlacesOf
    <3> QED  BY <2>1, <2>3, <3>1 DEF Of
  <2> QED  BY <2>2, <2>3
<1> QED  BY <1>2, <1>4, <1>5

Question(s, x) == [session |-> s, of |-> x, role |-> "user"]
Answer(s, x) == [session |-> s, of |-> x, role |-> "assistant"]

\* An exchange is two messages of its session.
LEMMA ExchangeFacts ==
    ASSUME NEW s \in FileSession, NEW x \in FileCall
    PROVE  /\ Question(s, x) \in FileMessage /\ Answer(s, x) \in FileMessage
           /\ Question(s, x).session = s /\ Answer(s, x).session = s
           /\ Question(s, x).of = x /\ Answer(s, x).of = x
           /\ Question(s, x).role = "user" /\ Answer(s, x).role = "assistant"
           /\ In(s, Log!Pair(x)) = <<Question(s, x), Answer(s, x)>>
<1>1. PICK p : p = In(s, Log!Pair(x))
  OBVIOUS
<1>2. p = [i \in 1..2 |-> IF i = 1 THEN Question(s, x) ELSE Answer(s, x)]
  <2>1. PICK q : q = Log!Pair(x)
    OBVIOUS
  <2>2. Len(q) = 2 /\ q[1].of = x /\ q[1].role = "user" /\ q[2].of = x /\ q[2].role = "assistant"
    BY SMTT(60), <2>1 DEF Log!Pair
  <2>3. p = [i \in 1..Len(q) |-> [session |-> s, of |-> q[i].of, role |-> q[i].role]]
    BY <1>1, <2>1 DEF In
  <2>4. \A i \in 1..2 : i = 1 \/ i = 2
    BY SMTT(60)
  <2>5. \A i \in 1..2 : [session |-> s, of |-> q[i].of, role |-> q[i].role]
                        = IF i = 1 THEN Question(s, x) ELSE Answer(s, x)
    BY <2>2, <2>4 DEF Question, Answer
  <2> QED  BY <2>2, <2>3, <2>5
<1>3. Question(s, x) \in FileMessage /\ Answer(s, x) \in FileMessage
  BY SMTT(60) DEF Question, Answer, FileMessage
<1>4. p = <<Question(s, x), Answer(s, x)>>
  <2>1. PICK a, b : a = Question(s, x) /\ b = Answer(s, x)
    OBVIOUS
  <2>2. p = [i \in 1..2 |-> IF i = 1 THEN a ELSE b]
    BY <1>2, <2>1
  <2>3. p = <<a, b>>
    BY SMTT(60), <2>2
  <2> QED  BY <2>1, <2>3
<1> QED  BY SMTT(60), <1>1, <1>3, <1>4 DEF Question, Answer

\* Two messages at the end are one after the other.
LEMMA JoinTwo ==
    ASSUME NEW h \in Seq(FileMessage), NEW a \in FileMessage, NEW b \in FileMessage
    PROVE  h \o <<a, b>> = Append(Append(h, a), b) /\ Append(Append(h, a), b) \in Seq(FileMessage)
<1>1. PICK g : g = h \o <<a, b>>
  OBVIOUS
<1>2. PICK k : k = Append(Append(h, a), b)
  OBVIOUS
<1>3. Len(h) \in Nat /\ <<a, b>> \in Seq(FileMessage) /\ Len(<<a, b>>) = 2
  BY SMTT(60)
<1>4. /\ g \in Seq(FileMessage) /\ Len(g) = Len(h) + 2
      /\ \A i \in 1..Len(h) + 2 : g[i] = IF i <= Len(h) THEN h[i] ELSE <<a, b>>[i - Len(h)]
  BY SMTT(60), <1>1, <1>3
<1>5. /\ k \in Seq(FileMessage) /\ Len(k) = Len(h) + 2
      /\ \A i \in 1..Len(h) + 2 : k[i] = IF i <= Len(h) THEN h[i] ELSE <<a, b>>[i - Len(h)]
  BY SMTT(60), <1>2, <1>3
<1>6. Len(g) = Len(k) /\ \A i \in 1..Len(g) : g[i] = k[i]
  BY <1>4, <1>5
<1>7. g = k
  BY <1>4, <1>5, <1>6, SeqEqual
<1> QED  BY <1>1, <1>2, <1>5, <1>7

\* The appended exchange goes to the end of its session (append_exchange).
LEMMA AppendedFacts ==
    ASSUME NEW f \in Seq(FileMessage), NEW s \in FileSession, NEW x \in FileCall
    PROVE  LET new == AppendedFile(f, s, x)
           IN  /\ new \in Seq(FileMessage)
               /\ \A j \in 1..Len(new) : new[j].of = x \/ \E i \in 1..Len(f) : new[j] = f[i]
               /\ Of(new, s) = Log!Last(Of(f, s) \o <<Question(s, x), Answer(s, x)>>, FileLimit)
               /\ \A t : t # s => Of(new, t) = Of(f, t)
<1>1. PICK a, b : a = Question(s, x) /\ b = Answer(s, x)
  OBVIOUS
<1>2. /\ a \in FileMessage /\ b \in FileMessage /\ a.session = s /\ b.session = s /\ a.of = x /\ b.of = x
      /\ In(s, Log!Pair(x)) = <<a, b>>
  BY <1>1, ExchangeFacts
<1>3. PICK g, e : g = Append(f, a) /\ e = Append(g, b)
  OBVIOUS
<1>4. g \in Seq(FileMessage) /\ Len(g) = Len(f) + 1 /\ g[Len(f) + 1] = a /\ \A i \in 1..Len(f) : g[i] = f[i]
  BY <1>2, <1>3, AppendProperties
<1>5. e \in Seq(FileMessage) /\ Len(e) = Len(g) + 1 /\ e[Len(g) + 1] = b /\ \A i \in 1..Len(g) : e[i] = g[i]
  <2>1. g \in Seq(FileMessage) /\ b \in FileMessage
    BY <1>2, <1>4
  <2>2. /\ Append(g, b) \in Seq(FileMessage) /\ Len(Append(g, b)) = Len(g) + 1
        /\ Append(g, b)[Len(g) + 1] = b /\ \A i \in 1..Len(g) : Append(g, b)[i] = g[i]
    BY SMTT(60), <2>1, AppendProperties
  <2> QED  BY <1>3, <2>2
<1>6. f \o In(s, Log!Pair(x)) = e
  <2>1. f \o <<a, b>> = Append(Append(f, a), b)
    BY <1>2, JoinTwo
  <2> QED  BY <1>2, <1>3, <2>1
<1>7. AppendedFile(f, s, x) = Trimmed[e][s]
  BY <1>6 DEF AppendedFile
<1>8. PICK new : new = Trimmed[e][s]
  OBVIOUS
<1>9. /\ new \in Seq(FileMessage)
      /\ \A j \in 1..Len(new) : \E i \in 1..Len(e) : new[j] = e[i]
      /\ Of(new, s) = Log!Last(Of(e, s), FileLimit)
      /\ \A t : t # s => Of(new, t) = Of(e, t)
  <2>1. e \in Seq(FileMessage)
    BY <1>5
  <2>2. /\ Trimmed[e][s] \in Seq(FileMessage)
        /\ \A j \in 1..Len(Trimmed[e][s]) : \E i \in 1..Len(e) : Trimmed[e][s][j] = e[i]
        /\ Of(Trimmed[e][s], s) = Log!Last(Of(e, s), FileLimit)
        /\ \A t : t # s => Of(Trimmed[e][s], t) = Of(e, t)
    BY <2>1, TrimmedFacts
  <2> QED  BY <1>8, <2>2
<1>10. \A i \in 1..Len(e) : e[i].of = x \/ \E j \in 1..Len(f) : e[i] = f[j]
  <2>1. Len(f) \in Nat
    BY SMTT(60)
  <2>2. \A i \in 1..Len(e) : \/ i \in 1..Len(f) /\ i \in 1..Len(g)
                             \/ i = Len(f) + 1 /\ i \in 1..Len(g)
                             \/ i = Len(g) + 1
    BY SMTT(60), <1>4, <1>5, <2>1
  <2> QED  BY <1>2, <1>4, <1>5, <2>2
<1>11. \A j \in 1..Len(new) : new[j].of = x \/ \E i \in 1..Len(f) : new[j] = f[i]
  BY <1>9, <1>10
<1>12. ASSUME NEW t, t # s PROVE Of(e, t) = Of(f, t)
  <2>1. Of(g, t) = Of(f, t)
    <3>1. Of(Append(f, a), t) = IF a.session = t THEN Append(Of(f, t), a) ELSE Of(f, t)
      BY <1>2, OfAppend
    <3> QED  BY <1>2, <1>3, <1>12, <3>1
  <2>2. Of(e, t) = Of(g, t)
    <3>1. g \in Seq(FileMessage) /\ b \in FileMessage
      BY <1>2, <1>4
    <3>2. Of(Append(g, b), t) = IF b.session = t THEN Append(Of(g, t), b) ELSE Of(g, t)
      BY <3>1, OfAppend
    <3> QED  BY <1>2, <1>3, <1>12, <3>2
  <2> QED  BY <2>1, <2>2
<1>13. Of(e, s) = Of(f, s) \o <<a, b>>
  <2>1. Of(g, s) = Append(Of(f, s), a)
    <3>1. Of(Append(f, a), s) = IF a.session = s THEN Append(Of(f, s), a) ELSE Of(f, s)
      BY <1>2, OfAppend
    <3> QED  BY <1>2, <1>3, <3>1
  <2>2. Of(e, s) = Append(Of(g, s), b)
    <3>1. g \in Seq(FileMessage) /\ b \in FileMessage
      BY <1>2, <1>4
    <3>2. Of(Append(g, b), s) = IF b.session = s THEN Append(Of(g, s), b) ELSE Of(g, s)
      BY <3>1, OfAppend
    <3> QED  BY <1>2, <1>3, <3>2
  <2>3. PICK h : h = Of(f, s)
    OBVIOUS
  <2>4. h \in Seq(FileMessage)
    <3>1. PlacesOf(f, s) \in SUBSET Nat
      BY SMTT(60) DEF PlacesOf
    <3>2. Kept[f][PlacesOf(f, s)] \in Seq(FileMessage)
      BY <3>1, KeptType
    <3> QED  BY <2>3, <3>2 DEF Of
  <2>5. h \o <<a, b>> = Append(Append(h, a), b)
    BY <1>2, <2>4, JoinTwo
  <2> QED  BY <2>1, <2>2, <2>3, <2>5
<1> QED  BY <1>1, <1>7, <1>8, <1>9, <1>11, <1>12, <1>13

\* g is h without its first d items, so many that at most n are left.
Suffix(g, h, n, d) ==
    /\ d <= Len(h) /\ Len(g) = Len(h) - d /\ \A i \in 1..Len(h) - d : g[i] = h[i + d]
    /\ d = IF Len(h) > n THEN Len(h) - n ELSE 0

\* The last n of a sequence are its items from some place on (the slice [-n:]).
LEMMA LastFacts ==
    ASSUME NEW M, NEW h \in Seq(M), NEW n \in Nat
    PROVE  Log!Last(h, n) \in Seq(M) /\ \E d \in Nat : Suffix(Log!Last(h, n), h, n, d)
<1>1. PICK d : d = IF Len(h) > n THEN Len(h) - n ELSE 0
  OBVIOUS
<1>2. /\ Len(h) \in Nat /\ d \in Nat /\ d <= Len(h)
      /\ (IF Len(h) > n THEN Len(h) - n + 1 ELSE 1) = d + 1
  BY SMTT(60), <1>1
<1>3. Log!Last(h, n) = SubSeq(h, d + 1, Len(h))
  BY <1>2 DEF Log!Last
<1>4. Log!Last(h, n) \in Seq(M) /\ Len(Log!Last(h, n)) = Len(h) - d
  BY SMTT(60), <1>2, <1>3
<1>5. \A i \in 1..Len(h) - d : Log!Last(h, n)[i] = h[i + d]
  BY SMTT(60), <1>2, <1>3
<1> QED  BY <1>1, <1>2, <1>4, <1>5 DEF Suffix

\* Without their session, the messages of a session are messages of the log.
LEMMA BareFacts ==
    ASSUME NEW h \in Seq(FileMessage)
    PROVE  /\ Bare(h) \in Seq(Log!Message) /\ Len(Bare(h)) = Len(h)
           /\ \A i \in 1..Len(h) : Bare(h)[i] = [of |-> h[i].of, role |-> h[i].role]
<1>1. \A i \in 1..Len(h) : h[i] \in FileMessage /\ Len(h) \in Nat
  BY SMTT(60)
<1>2. \A i \in 1..Len(h) : [of |-> h[i].of, role |-> h[i].role] \in Log!Message
  <2>1. \A m \in FileMessage : [of |-> m.of, role |-> m.role] \in Log!Message
    BY SMTT(60) DEF FileMessage, Log!Message
  <2> QED  BY <1>1, <2>1
<1>3. Len(h) \in Nat
  BY SMTT(60)
<1>4. Bare(h) \in [1..Len(h) -> Log!Message]
  BY <1>2 DEF Bare
<1>5. Bare(h) \in Seq(Log!Message) /\ Len(Bare(h)) = Len(h)
  BY SMTT(60), <1>3, <1>4
<1> QED  BY <1>5 DEF Bare

\* Trimming and taking the session away commute.
LEMMA BareLast ==
    ASSUME NEW h \in Seq(FileMessage), NEW n \in Nat
    PROVE  Bare(Log!Last(h, n)) = Log!Last(Bare(h), n)
<1>1. PICK g, k : g = Log!Last(h, n) /\ k = Bare(h)
  OBVIOUS
<1>2. PICK d \in Nat : /\ g \in Seq(FileMessage) /\ d <= Len(h) /\ Len(g) = Len(h) - d
                       /\ \A i \in 1..Len(h) - d : g[i] = h[i + d]
                       /\ d = IF Len(h) > n THEN Len(h) - n ELSE 0
  <2>1. g \in Seq(FileMessage) /\ \E d \in Nat : Suffix(g, h, n, d)
    BY <1>1, LastFacts
  <2> QED  BY <2>1 DEF Suffix
<1>3. /\ k \in Seq(Log!Message) /\ Len(k) = Len(h)
      /\ \A i \in 1..Len(h) : k[i] = [of |-> h[i].of, role |-> h[i].role]
  BY <1>1, BareFacts
<1>4. PICK l : l = Log!Last(k, n)
  OBVIOUS
<1>5. PICK c \in Nat : /\ l \in Seq(Log!Message) /\ c <= Len(k) /\ Len(l) = Len(k) - c
                       /\ \A i \in 1..Len(k) - c : l[i] = k[i + c]
                       /\ c = IF Len(k) > n THEN Len(k) - n ELSE 0
  <2>1. k \in Seq(Log!Message)
    BY <1>3
  <2>2. l \in Seq(Log!Message) /\ \E c \in Nat : Suffix(l, k, n, c)
    BY <1>4, <2>1, LastFacts
  <2> QED  BY <2>2 DEF Suffix
<1>6. c = d
  BY <1>2, <1>3, <1>5
<1>7. PICK b : b = Bare(g)
  OBVIOUS
<1>8. /\ b \in Seq(Log!Message) /\ Len(b) = Len(g)
      /\ \A i \in 1..Len(g) : b[i] = [of |-> g[i].of, role |-> g[i].role]
  BY <1>2, <1>7, BareFacts
<1>9. Len(b) = Len(l)
  BY <1>2, <1>3, <1>5, <1>6, <1>8
<1>10. \A i \in 1..Len(h) - d : i + d \in 1..Len(h)
  BY SMTT(60), <1>2
<1>11. \A i \in 1..Len(b) : b[i] = l[i]
  <2> TAKE i \in 1..Len(b)
  <2>1. i \in 1..Len(h) - d /\ i \in 1..Len(k) - c /\ i \in 1..Len(g)
    BY <1>2, <1>3, <1>6, <1>8
  <2>2. b[i] = [of |-> h[i + d].of, role |-> h[i + d].role]
    BY <1>2, <1>8, <2>1
  <2>3. l[i] = k[i + d] /\ i + d \in 1..Len(h)
    BY <1>5, <1>6, <1>10, <2>1
  <2> QED  BY <1>3, <2>2, <2>3
<1>12. b = l
  BY <1>5, <1>8, <1>9, <1>11, SeqEqual
<1> QED  BY <1>1, <1>4, <1>7, <1>12

\* What a session holds after an append is what the log holds.
LEMMA BareAppended ==
    ASSUME NEW h \in Seq(FileMessage), NEW s \in FileSession, NEW x \in FileCall
    PROVE  Bare(Log!Last(h \o <<Question(s, x), Answer(s, x)>>, FileLimit)) = Log!Appended(Bare(h), x)
<1>1. PICK q, a : q = Question(s, x) /\ a = Answer(s, x)
  OBVIOUS
<1>2. /\ q \in FileMessage /\ a \in FileMessage
      /\ q.of = x /\ a.of = x /\ q.role = "user" /\ a.role = "assistant"
  BY <1>1, ExchangeFacts
<1>3. PICK g : g = h \o <<q, a>>
  OBVIOUS
<1>4. Len(h) \in Nat /\ FileLimit \in Nat
  BY SMTT(60), FileHistory
<1>5. /\ g \in Seq(FileMessage) /\ Len(g) = Len(h) + 2
      /\ \A i \in 1..Len(h) : g[i] = h[i]
      /\ g[Len(h) + 1] = q /\ g[Len(h) + 2] = a
  BY SMTT(60), <1>2, <1>3, <1>4
<1>6. PICK b, k : b = Bare(g) /\ k = Bare(h)
  OBVIOUS
<1>7. /\ b \in Seq(Log!Message) /\ Len(b) = Len(g)
      /\ \A i \in 1..Len(g) : b[i] = [of |-> g[i].of, role |-> g[i].role]
  BY <1>5, <1>6, BareFacts
<1>8. /\ k \in Seq(Log!Message) /\ Len(k) = Len(h)
      /\ \A i \in 1..Len(h) : k[i] = [of |-> h[i].of, role |-> h[i].role]
  BY <1>6, BareFacts
<1>9. PICK p : p = Log!Pair(x)
  OBVIOUS
<1>10. /\ p \in Seq(Log!Message) /\ Len(p) = 2
       /\ p[1] = [of |-> x, role |-> "user"] /\ p[2] = [of |-> x, role |-> "assistant"]
  <2>1. [of |-> x, role |-> "user"] \in Log!Message /\ [of |-> x, role |-> "assistant"] \in Log!Message
    BY SMTT(60) DEF Log!Message
  <2> QED  BY SMTT(60), <1>9, <2>1 DEF Log!Pair
<1>11. PICK c : c = k \o p
  OBVIOUS
<1>12. /\ c \in Seq(Log!Message) /\ Len(c) = Len(h) + 2
       /\ \A i \in 1..Len(h) : c[i] = k[i]
       /\ c[Len(h) + 1] = p[1] /\ c[Len(h) + 2] = p[2]
  <2>1. k \in Seq(Log!Message) /\ p \in Seq(Log!Message)
    BY <1>8, <1>10
  <2>2. /\ c \in Seq(Log!Message) /\ Len(c) = Len(k) + Len(p)
        /\ \A i \in 1..Len(k) + Len(p) : c[i] = IF i <= Len(k) THEN k[i] ELSE p[i - Len(k)]
    BY <1>11, <2>1, ConcatProperties
  <2>3. /\ c \in Seq(Log!Message) /\ Len(c) = Len(h) + 2
        /\ \A i \in 1..Len(h) + 2 : c[i] = IF i <= Len(h) THEN k[i] ELSE p[i - Len(h)]
    BY <1>8, <1>10, <2>2
  <2>4. \A i \in 1..Len(h) : c[i] = k[i]
    BY SMTT(60), <1>4, <2>3
  <2>5. PICK m, n : m = Len(h) + 1 /\ n = Len(h) + 2
    OBVIOUS
  <2>6. /\ m \in 1..Len(h) + 2 /\ ~(m <= Len(h)) /\ m - Len(h) = 1
        /\ n \in 1..Len(h) + 2 /\ ~(n <= Len(h)) /\ n - Len(h) = 2
    BY SMTT(60), <1>4, <2>5
  <2>7. c[m] = p[m - Len(h)] /\ c[n] = p[n - Len(h)]
    BY <2>3, <2>6
  <2> QED  BY <2>3, <2>4, <2>5, <2>6, <2>7
<1>13. ASSUME NEW i \in 1..Len(b) PROVE b[i] = c[i]
  <2>1. i \in 1..Len(h) \/ i = Len(h) + 1 \/ i = Len(h) + 2
    BY SMTT(60), <1>4, <1>5, <1>7
  <2>2. b[i] = [of |-> g[i].of, role |-> g[i].role]
    BY <1>7
  <2>3. CASE i \in 1..Len(h)
    BY <1>5, <1>8, <1>12, <2>2, <2>3
  <2>4. CASE i = Len(h) + 1
    BY <1>2, <1>5, <1>10, <1>12, <2>2, <2>4
  <2>5. CASE i = Len(h) + 2
    BY <1>2, <1>5, <1>10, <1>12, <2>2, <2>5
  <2> QED  BY <2>1, <2>3, <2>4, <2>5
<1>14. b = c
  <2>1. Len(b) = Len(c)
    BY <1>5, <1>7, <1>12
  <2> QED  BY <1>7, <1>12, <1>13, <2>1, SeqEqual
<1>15. Bare(Log!Last(g, FileLimit)) = Log!Last(b, FileLimit)
  BY <1>4, <1>5, <1>6, BareLast
<1> QED  BY <1>1, <1>3, <1>6, <1>9, <1>11, <1>14, <1>15 DEF Log!Appended

\* Questions and their answers alternate.
Paired(h) ==
    /\ Len(h) % 2 = 0
    /\ \A i \in 1..Len(h) : i % 2 = 1 => h[i].of = h[i + 1].of /\ h[i + 1].role = "assistant"

\* The exchange shows, or newer ones fill the history.
Shows(h, x) == (\E i \in 1..Len(h) : h[i].of = x) \/ Len(h) >= FileLimit

\* Trimming to an even number of messages cuts between exchanges.
LEMMA PairedLast ==
    ASSUME NEW h \in Seq(FileMessage), Paired(h), FileLimit % 2 = 0
    PROVE  Paired(Log!Last(h, FileLimit))
<1>1. Len(h) \in Nat /\ FileLimit \in Nat
  BY SMTT(60), FileHistory
<1>2. PICK g : g = Log!Last(h, FileLimit)
  OBVIOUS
<1>4. PICK d \in Nat : /\ d <= Len(h) /\ Len(g) = Len(h) - d /\ \A i \in 1..Len(h) - d : g[i] = h[i + d]
                       /\ d = IF Len(h) > FileLimit THEN Len(h) - FileLimit ELSE 0
  <2>1. \E d \in Nat : Suffix(g, h, FileLimit, d)
    BY <1>1, <1>2, LastFacts
  <2> QED  BY <2>1 DEF Suffix
<1>5. Len(h) % 2 = 0 /\ \A i \in 1..Len(h) : i % 2 = 1 => h[i].of = h[i + 1].of /\ h[i + 1].role = "assistant"
  BY DEF Paired
<1>6. d % 2 = 0 /\ Len(g) % 2 = 0
  <2>1. PICK n, m, l : n = Len(h) /\ m = Len(g) /\ l = FileLimit
    OBVIOUS
  <2>2. /\ n \in Nat /\ l \in Nat /\ n % 2 = 0 /\ l % 2 = 0 /\ d \in Nat /\ m = n - d /\ d <= n
        /\ d = IF n > l THEN n - l ELSE 0
    BY <1>1, <1>4, <1>5, <2>1
  <2>3. d % 2 = 0 /\ m % 2 = 0
    BY SMTT(60), <2>2
  <2> QED  BY <2>1, <2>3
<1>7. ASSUME NEW i \in 1..Len(g), i % 2 = 1 PROVE g[i].of = g[i + 1].of /\ g[i + 1].role = "assistant"
  <2>1. PICK j, k : j = i + d /\ k = i + 1
    OBVIOUS
  <2>2. /\ i \in 1..Len(h) - d /\ k \in 1..Len(h) - d /\ j \in 1..Len(h) /\ j % 2 = 1 /\ k + d = j + 1
    <3>1. PICK n, m : n = Len(h) /\ m = Len(g)
      OBVIOUS
    <3>2. n \in Nat /\ m = n - d /\ d <= n /\ d % 2 = 0 /\ m % 2 = 0 /\ i \in 1..m /\ i % 2 = 1
      BY <1>1, <1>4, <1>6, <1>7, <3>1
    <3>3. /\ i \in 1..n - d /\ k \in 1..n - d /\ j \in 1..n /\ j % 2 = 1 /\ k + d = j + 1
      BY SMTT(60), <2>1, <3>2
    <3> QED  BY <3>1, <3>3
  <2>3. g[i] = h[j] /\ g[k] = h[j + 1]
    BY <1>4, <2>1, <2>2
  <2>4. h[j].of = h[j + 1].of /\ h[j + 1].role = "assistant"
    BY <1>5, <2>2
  <2> QED  BY <2>1, <2>3, <2>4
<1> QED  BY <1>2, <1>6, <1>7 DEF Paired

\* With an exchange at the end.
LEMMA JoinedFacts ==
    ASSUME NEW h \in Seq(FileMessage), NEW s \in FileSession, NEW x \in FileCall
    PROVE  LET g == h \o <<Question(s, x), Answer(s, x)>>
           IN  /\ g \in Seq(FileMessage) /\ Len(g) = Len(h) + 2
               /\ \A i \in 1..Len(h) : g[i] = h[i]
               /\ g[Len(h) + 1].of = x /\ g[Len(h) + 2].of = x /\ g[Len(h) + 2].role = "assistant"
<1>1. PICK q, a : q = Question(s, x) /\ a = Answer(s, x)
  OBVIOUS
<1>2. /\ q \in FileMessage /\ a \in FileMessage
      /\ q.of = x /\ a.of = x /\ q.role = "user" /\ a.role = "assistant"
  BY <1>1, ExchangeFacts
<1>3. PICK g : g = h \o <<q, a>>
  OBVIOUS
<1>4. Len(h) \in Nat
  BY SMTT(60)
<1>5. /\ g \in Seq(FileMessage) /\ Len(g) = Len(h) + 2
      /\ \A i \in 1..Len(h) : g[i] = h[i]
      /\ g[Len(h) + 1] = q /\ g[Len(h) + 2] = a
  BY SMTT(60), <1>2, <1>3, <1>4
<1> QED  BY <1>1, <1>2, <1>3, <1>5

\* Appending keeps questions and answers together.
LEMMA PairedAppended ==
    ASSUME NEW h \in Seq(FileMessage), NEW s \in FileSession, NEW x \in FileCall, Paired(h), FileLimit % 2 = 0
    PROVE  Paired(Log!Last(h \o <<Question(s, x), Answer(s, x)>>, FileLimit))
<1>1. PICK g : g = h \o <<Question(s, x), Answer(s, x)>>
  OBVIOUS
<1>2. PICK n : n = Len(h)
  OBVIOUS
<1>3. /\ g \in Seq(FileMessage) /\ Len(g) = n + 2 /\ \A i \in 1..n : g[i] = h[i]
      /\ g[n + 1].of = x /\ g[n + 2].of = x /\ g[n + 2].role = "assistant"
  BY <1>1, <1>2, JoinedFacts
<1>4. n \in Nat /\ n % 2 = 0 /\ \A i \in 1..n : i % 2 = 1 => h[i].of = h[i + 1].of /\ h[i + 1].role = "assistant"
  <2>1. n \in Nat
    BY SMTT(60), <1>2
  <2> QED  BY <1>2, <2>1 DEF Paired
<1>5. Len(g) % 2 = 0
  BY SMTT(60), <1>3, <1>4
<1>6. ASSUME NEW i \in 1..Len(g), i % 2 = 1 PROVE g[i].of = g[i + 1].of /\ g[i + 1].role = "assistant"
  <2>1. i = n + 1 \/ (i \in 1..n /\ i + 1 \in 1..n)
    BY SMTT(60), <1>3, <1>4, <1>6
  <2>2. CASE i = n + 1
    <3>1. i + 1 = n + 2
      BY SMTT(60), <1>4, <2>2
    <3> QED  BY <1>3, <2>2, <3>1
  <2>3. CASE i \in 1..n /\ i + 1 \in 1..n
    BY <1>3, <1>4, <1>6, <2>3
  <2> QED  BY <2>1, <2>2, <2>3
<1>7. Paired(g)
  BY <1>5, <1>6 DEF Paired
<1> QED  BY <1>1, <1>3, <1>7, PairedLast

\* An appended exchange shows, and what showed before still does or was pushed out.
LEMMA ShowsAppended ==
    ASSUME NEW h \in Seq(FileMessage), NEW s \in FileSession, NEW x \in FileCall
    PROVE  LET new == Log!Last(h \o <<Question(s, x), Answer(s, x)>>, FileLimit)
           IN  Shows(new, x) /\ \A y : Shows(h, y) => Shows(new, y)
<1>1. PICK g : g = h \o <<Question(s, x), Answer(s, x)>>
  OBVIOUS
<1>2. PICK n, k : n = Len(h) /\ k = Log!Last(g, FileLimit)
  OBVIOUS
<1>3. /\ g \in Seq(FileMessage) /\ Len(g) = n + 2 /\ \A i \in 1..n : g[i] = h[i]
      /\ g[n + 2].of = x
  BY <1>1, <1>2, JoinedFacts
<1>4. n \in Nat /\ FileLimit \in Nat /\ FileLimit # 0
  BY SMTT(60), <1>2, FileHistory
<1>5. PICK d \in Nat : /\ d <= Len(g) /\ Len(k) = Len(g) - d /\ \A i \in 1..Len(g) - d : k[i] = g[i + d]
                       /\ d = IF Len(g) > FileLimit THEN Len(g) - FileLimit ELSE 0
  <2>1. g \in Seq(FileMessage) /\ FileLimit \in Nat
    BY <1>3, <1>4
  <2>2. \E d \in Nat : Suffix(k, g, FileLimit, d)
    BY <1>2, <2>1, LastFacts
  <2> QED  BY <2>2 DEF Suffix
<1>6. Shows(k, x)
  <2>1. PICK j : j = n + 2 - d
    OBVIOUS
  <2>2. j \in 1..Len(g) - d /\ j + d = n + 2 /\ j \in 1..Len(k)
    BY SMTT(60), <1>3, <1>4, <1>5, <2>1
  <2>3. k[j].of = x
    BY <1>3, <1>5, <2>2
  <2> QED  BY <2>2, <2>3 DEF Shows
<1>7. ASSUME NEW y, Shows(h, y) PROVE Shows(k, y)
  <2>1. CASE Len(g) > FileLimit
    <3>1. Len(k) >= FileLimit
      BY SMTT(60), <1>3, <1>4, <1>5, <2>1
    <3> QED  BY <3>1 DEF Shows
  <2>2. CASE ~(Len(g) > FileLimit)
    <3>1. ~(Len(h) >= FileLimit) /\ d = 0
      BY SMTT(60), <1>2, <1>3, <1>4, <1>5, <2>2
    <3>2. PICK i \in 1..Len(h) : h[i].of = y
      BY <1>7, <3>1 DEF Shows
    <3>3. i \in 1..n /\ i \in 1..Len(g) - d /\ i + d = i /\ i \in 1..Len(k)
      BY SMTT(60), <1>2, <1>3, <1>4, <1>5, <3>1, <3>2
    <3>4. k[i].of = y
      BY <1>3, <1>5, <3>2, <3>3
    <3> QED  BY <3>3, <3>4 DEF Shows
  <2> QED  BY <2>1, <2>2
<1> QED  BY <1>1, <1>2, <1>6, <1>7

\* The operations of the store.
Operations == {"append", "read", "clear", "clear_all"}

\* What the variables hold.
FileShape ==
    /\ FileTypeOK /\ messages \in Seq(FileMessage)
    /\ data \in [FileCall -> Seq(FileMessage)] /\ history \in [FileCall -> Seq(FileMessage)]
    /\ call \in [FileCall -> Operations] /\ clears \in Nat

\* A call that began is about one session, or clears them all; it was counted if it clears.
Begun(x) ==
    at[x] # "idle" =>
        /\ IF call[x] = "clear_all" THEN scope[x] = FileSession ELSE \E s \in FileSession : scope[x] = {s}
        /\ call[x] \in {"clear", "clear_all"} => clears # 0

\* What a writer is about to put in place was made from what the file holds now.
Prepared(x) ==
    at[x] = "write" =>
        call[x] # "read" /\ data[x] = Changed(x)

\* The file holds exchanges whose append succeeded.
Written == \A i \in 1..Len(messages) : at[messages[i].of] = "ended"

\* With an even limit questions and answers alternate in the file and in what was returned.
Alternate == FileLimit % 2 = 0 => \A s \in FileSession : Paired(Of(messages, s))
Returned(x) == FileLimit % 2 = 0 => Paired(history[x])

\* A successful append shows until it is pushed out or cleared.
Shown(x) ==
    at[x] = "ended" /\ call[x] = "append" /\ clears = 0 => \E s \in scope[x] : Shows(Of(messages, s), x)

FileTruth ==
    /\ FileShape /\ Written /\ Alternate
    /\ \A x \in FileCall : Begun(x) /\ Prepared(x) /\ Returned(x) /\ Shown(x)

\* The invariant says what FileInv says.
LEMMA TruthSuffices == FileTruth => FileInv
<1> SUFFICES ASSUME FileTruth PROVE FileInv
  OBVIOUS
<1>1. FileTypeOK
  BY DEF FileTruth, FileShape
<1>2. WholeExchanges
  BY DEF FileTruth, Returned, Paired, WholeExchanges
<1>3. \A x \in FileCall : at[x] = "failed" => \A i \in 1..Len(messages) : messages[i].of # x
  <2> TAKE x \in FileCall
  <2>1. "failed" # "ended"
    OBVIOUS
  <2> QED  BY <2>1 DEF FileTruth, Written
<1>4. \A x \in FileCall : at[x] = "ended" /\ call[x] = "append" /\ clears = 0 =>
          \E s \in scope[x] : LET h == Of(messages, s) IN
             (\E i \in 1..Len(h) : h[i].of = x) \/ Len(h) >= FileLimit
  BY DEF FileTruth, Shown, Shows
<1> QED  BY <1>1, <1>2, <1>3, <1>4 DEF FileInv, AppendsShow

\* The messages of a session are messages.
LEMMA OfType ==
    ASSUME NEW f \in Seq(FileMessage), NEW s
    PROVE  Of(f, s) \in Seq(FileMessage)
<1>1. PlacesOf(f, s) \in SUBSET Nat
  BY SMTT(60) DEF PlacesOf
<1>2. Kept[f][PlacesOf(f, s)] \in Seq(FileMessage)
  BY <1>1, KeptType
<1> QED  BY <1>2 DEF Of

\* An empty file, which no call has touched.
LEMMA TruthInit == FileInit => FileTruth
<1> SUFFICES ASSUME FileInit PROVE FileTruth
  OBVIOUS
<1>1. /\ messages = <<>> /\ locked = Nobody /\ clears = 0
      /\ \A x \in FileCall : at[x] = "idle" /\ history[x] = <<>>
  BY DEF FileInit
<1>2. /\ <<>> \in Seq(FileMessage) /\ Len(<<>>) = 0 /\ 0 \in Nat /\ 1..0 = {} /\ 0 % 2 = 0
  BY SMTT(60)
<1>3. FileTypeOK
  BY <1>1 DEF FileInit, FileTypeOK
<1>4. FileShape
  BY <1>1, <1>2, <1>3 DEF FileInit, FileShape, Operations
<1>5. Written
  BY <1>1, <1>2 DEF Written
<1>6. Paired(<<>>)
  BY <1>2 DEF Paired
<1>7. Alternate
  BY <1>1, <1>6, OfEmpty DEF Alternate
<1>8. \A x \in FileCall : Begun(x) /\ Prepared(x) /\ Returned(x) /\ Shown(x)
  BY <1>1, <1>6 DEF Begun, Prepared, Returned, Shown
<1> QED  BY <1>4, <1>5, <1>7, <1>8 DEF FileTruth

\* A call begins (the locks are taken).
LEMMA TruthBegin ==
    ASSUME FileTruth, NEW x \in FileCall, FileBegin(x)
    PROVE  FileTruth'
<1>1. /\ at[x] = "idle" /\ locked = Nobody /\ locked' = x /\ at' = [at EXCEPT ![x] = "read"]
      /\ messages' = messages /\ data' = data /\ history' = history
  BY DEF FileBegin
<1>2. PICK c \in Operations :
        /\ call' = [call EXCEPT ![x] = c]
        /\ clears' = clears + (IF c \in {"clear", "clear_all"} THEN 1 ELSE 0)
        /\ IF c = "clear_all" THEN scope' = [scope EXCEPT ![x] = FileSession]
           ELSE \E s \in FileSession : scope' = [scope EXCEPT ![x] = {s}]
  BY DEF FileBegin, Operations
<1>3. PICK S \in SUBSET FileSession :
        /\ scope' = [scope EXCEPT ![x] = S]
        /\ IF c = "clear_all" THEN S = FileSession ELSE \E s \in FileSession : S = {s}
  BY <1>2
<1>4. /\ at \in [FileCall -> {"idle", "read", "write", "ended", "failed"}]
      /\ scope \in [FileCall -> SUBSET FileSession] /\ call \in [FileCall -> Operations]
      /\ \A y \in FileCall : at[y] \in {"read", "write"} => locked = y
      /\ messages \in Seq(FileMessage) /\ clears \in Nat
      /\ data \in [FileCall -> Seq(FileMessage)] /\ history \in [FileCall -> Seq(FileMessage)]
  BY DEF FileTruth, FileShape, FileTypeOK
<1>5. /\ at'[x] = "read" /\ call'[x] = c /\ scope'[x] = S
      /\ \A y \in FileCall : y # x => at'[y] = at[y] /\ call'[y] = call[y] /\ scope'[y] = scope[y]
  BY <1>1, <1>2, <1>3, <1>4
<1>6. clears' \in Nat /\ (c \in {"clear", "clear_all"} => clears' # 0) /\ (clears # 0 => clears' # 0)
  BY SMTT(60), <1>2, <1>4
<1>7. \A y \in FileCall : at[y] \notin {"read", "write"}
  BY <1>1, <1>4, SomeoneElse
<1>8. FileShape'
  <2>1. /\ at' \in [FileCall -> {"idle", "read", "write", "ended", "failed"}]
        /\ scope' \in [FileCall -> SUBSET FileSession] /\ call' \in [FileCall -> Operations]
    BY <1>1, <1>2, <1>3, <1>4
  <2>2. \A y \in FileCall : at'[y] \in {"read", "write"} => locked' = y
    BY <1>1, <1>5, <1>7
  <2> QED  BY <1>1, <1>4, <1>6, <2>1, <2>2 DEF FileShape, FileTypeOK
<1>9. Written'
  <2>1. \A i \in 1..Len(messages) : messages[i] \in FileMessage
    BY SMTT(60), <1>4
  <2>2. \A m \in FileMessage : m.of \in FileCall
    BY SMTT(60) DEF FileMessage
  <2> QED  BY <1>1, <1>5, <2>1, <2>2 DEF FileTruth, Written
<1>10. Alternate'
  BY <1>1 DEF FileTruth, Alternate
<1>11. ASSUME NEW y \in FileCall PROVE Begun(y)' /\ Prepared(y)' /\ Returned(y)' /\ Shown(y)'
  <2>1. Returned(y)'
    BY <1>1 DEF FileTruth, Returned
  <2>2. CASE y = x
    <3>1. Begun(y)'
      BY <1>3, <1>5, <1>6, <2>2 DEF Begun
    <3>2. Prepared(y)' /\ Shown(y)'
      BY <1>5, <2>2 DEF Prepared, Shown
    <3> QED  BY <2>1, <3>1, <3>2
  <2>3. CASE y # x
    <3>1. Begun(y)'
      BY <1>5, <1>6, <2>3 DEF FileTruth, Begun
    <3>2. Prepared(y)'
      BY <1>5, <1>7, <2>3 DEF Prepared
    <3>3. Shown(y)'
      BY <1>1, <1>5, <1>6, <2>3 DEF FileTruth, Shown
    <3> QED  BY <2>1, <3>1, <3>2, <3>3
  <2> QED  BY <2>2, <2>3
<1> QED  BY <1>8, <1>9, <1>10, <1>11 DEF FileTruth

\* A call that is inside the locks is the only one.
LEMMA OneInside ==
    ASSUME FileTruth, NEW x \in FileCall, at[x] \in {"read", "write"}
    PROVE  /\ locked = x /\ Nobody # x
           /\ \A y \in FileCall : y # x => at[y] \notin {"read", "write"}
<1>1. \A y \in FileCall : at[y] \in {"read", "write"} => locked = y
  BY DEF FileTruth, FileShape, FileTypeOK
<1> QED  BY <1>1, SomeoneElse

\* What stays true when a call moves on and the file does not change.
LEMMA TruthMoves ==
    ASSUME FileTruth, NEW x \in FileCall, at[x] \in {"read", "write"},
           NEW p \in {"write", "ended", "failed"}, at' = [at EXCEPT ![x] = p],
           locked' = IF p = "write" THEN locked ELSE Nobody,
           UNCHANGED <<messages, scope, call, clears>>,
           data' \in [FileCall -> Seq(FileMessage)], history' \in [FileCall -> Seq(FileMessage)],
           \A y \in FileCall : Returned(y)', Prepared(x)', Shown(x)'
    PROVE  FileTruth'
<1>1. /\ at \in [FileCall -> {"idle", "read", "write", "ended", "failed"}]
      /\ scope \in [FileCall -> SUBSET FileSession] /\ call \in [FileCall -> Operations]
      /\ \A y \in FileCall : at[y] \in {"read", "write"} => locked = y
      /\ messages \in Seq(FileMessage) /\ clears \in Nat /\ locked \in FileCall \cup {Nobody}
  BY DEF FileTruth, FileShape, FileTypeOK
<1>2. at'[x] = p /\ \A y \in FileCall : y # x => at'[y] = at[y] /\ at[y] \notin {"read", "write"}
  BY <1>1, OneInside
<1>3. locked = x
  BY OneInside
<1>4. FileShape'
  <2>1. at' \in [FileCall -> {"idle", "read", "write", "ended", "failed"}]
    BY <1>1
  <2>2. \A y \in FileCall : at'[y] \in {"read", "write"} => locked' = y
    BY <1>2, <1>3
  <2>3. locked' \in FileCall \cup {Nobody}
    BY <1>1
  <2> QED  BY <1>1, <2>1, <2>2, <2>3 DEF FileShape, FileTypeOK
<1>5. Written'
  <2>1. \A i \in 1..Len(messages) : messages[i] \in FileMessage
    BY SMTT(60), <1>1
  <2>2. \A m \in FileMessage : m.of \in FileCall
    BY SMTT(60) DEF FileMessage
  <2> QED  BY <1>2, <2>1, <2>2 DEF FileTruth, Written
<1>6. Alternate'
  BY DEF FileTruth, Alternate
<1>7. ASSUME NEW y \in FileCall PROVE Begun(y)' /\ Prepared(y)' /\ Shown(y)'
  <2>1. Begun(y)'
    <3>1. at'[y] # "idle" => at[y] # "idle"
      BY <1>2
    <3> QED  BY <3>1 DEF FileTruth, Begun
  <2>2. CASE y # x
    BY <1>2, <2>1, <2>2 DEF FileTruth, Prepared, Shown
  <2> QED  BY <2>1, <2>2
<1> QED  BY <1>4, <1>5, <1>6, <1>7 DEF FileTruth

\* A writer knows its session.
LEMMA OneSession ==
    ASSUME FileTruth, NEW x \in FileCall, at[x] # "idle", call[x] # "clear_all"
    PROVE  \E s \in FileSession : scope[x] = {s} /\ (CHOOSE t \in scope[x] : TRUE) = s
<1>1. PICK s \in FileSession : scope[x] = {s}
  BY DEF FileTruth, Begun
<1> QED  BY <1>1

\* The file is read (_read_unlocked): a history is returned, or the new contents are made.
LEMMA TruthRead ==
    ASSUME FileTruth, NEW x \in FileCall, Read(x)
    PROVE  FileTruth'
<1>1. /\ at[x] = "read" /\ UNCHANGED <<messages, scope, call, clears>>
      /\ messages \in Seq(FileMessage) /\ data \in [FileCall -> Seq(FileMessage)]
      /\ history \in [FileCall -> Seq(FileMessage)] /\ call[x] \in Operations
      /\ at \in [FileCall -> {"idle", "read", "write", "ended", "failed"}]
      /\ scope[x] \in SUBSET FileSession
  BY DEF Read, FileTruth, FileShape, FileTypeOK
<1>2. locked = x /\ FileLimit \in Nat
  BY <1>1, OneInside, FileHistory
<1>3. CASE call[x] = "read"
  <2>1. PICK s \in scope[x] : history' = [history EXCEPT ![x] = Log!Last(Of(messages, s), FileLimit)]
    BY <1>3 DEF Read
  <2>2. at' = [at EXCEPT ![x] = "ended"] /\ locked' = Nobody /\ data' = data
    BY <1>2, <1>3 DEF Read, Free
  <2>3. PICK h, k : h = Of(messages, s) /\ k = Log!Last(h, FileLimit)
    OBVIOUS
  <2>4. h \in Seq(FileMessage) /\ s \in FileSession
    BY <1>1, <2>1, <2>3, OfType
  <2>5. k \in Seq(FileMessage)
    BY <1>2, <2>3, <2>4, LastFacts
  <2>6. FileLimit % 2 = 0 => Paired(k)
    <3>1. FileLimit % 2 = 0 => Paired(h)
      BY <2>3, <2>4 DEF FileTruth, Alternate
    <3> QED  BY <2>3, <2>4, <3>1, PairedLast
  <2>7. history' = [history EXCEPT ![x] = k]
    BY <2>1, <2>3
  <2>8. history' \in [FileCall -> Seq(FileMessage)]
    BY <1>1, <2>5, <2>7
  <2>9. ASSUME NEW y \in FileCall PROVE Returned(y)'
    <3>1. history'[y] = IF y = x THEN k ELSE history[y]
      BY <1>1, <2>7
    <3>2. CASE y = x
      BY <2>6, <3>1, <3>2 DEF Returned
    <3>3. CASE y # x
      BY <3>1, <3>3 DEF FileTruth, Returned
    <3> QED  BY <3>2, <3>3
  <2>10. at'[x] = "ended" /\ call'[x] = "read"
    BY <1>1, <1>3, <2>2
  <2>11. Prepared(x)' /\ Shown(x)'
    BY <2>10 DEF Prepared, Shown
  <2>12. at[x] \in {"read", "write"} /\ "ended" \in {"write", "ended", "failed"}
         /\ locked' = IF "ended" = "write" THEN locked ELSE Nobody
    BY <1>1, <2>2
  <2> QED  BY <1>1, <2>2, <2>8, <2>9, <2>11, <2>12, TruthMoves
<1>4. CASE call[x] # "read"
  <2>1. PICK d : d = Changed(x)
    OBVIOUS
  <2>2. /\ data' = [data EXCEPT ![x] = d] /\ at' = [at EXCEPT ![x] = "write"]
        /\ locked' = locked /\ history' = history
    BY <1>4, <2>1 DEF Read
  <2>3. d \in Seq(FileMessage)
    <3>1. CASE call[x] = "append"
      <4>1. PICK s \in FileSession : (CHOOSE t \in scope[x] : TRUE) = s
        BY <1>1, <3>1, OneSession
      <4>2. AppendedFile(messages, s, x) \in Seq(FileMessage)
        BY <1>1, AppendedFacts
      <4> QED  BY <2>1, <3>1, <4>1, <4>2 DEF Changed
    <3>2. CASE call[x] # "append"
      <4>1. Remaining(messages, scope[x]) \in Seq(FileMessage)
        BY <1>1, RemainingFacts
      <4> QED  BY <2>1, <3>2, <4>1 DEF Changed
    <3> QED  BY <3>1, <3>2
  <2>4. data' \in [FileCall -> Seq(FileMessage)] /\ data'[x] = d /\ at'[x] = "write"
    BY <1>1, <2>2, <2>3
  <2>5. Prepared(x)' /\ Shown(x)'
    <3>1. Changed(x)' = Changed(x)
      BY SMTT(60), <1>1 DEF Changed
    <3> QED  BY <1>1, <1>4, <2>1, <2>4, <3>1 DEF Prepared, Shown
  <2>6. \A y \in FileCall : Returned(y)'
    BY <2>2 DEF FileTruth, Returned
  <2>7. at[x] \in {"read", "write"} /\ history' \in [FileCall -> Seq(FileMessage)]
        /\ locked' = IF "write" = "write" THEN locked ELSE Nobody
    BY <1>1, <2>2
  <2> QED  BY <1>1, <2>2, <2>4, <2>5, <2>6, <2>7, TruthMoves
<1> QED  BY <1>3, <1>4

\* A write fails, or its process dies.
LEMMA TruthFail ==
    ASSUME FileTruth, NEW x \in FileCall, Fail(x)
    PROVE  FileTruth'
<1>1. /\ at[x] \in {"read", "write"} /\ at' = [at EXCEPT ![x] = "failed"]
      /\ UNCHANGED <<messages, scope, call, clears>> /\ data' = data /\ history' = history
  BY DEF Fail
<1>2. /\ locked = x /\ at'[x] = "failed"
      /\ data' \in [FileCall -> Seq(FileMessage)] /\ history' \in [FileCall -> Seq(FileMessage)]
  BY <1>1, OneInside DEF FileTruth, FileShape, FileTypeOK
<1>3. locked' = IF "failed" = "write" THEN locked ELSE Nobody
  BY <1>2 DEF Fail, Free
<1>4. Prepared(x)' /\ Shown(x)'
  BY <1>2 DEF Prepared, Shown
<1>5. \A y \in FileCall : Returned(y)'
  BY <1>1 DEF FileTruth, Returned
<1> QED  BY <1>1, <1>2, <1>3, <1>4, <1>5, TruthMoves

\* What replacing the file does to each session (append_exchange, clear_session, clear_all).
LEMMA ReplaceFacts ==
    ASSUME FileTruth, NEW x \in FileCall, Replace(x)
    PROVE  /\ messages' \in Seq(FileMessage)
           /\ \A j \in 1..Len(messages') :
                 messages'[j].of = x \/ \E i \in 1..Len(messages) : messages'[j] = messages[i]
           /\ \/ /\ call[x] = "append"
                 /\ \E s \in FileSession :
                       /\ scope[x] = {s}
                       /\ Of(messages', s) = Log!Last(Of(messages, s) \o <<Question(s, x), Answer(s, x)>>, FileLimit)
                       /\ \A t : t # s => Of(messages', t) = Of(messages, t)
              \/ /\ call[x] \in {"clear", "clear_all"} /\ scope[x] \in SUBSET FileSession
                 /\ \A t : Of(messages', t) = IF t \in scope[x] THEN <<>> ELSE Of(messages, t)
<1>1. /\ at[x] = "write" /\ messages' = data[x] /\ messages \in Seq(FileMessage)
      /\ call[x] \in Operations /\ scope[x] \in SUBSET FileSession
  BY DEF Replace, FileTruth, FileShape, FileTypeOK
<1>2. /\ call[x] # "read"
      /\ data[x] = IF call[x] = "append" THEN AppendedFile(messages, CHOOSE s \in scope[x] : TRUE, x)
                   ELSE Remaining(messages, scope[x])
  BY <1>1 DEF FileTruth, Prepared, Changed
<1>3. CASE call[x] = "append"
  <2>1. PICK s \in FileSession : scope[x] = {s} /\ (CHOOSE t \in scope[x] : TRUE) = s
    BY <1>1, <1>3, OneSession
  <2>2. messages' = AppendedFile(messages, s, x)
    BY <1>1, <1>2, <1>3, <2>1
  <2>3. PICK f, new : f = messages /\ new = AppendedFile(f, s, x)
    OBVIOUS
  <2>4. f \in Seq(FileMessage)
    BY <1>1, <2>3
  <2>5. /\ new \in Seq(FileMessage)
        /\ \A j \in 1..Len(new) : new[j].of = x \/ \E i \in 1..Len(f) : new[j] = f[i]
        /\ Of(new, s) = Log!Last(Of(f, s) \o <<Question(s, x), Answer(s, x)>>, FileLimit)
        /\ \A t : t # s => Of(new, t) = Of(f, t)
    BY SMTT(60), <2>3, <2>4, AppendedFacts
  <2>6. messages' = new
    BY <2>2, <2>3
  <2> QED  BY <1>3, <2>1, <2>3, <2>5, <2>6
<1>4. CASE call[x] # "append"
  <2>1. call[x] \in {"clear", "clear_all"}
    BY <1>1, <1>2, <1>4 DEF Operations
  <2>2. PICK f, S, new : f = messages /\ S = scope[x] /\ new = Remaining(f, S)
    OBVIOUS
  <2>3. f \in Seq(FileMessage)
    BY <1>1, <2>2
  <2>4. /\ new \in Seq(FileMessage)
        /\ \A j \in 1..Len(new) : \E i \in 1..Len(f) : new[j] = f[i]
        /\ \A t : Of(new, t) = IF t \in S THEN <<>> ELSE Of(f, t)
    BY SMTT(60), <2>2, <2>3, RemainingFacts
  <2>5. messages' = new
    BY <1>1, <1>2, <1>4, <2>2
  <2> QED  BY SMTT(60), <1>1, <2>1, <2>2, <2>4, <2>5
<1> QED  BY <1>3, <1>4

\* The file is replaced (_write_unlocked).
LEMMA TruthReplace ==
    ASSUME FileTruth, NEW x \in FileCall, Replace(x)
    PROVE  FileTruth'
<1>1. /\ at \in [FileCall -> {"idle", "read", "write", "ended", "failed"}]
      /\ scope \in [FileCall -> SUBSET FileSession] /\ call \in [FileCall -> Operations]
      /\ messages \in Seq(FileMessage) /\ clears \in Nat /\ locked \in FileCall \cup {Nobody}
      /\ data \in [FileCall -> Seq(FileMessage)] /\ history \in [FileCall -> Seq(FileMessage)]
  BY DEF FileTruth, FileShape, FileTypeOK
<1>2. /\ at[x] = "write" /\ at' = [at EXCEPT ![x] = "ended"]
      /\ scope' = scope /\ call' = call /\ data' = data /\ history' = history /\ clears' = clears
  BY DEF Replace
<1>3. /\ locked = x /\ at'[x] = "ended"
      /\ \A y \in FileCall : y # x => at'[y] = at[y] /\ at[y] \notin {"read", "write"}
  BY <1>1, <1>2, OneInside
<1>4. locked' = Nobody
  BY <1>3 DEF Replace, Free
<1>5. messages' \in Seq(FileMessage)
  BY ReplaceFacts
<1>6. FileShape'
  <2>1. at' \in [FileCall -> {"idle", "read", "write", "ended", "failed"}]
    BY <1>1, <1>2
  <2>2. \A y \in FileCall : at'[y] \notin {"read", "write"}
    BY <1>3
  <2> QED  BY <1>1, <1>2, <1>4, <1>5, <2>1, <2>2 DEF FileShape, FileTypeOK
<1>7. Written'
  <2>1. \A m \in FileMessage : m.of \in FileCall
    BY SMTT(60) DEF FileMessage
  <2>2. ASSUME NEW j \in 1..Len(messages') PROVE at'[messages'[j].of] = "ended"
    <3>1. messages'[j].of = x \/ \E i \in 1..Len(messages) : messages'[j] = messages[i]
      BY ReplaceFacts
    <3>2. CASE messages'[j].of = x
      BY <1>3, <3>2
    <3>3. ASSUME NEW i \in 1..Len(messages), messages'[j] = messages[i] PROVE at'[messages'[j].of] = "ended"
      <4>1. messages[i] \in FileMessage
        BY SMTT(60), <1>1
      <4>2. at[messages[i].of] = "ended" /\ messages[i].of \in FileCall
        BY <2>1, <4>1 DEF FileTruth, Written
      <4> QED  BY <1>3, <3>3, <4>2
    <3> QED  BY <3>1, <3>2, <3>3
  <2> QED  BY <2>2 DEF Written
<1>8. ASSUME FileLimit % 2 = 0, NEW t \in FileSession PROVE Paired(Of(messages', t))
  <2>1. Paired(Of(messages, t)) /\ Of(messages, t) \in Seq(FileMessage)
    BY <1>1, <1>8, OfType DEF FileTruth, Alternate
  <2>2. ASSUME call[x] = "append", NEW s \in FileSession,
               Of(messages', s) = Log!Last(Of(messages, s) \o <<Question(s, x), Answer(s, x)>>, FileLimit),
               \A r : r # s => Of(messages', r) = Of(messages, r)
        PROVE  Paired(Of(messages', t))
    <3>1. CASE t = s
      BY <1>8, <2>1, <2>2, <3>1, PairedAppended
    <3>2. CASE t # s
      BY <2>1, <2>2, <3>2
    <3> QED  BY <3>1, <3>2
  <2>3. ASSUME \A r : Of(messages', r) = IF r \in scope[x] THEN <<>> ELSE Of(messages, r)
        PROVE  Paired(Of(messages', t))
    <3>1. Len(<<>>) = 0 /\ 0 % 2 = 0 /\ 1..0 = {}
      BY SMTT(60)
    <3>2. Paired(<<>>)
      BY <3>1 DEF Paired
    <3> QED  BY <2>1, <2>3, <3>2
  <2> QED  BY <2>2, <2>3, ReplaceFacts
<1>9. Alternate'
  BY <1>8 DEF Alternate
<1>10. ASSUME NEW y \in FileCall PROVE Begun(y)' /\ Prepared(y)' /\ Returned(y)'
  <2>1. at'[y] # "write" /\ (at'[y] # "idle" => at[y] # "idle")
    BY <1>2, <1>3
  <2> QED  BY <1>2, <2>1 DEF FileTruth, Begun, Prepared, Returned
<1>11. ASSUME NEW y \in FileCall, at'[y] = "ended", call[y] = "append", clears = 0
       PROVE  \E t \in scope[y] : Shows(Of(messages', t), y)
  <2>1. call[x] \notin {"clear", "clear_all"}
    BY <1>2, <1>11 DEF FileTruth, Begun
  <2>2. PICK s \in FileSession :
          /\ scope[x] = {s}
          /\ Of(messages', s) = Log!Last(Of(messages, s) \o <<Question(s, x), Answer(s, x)>>, FileLimit)
          /\ \A r : r # s => Of(messages', r) = Of(messages, r)
    BY <2>1, ReplaceFacts
  <2>3. Of(messages, s) \in Seq(FileMessage)
    BY <1>1, OfType
  <2>4. Shows(Of(messages', s), x) /\ \A z : Shows(Of(messages, s), z) => Shows(Of(messages', s), z)
    BY SMTT(60), <2>2, <2>3, ShowsAppended
  <2>5. CASE y = x
    BY <2>2, <2>4, <2>5
  <2>6. CASE y # x
    <3>1. PICK t \in scope[y] : Shows(Of(messages, t), y)
      BY <1>3, <1>11, <2>6 DEF FileTruth, Shown
    <3> QED  BY <2>2, <2>4, <3>1
  <2> QED  BY <2>5, <2>6
<1>12. \A y \in FileCall : Shown(y)'
  BY <1>2, <1>11 DEF Shown
<1> QED  BY <1>6, <1>7, <1>9, <1>10, <1>12 DEF FileTruth

\* Every step of the file store keeps the invariant.
LEMMA TruthStep == FileTruth /\ [FileNext]_fileVars => FileTruth'
<1> SUFFICES ASSUME FileTruth, [FileNext]_fileVars PROVE FileTruth'
  OBVIOUS
<1>1. CASE UNCHANGED fileVars
  <2>1. /\ messages' = messages /\ locked' = locked /\ at' = at /\ scope' = scope /\ call' = call
        /\ data' = data /\ history' = history /\ clears' = clears
    BY <1>1 DEF fileVars
  <2>2. FileShape' /\ Written' /\ Alternate'
    BY <2>1 DEF FileTruth, FileShape, FileTypeOK, Written, Alternate
  <2>3. ASSUME NEW x \in FileCall PROVE Begun(x)' /\ Prepared(x)' /\ Returned(x)' /\ Shown(x)'
    <3>1. Changed(x)' = Changed(x)
      BY SMTT(60), <2>1 DEF Changed
    <3>2. Begun(x)' /\ Prepared(x)'
      BY <2>1, <3>1 DEF FileTruth, Begun, Prepared
    <3>3. Returned(x)' /\ Shown(x)'
      BY <2>1 DEF FileTruth, Returned, Shown
    <3> QED  BY <3>2, <3>3
  <2> QED  BY <2>2, <2>3 DEF FileTruth
<1>2. CASE FileNext
  <2>1. PICK x \in FileCall : FileBegin(x) \/ FileStep(x)
    BY <1>2 DEF FileNext
  <2> QED  BY <2>1, TruthBegin, TruthRead, TruthReplace, TruthFail DEF FileStep
<1> QED  BY <1>1, <1>2

\* The file always holds whole exchanges of calls that succeeded.
LEMMA FileIsTrue == MemorySpec => []FileTruth
<1> QED  BY TruthInit, TruthStep, PTL DEF MemorySpec

\* The sessions the log shows, one by one.
LEMMA SessionLog == \A s \in FileSession : histories[s] = Bare(Of(messages, s))
<1> QED  BY DEF histories

\* An empty file is a store of empty logs.
LEMMA LogStarts == FileInit => Log!LogInit
<1> SUFFICES ASSUME FileInit PROVE Log!LogInit
  OBVIOUS
<1>1. messages = <<>>
  BY DEF FileInit
<1>2. Bare(<<>>) = <<>>
  BY SMTT(60) DEF Bare
<1>3. \A s \in FileSession : Bare(Of(messages, s)) = <<>>
  BY <1>1, <1>2, OfEmpty
<1> QED  BY <1>3 DEF Log!LogInit, histories

\* Replacing the file is an append to one session's log or a clearing (os.replace).
LEMMA ReplaceIsLogStep ==
    ASSUME FileTruth, NEW x \in FileCall, Replace(x)
    PROVE  Log!LogNext
<1>1. messages \in Seq(FileMessage)
  BY DEF FileTruth, FileShape
<1>2. ASSUME NEW s \in FileSession,
             Of(messages', s) = Log!Last(Of(messages, s) \o <<Question(s, x), Answer(s, x)>>, FileLimit),
             \A t : t # s => Of(messages', t) = Of(messages, t)
      PROVE  Log!LogNext
  <2>1. PICK h, k, l : /\ h = Of(messages, s) /\ k = Of(messages', s)
                       /\ l = Log!Last(h \o <<Question(s, x), Answer(s, x)>>, FileLimit)
    OBVIOUS
  <2>2. h \in Seq(FileMessage) /\ k = l
    BY <1>1, <1>2, <2>1, OfType
  <2>3. Bare(l) = Log!Appended(Bare(h), x)
    BY <2>1, <2>2, BareAppended
  <2>4. Bare(Of(messages', s)) = Log!Appended(Bare(Of(messages, s)), x)
    BY <2>1, <2>2, <2>3
  <2>5. histories' = [t \in FileSession |-> Bare(Of(messages', t))]
    BY DEF histories
  <2>6. [histories EXCEPT ![s] = Log!Appended(histories[s], x)]
          = [t \in FileSession |-> IF t = s THEN Log!Appended(Bare(Of(messages, s)), x) ELSE Bare(Of(messages, t))]
    BY DEF histories
  <2>7. \A t \in FileSession : Bare(Of(messages', t))
          = IF t = s THEN Log!Appended(Bare(Of(messages, s)), x) ELSE Bare(Of(messages, t))
    BY <1>2, <2>4
  <2>8. histories' = [histories EXCEPT ![s] = Log!Appended(histories[s], x)]
    BY <2>5, <2>6, <2>7
  <2>9. Log!LogAppend(s, x)
    BY <2>8 DEF Log!LogAppend
  <2> QED  BY <2>9 DEF Log!LogNext
<1>3. ASSUME scope[x] \in SUBSET FileSession,
             \A t : Of(messages', t) = IF t \in scope[x] THEN <<>> ELSE Of(messages, t)
      PROVE  Log!LogNext
  <2>1. Bare(<<>>) = <<>>
    BY SMTT(60) DEF Bare
  <2>2. \A t \in FileSession : Bare(Of(messages', t)) = IF t \in scope[x] THEN <<>> ELSE histories[t]
    BY <1>3, <2>1, SessionLog
  <2>3. histories' = [t \in FileSession |-> Bare(Of(messages', t))]
    BY DEF histories
  <2>4. histories' = [t \in FileSession |-> IF t \in scope[x] THEN <<>> ELSE histories[t]]
    BY <2>2, <2>3
  <2>5. Log!LogClear(scope[x])
    BY <2>4 DEF Log!LogClear
  <2> QED  BY <1>3, <2>5 DEF Log!LogNext
<1> QED  BY <1>2, <1>3, ReplaceFacts

\* Every other step leaves the logs alone.
LEMMA LogSteps == FileTruth /\ [FileNext]_fileVars => [Log!LogNext]_histories
<1> SUFFICES ASSUME FileTruth, [FileNext]_fileVars PROVE [Log!LogNext]_histories
  OBVIOUS
<1>1. CASE messages' = messages
  BY <1>1 DEF histories
<1>2. CASE messages' # messages
  <2>1. PICK x \in FileCall : FileBegin(x) \/ FileStep(x)
    BY <1>2 DEF FileNext, fileVars
  <2>2. Replace(x)
    BY <1>2, <2>1 DEF FileBegin, FileStep, Read, Fail
  <2> QED  BY <2>2, ReplaceIsLogStep
<1> QED  BY <1>1, <1>2

\* FileInv, for any sessions, calls, limit, failures and clearings: one call at a time is inside
\* the locks, a reader gets whole exchanges if the limit is even, an append that succeeded shows
\* until newer ones push it out or it is cleared, and one that failed never shows
\* (FileMemoryStore.append_exchange, get_history, clear_session, clear_all).
THEOREM FileIsSound == MemorySpec => []FileInv
<1> QED  BY FileIsTrue, TruthSuffices, PTL

\* ImplementsLog: the one file of all sessions, trimmed by position, behaves as a log per session
\* to which whole exchanges are appended (append_exchange, clear_session, clear_all).
THEOREM FileImplementsLog == MemorySpec => ImplementsLog
<1> QED  BY FileIsTrue, LogStarts, LogSteps, PTL DEF MemorySpec, ImplementsLog
=============================================================================
