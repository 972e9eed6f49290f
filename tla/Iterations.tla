----------------------------- MODULE Iterations -----------------------------
(***************************************************************************)
(* Facts about counting that the proofs of several modules need: least and *)
(* greatest numbers, induction over a set of numbers, and what a function  *)
(* comes to when it is applied again and again.                            *)
(***************************************************************************)
EXTENDS Integers, FiniteSetTheorems, TLAPS

\* Every set of naturals that has an element has a least one.
LEMMA HasLeast ==
    ASSUME NEW S \in SUBSET Nat, S # {}
    PROVE  \E i \in S : \A j \in S : i <= j
<1> PICK n \in S : TRUE
  OBVIOUS
<1> DEFINE upto(i) == {j \in S : j <= i}
           starts == {upto(i) : i \in upto(n)}
<1>1. IsFiniteSet(upto(n))
  BY FS_BoundedSetOfNaturals
<1>0. /\ \A i \in S : i <= i
      /\ \A i, j \in S : j < i => j <= i /\ ~(i <= j)
      /\ \A i, j, k \in S : j <= i /\ i <= k => j <= k
      /\ \A i, j \in S : i <= j \/ j < i
  <2>1. \A i \in S : i \in Int
    OBVIOUS
  <2> QED BY <2>1
<1>2. starts \in SUBSET FiniteSubsetsOf(upto(n)) /\ upto(n) \in starts
  <2>1. \A i \in upto(n) : upto(i) \subseteq upto(n)
    BY <1>0, Zenon
  <2>2. n \in upto(n)
    BY <1>0, Zenon
  <2>3. \A i \in upto(n) : upto(i) \in FiniteSubsetsOf(upto(n))
    <3> HIDE DEF upto
    <3> QED BY <1>1, <2>1, FS_FiniteSubsetsOfFinite
  <2>4. upto(n) \in starts
    BY <2>2, Zenon
  <2> HIDE DEF upto
  <2> QED BY <2>3, <2>4, Zenon
<1>3. PICK T \in starts : \A U \in starts : ~(<<U, T>> \in StrictSubsetOrdering(upto(n)))
  <2> HIDE DEF starts, upto
  <2> QED BY <1>2, FS_StrictSubsetOrderingWellFounded, WFMin
<1>4. PICK i \in upto(n) : T = upto(i)
  OBVIOUS
<1>5. ASSUME NEW j \in S, j < i PROVE FALSE
  <2>1. i \in S /\ i <= n /\ j <= i /\ ~(i <= j)
    BY <1>0, <1>5, Zenon
  <2>2. j \in upto(n) /\ upto(i) \subseteq upto(n) /\ upto(j) \subseteq upto(i)
    BY <1>0, <2>1, Zenon
  <2>3. i \in upto(i) /\ i \notin upto(j)
    BY <1>0, <2>1, Zenon
  <2>4. <<upto(j), upto(i)>> \in StrictSubsetOrdering(upto(n))
    <3>1. upto(j) \subseteq upto(n) /\ upto(j) # upto(i)
      BY <2>2, <2>3
    <3> HIDE DEF upto
    <3> QED BY <2>2, <3>1 DEF StrictSubsetOrdering
  <2> QED BY <1>3, <1>4, <2>2, <2>4
<1> QED BY <1>0, <1>5

\* Every bounded set of positions that has an element has a greatest one.
LEMMA HasGreatest ==
    ASSUME NEW n \in Nat, NEW S \in SUBSET (1..n), S # {}
    PROVE  \E i \in S : \A j \in S : j <= i
<1> DEFINE above == {m \in Nat : \A j \in S : j <= m}
<1>1. above \in SUBSET Nat /\ above # {}
  <2>1. n \in above
    OBVIOUS
  <2> QED BY <2>1
<1>2. PICK m \in above : \A k \in above : m <= k
  BY <1>1, HasLeast
<1>3. m \in S
  <2>1. SUFFICES ASSUME m \notin S PROVE FALSE
    OBVIOUS
  <2>2. m # 0
    <3>1. PICK j \in S : j <= m
      BY Zenon
    <3>2. j \in 1..n
      OBVIOUS
    <3> QED BY <3>1, <3>2
  <2>3. m - 1 \in above
    BY <1>2, <2>1, <2>2
  <2> QED BY <1>2, <2>3
<1> QED BY <1>2, <1>3

\* Induction over a set: what has 0 and, with each number, the next one, has all.
LEMMA HasAll ==
    ASSUME NEW S, 0 \in S, \A n \in Nat : n \in S => n + 1 \in S
    PROVE  \A n \in Nat : n \in S
<1> DEFINE bad == {n \in Nat : n \notin S}
<1>1. SUFFICES ASSUME bad # {} PROVE FALSE
  OBVIOUS
<1>2. PICK m \in bad : \A n \in bad : m <= n
  <2>1. bad \in SUBSET Nat
    OBVIOUS
  <2> HIDE DEF bad
  <2> QED BY <1>1, <2>1, HasLeast
<1>3. m \in Nat /\ m # 0 /\ m - 1 \in Nat /\ (m - 1) + 1 = m
  BY <1>2
<1>4. m - 1 \notin bad
  <2> HIDE DEF bad
  <2> QED BY <1>2, <1>3
<1> QED BY <1>2, <1>3, <1>4

\* The results of applying H to A, again and again, N times.
Iteration(A, H, N, f) == f = [n \in 0..N |-> IF n = 0 THEN A ELSE H[f[n - 1]]]

\* A function that is applied again and again has all its results.
LEMMA Iterates ==
    ASSUME NEW D, NEW A \in D, NEW H \in [D -> D], NEW N \in Nat
    PROVE  \E f \in [0..N -> D] : Iteration(A, H, N, f)
<1> DEFINE Results(f, m) == /\ f \in [0..m -> D]
                            /\ f = [n \in 0..m |-> IF n = 0 THEN A ELSE H[f[n - 1]]]
           bad == {m \in Nat : ~ \E f : Results(f, m)}
<1>1. SUFFICES ASSUME bad # {} PROVE FALSE
  BY DEF Iteration
<1>2. PICK m \in bad : \A n \in bad : m <= n
  BY <1>1, HasLeast
<1>3. m # 0
  <2>1. Results([n \in 0..0 |-> A], 0)
    OBVIOUS
  <2> QED BY <2>1
<1>4. m \in Nat /\ m - 1 \in Nat /\ m - 1 \notin bad
  <2>1. m \in Nat
    OBVIOUS
  <2> HIDE DEF bad
  <2> QED BY <1>2, <1>3, <2>1
<1>5. PICK f : Results(f, m - 1)
  BY <1>4
<1> DEFINE g == [n \in 0..m |-> IF n = m THEN H[f[m - 1]] ELSE f[n]]
<1>6. /\ f \in [0..(m - 1) -> D]
      /\ \A n \in 0..(m - 1) : f[n] = IF n = 0 THEN A ELSE H[f[n - 1]]
  BY <1>5
<1>7. \A n \in 0..m : g[n] \in D
  BY <1>4, <1>6
<1>8. ASSUME NEW n \in 0..m PROVE g[n] = IF n = 0 THEN A ELSE H[g[n - 1]]
  <2>1. CASE n = m
    <3>1. g[n] = H[f[m - 1]] /\ g[n - 1] = f[m - 1]
      BY <1>3, <1>4, <2>1
    <3> QED BY <1>3, <2>1, <3>1
  <2>2. CASE n # m
    <3>1. n \in 0..(m - 1) /\ g[n] = f[n]
      BY <1>4, <2>2
    <3>2. n # 0 => g[n - 1] = f[n - 1]
      BY <1>4, <3>1
    <3> HIDE DEF g
    <3> QED BY <1>6, <3>1, <3>2
  <2> QED BY <2>1, <2>2
<1>9. Results(g, m)
  <2>1. DOMAIN g = 0..m /\ g = [n \in 0..m |-> g[n]]
    OBVIOUS
  <2> HIDE DEF g
  <2> QED BY <1>7, <1>8, <2>1
<1> QED BY <1>2, <1>9 DEF Iteration

\* A finite set that shrinks as long as it changes, for as many steps as it has
\* elements and one more, has stopped.
LEMMA Settles ==
    ASSUME NEW N \in Nat, NEW g, IsFiniteSet(g[0]), Cardinality(g[0]) <= N,
           \A n \in 1..(N + 1) : g[n] \subseteq g[n - 1],
           \A n \in 1..N : g[n] = g[n - 1] => g[n + 1] = g[n]
    PROVE  g[N + 1] = g[N] /\ g[N] \subseteq g[0]
<1> DEFINE M == N + 1
           card(n) == Cardinality(g[n])
<1>1. \A n \in 0..M : g[n] \subseteq g[0]
  <2> DEFINE bad == {n \in 0..M : ~(g[n] \subseteq g[0])}
  <2>1. SUFFICES ASSUME bad # {} PROVE FALSE
    OBVIOUS
  <2>2. PICK m \in bad : \A n \in bad : m <= n
    <3>1. bad \in SUBSET Nat
      OBVIOUS
    <3> HIDE DEF bad
    <3> QED BY <2>1, <3>1, HasLeast
  <2>3. m \in 1..M /\ m - 1 \in 0..M
    BY <2>2
  <2>4. m - 1 \notin bad
    BY <2>2, <2>3
  <2> QED BY <2>2, <2>3, <2>4
<1>2. \A n \in 0..M : IsFiniteSet(g[n]) /\ card(n) \in Nat
  BY <1>1, FS_Subset, FS_CardinalityType
<1>3. g[M] = g[N]
  <2>1. SUFFICES ASSUME g[M] # g[N] PROVE FALSE
    OBVIOUS
  <2>2. \A n \in 1..M : g[n] # g[n - 1]
    <3> DEFINE same == {n \in 1..M : g[n] = g[n - 1]}
    <3>1. SUFFICES ASSUME same # {} PROVE FALSE
      OBVIOUS
    <3>2. PICK m \in same : \A n \in same : n <= m
      <4>1. same \in SUBSET (1..M) /\ M \in Nat
        OBVIOUS
      <4> HIDE DEF same, M
      <4> QED BY <3>1, <4>1, HasGreatest
    <3>3. m \in 1..M /\ g[m] = g[m - 1]
      BY <3>2
    <3>4. m # M
      BY <2>1, <3>3
    <3>5. m \in 1..N /\ m + 1 \in 1..M /\ (m + 1) - 1 = m
      BY <3>3, <3>4
    <3>6. g[m + 1] = g[m]
      BY <3>3, <3>5
    <3>7. m + 1 \in same
      BY <3>5, <3>6
    <3>8. m + 1 <= m
      BY <3>2, <3>7
    <3> QED BY <3>5, <3>8
  <2>3. ASSUME NEW n \in 1..M PROVE card(n) < card(n - 1)
    <3>1. n - 1 \in 0..M /\ n \in 0..M
      OBVIOUS
    <3>2. /\ IsFiniteSet(g[n - 1]) /\ g[n] \in SUBSET g[n - 1] /\ g[n] # g[n - 1]
          /\ card(n) \in Nat /\ card(n - 1) \in Nat
      BY <1>2, <2>2, <3>1
    <3>3. card(n) <= card(n - 1) /\ card(n) # card(n - 1)
      BY <3>2, FS_Subset
    <3> HIDE DEF card
    <3> QED BY <3>2, <3>3
  <2>4. \A n \in 0..M : card(n) + n <= N
    <3> DEFINE bad == {n \in 0..M : ~(card(n) + n <= N)}
    <3>1. SUFFICES ASSUME bad # {} PROVE FALSE
      OBVIOUS
    <3>2. PICK m \in bad : \A n \in bad : m <= n
      <4>1. bad \in SUBSET Nat
        OBVIOUS
      <4> HIDE DEF bad
      <4> QED BY <3>1, <4>1, HasLeast
    <3>3. m # 0
      <4>1. card(0) \in Nat /\ card(0) <= N
        BY <1>2
      <4> HIDE DEF card
      <4> QED BY <3>2, <4>1
    <3>4. m \in 1..M /\ m - 1 \in 0..M /\ m - 1 \notin bad
      BY <3>2, <3>3
    <3>5. card(m - 1) + (m - 1) <= N /\ card(m) < card(m - 1) /\ card(m) \in Nat /\ card(m - 1) \in Nat
      BY <1>2, <2>3, <3>2, <3>4
    <3>6. ~(card(m) + m <= N) /\ m \in Nat
      BY <3>2
    <3> HIDE DEF card, bad
    <3> QED BY <3>5, <3>6
  <2>5. card(M) + M <= N /\ card(M) \in Nat
    BY <1>2, <2>4
  <2> HIDE DEF card
  <2> QED BY <2>5
<1> QED BY <1>1, <1>3
=============================================================================
