-------------------------- MODULE GpRecordsProofs ---------------------------
(***************************************************************************)
(* Facts about ledgers as sequences of records: what a comprehension keeps,*)
(* which record is the last of its kind, what appending to a ledger does   *)
(* to its claims, supports, labels and holds.                              *)
(***************************************************************************)
EXTENDS GpRecords, SequencesExt, SequenceTheorems, Iterations

(***************************************************************************)
(* Positions                                                               *)
(***************************************************************************)

\* Positions in a sequence have a last one, and LastOf is it.
LEMMA HasLast ==
    ASSUME NEW n \in Nat, NEW S \in SUBSET (1..n), S # {}
    PROVE  LastOf(S) \in S /\ \A j \in S : j <= LastOf(S)
<1>1. \E i \in S : \A j \in S : j <= i
  BY HasGreatest
<1> QED BY <1>1 DEF LastOf

(***************************************************************************)
(* Comprehensions                                                          *)
(***************************************************************************)

\* Positions of a finite set are ranked 1, 2, ... in their order.
Rank(P) == [i \in P |-> Cardinality({j \in P : j <= i})]

LEMMA Ranked ==
    ASSUME NEW n \in Nat, NEW P \in SUBSET (1..n)
    PROVE  /\ IsFiniteSet(P) /\ Cardinality(P) \in Nat
           /\ Rank(P) \in [P -> 1..Cardinality(P)]
           /\ \A i, j \in P : i < j => Rank(P)[i] < Rank(P)[j]
           /\ \A m \in 1..Cardinality(P) : \E i \in P : Rank(P)[i] = m
<1> DEFINE upto(i) == {j \in P : j <= i}
           rank == Rank(P)
<1>0. rank = [i \in P |-> Cardinality(upto(i))]
  BY DEF Rank
<1> HIDE DEF rank
<1>1. IsFiniteSet(1..n)
  BY FS_Interval
<1>2. IsFiniteSet(P) /\ Cardinality(P) \in Nat
  BY <1>1, FS_Subset, FS_CardinalityType
<1>3. \A i \in P : IsFiniteSet(upto(i)) /\ Cardinality(upto(i)) \in Nat
  BY <1>2, FS_Subset, FS_CardinalityType
<1>4. ASSUME NEW i \in P PROVE rank[i] \in 1..Cardinality(P)
  <2>1. Cardinality(upto(i)) <= Cardinality(P)
    BY <1>2, FS_Subset
  <2>2. Cardinality(upto(i)) # 0
    <3>1. i \in upto(i)
      OBVIOUS
    <3> QED BY <1>3, <3>1, FS_EmptySet
  <2> QED BY <1>0, <1>2, <1>3, <2>1, <2>2
<1>5. ASSUME NEW i \in P, NEW j \in P, i < j PROVE rank[i] < rank[j]
  <2>1. j <= j /\ ~(j <= i) /\ \A m \in P : m <= i => m <= j
    <3>1. i \in Int /\ j \in Int /\ \A m \in P : m \in Int
      OBVIOUS
    <3> HIDE DEF upto
    <3> QED BY <1>5, <3>1
  <2>2. upto(i) \in SUBSET upto(j) /\ j \in upto(j) /\ j \notin upto(i)
    BY <2>1, Zenon
  <2>3. /\ Cardinality(upto(i)) <= Cardinality(upto(j))
        /\ Cardinality(upto(i)) # Cardinality(upto(j))
    BY <1>3, <2>2, FS_Subset
  <2> QED BY <1>0, <1>3, <2>3
<1>6. rank \in [P -> 1..Cardinality(P)]
  BY <1>0, <1>4
<1>7. rank \in Injection(P, 1..Cardinality(P))
  <2>1. \A i, j \in P : rank[i] = rank[j] => i = j
    <3>1. \A i, j \in P : i < j \/ j < i \/ i = j
      OBVIOUS
    <3>2. \A i \in P : rank[i] \in Nat
      BY <1>4, <1>2
    <3> HIDE DEF upto
    <3> QED BY <1>5, <3>1, <3>2
  <2> QED BY <1>6, <2>1 DEF Injection, IsInjective
<1>8. rank \in Surjection(P, 1..Cardinality(P))
  <2>1. IsFiniteSet(1..Cardinality(P)) /\ Cardinality(1..Cardinality(P)) = Cardinality(P)
    <3>1. Cardinality(P) \in Int /\ 1 \in Int
      BY <1>2
    <3>2. /\ IsFiniteSet(1..Cardinality(P))
          /\ Cardinality(1..Cardinality(P)) =
                IF 1 > Cardinality(P) THEN 0 ELSE Cardinality(P) - 1 + 1
      BY <3>1, FS_Interval
    <3> QED BY <1>2, <3>2
  <2> QED BY <1>7, <2>1, FS_Injection
<1>9. \A m \in 1..Cardinality(P) : \E i \in P : rank[i] = m
  BY <1>8 DEF Surjection
<1> QED BY <1>2, <1>5, <1>6, <1>9 DEF rank

\* Sequence o is what s has of T, each element once and in its order: its n-th
\* is the one at[n]-th in s.
Picks(o, s, T, at) ==
    /\ \A n \in DOMAIN o : at[n] \in DOMAIN s /\ o[n] = s[at[n]] /\ o[n] \in T
    /\ \A m, n \in DOMAIN o : m < n => at[m] < at[n]
    /\ \A i \in DOMAIN s : s[i] \in T => \E n \in DOMAIN o : at[n] = i

\* That is what a comprehension keeps.
LEMMA OnlyKeeps ==
    ASSUME NEW S, NEW s \in Seq(S), NEW T
    PROVE  Only(s, T) \in Seq(S \cap T) /\ \E at : Picks(Only(s, T), s, T, at)
<1> DEFINE P == {i \in DOMAIN s : s[i] \in T}
           rank == Rank(P)
           N == Cardinality(P)
           nth(n) == CHOOSE i \in P : Cardinality({j \in P : j <= i}) = n
           at == [n \in 1..N |-> nth(n)]
<1>1. Len(s) \in Nat /\ DOMAIN s = 1..Len(s) /\ \A i \in DOMAIN s : s[i] \in S
  BY LenProperties, ElementOfSeq
<1>2. P \in SUBSET (1..Len(s))
  BY <1>1
<1>3. /\ N \in Nat
      /\ rank \in [P -> 1..N]
      /\ \A i, j \in P : i < j => rank[i] < rank[j]
      /\ \A m \in 1..N : \E i \in P : rank[i] = m
  <2> HIDE DEF P
  <2> QED BY <1>1, <1>2, Ranked
<1>4. ASSUME NEW n \in 1..N PROVE nth(n) \in P /\ rank[nth(n)] = n
  <2>1. \E i \in P : Cardinality({j \in P : j <= i}) = n
    <3> HIDE DEF P
    <3> QED BY <1>3 DEF Rank
  <2> HIDE DEF P
  <2> QED BY <2>1 DEF Rank
<1>5. Only(s, T) = [n \in 1..N |-> s[nth(n)]]
  BY DEF Only
<1> HIDE DEF P, rank, N, nth
<1>6. DOMAIN Only(s, T) = 1..N /\ \A n \in 1..N : Only(s, T)[n] = s[at[n]] /\ at[n] \in P
  BY <1>4, <1>5
<1>7. at \in [1..N -> DOMAIN s] /\ \A n \in 1..N : s[at[n]] \in S \cap T
  BY <1>1, <1>4 DEF P
<1>8. Only(s, T) \in Seq(S \cap T)
  <2>1. Only(s, T) \in [1..N -> S \cap T]
    BY <1>5, <1>6, <1>7
  <2> QED BY <1>3, <2>1, SeqDef
<1>9. ASSUME NEW m \in 1..N, NEW n \in 1..N, m < n PROVE at[m] < at[n]
  <2>1. at[m] \in P /\ at[n] \in P /\ rank[at[m]] = m /\ rank[at[n]] = n
    BY <1>4
  <2> HIDE DEF at
  <2>2. at[m] \in Int /\ at[n] \in Int /\ m \in Int /\ n \in Int
    BY <1>2, <1>3, <2>1
  <2>3. ~(n < m) /\ m # n
    BY <1>9, <2>2
  <2>4. at[m] # at[n] /\ ~(at[n] < at[m])
    BY <1>3, <2>1, <2>3
  <2> QED BY <2>2, <2>4
<1>10. ASSUME NEW i \in DOMAIN s, s[i] \in T PROVE \E n \in 1..N : at[n] = i
  <2>1. i \in P
    BY <1>10 DEF P
  <2>2. rank[i] \in 1..N /\ at[rank[i]] \in P /\ rank[at[rank[i]]] = rank[i]
    BY <1>3, <1>4, <2>1
  <2>3. at[rank[i]] \in Int /\ i \in Int
    BY <1>2, <2>1, <2>2
  <2>4. ~(at[rank[i]] < i) /\ ~(i < at[rank[i]])
    BY <1>3, <2>1, <2>2
  <2> HIDE DEF at
  <2> QED BY <2>2, <2>3, <2>4
<1> HIDE DEF at
<1>11. Picks(Only(s, T), s, T, at)
  <2>1. \A n \in DOMAIN Only(s, T) : /\ at[n] \in DOMAIN s
                                     /\ Only(s, T)[n] = s[at[n]] /\ Only(s, T)[n] \in T
    BY <1>6, <1>7
  <2>2. \A m, n \in DOMAIN Only(s, T) : m < n => at[m] < at[n]
    BY <1>6, <1>9
  <2>3. \A i \in DOMAIN s : s[i] \in T => \E n \in DOMAIN Only(s, T) : at[n] = i
    BY <1>6, <1>10
  <2> QED BY <2>1, <2>2, <2>3 DEF Picks
<1> QED BY <1>8, <1>11

\* It keeps exactly what is in both.
LEMMA OnlyContents ==
    ASSUME NEW S, NEW s \in Seq(S), NEW T
    PROVE  /\ Only(s, T) \in Seq(S)
           /\ Contents(Only(s, T)) = Contents(s) \cap T
<1>1. Only(s, T) \in Seq(S \cap T)
  BY OnlyKeeps
<1>2. PICK at : Picks(Only(s, T), s, T, at)
  BY OnlyKeeps
<1>3. Only(s, T) \in Seq(S)
  BY <1>1, SeqMonotonic
<1>4. Contents(Only(s, T)) \subseteq Contents(s) \cap T
  BY <1>2 DEF Contents, Picks
<1>5. Contents(s) \cap T \subseteq Contents(Only(s, T))
  BY <1>2 DEF Contents, Picks
<1> QED BY <1>3, <1>4, <1>5

\* The elements of a finite set in some order, each once.
LEMMA SetToSeqOfFinite ==
    ASSUME NEW S, IsFiniteSet(S)
    PROVE  /\ SetToSeq(S) \in Seq(S)
           /\ Contents(SetToSeq(S)) = S
           /\ \A i, j \in DOMAIN SetToSeq(S) : SetToSeq(S)[i] = SetToSeq(S)[j] => i = j
<1> DEFINE N == Cardinality(S)
<1>1. N \in Nat /\ ExistsBijection(1..N, S)
  BY FS_CardinalityType
<1>2. \E f \in [1..N -> S] : IsInjective(f)
  BY <1>1 DEF ExistsBijection, Bijection, Injection
<1>3. SetToSeq(S) \in [1..N -> S] /\ IsInjective(SetToSeq(S))
  BY <1>2 DEF SetToSeq
<1>4. IsFiniteSet(1..N) /\ Cardinality(1..N) = N
  <2> HIDE DEF N
  <2>1. /\ IsFiniteSet(1..N)
        /\ Cardinality(1..N) = IF 1 > N THEN 0 ELSE N - 1 + 1
    BY <1>1, FS_Interval
  <2> QED BY <1>1, <2>1
<1>5. SetToSeq(S) \in Surjection(1..N, S)
  <2>1. SetToSeq(S) \in Injection(1..N, S)
    BY <1>3 DEF Injection
  <2> QED BY <1>4, <2>1, FS_Injection
<1>6. SetToSeq(S) \in Seq(S)
  BY <1>1, <1>3, SeqDef
<1>7. Contents(SetToSeq(S)) = S
  BY <1>3, <1>5 DEF Contents, Surjection
<1> QED BY <1>3, <1>6, <1>7 DEF IsInjective

(***************************************************************************)
(* Appending                                                               *)
(***************************************************************************)

\* Where the records of two ledgers end up in one after the other.
LEMMA ConcatAt ==
    ASSUME NEW S, NEW s \in Seq(S), NEW t \in Seq(S)
    PROVE  /\ DOMAIN s = 1..Len(s) /\ DOMAIN t = 1..Len(t) /\ Len(s) \in Nat /\ Len(t) \in Nat
           /\ DOMAIN (s \o t) = 1..(Len(s) + Len(t))
           /\ \A i \in DOMAIN s : i \in DOMAIN (s \o t) /\ (s \o t)[i] = s[i]
           /\ \A i \in DOMAIN t : Len(s) + i \in DOMAIN (s \o t) /\ (s \o t)[Len(s) + i] = t[i]
           /\ \A i \in DOMAIN (s \o t) : i \in DOMAIN s \/ \E j \in DOMAIN t : i = Len(s) + j
<1>1. /\ DOMAIN s = 1..Len(s) /\ DOMAIN t = 1..Len(t) /\ Len(s) \in Nat /\ Len(t) \in Nat
      /\ s \o t \in Seq(S) /\ Len(s \o t) = Len(s) + Len(t)
      /\ \A i \in 1 .. Len(s) + Len(t) : (s \o t)[i] = IF i <= Len(s) THEN s[i] ELSE t[i - Len(s)]
  BY LenProperties, ConcatProperties
<1>2. DOMAIN (s \o t) = 1..(Len(s) + Len(t))
  BY <1>1, LenProperties
<1>3. ASSUME NEW i \in DOMAIN (s \o t), i \notin DOMAIN s
      PROVE  \E j \in DOMAIN t : i = Len(s) + j
  <2>1. i - Len(s) \in DOMAIN t /\ i = Len(s) + (i - Len(s))
    BY <1>1, <1>2, <1>3
  <2> QED BY <2>1
<1> QED BY <1>1, <1>2, <1>3

\* The records of one kind in two ledgers and in one after the other.
Adds(s, t, op) ==
    /\ \A i \in At(s, op) : i \in At(s \o t, op) /\ (s \o t)[i] = s[i]
    /\ \A i \in At(t, op) : Len(s) + i \in At(s \o t, op) /\ (s \o t)[Len(s) + i] = t[i]
    /\ \A i \in At(s \o t, op) : i \in At(s, op) \/ \E j \in At(t, op) : i = Len(s) + j

LEMMA ConcatKinds ==
    ASSUME NEW S, NEW s \in Seq(S), NEW t \in Seq(S), NEW op
    PROVE  Adds(s, t, op)
BY ConcatAt DEF At, Adds

\* What a ledger says after an append: what it said, and what was appended.
LEMMA ConcatSays ==
    ASSUME NEW S, NEW s \in Seq(S), NEW t \in Seq(S)
    PROVE  /\ Contents(s \o t) = Contents(s) \cup Contents(t)
           /\ Claims(s \o t) = Claims(s) \cup Claims(t)
           /\ Withdrawn(s \o t) = Withdrawn(s) \cup Withdrawn(t)
<1>1. Contents(s \o t) = Contents(s) \cup Contents(t)
  <2>1. /\ \A i \in DOMAIN s : i \in DOMAIN (s \o t) /\ (s \o t)[i] = s[i]
        /\ \A i \in DOMAIN t : Len(s) + i \in DOMAIN (s \o t) /\ (s \o t)[Len(s) + i] = t[i]
        /\ \A i \in DOMAIN (s \o t) : i \in DOMAIN s \/ \E j \in DOMAIN t : i = Len(s) + j
    BY ConcatAt
  <2>2. ASSUME NEW i \in DOMAIN (s \o t) PROVE (s \o t)[i] \in Contents(s) \cup Contents(t)
    BY <2>1 DEF Contents
  <2>3. Contents(s) \subseteq Contents(s \o t) /\ Contents(t) \subseteq Contents(s \o t)
    BY <2>1, Zenon DEF Contents
  <2> QED BY <2>2, <2>3 DEF Contents
<1>2. ASSUME NEW op, Adds(s, t, op)
      PROVE  {(s \o t)[i].key : i \in At(s \o t, op)}
                = {s[i].key : i \in At(s, op)} \cup {t[i].key : i \in At(t, op)}
  <2>1. ASSUME NEW i \in At(s \o t, op)
        PROVE  (s \o t)[i].key \in {s[j].key : j \in At(s, op)} \cup {t[j].key : j \in At(t, op)}
    BY <1>2 DEF Adds
  <2>2. {s[i].key : i \in At(s, op)} \subseteq {(s \o t)[i].key : i \in At(s \o t, op)}
    BY <1>2 DEF Adds
  <2>3. {t[i].key : i \in At(t, op)} \subseteq {(s \o t)[i].key : i \in At(s \o t, op)}
    BY <1>2 DEF Adds
  <2> QED BY <2>1, <2>2, <2>3
<1>3. Adds(s, t, "claim") /\ Adds(s, t, "withdraw")
  BY ConcatKinds
<1> QED BY <1>1, <1>2, <1>3 DEF Claims, Withdrawn

\* A record of another kind files no claim.
LEMMA OtherClaimsNothing ==
    ASSUME NEW S, NEW s \in Seq(S), NEW r \in S, r.op # "claim"
    PROVE  Claims(s \o <<r>>) = Claims(s)
<1>1. <<r>> \in Seq(S)
  OBVIOUS
<1>2. Claims(<<r>>) = {}
  BY DEF Claims, At
<1>3. Claims(s \o <<r>>) = Claims(s) \cup Claims(<<r>>)
  <2> DEFINE t == <<r>>
  <2> HIDE DEF t
  <2>1. t \in Seq(S)
    BY <1>1 DEF t
  <2>2. Claims(s \o t) = Claims(s) \cup Claims(t)
    BY <2>1, ConcatSays
  <2> QED BY <2>2 DEF t
<1> QED BY <1>2, <1>3

\* Two appends are one append of what they append.
LEMMA ConcatTwice ==
    ASSUME NEW S, NEW s \in Seq(S), NEW t \in Seq(S), NEW u \in Seq(S), NEW tu, tu = t \o u
    PROVE  (s \o t) \o u = s \o tu
BY ConcatAssociative

\* Taking the first record of what is due leaves what is due as it was.
LEMMA TakeNext ==
    ASSUME NEW S, NEW s \in Seq(S), NEW t \in Seq(S), t # <<>>
    PROVE  /\ Head(t) \in S /\ Tail(t) \in Seq(S)
           /\ t = <<Head(t)>> \o Tail(t)
           /\ Append(s, Head(t)) = s \o <<Head(t)>>
           /\ Append(s, Head(t)) \o Tail(t) = s \o t
<1>1. Head(t) \in S /\ Tail(t) \in Seq(S) /\ <<Head(t)>> \in Seq(S)
  BY HeadTailProperties
<1>2. t = <<Head(t)>> \o Tail(t)
  <2>1. Len(t) \in Nat \ {0}
    BY EmptySeq
  <2>2. /\ SubSeq(t, 1, Len(t)) = <<t[1]>> \o SubSeq(t, 2, Len(t))
        /\ SubSeq(t, 1, Len(t)) = t
        /\ SubSeq(t, 2, Len(t)) = Tail(t)
    BY <2>1, SubSeqRecursiveFirst, SubSeqFull, TailIsSubSeq
  <2> QED BY <2>2
<1>3. Append(s, Head(t)) = s \o <<Head(t)>>
  BY <1>1, AppendIsConcat
<1>4. (s \o <<Head(t)>>) \o Tail(t) = s \o (<<Head(t)>> \o Tail(t))
  BY <1>1, ConcatAssociative
<1> QED BY <1>1, <1>2, <1>3, <1>4

(***************************************************************************)
(* Supports                                                                *)
(***************************************************************************)

\* Record i is the last support of claim k.
IsLatest(recs, k, i) ==
    /\ i \in At(recs, "support") /\ recs[i].key = k
    /\ \A j \in At(recs, "support") : recs[j].key = k => j <= i

\* A claim's accepted support is the latest one.
SupportsLatest(recs) ==
    /\ DOMAIN Supports(recs) = {recs[i].key : i \in At(recs, "support")}
    /\ \A k \in DOMAIN Supports(recs) : \E i : IsLatest(recs, k, i)
    /\ \A k, i : IsLatest(recs, k, i) =>
          k \in DOMAIN Supports(recs) /\ Supports(recs)[k] = recs[i].receipt

LEMMA SupportsAre ==
    ASSUME NEW S, NEW recs \in Seq(S)
    PROVE  SupportsLatest(recs)
<1> DEFINE all == At(recs, "support")
           keys == {recs[i].key : i \in all}
           of(k) == {i \in all : recs[i].key = k}
<1>1. Len(recs) \in Nat /\ all \in SUBSET (1..Len(recs))
  BY LenProperties DEF At
<1>2. Supports(recs) = [k \in keys |-> recs[LastOf(of(k))].receipt]
  BY DEF Supports
<1>3. ASSUME NEW k \in keys
      PROVE  IsLatest(recs, k, LastOf(of(k)))
  <2>1. of(k) \in SUBSET (1..Len(recs)) /\ of(k) # {}
    BY <1>1
  <2>2. LastOf(of(k)) \in of(k) /\ \A j \in of(k) : j <= LastOf(of(k))
    <3> HIDE DEF of
    <3> QED BY <1>1, <2>1, HasLast
  <2> QED BY <2>2 DEF IsLatest
<1>4. ASSUME NEW k, NEW i, IsLatest(recs, k, i)
      PROVE  k \in keys /\ Supports(recs)[k] = recs[i].receipt
  <2>1. k \in keys
    BY <1>4 DEF IsLatest
  <2>2. IsLatest(recs, k, LastOf(of(k)))
    BY <1>3, <2>1
  <2>3. i \in Int /\ LastOf(of(k)) \in Int /\ i <= LastOf(of(k)) /\ LastOf(of(k)) <= i
    BY <1>1, <1>4, <2>2 DEF IsLatest
  <2>4. i = LastOf(of(k))
    BY <2>3
  <2> QED BY <1>2, <2>1, <2>4
<1>5. DOMAIN Supports(recs) = keys
  BY <1>2
<1> QED BY <1>3, <1>4, <1>5 DEF SupportsLatest

\* Ledger u has the supports of s and then those of t.
Follows(u, s, t) ==
    /\ \A i \in At(s, "support") : i \in At(u, "support") /\ u[i] = s[i]
    /\ \A i \in At(t, "support") : Len(s) + i \in At(u, "support") /\ u[Len(s) + i] = t[i]
    /\ \A i \in At(u, "support") : i \in At(s, "support") \/ \E j \in At(t, "support") : i = Len(s) + j

\* Then what t supports is supported as there, and the rest as in s.
Supersedes(u, s, t) ==
    /\ DOMAIN Supports(u) = DOMAIN Supports(s) \cup DOMAIN Supports(t)
    /\ \A k \in DOMAIN Supports(t) : Supports(u)[k] = Supports(t)[k]
    /\ \A k \in DOMAIN Supports(s) \ DOMAIN Supports(t) : Supports(u)[k] = Supports(s)[k]

LEMMA FollowsSupports ==
    ASSUME NEW S, NEW s \in Seq(S), NEW t \in Seq(S), NEW u \in Seq(S), Follows(u, s, t)
    PROVE  Supersedes(u, s, t)
<1>1. /\ \A i \in At(s, "support") : i \in At(u, "support") /\ u[i] = s[i]
      /\ \A i \in At(t, "support") : Len(s) + i \in At(u, "support") /\ u[Len(s) + i] = t[i]
      /\ \A i \in At(u, "support") : i \in At(s, "support") \/ \E j \in At(t, "support") : i = Len(s) + j
      /\ u \in Seq(S)
  BY DEF Follows
<1>0. SupportsLatest(s) /\ SupportsLatest(t) /\ SupportsLatest(u)
  BY <1>1, SupportsAre
<1>2. /\ DOMAIN s = 1..Len(s) /\ DOMAIN t = 1..Len(t) /\ Len(s) \in Nat /\ Len(t) \in Nat
  BY LenProperties
<1>3. ASSUME NEW k \in DOMAIN Supports(t)
      PROVE  k \in DOMAIN Supports(u) /\ Supports(u)[k] = Supports(t)[k]
  <2>1. PICK i : IsLatest(t, k, i)
    BY <1>0 DEF SupportsLatest
  <2>2. Supports(t)[k] = t[i].receipt /\ i \in At(t, "support") /\ i \in 1..Len(t)
    <3>1. Supports(t)[k] = t[i].receipt
      BY <1>0, <2>1 DEF SupportsLatest
    <3>2. i \in At(t, "support") /\ i \in DOMAIN t
      BY <2>1 DEF IsLatest, At
    <3> QED BY <1>2, <3>1, <3>2
  <2>3. ASSUME NEW j \in At(u, "support"), u[j].key = k PROVE j <= Len(s) + i
    <3>1. CASE j \in At(s, "support")
      <4>1. j \in 1..Len(s)
        BY <1>2, <3>1 DEF At
      <4> QED BY <1>2, <2>2, <4>1
    <3>2. ASSUME NEW m \in At(t, "support"), j = Len(s) + m PROVE j <= Len(s) + i
      <4>1. m <= i /\ m \in 1..Len(t)
        BY <1>1, <1>2, <2>1, <2>3, <3>2 DEF IsLatest, At
      <4> QED BY <1>2, <2>2, <3>2, <4>1
    <3> QED BY <1>1, <3>1, <3>2
  <2>4. IsLatest(u, k, Len(s) + i) /\ u[Len(s) + i] = t[i]
    BY <1>1, <2>1, <2>3 DEF IsLatest
  <2> QED BY <1>0, <2>2, <2>4 DEF SupportsLatest
<1>4. ASSUME NEW k \in DOMAIN Supports(s), k \notin DOMAIN Supports(t)
      PROVE  k \in DOMAIN Supports(u) /\ Supports(u)[k] = Supports(s)[k]
  <2>1. PICK i : IsLatest(s, k, i)
    BY <1>0 DEF SupportsLatest
  <2>2. Supports(s)[k] = s[i].receipt
    BY <1>0, <2>1 DEF SupportsLatest
  <2>3. \A m \in At(t, "support") : t[m].key # k
    BY <1>0, <1>4 DEF SupportsLatest
  <2>4. ASSUME NEW j \in At(u, "support"), u[j].key = k PROVE j <= i
    <3>1. j \in At(s, "support") /\ s[j].key = k
      BY <1>1, <2>3, <2>4
    <3> QED BY <2>1, <3>1 DEF IsLatest
  <2>5. IsLatest(u, k, i) /\ u[i] = s[i]
    BY <1>1, <2>1, <2>4 DEF IsLatest
  <2> QED BY <1>0, <2>2, <2>5 DEF SupportsLatest
<1>5. DOMAIN Supports(u) \subseteq DOMAIN Supports(s) \cup DOMAIN Supports(t)
  <2>1. ASSUME NEW j \in At(u, "support")
        PROVE  u[j].key \in DOMAIN Supports(s) \cup DOMAIN Supports(t)
    <3>1. CASE j \in At(s, "support")
      <4>1. u[j] = s[j] /\ s[j].key \in DOMAIN Supports(s)
        BY <1>0, <1>1, <3>1 DEF SupportsLatest
      <4> QED BY <4>1
    <3>2. ASSUME NEW m \in At(t, "support"), j = Len(s) + m
          PROVE  u[j].key \in DOMAIN Supports(t)
      <4>1. u[j] = t[m] /\ t[m].key \in DOMAIN Supports(t)
        BY <1>0, <1>1, <3>2 DEF SupportsLatest
      <4> QED BY <4>1
    <3> QED BY <1>1, <3>1, <3>2
  <2> QED BY <1>0, <2>1 DEF SupportsLatest
<1> QED BY <1>3, <1>4, <1>5 DEF Supersedes

\* What is supported after an append, and by what.
LEMMA ConcatSupports ==
    ASSUME NEW S, NEW s \in Seq(S), NEW t \in Seq(S), NEW u, u = s \o t
    PROVE  u \in Seq(S) /\ Supersedes(u, s, t)
<1>1. s \o t \in Seq(S) /\ Follows(s \o t, s, t)
  <2>1. Adds(s, t, "support") /\ s \o t \in Seq(S)
    BY ConcatKinds, ConcatProperties
  <2> QED BY <2>1 DEF Adds, Follows
<1> QED BY <1>1, FollowsSupports

\* Records that support nothing leave every claim's support.
LEMMA ConcatUnsupported ==
    ASSUME NEW S, NEW s \in Seq(S), NEW t \in Seq(S), At(t, "support") = {}, NEW u, u = s \o t
    PROVE  Supports(u) = Supports(s)
<1>1. DOMAIN Supports(t) = {}
  BY SupportsAre DEF SupportsLatest
<1>2. Supersedes(u, s, t)
  BY ConcatSupports
<1>3. /\ DOMAIN Supports(u) = DOMAIN Supports(s)
      /\ \A k \in DOMAIN Supports(s) : Supports(u)[k] = Supports(s)[k]
  BY <1>1, <1>2 DEF Supersedes
<1>4. /\ Supports(u) = [k \in DOMAIN Supports(u) |-> Supports(u)[k]]
      /\ Supports(s) = [k \in DOMAIN Supports(s) |-> Supports(s)[k]]
  BY DEF Supports
<1> QED BY <1>3, <1>4

\* A ledger supports finitely many claims.
LEMMA SupportsFinite ==
    ASSUME NEW S, NEW recs \in Seq(S)
    PROVE  IsFiniteSet(DOMAIN Supports(recs))
<1> DEFINE all == At(recs, "support")
           keyOf == [i \in all |-> recs[i].key]
           keys == {recs[i].key : i \in all}
<1>1. Len(recs) \in Nat /\ all \in SUBSET (1..Len(recs))
  BY LenProperties DEF At
<1>2. IsFiniteSet(all)
  <2>1. IsFiniteSet(1..Len(recs))
    BY <1>1, FS_Interval
  <2> HIDE DEF all
  <2> QED BY <1>1, <2>1, FS_Subset
<1>3. keyOf \in Surjection(all, keys)
  BY DEF Surjection
<1>4. IsFiniteSet(keys)
  <2> HIDE DEF all, keyOf, keys
  <2> QED BY <1>2, <1>3, FS_Surjection
<1> QED BY <1>4, SupportsAre DEF SupportsLatest
=============================================================================
