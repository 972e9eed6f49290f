--------------------------- MODULE GP50FoldProofs ---------------------------
(***************************************************************************)
(* Proofs, for every registry, every event set and every log: that the     *)
(* kernel's rounds reach only what every closed set holds, that published  *)
(* support is grounded and, when the receipts are sound, true; that the    *)
(* fold implements GP50Custody; and what one more event may do to a log.   *)
(***************************************************************************)
EXTENDS GP50Meaning, Iterations

-----------------------------------------------------------------------------
(***************************************************************************)
(* Lemmas about one round of the closure.                                  *)
(***************************************************************************)

\* A round stays within the log's warrants.
LEMMA AdvanceType ==
    ASSUME NEW l, NEW S, S \subseteq WarrantIds(l)
    PROVE  Advance(l, S) \subseteq WarrantIds(l)
BY DEF Advance, WarrantIds

\* What is enabled stays enabled as more is reached.
LEMMA EnabledMonotone ==
    ASSUME NEW l, NEW w, NEW S, NEW T, S \subseteq T, Enabled(l, w, S)
    PROVE  Enabled(l, w, T)
BY DEF Enabled

\* A set of warrants each of which is enabled by the set itself.
Grounded(l, S) == \A id \in S : \E w \in WarrantsIn(l) : w.id = id /\ Enabled(l, w, S)

\* A round keeps a grounded set grounded.
LEMMA AdvanceGrounded ==
    ASSUME NEW l, NEW S, Grounded(l, S)
    PROVE  Grounded(l, Advance(l, S))
<1>1. S \subseteq Advance(l, S)
  BY DEF Advance
<1>2. SUFFICES ASSUME NEW id \in Advance(l, S)
               PROVE  \E w \in WarrantsIn(l) : w.id = id /\ Enabled(l, w, Advance(l, S))
  BY DEF Grounded
<1>3. PICK w \in WarrantsIn(l) : w.id = id /\ Enabled(l, w, S)
  BY <1>2 DEF Advance, Grounded
<1>4. Enabled(l, w, Advance(l, S))
  BY <1>1, <1>3, EnabledMonotone
<1> QED BY <1>3, <1>4

\* A round does not leave a closed set.
LEMMA AdvanceLeast ==
    ASSUME NEW l, NEW S, NEW T, Closed(l, T), S \subseteq T
    PROVE  Advance(l, S) \subseteq T
<1>1. SUFFICES ASSUME NEW w \in WarrantsIn(l), Enabled(l, w, S)
               PROVE  w.id \in T
  BY DEF Advance
<1>2. Enabled(l, w, T)
  BY <1>1, EnabledMonotone
<1> QED BY <1>2 DEF Closed

-----------------------------------------------------------------------------
(***************************************************************************)
(* Truth: a warrant is True when it is bound to a clause and every clause  *)
(* it is bound to holds throughout its scope.                              *)
(***************************************************************************)
True(w) == BoundClauses(w) # {} /\ \A c \in BoundClauses(w) : Means(c)

AllTrue(l, S) == \A w \in WarrantsIn(l) : w.id \in S => True(w)

\* A warrant is bound to one clause at most.
LEMMA BoundUnique ==
    ASSUME NEW w, NEW c \in BoundClauses(w), NEW d \in BoundClauses(w)
    PROVE  c = d
BY DEF BoundClauses, KeysUnique

\* In a log without conflicting contents, an id names one warrant.
LEMMA WarrantUnique ==
    ASSUME NEW l, ConflictingWarrants(l) = {},
           NEW v \in WarrantsIn(l), NEW w \in WarrantsIn(l), v.id = w.id
    PROVE  v = w
BY DEF ConflictingWarrants

\* The warrant an id is looked up to.
LEMMA LookupFinds ==
    ASSUME NEW l, NEW id \in WarrantIds(l)
    PROVE  Lookup(l, id) \in WarrantsIn(l) /\ Lookup(l, id).id = id
<1>1. \E w \in WarrantsIn(l) : w.id = id
  BY DEF WarrantIds
<1> QED BY <1>1 DEF Lookup

\* A receipt that replays makes its warrant true.
LEMMA ReceiptTrue ==
    ASSUME ReceiptsSound, NEW w, AcceptsReceipt(w)
    PROVE  True(w)
<1>1. PICK c \in BoundClauses(w), r \in Receipts :
          r.claim = c.key /\ r.version = c.version /\ r.binding = c.binding /\ r.replays
  BY DEF AcceptsReceipt
<1>2. Means(c)
  BY <1>1 DEF ReceiptsSound, BoundClauses
<1> QED BY <1>1, <1>2, BoundUnique DEF True

\* A narrowing of a true warrant is true.
LEMMA NarrowTrue ==
    ASSUME NEW w, NEW s, True(s), AcceptsNarrow(w, s)
    PROVE  True(w)
<1>1. PICK d \in BoundClauses(w), c \in BoundClauses(s) : CheckNarrow(d, c)
  BY DEF AcceptsNarrow
<1>2. Means(c)
  BY <1>1 DEF True
<1>3. Means(d)
  BY <1>1, <1>2 DEF CheckNarrow, Means
<1> QED BY <1>1, <1>3, BoundUnique DEF True

\* A cover by true warrants is true: every context of its scope is in the
\* scope of some branch.
LEMMA CoverTrue ==
    ASSUME NEW w, NEW premises, \A i \in DOMAIN premises : True(premises[i]),
           AcceptsCover(w, premises)
    PROVE  True(w)
<1> DEFINE branches == UNION {BoundClauses(premises[i]) : i \in DOMAIN premises}
<1>1. PICK d \in BoundClauses(w) : CheckCover(d, branches)
  BY DEF AcceptsCover
<1>2. \A b \in branches : Means(b)
  BY DEF True
<1>3. Means(d)
  <2>1. SUFFICES ASSUME NEW ctx \in d.scope PROVE <<d.stmt, ctx>> \in Holds
    BY DEF Means
  <2>2. PICK b \in branches : ctx \in b.scope
    BY <1>1, <2>1 DEF CheckCover
  <2>3. d.stmt = b.stmt
    BY <1>1, <2>2 DEF CheckCover
  <2> QED BY <1>2, <2>2, <2>3 DEF Means
<1> QED BY <1>1, <1>3, BoundUnique DEF True

\* A round adds only true warrants to true ones.
LEMMA AdvanceTrue ==
    ASSUME ReceiptsSound, NEW l, NEW S, ConflictingWarrants(l) = {}, AllTrue(l, S)
    PROVE  AllTrue(l, Advance(l, S))
<1>1. SUFFICES ASSUME NEW w \in WarrantsIn(l), w.id \in Advance(l, S), w.id \notin S
               PROVE  True(w)
  BY DEF AllTrue
<1>2. Enabled(l, w, S)
  BY <1>1, WarrantUnique DEF Advance
<1>3. \A id \in Premises(w) : True(Lookup(l, id))
  BY <1>2, LookupFinds DEF Enabled, Admitted, AllTrue
<1>4. CASE w.evidence.kind = "receipt" /\ AcceptsReceipt(w)
  BY <1>4, ReceiptTrue
<1>5. CASE /\ w.evidence.kind = "derived"
           /\ AcceptsCover(w, [i \in DOMAIN w.evidence.premises |->
                                  Lookup(l, w.evidence.premises[i])])
  <2> DEFINE premises == [i \in DOMAIN w.evidence.premises |->
                             Lookup(l, w.evidence.premises[i])]
  <2>1. \A i \in DOMAIN premises : True(premises[i])
    BY <1>3, <1>5 DEF Premises
  <2> QED BY <2>1, <1>5, CoverTrue
<1>6. CASE /\ w.evidence.kind = "narrow"
           /\ AcceptsNarrow(w, Lookup(l, w.evidence.premise))
  <2>1. True(Lookup(l, w.evidence.premise))
    BY <1>3, <1>6 DEF Premises
  <2> QED BY <2>1, <1>6, NarrowTrue
<1> QED BY <1>2, <1>4, <1>5, <1>6 DEF Enabled, Admitted

-----------------------------------------------------------------------------
(***************************************************************************)
(* The type invariant.                                                     *)
(***************************************************************************)

\* The log grows within Events, a fold reads a log the campaign has had, and
\* what is reached or published are ids of that log's warrants.
THEOREM TypeCorrect == Spec => []TypeOK
<1>1. Init => TypeOK
  BY InitLogInEvents DEF Init, TypeOK, NoView
<1>2. TypeOK /\ [Next]_vars => TypeOK'
  <2> SUFFICES ASSUME TypeOK, [Next]_vars PROVE TypeOK'
    OBVIOUS
  <2>1. ASSUME NEW e \in Events \ log, Record(e) PROVE TypeOK'
    BY <2>1 DEF TypeOK, Record
  <2>2. CASE Refuse
    BY <2>2 DEF TypeOK, Refuse, NoView
  <2>3. CASE Resolve
    BY <2>3 DEF TypeOK, Resolve, NoView
  <2>4. CASE Round
    <3>1. reached' \subseteq WarrantIds(input)
      BY <2>4, AdvanceType DEF TypeOK, Round
    <3> QED BY <2>4, <3>1 DEF TypeOK, Round
  <2>5. CASE Publish
    BY <2>5 DEF TypeOK, Publish
  <2>6. CASE UNCHANGED vars
    BY <2>6 DEF TypeOK, vars
  <2> QED BY <2>1, <2>2, <2>3, <2>4, <2>5, <2>6 DEF Next
<1> QED BY <1>1, <1>2, PTL DEF Spec

-----------------------------------------------------------------------------
(***************************************************************************)
(* The inductive invariant: what the rounds have reached is grounded, in   *)
(* every closed set and true, and so is what the last fold published.      *)
(***************************************************************************)
RunInv ==
    /\ reached # {} => ConflictingWarrants(input) = {}
    /\ phase = "closing" => ConflictingWarrants(input) = {}
    /\ Grounded(input, reached)
    /\ ReachedIsLeast
    /\ ReachedIsTrue

ViewInv ==
    /\ ViewIsGrounded
    /\ SupportIsTrue
    /\ view.supports # {} => ConflictingWarrants(view.of) = {}

IInv == RunInv /\ ViewInv

\* ReachedIsTrue, in terms of the lemmas above.
LEMMA ReachedAllTrue == ReachedIsTrue <=> (ReceiptsSound => AllTrue(input, reached))
BY DEF ReachedIsTrue, AllTrue, True

LEMMA SupportAllTrue == SupportIsTrue <=> (ReceiptsSound => AllTrue(view.of, view.supports))
BY DEF SupportIsTrue, AllTrue, True

\* A round preserves the part of the invariant about the running fold.
LEMMA RoundPreserves ==
    ASSUME TypeOK, RunInv, Round
    PROVE  RunInv'
<1>1. input' = input /\ phase' = phase /\ reached' = Advance(input, reached)
  BY DEF Round
<1>2. ConflictingWarrants(input) = {}
  BY DEF RunInv, Round
<1>3. Grounded(input, Advance(input, reached))
  BY AdvanceGrounded DEF RunInv
<1>4. ReachedIsLeast'
  <2>1. SUFFICES ASSUME NEW S \in SUBSET WarrantIds(input), Closed(input, S)
                 PROVE  Advance(input, reached) \subseteq S
    BY <1>1 DEF ReachedIsLeast
  <2>2. reached \subseteq S
    BY <2>1 DEF RunInv, ReachedIsLeast
  <2> QED BY <2>1, <2>2, AdvanceLeast
<1>5. ReachedIsTrue'
  <2>1. SUFFICES ASSUME ReceiptsSound PROVE AllTrue(input, Advance(input, reached))
    BY <1>1 DEF ReachedIsTrue, AllTrue, True
  <2>2. AllTrue(input, reached)
    BY <2>1, ReachedAllTrue DEF RunInv
  <2> QED BY <1>2, <2>1, <2>2, AdvanceTrue
<1> QED BY <1>1, <1>2, <1>3, <1>4, <1>5 DEF RunInv

\* Publishing hands what the running fold knows of its result to the view.
LEMMA PublishPreserves ==
    ASSUME TypeOK, RunInv, Publish
    PROVE  ViewInv'
<1>1. view'.of = input /\ view'.supports = reached
  BY DEF Publish
<1>2. ViewIsGrounded'
  BY <1>1 DEF RunInv, ViewIsGrounded, Grounded
<1>3. SupportIsTrue'
  BY <1>1 DEF RunInv, ReachedIsTrue, SupportIsTrue
<1> QED BY <1>1, <1>2, <1>3 DEF RunInv, ViewInv, Publish

\* The empty view satisfies it.
LEMMA EmptyView ==
    ASSUME view.supports = {}
    PROVE  ViewInv
BY DEF ViewInv, ViewIsGrounded, SupportIsTrue

\* And so does a fold that has not started its rounds.
LEMMA EmptyRun ==
    ASSUME reached = {}, phase = "closing" => ConflictingWarrants(input) = {}
    PROVE  RunInv
BY DEF RunInv, Grounded, ReachedIsLeast, ReachedIsTrue

THEOREM Invariant == Spec => []IInv
<1>1. Init => IInv
  BY EmptyView, EmptyRun DEF Init, IInv, NoView
<1>2. TypeOK /\ IInv /\ [Next]_vars => IInv'
  <2> SUFFICES ASSUME TypeOK, IInv, [Next]_vars PROVE IInv'
    OBVIOUS
  <2>1. ASSUME NEW e \in Events \ log, Record(e) PROVE IInv'
    BY <2>1 DEF IInv, RunInv, ViewInv, Record, ReachedIsLeast, ReachedIsTrue,
                ViewIsGrounded, SupportIsTrue
  <2>2. CASE Refuse
    <3>1. reached' = {} /\ view'.supports = {} /\ phase' # "closing"
      BY <2>2 DEF Refuse
    <3>2. RunInv'
      BY <3>1 DEF RunInv, Grounded, ReachedIsLeast, ReachedIsTrue
    <3>3. ViewInv'
      BY <3>1 DEF ViewInv, ViewIsGrounded, SupportIsTrue
    <3> QED BY <3>2, <3>3 DEF IInv
  <2>3. CASE Resolve
    <3>1. reached' = {} /\ view'.supports = {} /\ ConflictingWarrants(input') = {}
      BY <2>3 DEF Resolve, NoView, WellFormed
    <3>2. RunInv'
      BY <3>1 DEF RunInv, Grounded, ReachedIsLeast, ReachedIsTrue
    <3>3. ViewInv'
      BY <3>1 DEF ViewInv, ViewIsGrounded, SupportIsTrue
    <3> QED BY <3>2, <3>3 DEF IInv
  <2>4. CASE Round
    <3>1. RunInv'
      BY <2>4, RoundPreserves DEF IInv
    <3>2. ViewInv'
      BY <2>4 DEF IInv, ViewInv, Round, ViewIsGrounded, SupportIsTrue
    <3> QED BY <3>1, <3>2 DEF IInv
  <2>5. CASE Publish
    <3>1. ViewInv'
      BY <2>5, PublishPreserves DEF IInv
    <3>2. RunInv'
      BY <2>5 DEF IInv, RunInv, Publish, ReachedIsLeast, ReachedIsTrue
    <3> QED BY <3>1, <3>2 DEF IInv
  <2>6. CASE UNCHANGED vars
    BY <2>6 DEF IInv, RunInv, ViewInv, vars, ReachedIsLeast, ReachedIsTrue,
                ViewIsGrounded, SupportIsTrue
  <2> QED BY <2>1, <2>2, <2>3, <2>4, <2>5, <2>6 DEF Next
<1> QED BY <1>1, <1>2, TypeCorrect, PTL DEF Spec

-----------------------------------------------------------------------------
(***************************************************************************)
(* The theorems the project is after.                                      *)
(***************************************************************************)

\* No cycle of warrants seeds itself (Closure.lean): whatever the log, what is
\* reached lies in every closed set of its warrants.
THEOREM NoSelfSeeding == Spec => []ReachedIsLeast
BY Invariant, PTL DEF IInv, RunInv

\* Everything published is admitted with every premise it names published too.
THEOREM PublishedIsGrounded == Spec => []ViewIsGrounded
BY Invariant, PTL DEF IInv, ViewInv

\* Published support is true when the receipts are sound, through any chain of
\* covers and narrowings.
THEOREM PublishedIsTrue == Spec => []SupportIsTrue
BY Invariant, PTL DEF IInv, ViewInv

\* Sound receipts never freeze a release.
THEOREM FreezeIsUnsound == Spec => []FreezeNeedsUnsoundReceipt
<1>1. ViewInv => FreezeNeedsUnsoundReceipt
  <2> SUFFICES ASSUME ViewInv, ReceiptsSound, ContraSound,
                      NEW f \in ConflictFindings(view.of, view.supports), Inhabited(f)
               PROVE  FALSE
    BY DEF FreezeNeedsUnsoundReceipt, ReleaseAllowed
  <2>1. /\ f[1] \in WarrantsIn(view.of) /\ f[2] \in WarrantsIn(view.of)
        /\ f[1].id \in view.supports /\ f[2].id \in view.supports
    BY DEF ConflictFindings
  <2>2. PICK c \in BoundClauses(f[1]), d \in BoundClauses(f[2]) : <<c.stmt, d.stmt>> \in Contra
    BY DEF ConflictFindings
  <2>3. c.scope \cap d.scope # {}
    BY BoundUnique DEF Inhabited
  <2>4. Means(c) /\ Means(d)
    BY <2>1 DEF ViewInv, SupportIsTrue
  <2>5. PICK ctx : ctx \in c.scope /\ ctx \in d.scope
    BY <2>3
  <2>6. <<c.stmt, ctx>> \in Holds /\ <<d.stmt, ctx>> \in Holds
    BY <2>4, <2>5 DEF Means
  <2> QED BY <2>2, <2>6 DEF ContraSound
<1> QED BY <1>1, Invariant, PTL DEF IInv

\* An allowed release holds no contradiction between two of its supports that
\* the checker can tell: review looks at a pair in the order of its ids, and
\* contradiction is mutual.
THEOREM ReleaseIsConsistent == Spec => []AllowedReleaseIsConsistent
<1>1. TypeOK /\ ViewInv => AllowedReleaseIsConsistent
  <2> SUFFICES ASSUME TypeOK, ViewInv, ReleaseAllowed(view.of, view.supports),
                      NEW v \in WarrantsIn(view.of), NEW w \in WarrantsIn(view.of), v # w,
                      {v.id, w.id} \subseteq view.supports,
                      NEW c \in BoundClauses(v), NEW d \in BoundClauses(w),
                      <<c.stmt, d.stmt>> \in Contra, c.scope \cap d.scope # {},
                      <<c.scope, d.scope>> \notin Undecided,
                      <<d.scope, c.scope>> \notin Undecided
               PROVE  FALSE
    BY DEF AllowedReleaseIsConsistent
  <2>1. v.id \in Nat /\ w.id \in Nat
    BY InitLogInEvents, IdsAreNumbers DEF TypeOK, WarrantsIn, OfKind
  <2>2. v.id # w.id
    BY WarrantUnique DEF ViewInv
  <2>3. <<d.stmt, c.stmt>> \in Contra
    BY ContraSymmetric
  <2>4. CASE v.id < w.id
    <3>1. <<v, w>> \in ConflictFindings(view.of, view.supports)
      BY <2>4 DEF ConflictFindings
    <3>2. Inhabited(<<v, w>>)
      BY DEF Inhabited
    <3> QED BY <3>1, <3>2 DEF ReleaseAllowed
  <2>5. CASE w.id < v.id
    <3>1. <<w, v>> \in ConflictFindings(view.of, view.supports)
      BY <2>3, <2>5 DEF ConflictFindings
    <3>2. Inhabited(<<w, v>>)
      BY DEF Inhabited
    <3> QED BY <3>1, <3>2 DEF ReleaseAllowed
  <2> QED BY <2>1, <2>2, <2>4, <2>5
<1> QED BY <1>1, Invariant, TypeCorrect, PTL DEF IInv

-----------------------------------------------------------------------------
(***************************************************************************)
(* Lemmas about the bound.                                                 *)
(***************************************************************************)

\* A finite log has finitely many warrants.
LEMMA FiniteNodes ==
    ASSUME NEW l, IsFiniteSet(l)
    PROVE  IsFiniteSet(WarrantIds(l))
<1> DEFINE f == [w \in WarrantsIn(l) |-> w.id]
<1>1. IsFiniteSet(WarrantsIn(l))
  <2>1. WarrantsIn(l) \in SUBSET l
    BY DEF WarrantsIn, OfKind
  <2> QED BY <2>1, FS_Subset
<1>2. f \in Surjection(WarrantsIn(l), WarrantIds(l))
  BY DEF Surjection, WarrantIds
<1> QED BY <1>1, <1>2, FS_Surjection

\* A round that adds nothing leaves a closed set.
LEMMA FixedIsClosed ==
    ASSUME NEW l, NEW S, Advance(l, S) = S
    PROVE  Closed(l, S)
BY DEF Advance, Closed

\* The set of all warrants is closed.
LEMMA AllIsClosed ==
    ASSUME NEW l
    PROVE  Closed(l, WarrantIds(l))
BY DEF Closed, WarrantIds

\* A round that adds something adds at least one.
LEMMA AdvanceGrows ==
    ASSUME NEW l, IsFiniteSet(l), NEW S \in SUBSET WarrantIds(l), Advance(l, S) # S
    PROVE  Cardinality(Advance(l, S)) >= Cardinality(S) + 1
<1>1. S \subseteq Advance(l, S) /\ Advance(l, S) \in SUBSET WarrantIds(l)
  BY AdvanceType DEF Advance
<1>2. IsFiniteSet(Advance(l, S)) /\ IsFiniteSet(S)
  BY <1>1, FiniteNodes, FS_Subset
<1>3. Cardinality(S) <= Cardinality(Advance(l, S)) /\ Cardinality(S) # Cardinality(Advance(l, S))
  BY <1>1, <1>2, FS_Subset
<1>4. Cardinality(S) \in Nat /\ Cardinality(Advance(l, S)) \in Nat
  BY <1>2, FS_CardinalityType
<1> QED BY <1>3, <1>4

\* A set of warrants that is closed, and within every closed one, is the least.
LEMMA LeastIsUnique ==
    ASSUME NEW l, NEW S \in SUBSET WarrantIds(l), Closed(l, S),
           \A T \in SUBSET WarrantIds(l) : Closed(l, T) => S \subseteq T
    PROVE  S = Custody!LeastSupport(l)
BY DEF Custody!LeastSupport

-----------------------------------------------------------------------------
(***************************************************************************)
(* The inductive invariant: a running fold has reached a fixed point, or   *)
(* at least one warrant in each round.                                     *)
(***************************************************************************)
Progress ==
    /\ IsFiniteSet(log) /\ IsFiniteSet(input)
    /\ phase = "closing" =>
          /\ WellFormed(input) /\ InitLog \subseteq input
          /\ Advance(input, reached) = reached \/ Cardinality(reached) >= rounds

THEOREM Progresses == Spec => []Progress
<1>1. Init => Progress
  BY InitLogFinite, FS_EmptySet DEF Init, Progress
<1>2. TypeOK /\ Progress /\ [Next]_vars => Progress'
  <2> SUFFICES ASSUME TypeOK, Progress, [Next]_vars PROVE Progress'
    OBVIOUS
  <2>1. ASSUME NEW e \in Events \ log, Record(e) PROVE Progress'
    <3>1. IsFiniteSet(log \cup {e})
      BY FS_AddElement DEF Progress
    <3> QED BY <2>1, <3>1 DEF Progress, Record
  <2>2. CASE Refuse
    BY <2>2 DEF Progress, Refuse
  <2>3. CASE Resolve
    BY <2>3, FS_EmptySet DEF Progress, Resolve, TypeOK
  <2>4. CASE Round
    <3>1. CASE Advance(input, reached) = reached
      BY <2>4, <3>1 DEF Progress, Round
    <3>2. CASE Advance(input, reached) # reached
      <4>1. Cardinality(Advance(input, reached)) >= Cardinality(reached) + 1
        BY <3>2, AdvanceGrows DEF Progress, TypeOK
      <4>2. reached \in SUBSET WarrantIds(input) /\ Advance(input, reached) \in SUBSET WarrantIds(input)
        BY AdvanceType DEF TypeOK
      <4>3. Cardinality(reached) \in Nat /\ Cardinality(Advance(input, reached)) \in Nat
        BY <4>2, FiniteNodes, FS_Subset, FS_CardinalityType DEF Progress
      <4>4. Cardinality(reached) >= rounds /\ rounds \in Nat
        BY <2>4, <3>2 DEF Progress, Round, TypeOK
      <4>5. Cardinality(Advance(input, reached)) >= rounds + 1
        BY <4>1, <4>3, <4>4
      <4> QED BY <2>4, <4>5 DEF Progress, Round
    <3> QED BY <3>1, <3>2
  <2>5. CASE Publish
    BY <2>5 DEF Progress, Publish
  <2>6. CASE UNCHANGED vars
    BY <2>6 DEF Progress, vars
  <2> QED BY <2>1, <2>2, <2>3, <2>4, <2>5, <2>6 DEF Next
<1> QED BY <1>1, <1>2, TypeCorrect, PTL DEF Spec

\* When a fold publishes, its rounds have reached the least closed support.
LEMMA PublishesLeast ==
    ASSUME TypeOK, Progress, ReachedIsLeast, Publish
    PROVE  reached = Custody!LeastSupport(input)
<1>1. reached \in SUBSET WarrantIds(input)
  BY DEF TypeOK
<1>2. Closed(input, reached)
  <2>1. CASE Advance(input, reached) = reached
    BY <2>1, FixedIsClosed
  <2>2. CASE Advance(input, reached) # reached
    <3>1. rounds = Nodes(input) /\ Cardinality(reached) >= rounds
      BY <2>2 DEF Publish, Progress
    <3>2. IsFiniteSet(WarrantIds(input))
      BY FiniteNodes DEF Progress
    <3>3. Cardinality(reached) <= Cardinality(WarrantIds(input))
      BY <1>1, <3>2, FS_Subset
    <3>4. Cardinality(reached) \in Nat /\ Cardinality(WarrantIds(input)) \in Nat
      BY <1>1, <3>2, FS_Subset, FS_CardinalityType
    <3>5. Cardinality(reached) = Cardinality(WarrantIds(input))
      BY <3>1, <3>3, <3>4 DEF Nodes
    <3>6. reached = WarrantIds(input)
      BY <1>1, <3>2, <3>5, FS_Subset
    <3> QED BY <3>6, AllIsClosed
  <2> QED BY <2>1, <2>2
<1> QED BY <1>1, <1>2, LeastIsUnique DEF ReachedIsLeast

-----------------------------------------------------------------------------
(***************************************************************************)
(* Refinement.                                                             *)
(***************************************************************************)

\* The rounds implement the promise: each step of the fold is a step of the
\* abstract specification or leaves its variables alone, and what is published
\* is the least closed support of a log the campaign has had.
THEOREM FoldImplementsCustody == Spec => ImplementsCustody
<1>1. Init => Custody!CustodyInit
  BY DEF Init, Custody!CustodyInit, NoView, Custody!NoView
<1>2. TypeOK /\ Progress /\ ReachedIsLeast /\ [Next]_vars
        => [Custody!CustodyNext]_(Custody!custodyVars)
  <2> SUFFICES ASSUME TypeOK, Progress, ReachedIsLeast, [Next]_vars
               PROVE  Custody!CustodyNext \/ UNCHANGED Custody!custodyVars
    OBVIOUS
  <2>1. ASSUME NEW e \in Events \ log, Record(e) PROVE Custody!CustodyNext
    BY <2>1 DEF Record, Custody!Record, Custody!CustodyNext
  <2>2. CASE Refuse
    BY <2>2 DEF Refuse, TypeOK, Custody!Publish, Custody!Fold, Custody!CustodyNext
  <2>3. CASE Resolve
    BY <2>3 DEF Resolve, NoView, Custody!Begin, Custody!NoView, Custody!CustodyNext
  <2>4. CASE Round
    BY <2>4 DEF Round, Custody!custodyVars
  <2>5. CASE Publish
    <3>1. reached = Custody!LeastSupport(input)
      BY <2>5, PublishesLeast
    <3>2. WellFormed(input) /\ InitLog \subseteq input /\ input \subseteq log
      BY <2>5 DEF Publish, Progress, TypeOK
    <3> QED BY <2>5, <3>1, <3>2 DEF Publish, Custody!Publish, Custody!Fold, Custody!CustodyNext
  <2>6. CASE UNCHANGED vars
    BY <2>6 DEF vars, Custody!custodyVars
  <2> QED BY <2>1, <2>2, <2>3, <2>4, <2>5, <2>6 DEF Next
<1> QED BY <1>1, <1>2, TypeCorrect, Progresses, NoSelfSeeding, PTL
        DEF Spec, ImplementsCustody, Custody!CustodySpec

-----------------------------------------------------------------------------
(***************************************************************************)
(* The closure of a finite log is its least closed set of warrants.        *)
(***************************************************************************)
LeastClosed(l, S) ==
    /\ S \subseteq WarrantIds(l) /\ Closed(l, S)
    /\ \A T : Closed(l, T) => S \subseteq T

\* The closure's rounds.
RoundsOf(l) ==
    CHOOSE f : f = [n \in 0..Nodes(l) |-> IF n = 0 THEN {} ELSE Advance(l, f[n - 1])]

LEMMA ClosureRounds ==
    ASSUME NEW l, IsFiniteSet(l)
    PROVE  LET f == RoundsOf(l)
           IN  /\ Nodes(l) \in Nat /\ Closure(l) = f[Nodes(l)]
               /\ f[0] = {} /\ \A n \in 1..Nodes(l) : f[n] = Advance(l, f[n - 1])
               /\ \A n \in 0..Nodes(l) : f[n] \subseteq WarrantIds(l)
<1> DEFINE N == Nodes(l)
           D == SUBSET WarrantIds(l)
           H == [S \in D |-> Advance(l, S)]
           f == RoundsOf(l)
           none == {}
<1>1. N \in Nat
  BY FiniteNodes, FS_CardinalityType DEF Nodes
<1>2. none \in D /\ H \in [D -> D] /\ \A S \in D : H[S] = Advance(l, S)
  BY AdvanceType
<1> HIDE DEF N, D, H, none
<1>3. PICK h \in [0..N -> D] : Iteration(none, H, N, h)
  <2>1. \E h \in [0..N -> D] : Iteration(none, H, N, h)
    BY <1>1, <1>2, Iterates
  <2> QED BY <2>1
<1>4. /\ h[0] = none /\ DOMAIN h = 0..N
      /\ \A n \in 1..N : n # 0 /\ n \in 0..N /\ n - 1 \in 0..N /\ h[n] = H[h[n - 1]]
  BY <1>1, <1>3 DEF Iteration
<1>5. \A n \in 1..N : h[n] = Advance(l, h[n - 1])
  BY <1>2, <1>3, <1>4
<1>6. h = [n \in 0..N |-> IF n = 0 THEN {} ELSE Advance(l, h[n - 1])]
  <2>1. \A n \in 0..N : h[n] = IF n = 0 THEN {} ELSE Advance(l, h[n - 1])
    <3>1. \A n \in 0..N : n = 0 \/ n \in 1..N
      BY <1>1
    <3> QED BY <1>4, <1>5, <3>1 DEF none
  <2>2. h = [n \in 0..N |-> h[n]]
    BY <1>4
  <2> QED BY <2>1, <2>2
<1>7. f = [n \in 0..N |-> IF n = 0 THEN {} ELSE Advance(l, f[n - 1])]
  BY <1>6 DEF RoundsOf, N
<1> HIDE DEF f
<1>8. DOMAIN f = 0..N /\ f[0] = {} /\ \A n \in 1..N : n - 1 \in 0..N /\ f[n] = Advance(l, f[n - 1])
  <2>1. DOMAIN f = 0..N /\ \A n \in 0..N : f[n] = IF n = 0 THEN {} ELSE Advance(l, f[n - 1])
    BY <1>7
  <2>2. 0 \in 0..N /\ \A n \in 1..N : n \in 0..N /\ n # 0 /\ n - 1 \in 0..N
    BY <1>1
  <2> QED BY <2>1, <2>2
<1>9. \A n \in Nat : n \in {m \in Nat : m <= N => f[m] \subseteq WarrantIds(l)}
  <2> DEFINE S == {m \in Nat : m <= N => f[m] \subseteq WarrantIds(l)}
  <2>1. 0 \in S
    BY <1>8
  <2>2. ASSUME NEW n \in Nat, n \in S PROVE n + 1 \in S
    <3>1. CASE n + 1 <= N
      <4>1. n + 1 \in 1..N /\ (n + 1) - 1 = n /\ n <= N
        BY <1>1, <3>1
      <4>2. f[n + 1] = Advance(l, f[n]) /\ f[n] \subseteq WarrantIds(l)
        BY <1>8, <2>2, <4>1
      <4> QED BY <4>2, AdvanceType
    <3> QED BY <3>1
  <2> HIDE DEF S
  <2>3. \A n \in Nat : n \in S
    BY <2>1, <2>2, HasAll
  <2> QED BY <2>3 DEF S
<1>10. \A n \in 0..N : f[n] \subseteq WarrantIds(l)
  <2>1. \A n \in 0..N : n \in Nat /\ n <= N
    BY <1>1
  <2> QED BY <1>9, <2>1
<1>11. Closure(l) = f[N]
  BY DEF Closure, RoundsOf, Nodes, N, f
<1> QED BY <1>1, <1>8, <1>10, <1>11 DEF N, f

LEMMA ClosureIsLeast ==
    ASSUME NEW l, IsFiniteSet(l)
    PROVE  LeastClosed(l, Closure(l))
<1> DEFINE N == Nodes(l)
           W == WarrantIds(l)
           f == RoundsOf(l)
           last == Advance(l, f[N])
           g == [n \in 0..(N + 1) |-> IF n = N + 1 THEN W \ last ELSE W \ f[n]]
<1>1. /\ N \in Nat /\ Closure(l) = f[N]
      /\ f[0] = {} /\ \A n \in 1..N : f[n] = Advance(l, f[n - 1])
      /\ \A n \in 0..N : f[n] \subseteq W
  BY ClosureRounds
<1>2. IsFiniteSet(W) /\ Cardinality(W) = N
  BY FiniteNodes DEF Nodes
<1> HIDE DEF N, W, f
<1>3. ASSUME NEW T, Closed(l, T) PROVE f[N] \subseteq T
  <2> DEFINE S == {m \in Nat : m <= N => f[m] \subseteq T}
  <2>1. 0 \in S
    BY <1>1
  <2>2. ASSUME NEW n \in Nat, n \in S PROVE n + 1 \in S
    <3>1. CASE n + 1 <= N
      <4>1. n + 1 \in 1..N /\ (n + 1) - 1 = n /\ n <= N
        BY <1>1, <3>1
      <4>2. f[n + 1] = Advance(l, f[n]) /\ f[n] \subseteq T
        BY <1>1, <2>2, <4>1
      <4> QED BY <1>3, <4>2, AdvanceLeast
    <3> QED BY <3>1
  <2> HIDE DEF S
  <2>3. N \in S
    BY <1>1, <2>1, <2>2, HasAll
  <2> QED BY <1>1, <2>3 DEF S
<1>4. last \subseteq W /\ f[N] \subseteq W
  <2>1. f[N] \subseteq W
    BY <1>1
  <2> QED BY <2>1, AdvanceType DEF W
<1>5. /\ \A n \in 0..N : g[n] = W \ f[n]
      /\ g[N + 1] = W \ last
  BY <1>1
<1> HIDE DEF g, last
<1>6. \A n \in 1..N : g[n] \subseteq g[n - 1] /\ (g[n] = g[n - 1] => f[n] = f[n - 1])
  <2>1. ASSUME NEW n \in 1..N PROVE g[n] \subseteq g[n - 1] /\ (g[n] = g[n - 1] => f[n] = f[n - 1])
    <3>1. n \in 0..N /\ n - 1 \in 0..N
      BY <1>1
    <3>2. g[n] = W \ f[n] /\ g[n - 1] = W \ f[n - 1] /\ f[n] \subseteq W /\ f[n - 1] \subseteq W
      BY <1>1, <1>5, <3>1
    <3>3. f[n - 1] \subseteq f[n]
      BY <1>1 DEF Advance
    <3> QED BY <3>2, <3>3
  <2> QED BY <2>1
<1>7. g[N + 1] \subseteq g[N] /\ (g[N + 1] = g[N] => last = f[N])
  <2>1. g[N] = W \ f[N] /\ f[N] \subseteq last
    BY <1>1, <1>5 DEF Advance, last
  <2> QED BY <1>4, <1>5, <2>1
<1>8. \A n \in 1..(N + 1) : g[n] \subseteq g[n - 1]
  <2>1. \A n \in 1..(N + 1) : n \in 1..N \/ (n = N + 1 /\ n - 1 = N)
    BY <1>1
  <2> QED BY <1>6, <1>7, <2>1
<1>9. ASSUME NEW n \in 1..N, g[n] = g[n - 1] PROVE g[n + 1] = g[n]
  <2>1. f[n] = f[n - 1] /\ f[n] = Advance(l, f[n - 1])
    BY <1>1, <1>6, <1>9
  <2>2. Advance(l, f[n]) = f[n]
    BY <2>1
  <2>3. CASE n = N
    <3>1. last = f[n] /\ n \in 0..N
      BY <1>1, <2>2, <2>3 DEF last
    <3> QED BY <1>5, <2>3, <3>1
  <2>4. CASE n # N
    <3>1. n + 1 \in 1..N /\ (n + 1) - 1 = n /\ n \in 0..N /\ n + 1 \in 0..N
      BY <1>1, <2>4
    <3>2. f[n + 1] = f[n]
      BY <1>1, <2>2, <3>1
    <3> QED BY <1>5, <3>1, <3>2
  <2> QED BY <2>3, <2>4
<1>10. IsFiniteSet(g[0]) /\ Cardinality(g[0]) <= N
  <2>1. 0 \in 0..N
    BY <1>1
  <2>2. g[0] = W
    BY <1>1, <1>5, <2>1
  <2> QED BY <1>1, <1>2, <2>2
<1>11. g[N + 1] = g[N]
  BY <1>1, <1>8, <1>9, <1>10, Settles
<1>12. Closed(l, f[N])
  BY <1>7, <1>11, FixedIsClosed DEF last
<1> QED BY <1>1, <1>3, <1>4, <1>12 DEF LeastClosed, W

\* Nothing is in a least closed set that is not enabled by it.
LEMMA LeastGrounded ==
    ASSUME NEW l, NEW S, LeastClosed(l, S)
    PROVE  Grounded(l, S)
<1> DEFINE T == {id \in S : \E w \in WarrantsIn(l) : w.id = id /\ Enabled(l, w, S)}
<1>1. Closed(l, T)
  <2>1. ASSUME NEW w \in WarrantsIn(l), Enabled(l, w, T) PROVE w.id \in T
    <3>1. Enabled(l, w, S)
      BY <2>1, EnabledMonotone
    <3> QED BY <3>1 DEF LeastClosed, Closed
  <2> QED BY <2>1 DEF Closed
<1>2. S \subseteq T
  <2> HIDE DEF T
  <2> QED BY <1>1 DEF LeastClosed
<1> QED BY <1>2 DEF Grounded

-----------------------------------------------------------------------------
(***************************************************************************)
(* What one more event may do to a log.                                    *)
(***************************************************************************)
\* m is l with the event e.
Longer(l, e, m) ==
    \A k : OfKind(m, k) = IF k = e.kind THEN OfKind(l, k) \cup {e} ELSE OfKind(l, k)

LEMMA OneMore ==
    ASSUME NEW l, NEW e, NEW m, m = l \cup {e}
    PROVE  Longer(l, e, m)
BY DEF Longer, OfKind

\* An id that is on record is looked up to the same warrant in a longer log.
LEMMA LookupStays ==
    ASSUME NEW l, NEW m, WarrantsIn(l) \subseteq WarrantsIn(m), ConflictingWarrants(m) = {},
           NEW id \in WarrantIds(l)
    PROVE  Lookup(m, id) = Lookup(l, id)
<1>1. Lookup(l, id) \in WarrantsIn(m) /\ Lookup(l, id).id = id
  BY LookupFinds
<1>2. id \in WarrantIds(m)
  BY <1>1 DEF WarrantIds
<1>3. Lookup(m, id) \in WarrantsIn(m) /\ Lookup(m, id).id = id
  BY <1>2, LookupFinds
<1> QED BY <1>1, <1>3, WarrantUnique

\* Where its premises are on record and it is in custody in both, a warrant is
\* admitted in both logs or in neither.
LEMMA AdmittedAlike ==
    ASSUME NEW l, NEW m, WarrantsIn(l) \subseteq WarrantsIn(m), ConflictingWarrants(m) = {},
           NEW w, Premises(w) \subseteq WarrantIds(l), Live(l, w), Live(m, w)
    PROVE  Admitted(l, w) <=> Admitted(m, w)
<1>1. WarrantIds(l) \subseteq WarrantIds(m)
  BY DEF WarrantIds
<1>2. w.evidence.kind = "derived" =>
        [i \in DOMAIN w.evidence.premises |-> Lookup(l, w.evidence.premises[i])]
            = [i \in DOMAIN w.evidence.premises |-> Lookup(m, w.evidence.premises[i])]
  <2>1. SUFFICES ASSUME w.evidence.kind = "derived", NEW i \in DOMAIN w.evidence.premises
                 PROVE  Lookup(l, w.evidence.premises[i]) = Lookup(m, w.evidence.premises[i])
    OBVIOUS
  <2>2. w.evidence.premises[i] \in WarrantIds(l)
    BY <2>1 DEF Premises
  <2> QED BY <2>2, LookupStays
<1>3. w.evidence.kind = "narrow" => Lookup(l, w.evidence.premise) = Lookup(m, w.evidence.premise)
  <2>1. w.evidence.kind = "narrow" => w.evidence.premise \in WarrantIds(l)
    BY DEF Premises
  <2> QED BY <2>1, LookupStays
<1> QED BY <1>1, <1>2, <1>3 DEF Admitted

\* A campaign's log is finite at every moment.
LEMMA LogIsFinite == Spec => []IsFiniteSet(log)
<1>1. Progress => IsFiniteSet(log)
  BY DEF Progress
<1> QED BY <1>1, Progresses, PTL

\* A step that changes the log records one event.
LEMMA LogSteps ==
    ASSUME [Next]_vars, IsFiniteSet(log), log' # log, NEW e \in log' \ log
    PROVE  log' = log \cup {e} /\ IsFiniteSet(log')
<1>1. PICK d \in Events \ log : Record(d)
  BY DEF Next, Refuse, Resolve, Round, Publish, vars
<1>2. log' = log \cup {d} /\ d = e
  BY <1>1 DEF Record
<1> QED BY <1>2, FS_AddElement

\* A new declaration or warrant takes no warrant out of custody.
LEMMA NewcomersSpare ==
    ASSUME NEW l, NEW e, e.kind \in {"declare", "warrant"}, NEW m, m = l \cup {e},
           IsFiniteSet(l), IsFiniteSet(m), WellFormed(m)
    PROVE  Closure(l) \subseteq Closure(m)
<1>1. /\ WarrantsIn(l) \subseteq WarrantsIn(m) /\ CurrentsIn(m) = CurrentsIn(l)
      /\ OfKind(m, "retract") = OfKind(l, "retract") /\ OfKind(m, "supersede") = OfKind(l, "supersede")
      /\ OfKind(l, "declare") \subseteq OfKind(m, "declare")
  <2>1. Longer(l, e, m)
    BY OneMore
  <2> QED BY <2>1 DEF Longer, WarrantsIn, CurrentsIn
<1>2. /\ Retracted(m) = Retracted(l) /\ Superseded(m) = Superseded(l)
      /\ Currents(m) = Currents(l) /\ Domain(l) \subseteq Domain(m)
  BY <1>1 DEF Retracted, Superseded, Links, Currents, Domain
<1>3. \A w : Live(l, w) => Live(m, w)
  BY <1>2 DEF Live
<1>4. LeastClosed(m, Closure(m)) /\ LeastClosed(l, Closure(l))
  BY ClosureIsLeast
<1>5. ASSUME NEW w \in WarrantsIn(l), Enabled(l, w, Closure(m)) PROVE w.id \in Closure(m)
  <2>1. Admitted(m, w)
    BY <1>1, <1>3, <1>5, AdmittedAlike DEF Enabled, Admitted, WellFormed
  <2>2. Enabled(m, w, Closure(m))
    BY <1>5, <2>1 DEF Enabled
  <2> QED BY <1>1, <1>4, <2>2 DEF LeastClosed, Closed
<1>6. Closed(l, Closure(m))
  BY <1>5 DEF Closed
<1> QED BY <1>4, <1>6 DEF LeastClosed

\* A retraction takes its target and what rests on it, and gives nothing.
LEMMA RetractionTakes ==
    ASSUME NEW l, NEW e, e.kind = "retract", NEW m, m = l \cup {e},
           IsFiniteSet(l), IsFiniteSet(m), WellFormed(m)
    PROVE  LET lost == Closure(l) \ Closure(m)
           IN  /\ e.target \notin Closure(m)
               /\ Closure(m) \subseteq Closure(l)
               /\ \A w \in WarrantsIn(l) : w.id \in lost \ {e.target} => Premises(w) \cap lost # {}
<1>1. /\ WarrantsIn(m) = WarrantsIn(l) /\ CurrentsIn(m) = CurrentsIn(l)
      /\ OfKind(m, "retract") = OfKind(l, "retract") \cup {e}
      /\ OfKind(m, "supersede") = OfKind(l, "supersede") /\ OfKind(m, "declare") = OfKind(l, "declare")
  <2>1. Longer(l, e, m)
    BY OneMore
  <2> QED BY <2>1 DEF Longer, WarrantsIn, CurrentsIn
<1>2. /\ Retracted(m) = Retracted(l) \cup {e.target} /\ Superseded(m) = Superseded(l)
      /\ Currents(m) = Currents(l) /\ Domain(m) = Domain(l) /\ WarrantIds(m) = WarrantIds(l)
  BY <1>1 DEF Retracted, Superseded, Links, Currents, Domain, WarrantIds
<1>3. \A w : Live(m, w) <=> Live(l, w) /\ w.id # e.target
  BY <1>2 DEF Live
<1>4. LeastClosed(m, Closure(m)) /\ LeastClosed(l, Closure(l))
  BY ClosureIsLeast
<1>5. Grounded(m, Closure(m)) /\ Grounded(l, Closure(l))
  BY <1>4, LeastGrounded
<1>6. \A w : Admitted(m, w) <=> Admitted(l, w) /\ w.id # e.target
  <2>1. ASSUME NEW w, Admitted(m, w) PROVE Admitted(l, w) /\ w.id # e.target
    BY <1>1, <1>2, <1>3, <2>1, AdmittedAlike DEF Admitted, WellFormed
  <2>2. ASSUME NEW w, Admitted(l, w), w.id # e.target PROVE Admitted(m, w)
    BY <1>1, <1>2, <1>3, <2>2, AdmittedAlike DEF Admitted, WellFormed
  <2> QED BY <2>1, <2>2
<1>7. e.target \notin Closure(m)
  BY <1>5, <1>6 DEF Grounded, Enabled
<1>8. Closure(m) \subseteq Closure(l)
  <2>1. Closed(m, Closure(l))
    BY <1>1, <1>4, <1>6 DEF Closed, LeastClosed, Enabled
  <2> QED BY <1>4, <2>1 DEF LeastClosed
<1>9. ASSUME NEW w \in WarrantsIn(l), w.id \in (Closure(l) \ Closure(m)) \ {e.target}
      PROVE  Premises(w) \cap (Closure(l) \ Closure(m)) # {}
  <2>1. PICK v \in WarrantsIn(l) : v.id = w.id /\ Enabled(l, v, Closure(l))
    BY <1>5, <1>9 DEF Grounded
  <2>2. v = w
    BY <1>1, <2>1, WarrantUnique DEF WellFormed
  <2>3. SUFFICES ASSUME Premises(w) \subseteq Closure(m) PROVE FALSE
    BY <2>1, <2>2 DEF Enabled
  <2>4. Enabled(m, w, Closure(m))
    BY <1>6, <1>9, <2>1, <2>2, <2>3 DEF Enabled
  <2> QED BY <1>1, <1>4, <1>9, <2>4 DEF LeastClosed, Closed
<1> QED BY <1>7, <1>8, <1>9

\* A warrant with evidence that certifies nothing, under an id that nothing
\* names, settles nothing.
LEMMA InertChangesNothing ==
    ASSUME NEW l, NEW e, e.kind = "warrant",
           e.evidence.kind \in {"attempt", "citation", "assertion", "theorem"},
           e.id \notin WarrantIds(l), \A p \in Links(l) : e.id \notin {p[1], p[2]},
           NEW m, m = l \cup {e}, IsFiniteSet(l), IsFiniteSet(m)
    PROVE  /\ WellFormed(m) <=> WellFormed(l)
           /\ WellFormed(l) => Closure(m) = Closure(l)
<1>1. /\ WarrantsIn(m) = WarrantsIn(l) \cup {e} /\ CurrentsIn(m) = CurrentsIn(l)
      /\ OfKind(m, "retract") = OfKind(l, "retract")
      /\ OfKind(m, "supersede") = OfKind(l, "supersede") /\ OfKind(m, "declare") = OfKind(l, "declare")
  <2>1. Longer(l, e, m)
    BY OneMore
  <2> QED BY <2>1 DEF Longer, WarrantsIn, CurrentsIn
<1>2. /\ Retracted(m) = Retracted(l) /\ Superseded(m) = Superseded(l) /\ Links(m) = Links(l)
      /\ Currents(m) = Currents(l) /\ Domain(m) = Domain(l) /\ WarrantIds(m) = WarrantIds(l) \cup {e.id}
  BY <1>1 DEF Retracted, Superseded, Links, Currents, Domain, WarrantIds
<1>3. ConflictingWarrants(m) = ConflictingWarrants(l)
  <2>1. \A w \in WarrantsIn(l) : w.id # e.id
    BY DEF WarrantIds
  <2>2. ConflictingWarrants(m) \subseteq ConflictingWarrants(l)
    BY <1>1, <2>1 DEF ConflictingWarrants
  <2>3. ConflictingWarrants(l) \subseteq ConflictingWarrants(m)
    BY <1>1 DEF ConflictingWarrants
  <2> QED BY <2>2, <2>3
<1>4. MissingEndpoints(m) = MissingEndpoints(l)
  BY <1>2 DEF MissingEndpoints
<1>5. WellFormed(m) <=> WellFormed(l)
  <2>1. ConflictingCurrents(m) = ConflictingCurrents(l)
    BY <1>2 DEF ConflictingCurrents
  <2>2. /\ SelfSupersessions(m) = SelfSupersessions(l) /\ WithdrawnAndReplaced(m) = WithdrawnAndReplaced(l)
        /\ SupersessionCycles(m) = SupersessionCycles(l)
    BY <1>2 DEF SelfSupersessions, WithdrawnAndReplaced, SupersessionCycles
  <2> QED BY <1>3, <1>4, <2>1, <2>2 DEF WellFormed
<1>6. ASSUME WellFormed(l) PROVE Closure(m) = Closure(l)
  <2>1. LeastClosed(m, Closure(m)) /\ LeastClosed(l, Closure(l))
    BY ClosureIsLeast
  <2>2. \A w : Live(m, w) <=> Live(l, w)
    BY <1>2 DEF Live
  <2>3. ~Admitted(m, e)
    BY DEF Admitted
  <2>4. \A w : Premises(w) \subseteq WarrantIds(l) => (Admitted(m, w) <=> Admitted(l, w))
    <3>1. ASSUME NEW w, Premises(w) \subseteq WarrantIds(l), Live(l, w) PROVE Admitted(l, w) <=> Admitted(m, w)
      BY <1>1, <1>3, <1>6, <2>2, <3>1, AdmittedAlike DEF WellFormed
    <3> QED BY <2>2, <3>1 DEF Admitted
  <2>5. Closed(m, Closure(l))
    <3>1. ASSUME NEW w \in WarrantsIn(m), Enabled(m, w, Closure(l)) PROVE w.id \in Closure(l)
      <4>1. w \in WarrantsIn(l) /\ Premises(w) \subseteq WarrantIds(l)
        BY <1>1, <2>1, <2>3, <3>1 DEF Enabled, LeastClosed
      <4>2. Enabled(l, w, Closure(l))
        BY <2>4, <3>1, <4>1 DEF Enabled
      <4> QED BY <2>1, <4>1, <4>2 DEF LeastClosed, Closed
    <3> QED BY <3>1 DEF Closed
  <2>6. Closed(l, Closure(m))
    <3>1. ASSUME NEW w \in WarrantsIn(l), Enabled(l, w, Closure(m)) PROVE w.id \in Closure(m)
      <4>1. w \in WarrantsIn(m) /\ Premises(w) \subseteq WarrantIds(l)
        BY <1>1, <3>1 DEF Enabled, Admitted
      <4>2. Enabled(m, w, Closure(m))
        BY <2>4, <3>1, <4>1 DEF Enabled
      <4> QED BY <2>1, <4>1, <4>2 DEF LeastClosed, Closed
    <3> QED BY <3>1 DEF Closed
  <2> QED BY <2>1, <2>5, <2>6 DEF LeastClosed
<1> QED BY <1>5, <1>6

\* What a step that records an event does, in terms of the two logs.
Spares(l, m) ==
    \A e \in m \ l : e.kind \in {"declare", "warrant"} /\ WellFormed(m) /\ WellFormed(l)
                     => Closure(l) \subseteq Closure(m)
Localises(l, m) ==
    \A e \in m \ l :
        e.kind = "retract" /\ WellFormed(m) /\ WellFormed(l) =>
        LET lost == Closure(l) \ Closure(m)
        IN  /\ e.target \notin Closure(m)
            /\ Closure(m) \subseteq Closure(l)
            /\ \A w \in WarrantsIn(l) : w.id \in lost \ {e.target} => Premises(w) \cap lost # {}
Ignores(l, m) ==
    \A e \in m \ l :
        /\ e.kind = "warrant"
        /\ e.evidence.kind \in {"attempt", "citation", "assertion", "theorem"}
        /\ e.id \notin WarrantIds(l)
        /\ \A p \in Links(l) : e.id \notin {p[1], p[2]}
        => /\ WellFormed(m) <=> WellFormed(l)
           /\ WellFormed(l) => Closure(m) = Closure(l)

\* The three of them for a step of the campaign.
LEMMA StepsAreSparing ==
    IsFiniteSet(log) /\ [Next]_vars => [Spares(log, log') /\ Localises(log, log') /\ Ignores(log, log')]_log
<1> SUFFICES ASSUME IsFiniteSet(log), [Next]_vars, log' # log
             PROVE  Spares(log, log') /\ Localises(log, log') /\ Ignores(log, log')
  OBVIOUS
<1>1. \A e \in log' \ log : log' = log \cup {e} /\ IsFiniteSet(log')
  BY LogSteps
<1>2. \A m : m = log' => Spares(log, m) /\ Localises(log, m) /\ Ignores(log, m)
  <2> TAKE m
  <2> HAVE m = log'
  <2>1. \A e \in m \ log : m = log \cup {e} /\ IsFiniteSet(m)
    BY <1>1
  <2>2. Spares(log, m)
    BY <2>1, NewcomersSpare DEF Spares
  <2>3. Localises(log, m)
    BY <2>1, RetractionTakes DEF Localises
  <2>4. Ignores(log, m)
    BY <2>1, InertChangesNothing DEF Ignores
  <2> QED BY <2>2, <2>3, <2>4
<1> QED BY <1>2

\* The fold loses no support to a new warrant or declaration: the closure of
\* the longer log has all the warrants of the shorter one's.
THEOREM OnlyLifecycleTakes == Spec => LossNeedsLifecycle
<1>1. IsFiniteSet(log) /\ [Next]_vars =>
        [ \A e \in log' \ log :
             e.kind \in {"declare", "warrant"} /\ WellFormed(log') /\ WellFormed(log)
             => Closure(log) \subseteq Closure(log') ]_log
  BY StepsAreSparing DEF Spares
<1> QED BY <1>1, LogIsFinite, PTL DEF Spec, LossNeedsLifecycle

\* What a retraction takes from the fold is its target and warrants that name
\* a lost premise, and it adds nothing to the fold.
THEOREM RetractionsTakeTheirOwn == Spec => RetractionIsLocal
<1>1. IsFiniteSet(log) /\ [Next]_vars =>
        [ \A e \in log' \ log :
            e.kind = "retract" /\ WellFormed(log') /\ WellFormed(log) =>
            LET lost == Closure(log) \ Closure(log')
            IN  /\ e.target \notin Closure(log')
                /\ Closure(log') \subseteq Closure(log)
                /\ \A w \in WarrantsIn(log) :
                      w.id \in lost \ {e.target} => Premises(w) \cap lost # {} ]_log
  BY StepsAreSparing DEF Localises
<1> QED BY <1>1, LogIsFinite, PTL DEF Spec, RetractionIsLocal

\* Evidence the registry has no rule for leaves the resolution and the closure
\* as they were, under a fresh id that no replacement names.
THEOREM FailuresAreInert == Spec => FailureIsInert
<1>1. IsFiniteSet(log) /\ [Next]_vars =>
        [ \A e \in log' \ log :
            /\ e.kind = "warrant"
            /\ e.evidence.kind \in {"attempt", "citation", "assertion", "theorem"}
            /\ e.id \notin WarrantIds(log)
            /\ \A l \in Links(log) : e.id \notin {l[1], l[2]}
            => /\ WellFormed(log') <=> WellFormed(log)
               /\ WellFormed(log) => Closure(log') = Closure(log) ]_log
  BY StepsAreSparing DEF Ignores
<1> QED BY <1>1, LogIsFinite, PTL DEF Spec, FailureIsInert

-----------------------------------------------------------------------------
(***************************************************************************)
(* Chains of replacements in a longer log.                                 *)
(***************************************************************************)
\* One more link in front of the chains of T.
LongerBy(L, T) ==
    L \cup {<<ep[1][1], ep[2][2]>> : ep \in {ep \in L \X T : ep[1][2] = ep[2][1]}}

\* The function whose last value Follows is.
ChainsOf(L) ==
    LET upTo[n \in 0..Cardinality(L)] ==
            IF n = 0 THEN {}
            ELSE L \cup {<<ep[1][1], ep[2][2]>> :
                            ep \in {ep \in L \X upTo[n - 1] : ep[1][2] = ep[2][1]}}
    IN  upTo

\* A set of pairs.
Pairs(L) == \A p \in L : p = <<p[1], p[2]>>

\* The rounds of Follows start with nothing and add a link at a time.
LEMMA ChainRounds ==
    ASSUME NEW L, Pairs(L), IsFiniteSet(L)
    PROVE  /\ Cardinality(L) \in Nat
           /\ Follows(L) = ChainsOf(L)[Cardinality(L)]
           /\ ChainsOf(L)[0] = {}
           /\ \A n \in 1..Cardinality(L) : ChainsOf(L)[n] = LongerBy(L, ChainsOf(L)[n - 1])
<1> DEFINE N == Cardinality(L)
           X == {p[1] : p \in L}
           Y == {p[2] : p \in L}
           D == SUBSET (X \X Y)
           H == [S \in D |-> LongerBy(L, S)]
           f == ChainsOf(L)
           none == {}
<1>1. N \in Nat
  BY FS_CardinalityType
<1>2. none \in D /\ H \in [D -> D] /\ \A S \in D : H[S] = LongerBy(L, S)
  <2>1. L \in D
    BY DEF Pairs
  <2>2. \A S \in D : LongerBy(L, S) \in D
    <3> HIDE DEF X, Y
    <3> QED BY <2>1 DEF LongerBy
  <2> QED BY <2>2
<1> HIDE DEF N, D, H, none
<1>3. PICK h \in [0..N -> D] : Iteration(none, H, N, h)
  <2>1. \E h \in [0..N -> D] : Iteration(none, H, N, h)
    BY <1>1, <1>2, Iterates
  <2> QED BY <2>1
<1>4. /\ h[0] = none /\ DOMAIN h = 0..N
      /\ \A n \in 1..N : n # 0 /\ n \in 0..N /\ n - 1 \in 0..N /\ h[n] = H[h[n - 1]]
  BY <1>1, <1>3 DEF Iteration
<1>5. \A n \in 1..N : h[n] = LongerBy(L, h[n - 1])
  BY <1>2, <1>3, <1>4
<1>6. h = [n \in 0..N |-> IF n = 0 THEN {} ELSE LongerBy(L, h[n - 1])]
  <2>1. \A n \in 0..N : h[n] = IF n = 0 THEN {} ELSE LongerBy(L, h[n - 1])
    <3>1. \A n \in 0..N : n = 0 \/ n \in 1..N
      BY <1>1
    <3> QED BY <1>4, <1>5, <3>1 DEF none
  <2>2. h = [n \in 0..N |-> h[n]]
    BY <1>4
  <2> QED BY <2>1, <2>2
<1>7. f = [n \in 0..N |-> IF n = 0 THEN {} ELSE LongerBy(L, f[n - 1])]
  BY <1>6 DEF ChainsOf, N, LongerBy
<1> HIDE DEF f
<1>8. f[0] = {} /\ \A n \in 1..N : f[n] = LongerBy(L, f[n - 1])
  <2>1. \A n \in 0..N : f[n] = IF n = 0 THEN {} ELSE LongerBy(L, f[n - 1])
    BY <1>7
  <2>2. 0 \in 0..N /\ \A n \in 1..N : n \in 0..N /\ n # 0
    BY <1>1
  <2> QED BY <2>1, <2>2
<1>9. Follows(L) = f[N]
  BY DEF Follows, ChainsOf, N, f
<1> QED BY <1>1, <1>8, <1>9 DEF N, f

\* More links have more chains, and the fuel grows with them.
LEMMA FollowsGrows ==
    ASSUME NEW L, NEW M, Pairs(M), L \subseteq M, IsFiniteSet(M)
    PROVE  Follows(L) \subseteq Follows(M)
<1> DEFINE K == Cardinality(L)
           N == Cardinality(M)
           f == ChainsOf(L)
           g == ChainsOf(M)
<1>1. IsFiniteSet(L) /\ K <= N
  BY FS_Subset
<1>2. K \in Nat /\ Follows(L) = f[K] /\ f[0] = {} /\ \A n \in 1..K : f[n] = LongerBy(L, f[n - 1])
  <2>1. Pairs(L)
    BY DEF Pairs
  <2> QED BY <1>1, <2>1, ChainRounds
<1>3. N \in Nat /\ Follows(M) = g[N] /\ g[0] = {} /\ \A n \in 1..N : g[n] = LongerBy(M, g[n - 1])
  BY ChainRounds
<1> HIDE DEF K, N, f, g
<1>4. \A S, T : S \subseteq T => LongerBy(L, S) \subseteq LongerBy(M, T) /\ LongerBy(M, S) \subseteq LongerBy(M, T)
  BY DEF LongerBy
<1>5. \A n \in Nat : n \in {m \in Nat : (m <= K => f[m] \subseteq g[m]) /\ (m + 1 <= N => g[m] \subseteq g[m + 1])}
  <2> DEFINE S == {m \in Nat : (m <= K => f[m] \subseteq g[m]) /\ (m + 1 <= N => g[m] \subseteq g[m + 1])}
  <2>1. 0 \in S
    BY <1>2, <1>3
  <2>2. ASSUME NEW n \in Nat, n \in S PROVE n + 1 \in S
    <3>1. ASSUME n + 1 <= K PROVE f[n + 1] \subseteq g[n + 1]
      <4>1. n + 1 \in 1..K /\ n + 1 \in 1..N /\ (n + 1) - 1 = n /\ n <= K
        BY <1>1, <1>2, <1>3, <3>1
      <4>2. f[n + 1] = LongerBy(L, f[n]) /\ g[n + 1] = LongerBy(M, g[n]) /\ f[n] \subseteq g[n]
        BY <1>2, <1>3, <2>2, <4>1
      <4> QED BY <1>4, <4>2
    <3>2. ASSUME (n + 1) + 1 <= N PROVE g[n + 1] \subseteq g[(n + 1) + 1]
      <4>1. n + 1 \in 1..N /\ (n + 1) + 1 \in 1..N /\ (n + 1) - 1 = n /\ ((n + 1) + 1) - 1 = n + 1 /\ n + 1 <= N
        BY <1>3, <3>2
      <4>2. g[n + 1] = LongerBy(M, g[n]) /\ g[(n + 1) + 1] = LongerBy(M, g[n + 1]) /\ g[n] \subseteq g[n + 1]
        BY <1>3, <2>2, <4>1
      <4> QED BY <1>4, <4>2
    <3> QED BY <3>1, <3>2
  <2> HIDE DEF S
  <2>3. \A n \in Nat : n \in S
    BY <2>1, <2>2, HasAll
  <2> QED BY <2>3 DEF S
<1>6. f[K] \subseteq g[K]
  BY <1>2, <1>5
<1>7. \A n \in Nat : n \in {m \in Nat : K + m <= N => g[K] \subseteq g[K + m]}
  <2> DEFINE S == {m \in Nat : K + m <= N => g[K] \subseteq g[K + m]}
  <2>1. 0 \in S
    BY <1>2
  <2>2. ASSUME NEW n \in Nat, n \in S PROVE n + 1 \in S
    <3>1. ASSUME K + (n + 1) <= N PROVE g[K] \subseteq g[K + (n + 1)]
      <4>1. K + n \in Nat /\ K + n <= N /\ (K + n) + 1 <= N /\ (K + n) + 1 = K + (n + 1)
        BY <1>2, <1>3, <3>1
      <4>2. g[K] \subseteq g[K + n] /\ g[K + n] \subseteq g[(K + n) + 1]
        BY <1>5, <2>2, <4>1
      <4> QED BY <4>1, <4>2
    <3> QED BY <3>1
  <2> HIDE DEF S
  <2>3. \A n \in Nat : n \in S
    BY <2>1, <2>2, HasAll
  <2> QED BY <2>3 DEF S
<1>8. g[K] \subseteq g[N]
  <2>1. N - K \in Nat /\ K + (N - K) = N
    BY <1>1, <1>2, <1>3
  <2>2. K + (N - K) <= N => g[K] \subseteq g[K + (N - K)]
    BY <1>7, <2>1
  <2> QED BY <1>3, <2>1, <2>2
<1> QED BY <1>2, <1>3, <1>6, <1>8

\* A finite log has finitely many replacements.
LEMMA FiniteLinks ==
    ASSUME NEW l, IsFiniteSet(l)
    PROVE  IsFiniteSet(Links(l))
<1> DEFINE E == OfKind(l, "supersede")
           f == [e \in E |-> <<e.target, e.successor>>]
<1>1. IsFiniteSet(E)
  <2>1. E \in SUBSET l
    BY DEF OfKind
  <2> QED BY <2>1, FS_Subset
<1>2. f \in Surjection(E, Links(l))
  BY DEF Surjection, Links
<1> QED BY <1>1, <1>2, FS_Surjection

\* More events never cure these four.
LEMMA FourForGood ==
    ASSUME NEW l, NEW m, l \subseteq m, IsFiniteSet(m), WellFormed(m)
    PROVE  /\ ConflictingWarrants(l) = {} /\ SelfSupersessions(l) = {}
           /\ WithdrawnAndReplaced(l) = {} /\ SupersessionCycles(l) = {}
<1>1. \A k : OfKind(l, k) \subseteq OfKind(m, k)
  BY DEF OfKind
<1>2. WarrantsIn(l) \subseteq WarrantsIn(m)
  BY <1>1 DEF WarrantsIn
<1>3. Links(l) \subseteq Links(m)
  BY <1>1 DEF Links
<1>4. Retracted(l) \subseteq Retracted(m)
  BY <1>1 DEF Retracted
<1>5. ConflictingWarrants(l) \subseteq ConflictingWarrants(m)
  BY <1>2 DEF ConflictingWarrants
<1>6. SelfSupersessions(l) \subseteq SelfSupersessions(m) /\ WithdrawnAndReplaced(l) \subseteq WithdrawnAndReplaced(m)
  BY <1>3, <1>4 DEF SelfSupersessions, WithdrawnAndReplaced
<1>7. Follows(Links(l)) \subseteq Follows(Links(m))
  <2>1. Pairs(Links(m))
    BY DEF Links, Pairs
  <2> QED BY <1>3, <2>1, FiniteLinks, FollowsGrows
<1>8. SupersessionCycles(l) \subseteq SupersessionCycles(m)
  BY <1>3, <1>7 DEF SupersessionCycles
<1> QED BY <1>5, <1>6, <1>8 DEF WellFormed

\* No event turns a malformed log into a resolved one but where two current
\* bindings conflicted or a replacement named a warrant not yet recorded: the
\* other four checks of `resolve` only ever find more.
THEOREM RepairsAreLimited == Spec => RepairIsLimited
<1>1. IsFiniteSet(log) /\ [Next]_vars =>
        [ ~WellFormed(log) /\ WellFormed(log') =>
            \/ ConflictingCurrents(log) # {}
            \/ MissingEndpoints(log) # {} ]_log
  <2> SUFFICES ASSUME IsFiniteSet(log), [Next]_vars, log' # log, WellFormed(log'), ~WellFormed(log)
               PROVE  ConflictingCurrents(log) # {} \/ MissingEndpoints(log) # {}
    OBVIOUS
  <2>1. log \subseteq log' /\ IsFiniteSet(log')
    <3>1. PICK d \in Events \ log : log' = log \cup {d}
      BY DEF Next, Record, Refuse, Resolve, Round, Publish, vars
    <3> QED BY <3>1, FS_AddElement
  <2>2. \A m : m = log' => /\ ConflictingWarrants(log) = {} /\ SelfSupersessions(log) = {}
                           /\ WithdrawnAndReplaced(log) = {} /\ SupersessionCycles(log) = {}
    BY <2>1, FourForGood
  <2> QED BY <2>2 DEF WellFormed
<1> QED BY <1>1, LogIsFinite, PTL DEF Spec, RepairIsLimited

=============================================================================
