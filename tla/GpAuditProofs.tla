---------------------------- MODULE GpAuditProofs ----------------------------
(***************************************************************************)
(* Proof that the transport table is sound: in every geometry that its     *)
(* graph describes, whatever has been verified and whatever has been       *)
(* withdrawn, a claim that the audit carries without a refusal is true at  *)
(* every model it reaches.                                                 *)
(***************************************************************************)
EXTENDS GpAudit, TLAPS

-----------------------------------------------------------------------------
(***************************************************************************)
(* Verdicts.                                                               *)
(***************************************************************************)

\* A verdict in force was reached by its verifier about the geometry at hand.
VerdictsRight ==
    /\ DOMAIN verdict = Subjects
    /\ \A s \in Subjects :
        verdict[s] \in {"none", "UNVERIFIED"} \cup
            (IF s \in Supplied THEN Shown(geo, s) ELSE {Answer(geo, s)})

\* A lift that is in force is there.
LEMMA LiftIsLifted ==
    ASSUME VerdictsRight, NEW e, EffectiveLift(e)
    PROVE  Lifted(geo, e)
<1>1. CASE Verdict("contraction", e) = "VERIFIED_SECTION"
  <2>1. <<"contraction", e>> \in Subjects /\ verdict[<<"contraction", e>>] = "VERIFIED_SECTION"
    BY <1>1 DEF Verdict
  <2>2. <<"contraction", e>> \in Supplied
    BY <2>1 DEF Supplied
  <2>3. "VERIFIED_SECTION" \in Shown(geo, <<"contraction", e>>)
    BY <2>1, <2>2 DEF VerdictsRight
  <2> QED BY <2>3 DEF Shown, SectionHolds, GroebnerHolds
<1>2. CASE Verdict("lift", e) = "VERIFIED_POINT_LIFT"
  <2>1. <<"lift", e>> \in Subjects /\ verdict[<<"lift", e>>] = "VERIFIED_POINT_LIFT"
    BY <1>2 DEF Verdict
  <2>2. <<"lift", e>> \in Supplied
    BY <2>1 DEF Supplied
  <2>3. "VERIFIED_POINT_LIFT" \in Shown(geo, <<"lift", e>>)
    BY <2>1, <2>2 DEF VerdictsRight
  <2> QED BY <2>3 DEF Shown, SectionHolds, GroebnerHolds
<1> QED BY <1>1, <1>2 DEF EffectiveLift

\* A constructed elimination with exact contraction contracts.
LEMMA ContractionContracts ==
    ASSUME VerdictsRight, NEW e, Edge[e].built, EffectiveContraction(e), NEW x \in Statements
    PROVE  Contracted(geo, e, x)
<1> DEFINE s == <<"contraction", e>>
<1>1. s \in Subjects /\ verdict[s] \in {"VERIFIED_SECTION", "VERIFIED_GROEBNER"}
  BY DEF EffectiveContraction, Verdict
<1>2. s \in Supplied
  BY <1>1 DEF Supplied
<1>3. verdict[s] \in Shown(geo, s)
  BY <1>1, <1>2 DEF VerdictsRight
<1>4. s[1] = "contraction" /\ s[2] = e
  OBVIOUS
<1> HIDE DEF s
<1> QED BY <1>3, <1>4 DEF Shown, SectionHolds, GroebnerHolds

\* A ring isomorphism in force keeps every rewriting.
LEMMA IsoKeeps ==
    ASSUME VerdictsRight, NEW e, EffectiveIso(e), NEW x \in Statements
    PROVE  geo.valid[x][Edge[e].src] = geo.valid[x][Edge[e].dst]
<1> DEFINE s == <<"ring_iso", e>>
<1>1. s \in Subjects /\ verdict[s] = "VERIFIED"
  BY DEF EffectiveIso, Verdict
<1>2. s \notin Supplied /\ s[1] = "ring_iso" /\ s[2] = e
  BY DEF Supplied
<1>3. Answer(geo, s) = "VERIFIED"
  BY <1>1, <1>2 DEF VerdictsRight
<1> HIDE DEF s
<1>4. Answer(geo, s) = IF \A y \in Statements : geo.valid[y][Edge[e].src] = geo.valid[y][Edge[e].dst]
                       THEN "VERIFIED" ELSE "NOT_AN_ISOMORPHISM"
  <2>1. s[1] # "identity" /\ s[1] # "condition" /\ s[1] # "certificate" /\ s[1] # "output"
            /\ s[1] # "exhaustive"
    BY <1>2
  <2> QED BY <1>2, <2>1, SMTT(30) DEF Answer, RingIsoAnswer
<1> QED BY <1>3, <1>4

\* What an earned reach says of a model.
Earned(c, m) == Claim[c].kind = "EMPTY" => geo.over[m] \cap Reached(EffectiveReach(c)) = {}

\* It is so where the certificate was replayed.
LEMMA ReachIsEarned ==
    ASSUME VerdictsRight, NEW c
    PROVE  Earned(c, Claim[c].at)
<1>1. CASE Verdict("certificate", c) # "VERIFIED"
  BY <1>1 DEF Earned, EffectiveReach, Reached
<1>2. CASE Verdict("certificate", c) = "VERIFIED"
  <2> DEFINE s == <<"certificate", c>>
  <2>1. s \in Subjects /\ verdict[s] = "VERIFIED"
    BY <1>2 DEF Verdict
  <2>2. s \notin Supplied /\ s[1] = "certificate" /\ s[2] = c
    BY DEF Supplied
  <2>3. Answer(geo, s) = "VERIFIED"
    BY <2>1, <2>2 DEF VerdictsRight
  <2> HIDE DEF s
  <2>4. s[1] # "identity" /\ s[1] # "condition"
    BY <2>2
  <2>5. Answer(geo, s) = CertificateAnswer(geo, c)
    BY <2>2, <2>4 DEF Answer
  <2>6. geo.over[Claim[c].at] \cap (IF Claim[c].reach = "ORDERED" THEN Ordered ELSE Fields) = {}
    BY <2>3, <2>5 DEF CertificateAnswer
  <2>7. Reached(Claim[c].reach) \subseteq (IF Claim[c].reach = "ORDERED" THEN Ordered ELSE Fields)
    BY DEF Reached
  <2> QED BY <1>2, <2>6, <2>7 DEF Earned, EffectiveReach
<1> QED BY <1>1, <1>2

-----------------------------------------------------------------------------
(***************************************************************************)
(* One crossing, kind by kind.                                             *)
(***************************************************************************)
Crossing(c, e, dir, typed) ==
    /\ WellMeant(geo) /\ VerdictsRight
    /\ c \in DOMAIN Claim /\ e \in Edges /\ dir \in Directions
    /\ Crosses(c, e, dir, typed)
    /\ TrueAt(geo, c, From(e, dir)) /\ Credible(geo, c) /\ Earned(c, From(e, dir))

\* What a licence rests on, for a claim that is no emptiness.
LEMMA LicenceIsTransport ==
    ASSUME NEW c, NEW e, NEW dir, NEW typed,
           Crosses(c, e, dir, typed), Claim[c].kind # "EMPTY"
    PROVE  Transport(EffectiveClaim(c, e, dir, typed), EffectiveEdge(e), dir)
BY DEF Crosses, Licensed, EffectiveClaim

\* Existence follows the points.
LEMMA ExistenceCrosses ==
    ASSUME NEW c, NEW e, NEW dir, NEW typed,
           Crossing(c, e, dir, typed), Claim[c].kind = "NONEMPTY"
    PROVE  TrueAt(geo, c, To(e, dir))
<1> DEFINE s == Edge[e].src
           d == Edge[e].dst
           x == Claim[c].says
           t == Edge[e].type
<1>1. s \in Models /\ d \in Models /\ x \in Statements
  BY GraphFolds DEF Crossing
<1>2. x \in Bearers("NONEMPTY")
  BY DEF Bearers, Crossing
<1>3. \A pq \in geo.rel[e] : pq[1] \in geo.holds[x][s] <=> pq[2] \in geo.holds[x][d]
  BY <1>1, <1>2 DEF Crossing, WellMeant, Agrees
<1>4. PointsRelated(geo, e) /\ PointsAndFields(geo)
  BY DEF Crossing, WellMeant
<1>5. Transport(EffectiveClaim(c, e, dir, typed), EffectiveEdge(e), dir)
  BY LicenceIsTransport DEF Crossing
<1>6. geo.pts[From(e, dir)] # {}
      /\ (~Claim[c].existential => geo.pts[From(e, dir)] \cap geo.holds[x][From(e, dir)] # {})
  BY DEF Crossing, TrueAt
<1> SUFFICES geo.pts[To(e, dir)] # {}
      /\ (~Claim[c].existential => geo.pts[To(e, dir)] \cap geo.holds[x][To(e, dir)] # {})
  BY DEF TrueAt
<1>7. CASE dir = "ALONG"
  <2>1. t \in Total
    BY <1>5, <1>7 DEF Transport, EffectiveClaim, EffectiveEdge, Overridden, PointRule
  <2>2. \A p \in geo.pts[s] : \E q \in geo.pts[d] : <<p, q>> \in geo.rel[e]
    BY <1>4, <2>1 DEF PointsRelated
  <2>3. From(e, dir) = s /\ To(e, dir) = d
    BY <1>7 DEF From, To
  <2>4. geo.pts[d] # {}
    BY <1>6, <2>2, <2>3
  <2>5. ASSUME NEW p \in geo.pts[s], p \in geo.holds[x][s]
        PROVE  \E q \in geo.pts[d] : q \in geo.holds[x][d]
    <3>1. PICK q \in geo.pts[d] : <<p, q>> \in geo.rel[e]
      BY <2>2
    <3>2. <<p, q>>[1] \in geo.holds[x][s] <=> <<p, q>>[2] \in geo.holds[x][d]
      BY <3>1, <1>3
    <3> QED BY <3>2, <2>5
  <2> QED BY <1>6, <2>3, <2>4, <2>5
<1>8. CASE dir = "AGAINST" /\ t = "IMAGE_CLOSURE"
  <2>1. Claim[c].existential
    BY <1>5, <1>8 DEF Transport, EffectiveClaim, EffectiveEdge, Overridden, PointGate
  <2>2. From(e, dir) = d /\ To(e, dir) = s
    BY <1>8 DEF From, To
  <2>3. geo.over[s] = geo.over[d]
    BY <1>4, <1>8 DEF PointsRelated
  <2>4. PointField(s) = PointField(d)
    BY <1>4, <1>8 DEF PointsRelated, Total, Types
  <2>5. PointField(d) \in geo.over[d]
    BY <1>1, <1>4, <1>6, <2>2 DEF PointsAndFields
  <2>6. geo.pts[s] # {}
    BY <1>1, <1>4, <2>3, <2>4, <2>5 DEF PointsAndFields
  <2> QED BY <2>1, <2>2, <2>6
<1>9. CASE dir = "AGAINST" /\ t # "IMAGE_CLOSURE"
  <2>1. t \in Surjective
    BY <1>5, <1>9 DEF Transport, EffectiveClaim, EffectiveEdge, Overridden, PointRule
  <2>2. \A q \in geo.pts[d] : \E p \in geo.pts[s] : <<p, q>> \in geo.rel[e]
    BY <1>4, <2>1 DEF PointsRelated
  <2>3. From(e, dir) = d /\ To(e, dir) = s
    BY <1>9 DEF From, To
  <2>4. geo.pts[s] # {}
    BY <1>6, <2>2, <2>3
  <2>5. ASSUME NEW q \in geo.pts[d], q \in geo.holds[x][d]
        PROVE  \E p \in geo.pts[s] : p \in geo.holds[x][s]
    <3>1. PICK p \in geo.pts[s] : <<p, q>> \in geo.rel[e]
      BY <2>2
    <3>2. <<p, q>>[1] \in geo.holds[x][s] <=> <<p, q>>[2] \in geo.holds[x][d]
      BY <3>1, <1>3
    <3> QED BY <3>2, <2>5
  <2> QED BY <1>6, <2>3, <2>4, <2>5
<1> QED BY <1>7, <1>8, <1>9 DEF Crossing, Directions

\* A predicate runs against the points, and along them where they lift or the
\* target is the closure of their image.
LEMMA PredicateCrosses ==
    ASSUME NEW c, NEW e, NEW dir, NEW typed,
           Crossing(c, e, dir, typed), Claim[c].kind = "PREDICATE"
    PROVE  TrueAt(geo, c, To(e, dir))
<1> DEFINE s == Edge[e].src
           d == Edge[e].dst
           x == Claim[c].says
           t == Edge[e].type
<1>1. s \in Models /\ d \in Models /\ x \in Statements
  BY GraphFolds DEF Crossing
<1>2. ASSUME t # "EQUIVALENCE" \/ Edge[e].embedded
      PROVE  \A pq \in geo.rel[e] : pq[1] \in geo.holds[x][s] <=> pq[2] \in geo.holds[x][d]
  BY <1>1, <1>2 DEF Crossing, WellMeant, Agrees
<1>3. PointsRelated(geo, e) /\ Declared(geo)
  BY DEF Crossing, WellMeant
<1>4. Transport(EffectiveClaim(c, e, dir, typed), EffectiveEdge(e), dir)
  BY LicenceIsTransport DEF Crossing
<1>5. geo.pts[From(e, dir)] \subseteq geo.holds[x][From(e, dir)]
  BY DEF Crossing, TrueAt
<1> SUFFICES geo.pts[To(e, dir)] \subseteq geo.holds[x][To(e, dir)]
  BY DEF TrueAt
<1>6. CASE dir = "AGAINST"
  <2>1. t \in Total /\ (t = "EQUIVALENCE" => Edge[e].embedded)
    BY <1>4, <1>6 DEF Transport, EffectiveClaim, EffectiveEdge, Overridden, PointRule, PointGate,
       Total, Types
  <2>2. From(e, dir) = d /\ To(e, dir) = s
    BY <1>6 DEF From, To
  <2>3. SUFFICES ASSUME NEW p \in geo.pts[s] PROVE p \in geo.holds[x][s]
    BY <2>2
  <2>4. PICK q \in geo.pts[d] : <<p, q>> \in geo.rel[e]
    BY <1>3, <2>1 DEF PointsRelated
  <2>5. <<p, q>>[1] \in geo.holds[x][s] <=> <<p, q>>[2] \in geo.holds[x][d]
    BY <1>2, <2>1, <2>4
  <2> QED BY <1>5, <2>2, <2>5
<1>7. CASE dir = "ALONG" /\ \A q \in geo.pts[d] : \E p \in geo.pts[s] : <<p, q>> \in geo.rel[e]
  <2>1. t # "EQUIVALENCE" \/ Edge[e].embedded
    BY <1>4, <1>7 DEF Transport, EffectiveClaim, EffectiveEdge, Overridden, PointGate
  <2>2. From(e, dir) = s /\ To(e, dir) = d
    BY <1>7 DEF From, To
  <2>3. SUFFICES ASSUME NEW q \in geo.pts[d] PROVE q \in geo.holds[x][d]
    BY <2>2
  <2>4. PICK p \in geo.pts[s] : <<p, q>> \in geo.rel[e]
    BY <1>7
  <2>5. <<p, q>>[1] \in geo.holds[x][s] <=> <<p, q>>[2] \in geo.holds[x][d]
    BY <1>2, <2>1, <2>4
  <2> QED BY <1>5, <2>2, <2>5
<1>8. CASE dir = "ALONG" /\ t # "IMAGE_CLOSURE"
  <2>1. t \in Surjective
    BY <1>4, <1>8 DEF Transport, EffectiveClaim, EffectiveEdge, Overridden, PointRule, Surjective
  <2> QED BY <1>3, <1>7, <1>8, <2>1 DEF PointsRelated
<1>9. CASE dir = "ALONG" /\ t = "IMAGE_CLOSURE"
  <2>1. EffectiveLift(e) \/ (Claim[c].closed /\ EffectiveClosure(e))
    BY <1>4, <1>9 DEF Transport, EffectiveClaim, EffectiveEdge, Overridden, PointGate
  <2>2. CASE EffectiveLift(e)
    <3>1. Lifted(geo, e)
      BY <2>2, LiftIsLifted DEF Crossing
    <3> QED BY <3>1, <1>7, <1>9 DEF Lifted
  <2>3. CASE ~EffectiveLift(e)
    <3>1. Claim[c].closed /\ ~Edge[e].built
      BY <2>1, <2>3 DEF EffectiveClosure
    <3>2. x \in ClosedStatements
      BY <3>1 DEF ClosedStatements, Crossing
    <3>3. Closed(geo, e, x)
      BY <1>3, <1>9, <3>1, <3>2 DEF Declared, Crossing
    <3> QED BY <1>5, <1>9, <3>3 DEF Closed, From, To
  <2> QED BY <2>2, <2>3
<1> QED BY <1>6, <1>8, <1>9 DEF Crossing, Directions

\* A field over which the target's points lie is one the emptiness reaches.
LEMMA ReachCoversPoints ==
    ASSUME NEW m \in Models, NEW r, Instantiates(r, Model[m])
    PROVE  PointField(m) \in Reached(r)
<1>1. Reached(r) \in {Ordered, Fields} /\ Model[m].about \in Reached(r)
  BY DEF Instantiates, Reached
<1>2. CASE Model[m].universe = "ALGEBRAIC_CLOSURE"
  <2>1. r # "ORDERED"
    BY <1>2 DEF Instantiates
  <2>2. Reached(r) = Fields
    BY <1>1, <2>1 DEF Reached
  <2> QED BY <1>2, <2>2 DEF PointField, Fields
<1>3. CASE Model[m].universe = "REAL_CLOSURE"
  BY <1>1, <1>3 DEF PointField, Fields, Ordered
<1>4. CASE Model[m].universe \notin {"ALGEBRAIC_CLOSURE", "REAL_CLOSURE"}
  BY <1>1, <1>4 DEF PointField
<1> QED BY <1>2, <1>3, <1>4

\* Emptiness runs against the points; over a larger field it goes as far as the
\* certificate reaches.
LEMMA EmptinessCrosses ==
    ASSUME NEW c, NEW e, NEW dir, NEW typed,
           Crossing(c, e, dir, typed), Claim[c].kind = "EMPTY"
    PROVE  TrueAt(geo, c, To(e, dir)) /\ Earned(c, To(e, dir))
<1> DEFINE s == Edge[e].src
           d == Edge[e].dst
           t == Edge[e].type
           k == EffectiveClaim(c, e, dir, typed)
           m == To(e, dir)
<1>1. s \in Models /\ d \in Models /\ m \in Models
  BY GraphFolds DEF Crossing, To
<1>2. PointsRelated(geo, e) /\ PointsAndFields(geo) /\ Geometry(geo)
  BY DEF Crossing, WellMeant
<1>3. /\ geo.pts[From(e, dir)] = {} /\ geo.over[From(e, dir)] \cap Asserted(c) = {}
      /\ geo.over[From(e, dir)] \cap Reached(EffectiveReach(c)) = {}
  BY DEF Crossing, TrueAt, Earned
<1> SUFFICES geo.pts[m] = {} /\ geo.over[m] \subseteq geo.over[From(e, dir)]
  BY <1>3 DEF TrueAt, Earned
<1>4. CASE Overridden(t, dir, "EMPTY")
  <2>1. t = "BASE_EXTENSION" /\ dir = "ALONG"
    BY <1>4 DEF Overridden
  <2>2. From(e, dir) = s /\ m = d /\ geo.over[s] = geo.over[d]
    BY <1>2, <2>1 DEF From, To, PointsRelated
  <2>3. geo.over[d] \subseteq Fields
    BY <1>1, <1>2 DEF Geometry
  <2>4. Claim[c].scheme \/ Instantiates(EffectiveReach(c), Model[m])
    BY <2>1 DEF Crossing, Crosses, Licensed, FieldGate, Transport, PointGate, EffectiveClaim,
       EffectiveEdge, Overridden
  <2>5. PointField(m) \notin geo.over[m]
    <3>1. CASE Claim[c].scheme
      BY <1>3, <2>2, <2>3, <3>1 DEF Asserted
    <3>2. CASE Instantiates(EffectiveReach(c), Model[m])
      <4>1. PointField(m) \in Reached(EffectiveReach(c))
        BY <1>1, <3>2, ReachCoversPoints
      <4> QED BY <1>3, <2>2, <4>1 DEF Asserted
    <3> QED BY <2>4, <3>1, <3>2
  <2> QED BY <1>1, <1>2, <1>3, <2>2, <2>5 DEF PointsAndFields
<1>5. CASE ~Overridden(t, dir, "EMPTY")
  <2>1. PointRule(t, dir, "EMPTY")
    BY <1>5 DEF Crossing, Crosses, Licensed, Transport, EffectiveClaim, EffectiveEdge
  <2>2. CASE dir = "ALONG"
    <3>1. t \in Surjective
      BY <2>1, <2>2 DEF PointRule
    <3>2. From(e, dir) = s /\ m = d
      BY <2>2 DEF From, To
    <3> QED BY <1>2, <1>3, <3>1, <3>2 DEF PointsRelated, Surjective
  <2>3. CASE dir = "AGAINST"
    <3>1. t \in Total
      BY <2>1, <2>3 DEF PointRule
    <3>2. From(e, dir) = d /\ m = s
      BY <2>3 DEF From, To
    <3> QED BY <1>2, <1>3, <3>1, <3>2 DEF PointsRelated
  <2> QED BY <2>2, <2>3 DEF Crossing, Directions
<1> QED BY <1>4, <1>5

\* A rewriting goes where the relation of coordinate rings takes it.
LEMMA RewritingCrosses ==
    ASSUME NEW c, NEW e, NEW dir, NEW typed,
           Crossing(c, e, dir, typed), Claim[c].kind = "IDENTITY"
    PROVE  TrueAt(geo, c, To(e, dir))
<1> DEFINE s == Edge[e].src
           d == Edge[e].dst
           x == Claim[c].says
           t == Edge[e].type
<1>1. s \in Models /\ d \in Models /\ x \in Statements
  BY GraphFolds DEF Crossing
<1>2. RewritingsRelated(geo, e, x) /\ Declared(geo)
  BY <1>1 DEF Crossing, WellMeant
<1>3. IdentityRule(EffectiveClaim(c, e, dir, typed), EffectiveEdge(e), dir)
  BY LicenceIsTransport DEF Crossing, Transport, EffectiveClaim
<1>4. geo.valid[x][From(e, dir)]
  BY DEF Crossing, TrueAt
<1>5. EffectiveOrigin(c) = "AMBIENT" => geo.ambient[x]
  BY DEF Crossing, Credible
<1> SUFFICES geo.valid[x][To(e, dir)]
  BY DEF TrueAt
<1>6. \/ dir = "ALONG" /\ From(e, dir) = s /\ To(e, dir) = d
      \/ dir = "AGAINST" /\ From(e, dir) = d /\ To(e, dir) = s
  BY DEF From, To, Crossing, Directions
<1>7. CASE t = "EQUIVALENCE"
  <2>1. EffectiveIso(e)
    BY <1>3, <1>7 DEF IdentityRule, EffectiveEdge
  <2>2. geo.valid[x][s] = geo.valid[x][d]
    BY <1>1, <2>1, IsoKeeps DEF Crossing
  <2> QED BY <1>4, <1>6, <2>2
<1>8. CASE t \in {"NECESSARY_CONDITION", "RESTRICTION"}
  <2>1. t = "NECESSARY_CONDITION" =>
            Edge[e].map # "RATIONAL" /\ (dir = "ALONG" => EffectiveOrigin(c) = "AMBIENT")
    BY <1>3, <1>8 DEF IdentityRule, EffectiveEdge, EffectiveClaim
  <2>2. CASE t = "NECESSARY_CONDITION"
    BY <1>2, <1>4, <1>5, <1>6, <2>1, <2>2 DEF RewritingsRelated
  <2>3. CASE t = "RESTRICTION"
    <3>1. geo.valid[x][s] = geo.valid[x][d]
      BY <1>2, <2>3 DEF RewritingsRelated
    <3> QED BY <1>4, <1>6, <3>1
  <2> QED BY <1>8, <2>2, <2>3
<1>9. CASE t = "BASE_EXTENSION"
  <2>1. dir = "AGAINST" => Claim[c].inBase
    BY <1>3, <1>9 DEF IdentityRule, EffectiveEdge, EffectiveClaim
  <2>2. geo.valid[x][s] => geo.valid[x][d]
    BY <1>2, <1>9 DEF RewritingsRelated
  <2>3. Claim[c].inBase /\ geo.valid[x][d] => geo.valid[x][s]
    BY <1>2, <1>9 DEF Declared, Crossing
  <2> QED BY <1>4, <1>6, <2>1, <2>2, <2>3
<1>10. CASE t = "IMAGE_CLOSURE"
  <2>1. Edge[e].map # "RATIONAL" /\ (dir = "ALONG" => EffectiveContraction(e))
    BY <1>3, <1>10 DEF IdentityRule, EffectiveEdge
  <2>2. geo.valid[x][d] => geo.valid[x][s]
    BY <1>2, <1>10, <2>1 DEF RewritingsRelated
  <2>3. dir = "ALONG" => Contracted(geo, e, x)
    BY <1>1, <1>2, <1>10, <2>1, ContractionContracts DEF Declared, Crossing
  <2> QED BY <1>4, <1>6, <2>2, <2>3 DEF Contracted
<1>11. CASE t = "SPECIALIZATION"
  <2>1. dir = "ALONG" /\ Claim[c].integral /\ EffectiveOrigin(c) = "AMBIENT"
    BY <1>3, <1>11 DEF IdentityRule, EffectiveEdge, EffectiveClaim
  <2>2. geo.ambient[x] /\ geo.valid[x][s] => geo.valid[x][d]
    BY <1>2, <1>11, <2>1 DEF Declared, Crossing
  <2> QED BY <1>4, <1>5, <1>6, <2>1, <2>2
<1> QED BY <1>3, <1>7, <1>8, <1>9, <1>10, <1>11 DEF IdentityRule, EffectiveEdge

\* One crossing the table licenses carries a truth to a truth.
LEMMA CrossingIsSound ==
    ASSUME NEW c, NEW e, NEW dir, NEW typed, Crossing(c, e, dir, typed)
    PROVE  TrueAt(geo, c, To(e, dir)) /\ Earned(c, To(e, dir))
<1>1. TrueAt(geo, c, To(e, dir))
  BY ExistenceCrosses, PredicateCrosses, EmptinessCrosses, RewritingCrosses, GraphFolds
     DEF Crossing, Kinds
<1>2. CASE Claim[c].kind = "EMPTY"
  BY <1>2, EmptinessCrosses
<1>3. CASE Claim[c].kind # "EMPTY"
  BY <1>1, <1>3 DEF Earned
<1> QED BY <1>2, <1>3

-----------------------------------------------------------------------------
(***************************************************************************)
(* The walk.                                                               *)
(***************************************************************************)

\* The steps of the walk and of the verifiers keep everything in its place.
THEOREM TypesHold == Spec => []TypeOK
<1> USE BoundsAreNumbers, GraphFolds DEF NoAudit
<1>1. Init => TypeOK
  BY GeometriesWellMeant DEF Init, TypeOK, WellMeant
<1>2. TypeOK /\ [Next]_vars => TypeOK'
  <2> SUFFICES ASSUME TypeOK, [Next]_vars PROVE TypeOK'
    OBVIOUS
  <2> USE DEF TypeOK
  <2>1. ASSUME NEW v \in Verifiers, StartVerify(v) PROVE TypeOK'
    BY <2>1 DEF StartVerify, Outstanding
  <2>2. ASSUME NEW v \in Verifiers, Verify(v) PROVE TypeOK'
    BY <2>2 DEF Verify
  <2>3. ASSUME NEW s \in Supplied, NEW value, Supply(s, value) PROVE TypeOK'
    BY <2>3 DEF Supply
  <2>4. ASSUME NEW i \in DOMAIN Inference, Withdraw(i) PROVE TypeOK'
    BY <2>4 DEF Withdraw
  <2>5. CASE StartAudit
    BY <2>5 DEF StartAudit, At
  <2>6. CASE Bar
    BY <2>6 DEF Bar, ByEdges, Walking, At
  <2>7. CASE Cross
    <3>1. PICK lic, typed : audit' = [audit EXCEPT !.step = @ + 1, !.ok = @ /\ lic,
                                                   !.typed = lic /\ typed]
      BY <2>7 DEF Cross
    <3> DEFINE Audits == [pc : {"walk"}, inf : 1..Len(Order) + 1, prem : Nat \ {0}, step : Nat,
                          ok : BOOLEAN, typed : BOOLEAN, refused : SUBSET DOMAIN Inference]
    <3>2. audit \in Audits
      BY <2>7 DEF Cross, ByEdges, Walking
    <3>3. audit' \in Audits
      <4>1. audit.step + 1 \in Nat /\ (audit.ok /\ lic) \in BOOLEAN /\ (lic /\ typed) \in BOOLEAN
        BY <3>2
      <4> QED BY <3>1, <3>2, <4>1
    <3> QED BY <2>7, <3>3 DEF Cross
  <2>8. CASE NextPremise
    BY <2>8 DEF NextPremise, ByEdges, Walking, At
  <2>9. CASE Split
    <3>1. /\ Current \in DOMAIN Inference
          /\ audit.inf \in 1..Len(Order) + 1 /\ audit.refused \in SUBSET DOMAIN Inference
      BY <2>9 DEF Split, Walking, Current
    <3>2. Len(Inference[Current].premises) + 1 \in Nat \ {0}
      BY <3>1
    <3>3. SplitHolds(Current) \in BOOLEAN
      BY DEF SplitHolds, SplitLicensed
    <3>4. /\ UNCHANGED <<geo, verdict, asked, runs, gone>>
          /\ audit' = At(audit.inf, Len(Inference[Current].premises) + 1, 0,
                         SplitHolds(Current), audit.refused)
      BY <2>9 DEF Split
    <3> HIDE GraphFolds
    <3> QED BY <3>1, <3>2, <3>3, <3>4 DEF At
  <2>10. CASE NextInference
    BY <2>10 DEF NextInference, Walked, Walking, Current, At
  <2>11. CASE EndAudit
    BY <2>11 DEF EndAudit
  <2>12. CASE UNCHANGED vars
    BY <2>12 DEF vars
  <2> QED BY <2>1, <2>2, <2>3, <2>4, <2>5, <2>6, <2>7, <2>8, <2>9, <2>10, <2>11, <2>12 DEF Next
<1> QED BY <1>1, <1>2, PTL DEF Spec

\* What is in force was found about the geometry at hand; a verifier is never
\* asked what only a supplied proof settles.
Informed ==
    /\ geo \in Geometries
    /\ VerdictsRight
    /\ DOMAIN asked = Verifiers
    /\ \A v \in Verifiers : asked[v] = None \/ asked[v] \subseteq Subjects \ Supplied

LEMMA StaysInformed == Spec => []Informed
<1>1. Init => Informed
  BY DEF Init, Informed, VerdictsRight
<1>2. Informed /\ [Next]_vars => Informed'
  <2> SUFFICES ASSUME Informed, [Next]_vars PROVE Informed'
    OBVIOUS
  <2>1. ASSUME NEW v \in Verifiers, StartVerify(v) PROVE Informed'
    BY <2>1 DEF StartVerify, Outstanding, Informed, VerdictsRight
  <2>2. ASSUME NEW v \in Verifiers, Verify(v) PROVE Informed'
    <3>1. PICK failed \in {F \in SUBSET asked[v] : Cardinality(F) <= MaxFailed} :
              verdict' = [s \in Subjects |-> IF s \in failed THEN "UNVERIFIED"
                              ELSE IF s \in asked[v] THEN Answer(geo, s) ELSE verdict[s]]
      BY <2>2 DEF Verify
    <3>2. asked[v] \subseteq Subjects \ Supplied
      BY <2>2 DEF Verify, Informed
    <3>3. VerdictsRight'
      BY <2>2, <3>1, <3>2 DEF Verify, Informed, VerdictsRight
    <3> QED BY <2>2, <3>3 DEF Verify, Informed
  <2>3. ASSUME NEW s \in Supplied, NEW value \in Shown(geo, s), Supply(s, value) PROVE Informed'
    BY <2>3 DEF Supply, Informed, VerdictsRight
  <2>4. CASE UNCHANGED <<geo, verdict, asked>>
    BY <2>4 DEF Informed, VerdictsRight
  <2> QED BY <2>1, <2>2, <2>3, <2>4 DEF Next, vars, Withdraw, StartAudit, Bar, Cross, NextPremise,
             Split, NextInference, EndAudit
<1> QED BY <1>1, <1>2, PTL DEF Spec

\* A walk that goes by edges walks one of its inference's premises, and each
\* edge of it starts where the one before ended.
LEMMA WalksConnect ==
    ASSUME TypeOK, ByEdges, ~Barred
    PROVE  /\ Premise.claim \in DOMAIN Claim
           /\ Premise.path \in Seq(Edges \X Directions)
           /\ audit.step \in Nat
           /\ Connected(Premise)
<1>1. audit \in [pc : {"walk"}, inf : 1..Len(Order) + 1, prem : Nat \ {0}, step : Nat,
                 ok : BOOLEAN, typed : BOOLEAN, refused : SUBSET DOMAIN Inference]
  BY DEF TypeOK, ByEdges, Walking, NoAudit
<1>2. Current \in DOMAIN Inference
  BY <1>1, GraphFolds DEF ByEdges, Walking, Current
<1> DEFINE premises == Inference[Current].premises
<1>3. premises \in Seq([claim : DOMAIN Claim \cup {"none"}, path : Seq(Edges \X Directions)])
  BY <1>2, GraphFolds
<1>4. audit.prem \in DOMAIN premises
  BY <1>1, <1>3 DEF ByEdges, Walked
<1>5. Premise \in [claim : DOMAIN Claim \cup {"none"}, path : Seq(Edges \X Directions)]
  <2> DEFINE S == [claim : DOMAIN Claim \cup {"none"}, path : Seq(Edges \X Directions)]
  <2>1. Premise = premises[audit.prem]
    BY DEF Premise
  <2> HIDE DEF premises, S
  <2>2. premises \in Seq(S)
    BY <1>3 DEF S
  <2>3. premises[audit.prem] \in S
    BY <2>2, <1>4
  <2> QED BY <2>1, <2>3 DEF S
<1>6. ~Open(Premise)
  BY DEF Barred
<1>7. Connected(Premise)
  BY <1>2, <1>4, <1>6, InferencesFold DEF PremisesMeet, Premise
<1> QED BY <1>1, <1>5, <1>6, <1>7 DEF Open

\* What the induction is on: what the certificate earned has come along.
WalkIsEarned ==
    ByEdges /\ ~Barred /\ audit.ok =>
        (TrueAt(geo, Premise.claim, Claim[Premise.claim].at) /\ Credible(geo, Premise.claim)
            => TrueAt(geo, Premise.claim, Standing) /\ Earned(Premise.claim, Standing))

\* A step over an edge keeps the claim true.
LEMMA CrossKeepsTruth ==
    ASSUME Informed, TypeOK, WalkIsEarned, Cross
    PROVE  WalkIsEarned'
<1> DEFINE e   == Premise.path[audit.step + 1][1]
           dir == Premise.path[audit.step + 1][2]
           c   == Premise.claim
<1>1. /\ c \in DOMAIN Claim /\ Premise.path \in Seq(Edges \X Directions)
      /\ audit.step \in Nat /\ Connected(Premise) /\ audit.step < Len(Premise.path)
  BY WalksConnect DEF Cross
<1>2. /\ audit.step + 1 \in DOMAIN Premise.path /\ e \in Edges /\ dir \in Directions
      /\ audit.step # 0 => audit.step \in DOMAIN Premise.path
  BY <1>1
<1>3. From(e, dir) = Standing
  <2> DEFINE k == audit.step + 1
  <2>1. k \in DOMAIN Premise.path
    BY <1>2
  <2>2. e = Premise.path[k][1] /\ dir = Premise.path[k][2]
    OBVIOUS
  <2>3. k - 1 = audit.step /\ (k = 1 <=> audit.step = 0)
    BY <1>1
  <2> HIDE DEF k, e, dir
  <2>4. From(Premise.path[k][1], Premise.path[k][2]) =
            IF k = 1 THEN Claim[Premise.claim].at
            ELSE To(Premise.path[k - 1][1], Premise.path[k - 1][2])
    BY <1>1, <2>1, Zenon DEF Connected
  <2> QED BY <2>2, <2>3, <2>4 DEF Standing
<1>4. audit \in [pc : {"walk"}, inf : 1..Len(Order) + 1, prem : Nat \ {0}, step : Nat,
                 ok : BOOLEAN, typed : BOOLEAN, refused : SUBSET DOMAIN Inference]
  BY DEF TypeOK, Cross, ByEdges, Walking, NoAudit
<1> DEFINE lic == Crosses(c, e, dir, audit.typed)
<1>5. /\ audit'.step = audit.step + 1 /\ audit'.prem = audit.prem /\ audit'.inf = audit.inf
      /\ audit'.pc = audit.pc /\ (audit'.ok => audit.ok /\ lic)
  BY <1>4 DEF Cross
<1>6. Current' = Current /\ Premise' = Premise /\ geo' = geo /\ verdict' = verdict
  BY <1>5 DEF Current, Premise, Cross
<1>7. Standing' = To(e, dir)
  BY <1>1, <1>5, <1>6 DEF Standing
<1>8. ASSUME audit'.ok, TrueAt(geo, c, Claim[c].at), Credible(geo, c)
      PROVE  TrueAt(geo, c, To(e, dir)) /\ Earned(c, To(e, dir))
  <2>1. TrueAt(geo, c, Standing) /\ Earned(c, Standing)
    BY <1>5, <1>8 DEF WalkIsEarned, Cross
  <2>2. Crossing(c, e, dir, audit.typed)
    BY <1>1, <1>2, <1>3, <1>5, <1>8, <2>1, GeometriesWellMeant DEF Crossing, Informed
  <2> QED BY <2>2, CrossingIsSound
<1>9. TrueAt(geo, c, Claim[c].at)' = TrueAt(geo, c, Claim[c].at)
  BY <1>6 DEF TrueAt
<1>10. Credible(geo, c)' = Credible(geo, c)
  BY <1>6 DEF Credible, EffectiveOrigin, Verdict
<1>11. TrueAt(geo, c, Standing)' = TrueAt(geo, c, To(e, dir))
  BY <1>6, <1>7 DEF TrueAt
<1>12. Earned(c, Standing)' = Earned(c, To(e, dir))
  BY <1>6, <1>7 DEF Earned, EffectiveReach, Verdict
<1> QED BY <1>6, <1>8, <1>9, <1>10, <1>11, <1>12 DEF WalkIsEarned

\* At every step of a walk that nothing has refused, the claim is true where
\* the walk has brought it (check.py: audit_inference over kernel.transport).
THEOREM WalksAreTrue == Spec => []WalkIsTrue
<1>1. Init => WalkIsEarned
  BY DEF Init, WalkIsEarned, ByEdges, Walking, NoAudit
<1>2. WalkIsEarned /\ Informed /\ TypeOK /\ [Next]_vars => WalkIsEarned'
  <2> SUFFICES ASSUME WalkIsEarned, Informed, TypeOK, [Next]_vars PROVE WalkIsEarned'
    OBVIOUS
  <2>1. ASSUME NEW v \in Verifiers, StartVerify(v) \/ Verify(v) PROVE WalkIsEarned'
    BY <2>1 DEF StartVerify, Verify, WalkIsEarned, ByEdges, Walking, NoAudit
  <2>2. ASSUME NEW s, NEW value, Supply(s, value) PROVE WalkIsEarned'
    BY <2>2 DEF Supply, WalkIsEarned, ByEdges, Walking, NoAudit
  <2>3. ASSUME NEW i, Withdraw(i) PROVE WalkIsEarned'
    BY <2>3 DEF Withdraw, WalkIsEarned, ByEdges, Walking, NoAudit
  <2>4. CASE StartAudit \/ Bar \/ NextPremise \/ Split \/ NextInference
    <3>1. audit'.step = 0 /\ geo' = geo /\ verdict' = verdict
      BY <2>4 DEF StartAudit, Bar, NextPremise, Split, NextInference, At
    <3>2. Standing' = Claim[Premise'.claim].at
      BY <3>1 DEF Standing
    <3>3. Earned(Premise'.claim, Claim[Premise'.claim].at)
      BY ReachIsEarned DEF Informed
    <3>4. Earned(Premise.claim, Standing)'
      BY <3>1, <3>2, <3>3 DEF Earned, EffectiveReach, Verdict
    <3> QED BY <3>2, <3>4 DEF WalkIsEarned
  <2>5. CASE Cross
    BY <2>5, CrossKeepsTruth
  <2>6. CASE EndAudit
    BY <2>6 DEF EndAudit, WalkIsEarned, ByEdges, Walking, NoAudit
  <2>7. CASE UNCHANGED vars
    BY <2>7 DEF vars, WalkIsEarned, ByEdges, Walking, Walked, Current, Premise, Barred,
       HasCertificate, Verdict, Standing, Credible, EffectiveOrigin, Earned, EffectiveReach
  <2> QED BY <2>1, <2>2, <2>3, <2>4, <2>5, <2>6, <2>7 DEF Next
<1>3. WalkIsEarned => WalkIsTrue
  BY DEF WalkIsEarned, WalkIsTrue
<1> QED BY <1>1, <1>2, <1>3, StaysInformed, TypesHold, PTL DEF Spec

-----------------------------------------------------------------------------
(***************************************************************************)
(* What the report calls clean.                                            *)
(***************************************************************************)

\* A premise of an inference has come to its conclusion, and no slot is open.
Arrives(i, n) ==
    LET p == Inference[i].premises[n] IN
    /\ ~Open(p)
    /\ TrueAt(geo, p.claim, Claim[p.claim].at) /\ Credible(geo, p.claim)
           => TrueAt(geo, p.claim, Inference[i].at)

\* What an audit has found of an inference that it did not refuse.
Carried(i) ==
    /\ Inference[i].via = "none" => \A n \in DOMAIN Inference[i].premises : Arrives(i, n)
    /\ Inference[i].via # "none" => SplitHolds(i)

\* What it has found of the one it is at.
CarriedSoFar(i) ==
    /\ Inference[i].via = "none" =>
           \A n \in DOMAIN Inference[i].premises : n < audit.prem => Arrives(i, n)
    /\ Inference[i].via # "none" /\ audit.prem > 1 => SplitHolds(i)

WalkedThrough ==
    audit.pc = "walk" =>
        /\ \A k \in DOMAIN Order :
              k < audit.inf => Order[k] \in gone \cup audit.refused \/ Carried(Order[k])
        /\ audit.inf \in DOMAIN Order /\ Current \notin gone /\ audit.ok => CarriedSoFar(Current)

AuditType ==
    [pc : {"walk"}, inf : 1..Len(Order) + 1, prem : Nat \ {0}, step : Nat,
     ok : BOOLEAN, typed : BOOLEAN, refused : SUBSET DOMAIN Inference]

\* While an audit runs, nothing it reads changes.
LEMMA AuditReadsTheSame ==
    ASSUME geo' = geo, verdict' = verdict, gone' = gone
    PROVE  /\ \A i, n : Arrives(i, n)' <=> Arrives(i, n)
           /\ \A i : SplitHolds(i)' <=> SplitHolds(i)
           /\ \A i : Carried(i)' <=> Carried(i)
<1>1. \A i, n : Arrives(i, n)' <=> Arrives(i, n)
  BY DEF Arrives, TrueAt, Credible, EffectiveOrigin, Verdict
<1>2. \A i : SplitHolds(i)' <=> SplitHolds(i)
  BY DEF SplitHolds, SplitLicensed, BranchCovered, HasCertificate, Verdict
<1> QED BY <1>1, <1>2 DEF Carried

\* A path that was walked to its end ends where the inference concludes.
LEMMA NextPremiseArrives ==
    ASSUME TypeOK, WalkIsTrue, NextPremise, audit.ok
    PROVE  Arrives(Current, audit.prem)
<1>1. /\ Premise.claim \in DOMAIN Claim
      /\ Premise.path \in Seq(Edges \X Directions)
  BY WalksConnect DEF NextPremise
<1>2. ByEdges /\ ~Barred /\ ~Open(Premise) /\ audit.step = Len(Premise.path)
  BY DEF NextPremise, Barred
<1>3. audit \in AuditType
  BY <1>2 DEF TypeOK, ByEdges, Walking, NoAudit, AuditType
<1>4. Current \in DOMAIN Inference /\ Inference[Current].via = "none"
  BY <1>2, <1>3, GraphFolds DEF ByEdges, Walking, Current, AuditType
<1>5. audit.prem \in DOMAIN Inference[Current].premises
  <2>1. Inference[Current].premises \in Seq([claim : DOMAIN Claim \cup {"none"},
                                            path : Seq(Edges \X Directions)])
    BY <1>4, GraphFolds
  <2> QED BY <1>2, <1>3, <2>1 DEF ByEdges, Walked, AuditType
<1>6. Reaches(Premise) = Inference[Current].at
  BY <1>2, <1>4, <1>5, InferencesFold DEF PremisesMeet, Premise
<1>7. Standing = Reaches(Premise)
  <2>1. CASE Premise.path = <<>>
    BY <1>2, <2>1 DEF Standing, Reaches
  <2>2. CASE Premise.path # <<>>
    <3>1. Len(Premise.path) # 0
      BY <1>1, <2>2
    <3> QED BY <1>2, <2>2, <3>1 DEF Standing, Reaches
  <2> QED BY <2>1, <2>2
<1>8. TrueAt(geo, Premise.claim, Claim[Premise.claim].at) /\ Credible(geo, Premise.claim)
          => TrueAt(geo, Premise.claim, Inference[Current].at)
  BY <1>2, <1>6, <1>7 DEF WalkIsTrue
<1> QED BY <1>2, <1>8 DEF Arrives, Premise

\* Nothing is found yet of an inference whose walk begins.
LEMMA NothingYet ==
    ASSUME NEW i, i \in DOMAIN Inference, audit'.prem = 1
    PROVE  CarriedSoFar(i)'
<1>1. \A n \in DOMAIN Inference[i].premises : n \in Nat /\ n >= 1
  <2>1. Inference[i].premises \in Seq([claim : DOMAIN Claim \cup {"none"},
                                       path : Seq(Edges \X Directions)])
    BY GraphFolds
  <2> QED BY <2>1
<1> QED BY <1>1 DEF CarriedSoFar

\* An inference whose walk is over, with nothing refused, is carried.
LEMMA WalkedIsCarried ==
    ASSUME NEW i \in DOMAIN Inference, audit \in AuditType, CarriedSoFar(i),
           audit.prem > Len(Inference[i].premises)
    PROVE  Carried(i)
<1>1. /\ Inference[i].premises \in Seq([claim : DOMAIN Claim \cup {"none"},
                                       path : Seq(Edges \X Directions)])
      /\ PremisesMeet(i)
  BY GraphFolds, InferencesFold
<1>2. audit.prem \in Nat
  BY DEF AuditType
<1>3. \A n \in DOMAIN Inference[i].premises : n < audit.prem
  BY <1>1, <1>2
<1>4. audit.prem > 1
  <2>1. PICK n \in DOMAIN Inference[i].premises : TRUE
    BY <1>1 DEF PremisesMeet
  <2>2. n >= 1 /\ n <= Len(Inference[i].premises)
    BY <1>1, <2>1
  <2> QED BY <1>1, <1>2, <2>2
<1> QED BY <1>3, <1>4 DEF CarriedSoFar, Carried

\* Where an audit stands in the order, in what follows.
LEMMA AuditStands ==
    ASSUME TypeOK, audit.pc = "walk"
    PROVE  /\ audit \in AuditType
           /\ DOMAIN Order = 1..Len(Order) /\ Len(Order) \in Nat
           /\ \A k \in DOMAIN Order : Order[k] \in DOMAIN Inference
BY GraphFolds DEF TypeOK, NoAudit, AuditType

LEMMA WalkedNext ==
    ASSUME TypeOK, WalkIsTrue, WalkedThrough, Next
    PROVE  WalkedThrough'
<1>1. CASE audit' = NoAudit
  BY <1>1 DEF WalkedThrough, NoAudit
<1>2. CASE StartAudit
  <2>1. audit' = At(1, 1, 0, TRUE, {}) /\ geo' = geo /\ verdict' = verdict /\ gone' = gone
    BY <1>2 DEF StartAudit
  <2>2. audit'.inf = 1 /\ audit'.prem = 1
    BY <2>1 DEF At
  <2>3. \A k \in DOMAIN Order : ~(k < 1) /\ Order[k] \in DOMAIN Inference
    BY GraphFolds
  <2>4. audit'.inf \in DOMAIN Order => CarriedSoFar(Current)'
    <3>1. ASSUME audit'.inf \in DOMAIN Order PROVE CarriedSoFar(Current)'
      <4>1. Current' \in DOMAIN Inference
        BY <2>3, <3>1 DEF Current
      <4> QED BY <2>2, <4>1, NothingYet
    <3> QED BY <3>1
  <2> QED BY <2>2, <2>3, <2>4 DEF WalkedThrough
<1> USE AuditStands
<1>3. CASE Bar \/ Cross \/ NextPremise \/ Split
  <2>1. /\ audit.pc = "walk" /\ Walking
        /\ geo' = geo /\ verdict' = verdict /\ gone' = gone
        /\ Current \notin gone
    BY <1>3 DEF Bar, Cross, NextPremise, Split, ByEdges, Walking
  <2>2. audit \in AuditType
    BY <2>1
  <2>3. audit'.inf = audit.inf /\ audit'.refused = audit.refused
    <3>1. CASE Bar
      BY <3>1 DEF Bar, At
    <3>2. CASE Cross
      BY <2>2, <3>2 DEF Cross, AuditType
    <3>3. CASE NextPremise
      BY <3>3 DEF NextPremise, At
    <3>4. CASE Split
      BY <3>4 DEF Split, At
    <3> QED BY <1>3, <3>1, <3>2, <3>3, <3>4
  <2>4. Current' = Current /\ Current \in DOMAIN Inference
    BY <2>1, <2>2, <2>3 DEF Current, Walking, AuditType
  <2>5. ASSUME NEW k \in DOMAIN Order, k < audit'.inf
        PROVE  Order[k] \in gone' \cup audit'.refused \/ Carried(Order[k])'
    BY <2>1, <2>3, <2>5, AuditReadsTheSame DEF WalkedThrough
  <2>6. ASSUME audit'.ok PROVE CarriedSoFar(Current)'
    <3>1. CASE Bar
      BY <2>6, <3>1 DEF Bar, At
    <3>2. CASE Cross
      <4>1. audit'.prem = audit.prem /\ audit.ok
        BY <2>2, <2>6, <3>2 DEF Cross, AuditType
      <4>2. CarriedSoFar(Current)
        BY <2>1, <2>2, <4>1 DEF WalkedThrough, Walking, AuditType
      <4> QED BY <2>1, <2>4, <4>1, <4>2, AuditReadsTheSame DEF CarriedSoFar
    <3>3. CASE NextPremise
      <4>1. audit'.prem = audit.prem + 1 /\ audit.ok /\ audit.prem \in Nat
        BY <2>2, <2>6, <3>3 DEF NextPremise, At, AuditType
      <4>2. CarriedSoFar(Current) /\ Inference[Current].via = "none"
        BY <2>1, <2>2, <3>3, <4>1 DEF WalkedThrough, Walking, AuditType, NextPremise, ByEdges
      <4>3. Arrives(Current, audit.prem)
        BY <3>3, <4>1, NextPremiseArrives
      <4>4. \A n \in DOMAIN Inference[Current].premises : n \in Nat
        <5>1. Inference[Current].premises \in Seq([claim : DOMAIN Claim \cup {"none"},
                                                   path : Seq(Edges \X Directions)])
          BY <2>4, GraphFolds
        <5> QED BY <5>1
      <4>5. \A n \in DOMAIN Inference[Current].premises : n < audit.prem + 1 => Arrives(Current, n)
        <5>1. \A n \in DOMAIN Inference[Current].premises :
                 n < audit.prem + 1 => n < audit.prem \/ n = audit.prem
          BY <4>1, <4>4
        <5> QED BY <4>2, <4>3, <5>1 DEF CarriedSoFar
      <4> QED BY <2>1, <2>4, <4>1, <4>2, <4>5, AuditReadsTheSame DEF CarriedSoFar
    <3>4. CASE Split
      <4>1. SplitHolds(Current) /\ Inference[Current].via # "none"
        BY <2>6, <3>4 DEF Split, At
      <4> QED BY <2>1, <2>4, <4>1, AuditReadsTheSame DEF CarriedSoFar
    <3> QED BY <1>3, <3>1, <3>2, <3>3, <3>4
  <2> QED BY <2>5, <2>6 DEF WalkedThrough
<1>4. CASE NextInference
  <2>1. /\ audit.pc = "walk" /\ Walking /\ audit \in AuditType
        /\ geo' = geo /\ verdict' = verdict /\ gone' = gone
        /\ audit' = At(audit.inf + 1, 1, 0, TRUE,
                       IF audit.ok THEN audit.refused ELSE audit.refused \cup {Current})
    BY <1>4 DEF NextInference, Walked, Walking
  <2>2. /\ audit'.inf = audit.inf + 1 /\ audit'.prem = 1 /\ audit.refused \subseteq audit'.refused
        /\ ~audit.ok => Current \in audit'.refused
    BY <2>1 DEF At
  <2>3. audit.inf \in DOMAIN Order /\ Current = Order[audit.inf] /\ Current \in DOMAIN Inference
    BY <2>1 DEF Current, Walking, AuditType
  <2>4. Current \in gone \cup audit'.refused \/ Carried(Current)
    <3>1. SUFFICES ASSUME Current \notin gone, audit.ok PROVE Carried(Current)
      BY <2>2
    <3>2. CarriedSoFar(Current) /\ audit.prem > Len(Inference[Current].premises)
      BY <1>4, <2>1, <2>3, <3>1 DEF WalkedThrough, NextInference, Walked
    <3> QED BY <2>1, <2>3, <3>2, WalkedIsCarried
  <2>5. ASSUME NEW k \in DOMAIN Order, k < audit'.inf
        PROVE  Order[k] \in gone' \cup audit'.refused \/ Carried(Order[k])'
    <3>1. k < audit.inf \/ k = audit.inf
      <4>1. k \in Nat /\ audit.inf \in Nat
        BY <2>1 DEF AuditType
      <4> QED BY <2>2, <2>5, <4>1
    <3>2. Order[k] \in gone \cup audit'.refused \/ Carried(Order[k])
      BY <2>1, <2>2, <2>3, <2>4, <3>1 DEF WalkedThrough
    <3> QED BY <2>1, <3>2, AuditReadsTheSame
  <2>6. audit'.inf \in DOMAIN Order => CarriedSoFar(Current)'
    <3>1. ASSUME audit'.inf \in DOMAIN Order PROVE CarriedSoFar(Current)'
      <4>1. Current' \in DOMAIN Inference
        BY <2>1, <3>1 DEF Current
      <4> QED BY <2>2, <4>1, NothingYet
    <3> QED BY <3>1
  <2> QED BY <2>5, <2>6 DEF WalkedThrough
<1>5. CASE EndAudit
  BY <1>1, <1>5 DEF EndAudit
<1> QED BY <1>1, <1>2, <1>3, <1>4, <1>5 DEF Next, StartVerify, Verify, Supply, Withdraw

LEMMA AuditsWalkThrough == Spec => []WalkedThrough
<1>1. Init => WalkedThrough
  BY DEF Init, WalkedThrough, NoAudit
<1>2. WalkedThrough /\ WalkIsTrue /\ TypeOK /\ [Next]_vars => WalkedThrough'
  <2> SUFFICES ASSUME WalkedThrough, WalkIsTrue, TypeOK, UNCHANGED vars PROVE WalkedThrough'
    BY WalkedNext
  <2>1. geo' = geo /\ verdict' = verdict /\ gone' = gone /\ audit' = audit
    BY DEF vars
  <2> QED BY <2>1, AuditReadsTheSame DEF WalkedThrough, CarriedSoFar, Current
<1> QED BY <1>1, <1>2, WalksAreTrue, TypesHold, PTL DEF Spec

\* What an inference states is a claim of the graph.
LEMMA StatedIsDeclared ==
    ASSUME NEW i \in DOMAIN Inference, NEW c \in Stated(i)
    PROVE  c \in DOMAIN Claim /\ Claim[c].says \in Statements
<1> DEFINE S == [claim : DOMAIN Claim \cup {"none"}, path : Seq(Edges \X Directions)]
           premises == Inference[i].premises
<1>1. PICK n \in DOMAIN premises : c = premises[n].claim /\ c # "none"
  BY DEF Stated
<1>2. premises \in Seq(S)
  BY GraphFolds
<1>3. premises[n] \in S
  <2> HIDE DEF S, premises
  <2> QED BY <1>1, <1>2
<1> QED BY <1>1, <1>3, GraphFolds

\* A verified cover covers.
LEMMA CoverIsThere ==
    ASSUME VerdictsRight, NEW p, Verdict("exhaustive", p) = "VERIFIED"
    PROVE  Covered(geo, p)
<1> DEFINE s == <<"exhaustive", p>>
<1>1. s \in Subjects /\ verdict[s] = "VERIFIED"
  BY DEF Verdict
<1>2. s \notin Supplied
  BY DEF Supplied
<1>3. Answer(geo, s) = "VERIFIED"
  BY <1>1, <1>2 DEF VerdictsRight
<1>4. s[1] = "exhaustive" /\ s[2] = p
  OBVIOUS
<1> HIDE DEF s
<1>5. Answer(geo, s) = ExhaustiveAnswer(geo, p)
  BY <1>4 DEF Answer
<1> QED BY <1>3, <1>5 DEF ExhaustiveAnswer

\* The cases of a verified cover conclude.
LEMMA SplitConcludes ==
    ASSUME Informed, NEW i \in DOMAIN Inference, Inference[i].via # "none", SplitHolds(i),
           \A c \in Stated(i) : TrueAt(geo, c, Claim[c].at)
    PROVE  Concluded(i)
<1> DEFINE p == Inference[i].via
           T == Partition[p].parent
<1>1. /\ p \in DOMAIN Partition
      /\ Inference[i].at = T
  BY PartitionsFold, InferencesFold DEF PremisesMeet
<1>2. /\ Inference[i].kind \in {"EMPTY", "PREDICATE"}
      /\ Covered(geo, p)
      /\ \A e \in Partition[p].legs : BranchCovered(i, e)
  BY CoverIsThere DEF SplitHolds, SplitLicensed, SplitKinds, Informed
<1>3. \A q \in geo.pts[T] : \E e \in Partition[p].legs : \E b \in geo.pts[Edge[e].src] : <<b, q>> \in geo.rel[e]
  BY <1>2 DEF Covered
<1>4. \A e \in Partition[p].legs : \E c \in OfBranches(i) :
          Claim[c].at = Edge[e].src /\ TrueAt(geo, c, Edge[e].src)
  <2>1. ASSUME NEW e \in Partition[p].legs
        PROVE  \E c \in OfBranches(i) : Claim[c].at = Edge[e].src /\ TrueAt(geo, c, Edge[e].src)
    <3>1. PICK n \in DOMAIN Inference[i].premises :
              LET c == Inference[i].premises[n].claim
              IN  ~Open(Inference[i].premises[n]) /\ Claim[c].at = Edge[e].src /\ Claim[c].kind = Inference[i].kind
      BY <1>2 DEF BranchCovered
    <3>2. Inference[i].premises[n].claim \in Stated(i)
      BY <3>1 DEF Stated, Open
    <3>3. Inference[i].premises[n].claim \in OfBranches(i)
      BY <3>1, <3>2 DEF OfBranches
    <3> QED BY <3>1, <3>2, <3>3
  <2> QED BY <2>1
<1>5. CASE Inference[i].kind = "EMPTY"
  <2>1. \A e \in Partition[p].legs : geo.pts[Edge[e].src] = {}
    BY <1>4, <1>5 DEF TrueAt, OfBranches
  <2>2. geo.pts[T] = {}
    BY <1>3, <2>1
  <2> QED BY <1>1, <1>5, <2>2 DEF Concluded
<1>6. CASE Inference[i].kind = "PREDICATE"
  <2>1. ASSUME NEW q \in geo.pts[T]
        PROVE  \E c \in OfBranches(i) : q \in geo.holds[Claim[c].says][T]
    <3>1. PICK e \in Partition[p].legs : \E b \in geo.pts[Edge[e].src] : <<b, q>> \in geo.rel[e]
      BY <1>3, <2>1
    <3>2. PICK b \in geo.pts[Edge[e].src] : <<b, q>> \in geo.rel[e]
      BY <3>1
    <3>3. PICK c \in OfBranches(i) : Claim[c].at = Edge[e].src /\ TrueAt(geo, c, Edge[e].src)
      BY <1>4
    <3>4. b \in geo.holds[Claim[c].says][Edge[e].src]
      BY <1>6, <3>2, <3>3 DEF TrueAt, OfBranches
    <3>5. /\ e \in Edges /\ Edge[e].dst = T /\ (Edge[e].type = "EQUIVALENCE" => Edge[e].embedded)
      BY <1>1, PartitionsFold
    <3>6. c \in DOMAIN Claim /\ Claim[c].says \in Statements
      <4>1. c \in Stated(i)
        BY DEF OfBranches
      <4> QED BY <4>1, StatedIsDeclared
    <3>7. Agrees(geo, e, Bearers("NONEMPTY"))
      BY <3>5, GeometriesWellMeant DEF Informed, WellMeant
    <3>8. <<b, q>>[1] \in geo.holds[Claim[c].says][Edge[e].src]
              <=> <<b, q>>[2] \in geo.holds[Claim[c].says][Edge[e].dst]
      BY <3>2, <3>5, <3>6, <3>7 DEF Agrees
    <3> QED BY <3>4, <3>5, <3>8
  <2> QED BY <1>1, <1>6, <2>1 DEF Concluded
<1> QED BY <1>2, <1>5, <1>6

\* What was carried concludes, from true premises.
LEMMA CarriedConcludes ==
    ASSUME Informed, NEW i \in DOMAIN Inference, Carried(i),
           \A c \in Stated(i) : TrueAt(geo, c, Claim[c].at) /\ Credible(geo, c)
    PROVE  Concluded(i)
<1>1. CASE Inference[i].via # "none"
  BY <1>1, SplitConcludes DEF Carried
<1>2. CASE Inference[i].via = "none"
  <2>1. ASSUME NEW c \in Stated(i) PROVE TrueAt(geo, c, Inference[i].at)
    <3>1. PICK n \in DOMAIN Inference[i].premises : c = Inference[i].premises[n].claim
      BY DEF Stated
    <3>2. Arrives(i, n)
      BY <1>2 DEF Carried
    <3> QED BY <3>1, <3>2 DEF Arrives
  <2> QED BY <1>2, <2>1 DEF Concluded
<1> QED BY <1>1, <1>2

\* A model that is not tainted has no refused builder, and none that starts
\* from a tainted model.
LEMMA UntaintedBuilders ==
    ASSUME NEW R, NEW m \in DOMAIN BuiltBy, m \notin Tainted(R), NEW i \in BuiltBy[m]
    PROVE  i \notin R /\ Claim[FirstPremise(i).claim].at \notin Tainted(R)
<1>1. PICK S \in SUBSET DOMAIN BuiltBy : TaintClosed(S, R) /\ m \notin S
  BY DEF Tainted
<1>2. i \notin R /\ Claim[FirstPremise(i).claim].at \notin S
  BY <1>1 DEF TaintClosed
<1> QED BY <1>1, <1>2 DEF Tainted

\* When the audit is over, what it has not refused is carried.
LEMMA ReportCarries ==
    ASSUME TypeOK, WalkedThrough, Reported, NEW i \in DOMAIN Inference, i \notin gone \cup audit.refused
    PROVE  Carried(i)
<1>1. PICK k \in DOMAIN Order : Order[k] = i
  BY GraphFolds
<1>2. audit \in AuditType /\ audit.pc = "walk" /\ audit.inf > Len(Order) /\ k \in 1..Len(Order) /\ Len(Order) \in Nat
  BY <1>1, AuditStands DEF Reported
<1>3. k < audit.inf
  BY <1>2 DEF AuditType
<1> QED BY <1>1, <1>2, <1>3 DEF WalkedThrough

\* The claims of a rooted model that is not tainted are true, when its builders,
\* and theirs, were granted what they start from.
LEMMA RootedIsTrue ==
    ASSUME TypeOK, Informed, WalkedThrough, Reported, gone \cap Builders = {}, Founded,
           \A j \in Builders : \A c \in Stated(j) :
               Credible(geo, c) /\ (Claim[c].at \notin DOMAIN BuiltBy => TrueAt(geo, c, Claim[c].at)),
           NEW c \in DOMAIN Claim, Claim[c].at \in Rooted(audit.refused) \ Tainted(audit.refused)
    PROVE  TrueAt(geo, c, Claim[c].at)
<1> DEFINE R == audit.refused
           Fine(m) == \A d \in DOMAIN Claim : Claim[d].at = m => TrueAt(geo, d, m)
           S == {m \in DOMAIN BuiltBy : m \notin Tainted(R) => Fine(m)}
<1>1. ASSUME NEW m \in DOMAIN BuiltBy, Based(m, S, R), m \notin Tainted(R) PROVE Fine(m)
  <2>1. ASSUME NEW j \in BuiltBy[m] PROVE Concluded(j)
    <3>1. j \in Builders /\ j \in DOMAIN Inference
      BY GraphFolds DEF Builders
    <3>2. j \notin R /\ Claim[FirstPremise(j).claim].at \notin Tainted(R)
      BY <1>1, UntaintedBuilders
    <3>3. Carried(j)
      BY <3>1, <3>2, ReportCarries
    <3>4. ASSUME NEW d \in Stated(j) PROVE TrueAt(geo, d, Claim[d].at) /\ Credible(geo, d)
      <4>1. CASE Claim[d].at \notin DOMAIN BuiltBy
        BY <3>1, <4>1
      <4>2. CASE Claim[d].at \in DOMAIN BuiltBy
        <5>1. Claim[d].at \in S /\ Claim[d].at \notin Tainted(R)
          BY <1>1, <3>2, <4>2 DEF Based
        <5>2. d \in DOMAIN Claim
          BY <3>1, StatedIsDeclared
        <5> QED BY <3>1, <5>1, <5>2
      <4> QED BY <4>1, <4>2
    <3> QED BY <3>1, <3>3, <3>4, CarriedConcludes
  <2> QED BY <1>1, <2>1 DEF Founded
<1> HIDE DEF Fine
<1>2. \A m \in DOMAIN BuiltBy : Based(m, S, R) => m \in S
  BY <1>1
<1>3. S \in SUBSET DOMAIN BuiltBy
  OBVIOUS
<1> HIDE DEF S
<1>4. Claim[c].at \in S
  BY <1>2, <1>3 DEF Rooted
<1> QED BY <1>4 DEF S, Fine

\* What `gp check` lists as clean is so when it reasons from no tainted model
\* (check.py: clean_inferences, propagate_taint), through chains of built models
\* of any length: whatever the graph, the geometry and the verdicts in force, and
\* whatever was withdrawn that built no model.
THEOREM CleanAreTrue == Spec => []CleanIsTrue
<1>1. TypeOK /\ Informed /\ WalkedThrough => CleanIsTrue
  <2> SUFFICES ASSUME TypeOK, Informed, WalkedThrough, Reported, gone \cap Builders = {}, Founded,
                      NEW i \in DOMAIN Inference, Clean(i), Granted(i),
                      \A c \in Stated(i) : Claim[c].at \in DOMAIN BuiltBy =>
                          Claim[c].at \in Rooted(audit.refused) \ Tainted(audit.refused)
               PROVE  Concluded(i)
    BY DEF CleanIsTrue
  <2>1. Carried(i)
    BY ReportCarries DEF Clean
  <2>2. ASSUME NEW c \in Stated(i) PROVE TrueAt(geo, c, Claim[c].at) /\ Credible(geo, c)
    <3>1. CASE Claim[c].at \notin DOMAIN BuiltBy
      BY <3>1 DEF Granted
    <3>2. CASE Claim[c].at \in DOMAIN BuiltBy
      <4>1. \A j \in Builders : \A d \in Stated(j) :
               Credible(geo, d) /\ (Claim[d].at \notin DOMAIN BuiltBy => TrueAt(geo, d, Claim[d].at))
        BY DEF Granted
      <4>2. c \in DOMAIN Claim /\ Claim[c].at \in Rooted(audit.refused) \ Tainted(audit.refused)
        BY <3>2, StatedIsDeclared
      <4>3. TrueAt(geo, c, Claim[c].at)
        BY <4>1, <4>2, RootedIsTrue
      <4> QED BY <4>3 DEF Granted
    <3> QED BY <3>1, <3>2
  <2> QED BY <2>1, <2>2, CarriedConcludes
<1> QED BY <1>1, TypesHold, StaysInformed, AuditsWalkThrough, PTL

-----------------------------------------------------------------------------
(***************************************************************************)
(* Verdicts that settle nothing.                                           *)
(***************************************************************************)

\* What a step may do to the verdicts when it has nothing to grant.
Weakened ==
    \A s \in Subjects :
        verdict'[s] = verdict[s] \/ (Unsettled(s) /\ verdict'[s] \in Against)

\* Then no authority is gained.
LEMMA WeakenedGrantsNothing ==
    ASSUME Weakened
    PROVE  Licences' \subseteq Licences
<1>1. ASSUME NEW what, NEW id
      PROVE  \/ Verdict(what, id)' = Verdict(what, id)
             \/ Verdict(what, id) \in {"none", "UNVERIFIED"} /\ Verdict(what, id)' \in Against
  BY DEF Weakened, Verdict, Unsettled
<1>2. ASSUME NEW c PROVE EffectiveOrigin(c)' = EffectiveOrigin(c)
  <2>1. \/ Verdict("identity", c)' = Verdict("identity", c)
        \/ /\ Verdict("identity", c) \in {"none", "UNVERIFIED"}
           /\ Verdict("identity", c)' \in Against
    BY <1>1
  <2> QED BY <2>1 DEF EffectiveOrigin, Against
<1>3. ASSUME NEW c, HasCertificate(c)' PROVE HasCertificate(c)
  BY <1>1, <1>3 DEF HasCertificate, Against
<1>4. ASSUME NEW e
      PROVE  /\ EffectiveIso(e)' = EffectiveIso(e)
             /\ EffectiveContraction(e)' = EffectiveContraction(e)
             /\ EffectiveLift(e)' = EffectiveLift(e)
             /\ Constructed(e)' = Constructed(e)
  <2>1. (Verdict("ring_iso", e) = "VERIFIED")' = (Verdict("ring_iso", e) = "VERIFIED")
    BY <1>1 DEF Against
  <2>2. (Verdict("output", e) = "VERIFIED")' = (Verdict("output", e) = "VERIFIED")
    BY <1>1 DEF Against
  <2>3. (Verdict("lift", e) = "VERIFIED_POINT_LIFT")' = (Verdict("lift", e) = "VERIFIED_POINT_LIFT")
    BY <1>1 DEF Against
  <2>4. /\ (Verdict("contraction", e) = "VERIFIED_SECTION")'
               = (Verdict("contraction", e) = "VERIFIED_SECTION")
        /\ (Verdict("contraction", e) = "VERIFIED_GROEBNER")'
               = (Verdict("contraction", e) = "VERIFIED_GROEBNER")
    BY <1>1 DEF Against
  <2> QED BY <2>1, <2>2, <2>3, <2>4 DEF EffectiveIso, EffectiveContraction, EffectiveLift, Constructed
<1>5. ASSUME NEW c, NEW e, NEW dir
      PROVE  Crosses(c, e, dir, TRUE)' = Crosses(c, e, dir, TRUE)
  <2>1. EffectiveEdge(e)' = EffectiveEdge(e)
    BY <1>4 DEF EffectiveEdge, EffectiveClosure
  <2>2. EffectiveReach(c)' = EffectiveReach(c)
    <3>1. (Verdict("certificate", c) = "VERIFIED")' = (Verdict("certificate", c) = "VERIFIED")
      BY <1>1 DEF Against
    <3> QED BY <3>1 DEF EffectiveReach
  <2>3. EffectiveClaim(c, e, dir, TRUE)' = EffectiveClaim(c, e, dir, TRUE)
    BY <1>2, <2>2 DEF EffectiveClaim, Expressible
  <2> QED BY <2>1, <2>3 DEF Crosses
<1>6. ASSUME NEW i, SplitHolds(i)' PROVE SplitHolds(i)
  <2> DEFINE p == Inference[i].via
  <2>1. Verdict("exhaustive", p) = "VERIFIED"
    BY <1>1, <1>6 DEF SplitHolds, SplitLicensed, Against
  <2>2. ASSUME NEW e, BranchCovered(i, e)' PROVE BranchCovered(i, e)
    BY <1>3, <2>2 DEF BranchCovered
  <2> QED BY <1>6, <2>1, <2>2 DEF SplitHolds, SplitLicensed
<1> QED BY <1>5, <1>6 DEF Licences

\* With one verifier at a time, what it was asked stays unsettled until it
\* answers: a verification that fails takes nothing's place, and grants nothing
\* (check.py: check_inconclusive_verdicts).
THEOREM OneVerifierGrantsNothing ==
    ASSUME \A v, w \in Verifiers : v = w
    PROVE  Spec => InconclusiveGrantsNothing
<1> DEFINE Waiting == \A v \in Verifiers : asked[v] = None \/ \A s \in asked[v] : Unsettled(s)
<1>1. Init => Waiting
  BY DEF Init
<1>2. Waiting /\ Informed /\ [Next]_vars => Waiting'
  <2> SUFFICES ASSUME Waiting, Informed, [Next]_vars PROVE Waiting'
    OBVIOUS
  <2>1. ASSUME NEW v \in Verifiers, StartVerify(v) PROVE Waiting'
    BY <2>1 DEF StartVerify, Outstanding, Unsettled
  <2>2. ASSUME NEW v \in Verifiers, Verify(v) PROVE Waiting'
    <3>1. asked' = [asked EXCEPT ![v] = None]
      BY <2>2 DEF Verify
    <3>2. ASSUME NEW w \in Verifiers PROVE asked'[w] = None \/ \A s \in asked'[w] : Unsettled(s)'
      <4>1. w = v
        OBVIOUS
      <4>2. asked'[v] = None
        BY <3>1 DEF Informed
      <4> QED BY <3>1, <4>1, <4>2
    <3> QED BY <3>2
  <2>3. ASSUME NEW s \in Supplied, NEW value, Supply(s, value) PROVE Waiting'
    <3>1. ASSUME NEW v \in Verifiers, asked[v] # None, NEW r \in asked[v] PROVE Unsettled(r)'
      <4>1. r # s /\ r \in Subjects /\ Unsettled(r)
        BY <2>3, <3>1 DEF Informed
      <4> QED BY <2>3, <4>1 DEF Supply, Unsettled
    <3> QED BY <2>3, <3>1 DEF Supply
  <2>4. CASE UNCHANGED <<verdict, asked>>
    BY <2>4 DEF Unsettled
  <2> QED BY <2>1, <2>2, <2>3, <2>4 DEF Next, vars, Withdraw, StartAudit, Bar, Cross, NextPremise,
             Split, NextInference, EndAudit
<1>3. Waiting /\ Informed /\ [Next]_vars =>
        [verdict' # verdict /\ (\A s \in Subjects : verdict'[s] \in Against \cup {verdict[s]})
           => Licences' \subseteq Licences]_vars
  <2> SUFFICES ASSUME Waiting, Informed, Next, verdict' # verdict,
                      \A s \in Subjects : verdict'[s] \in Against \cup {verdict[s]}
               PROVE  Licences' \subseteq Licences
    BY DEF vars
  <2>1. ASSUME NEW v \in Verifiers, Verify(v) PROVE Weakened
    BY <2>1 DEF Verify, Informed, VerdictsRight, Weakened
  <2>2. ASSUME NEW s \in Supplied, NEW value \in Shown(geo, s), Supply(s, value) PROVE Weakened
    <3>1. value \notin Against
      BY <2>2 DEF Shown, Against
    <3>2. s \in Subjects /\ verdict'[s] = value /\ value # verdict[s]
      BY <2>2 DEF Supply, Supplied, Informed, VerdictsRight
    <3> QED BY <3>1, <3>2
  <2> QED BY <2>1, <2>2, WeakenedGrantsNothing DEF Next, StartVerify, Withdraw, StartAudit, Bar,
             Cross, NextPremise, Split, NextInference, EndAudit
<1> QED BY <1>1, <1>2, <1>3, StaysInformed, PTL DEF Spec, InconclusiveGrantsNothing
=============================================================================
