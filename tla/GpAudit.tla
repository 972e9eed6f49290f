------------------------------ MODULE GpAudit -------------------------------
(***************************************************************************)
(* What `gp check` concludes (grandportage/check.py: audit_inference,      *)
(* check_transport, propagate_taint, clean_inferences), set against how    *)
(* things are.  A graph of models, edges, claims and inferences is fixed;  *)
(* verifiers record verdicts about it and its author withdraws inferences, *)
(* in any order.  An audit walks each inference, one premise after the     *)
(* other, one edge after the other.                                        *)
(*                                                                         *)
(* A geometry says which points each model has, over which fields it has   *)
(* points at all, which points an edge relates, where a predicate holds,   *)
(* and where a rewriting is valid.  Points stand for points up to the      *)
(* renaming of coordinates an edge performs.                               *)
(***************************************************************************)
EXTENDS GpTransport, Sequences

CONSTANTS
    Points, Statements,
    Model,          \* per model: typed, about, universe, embedding
    Edge,           \* per edge: what its author declared
    Claim,          \* per claim: what its author declared, and how far its certificate
                    \* reaches if it replays
    Inference,      \* per inference: premises, and the partition it goes by, if any
    Order,          \* the order inferences were declared in
    BuiltBy,        \* per model built by inferences: those
    Partition,      \* per partition: parent, branches and their edges
    Geometries,     \* the geometries considered
    Subjects,       \* what can be verified: <<kind, claim, edge or partition>>
    Verifiers, None,
    MaxRuns,        \* bound: how many verifications are started
    MaxFailed,      \* bound: how many obligations one of them leaves unsettled
    MaxGone         \* bound: how many inferences are withdrawn

Models == DOMAIN Model
Edges  == DOMAIN Edge

ASSUME BoundsAreNumbers == MaxRuns \in Nat /\ MaxFailed \in Nat /\ MaxGone \in Nat

\* A graph that folded: what is named is there.
ASSUME GraphFolds ==
    /\ \A e \in Edges : Edge[e].src \in Models /\ Edge[e].dst \in Models
    /\ \A c \in DOMAIN Claim : Claim[c].kind \in Kinds /\ Claim[c].says \in Statements
    /\ Order \in Seq(DOMAIN Inference)
    /\ \A i \in DOMAIN Inference : \E k \in DOMAIN Order : Order[k] = i
    /\ \A m \in DOMAIN BuiltBy : BuiltBy[m] \subseteq DOMAIN Inference
    /\ \A i \in DOMAIN Inference :
           Inference[i].premises \in Seq([claim : DOMAIN Claim \cup {"none"},
                                         path : Seq(Edges \X Directions)])

\* A branch is its parent and a condition, in the parent's coordinates.
ASSUME PartitionsFold ==
    /\ \A i \in DOMAIN Inference : Inference[i].via \in DOMAIN Partition \cup {"none"}
    /\ \A p \in DOMAIN Partition : \A e \in Partition[p].legs :
           /\ e \in Edges /\ Edge[e].dst = Partition[p].parent
           /\ Edge[e].type = "EQUIVALENCE" => Edge[e].embedded

VARIABLES
    geo,        \* how things are; nothing changes it
    verdict,    \* per subject, the verdict in force
    asked,      \* per verifier, the subjects it is working on
    runs,       \* how many verifications have been started
    gone,       \* the inferences withdrawn
    audit       \* where the audit is, and what it has refused

vars == <<geo, verdict, asked, runs, gone, audit>>

-----------------------------------------------------------------------------
(***************************************************************************)
(* Geometries                                                              *)
(***************************************************************************)
\* The field the points of a model lie in.
PointField(m) ==
    CASE Model[m].universe = "ALGEBRAIC_CLOSURE" -> "C"
      [] Model[m].universe = "REAL_CLOSURE"      -> "R"
      [] OTHER                                   -> Model[m].about

Geometry(g) ==
    /\ g.pts \in [Models -> SUBSET Points]
    /\ g.over \in [Models -> SUBSET Fields]
    /\ g.rel \in [Edges -> SUBSET (Points \X Points)]
    /\ g.holds \in [Statements -> [Models -> SUBSET Points]]
    /\ g.valid \in [Statements -> [Models -> BOOLEAN]]
    /\ g.ambient \in [Statements -> BOOLEAN]
    /\ g.stated \in [Edges -> BOOLEAN]

\* A model has points when it has points over the field they lie in, and keeps
\* them over larger fields.
PointsAndFields(g) ==
    \A m \in Models :
        /\ g.pts[m] # {} <=> PointField(m) \in g.over[m]
        /\ \A f, h \in Fields : f \in g.over[m] /\ Extends(f, h) => h \in g.over[m]

\* What each type of edge says of the points (kernel.TYPE_MEANS).
PointsRelated(g, e) ==
    LET s == Edge[e].src
        d == Edge[e].dst
    IN  /\ g.rel[e] \subseteq g.pts[s] \X g.pts[d]
        /\ Edge[e].type \in Total =>
               /\ \A p \in g.pts[s] : \E q \in g.pts[d] : <<p, q>> \in g.rel[e]
               /\ g.over[s] \subseteq g.over[d]
        /\ Edge[e].type \in Surjective =>
               \A q \in g.pts[d] : \E p \in g.pts[s] : <<p, q>> \in g.rel[e]
        /\ Edge[e].type \in {"EQUIVALENCE", "BASE_EXTENSION", "IMAGE_CLOSURE"} =>
               g.over[s] = g.over[d]
        /\ Edge[e].type \in Total \ {"BASE_EXTENSION"} => PointField(s) = PointField(d)
        /\ Edge[e].type = "BASE_EXTENSION" => Extends(PointField(s), PointField(d))

\* Related points agree on a statement, but for the predicates an equivalence
\* carries to another selected embedding; `moved` are the statements that move
\* with their points.
Agrees(g, e, moved) ==
    \A x \in Statements :
        Edge[e].type # "EQUIVALENCE" \/ Edge[e].embedded \/ x \in moved =>
            \A pq \in g.rel[e] :
                pq[1] \in g.holds[x][Edge[e].src] <=> pq[2] \in g.holds[x][Edge[e].dst]

\* What each type says of the rewritings, along its map.
RewritingsRelated(g, e, x) ==
    LET s == g.valid[x][Edge[e].src]
        d == g.valid[x][Edge[e].dst]
        t == Edge[e].type
        polynomial == Edge[e].map # "RATIONAL"
    IN  /\ t = "RESTRICTION" => s = d
        /\ t \in {"NECESSARY_CONDITION", "IMAGE_CLOSURE"} /\ polynomial => (d => s)
        /\ t = "NECESSARY_CONDITION" /\ polynomial /\ g.ambient[x] => (s => d)
        /\ t = "BASE_EXTENSION" => (s => d)

Bearers(kind) == {Claim[c].says : c \in {b \in DOMAIN Claim : Claim[b].kind = kind}}

\* An elimination nobody constructed is the closure its author says it is.
Closed(g, e, x) ==
    g.pts[Edge[e].src] \subseteq g.holds[x][Edge[e].src] =>
        g.pts[Edge[e].dst] \subseteq g.holds[x][Edge[e].dst]

Contracted(g, e, x) == g.valid[x][Edge[e].src] => g.valid[x][Edge[e].dst]

ClosedStatements ==
    {Claim[c].says : c \in {b \in DOMAIN Claim : Claim[b].kind = "PREDICATE" /\ Claim[b].closed}}

\* What an author's word is taken for.
Declared(g) ==
    /\ \A e \in Edges : Edge[e].type = "IMAGE_CLOSURE" /\ ~Edge[e].built =>
           /\ \A x \in Statements : Contracted(g, e, x)
           /\ \A x \in ClosedStatements : Closed(g, e, x)
    /\ \A e \in Edges, c \in DOMAIN Claim :
           LET x == Claim[c].says
           IN  /\ Edge[e].type = "BASE_EXTENSION" /\ Claim[c].inBase /\ g.valid[x][Edge[e].dst]
                      => g.valid[x][Edge[e].src]
               /\ Edge[e].type = "SPECIALIZATION" /\ Claim[c].integral /\ g.ambient[x]
                      /\ g.valid[x][Edge[e].src] => g.valid[x][Edge[e].dst]

WellMeant(g) ==
    /\ Geometry(g)
    /\ PointsAndFields(g)
    /\ \A e \in Edges :
        /\ PointsRelated(g, e)
        /\ Agrees(g, e, Bearers("NONEMPTY"))
        /\ \A x \in Statements : RewritingsRelated(g, e, x)
    /\ Declared(g)
    /\ \A c \in DOMAIN Claim : g.ambient[Claim[c].says] => g.valid[Claim[c].says][Claim[c].at]

ASSUME GeometriesWellMeant == \A g \in Geometries : WellMeant(g)

\* The fields for which a claim asserts emptiness, beside its model's points.
Asserted(c) == IF Claim[c].scheme THEN Fields ELSE {}

TrueAt(g, c, m) ==
    \/ /\ Claim[c].kind = "EMPTY"
       /\ g.pts[m] = {} /\ g.over[m] \cap Asserted(c) = {}
    \/ /\ Claim[c].kind = "NONEMPTY"
       /\ g.pts[m] # {}
       /\ ~Claim[c].existential => g.pts[m] \cap g.holds[Claim[c].says][m] # {}
    \/ Claim[c].kind = "PREDICATE" /\ g.pts[m] \subseteq g.holds[Claim[c].says][m]
    \/ Claim[c].kind = "IDENTITY" /\ g.valid[Claim[c].says][m]

-----------------------------------------------------------------------------
(***************************************************************************)
(* Verdicts, and the authority they give                                   *)
(***************************************************************************)
Lifted(g, e) ==
    \A q \in g.pts[Edge[e].dst] : \E p \in g.pts[Edge[e].src] : <<p, q>> \in g.rel[e]

Covered(g, p) ==
    \A q \in g.pts[Partition[p].parent] : \E e \in Partition[p].legs :
        \E b \in g.pts[Edge[e].src] : <<b, q>> \in g.rel[e]

(***************************************************************************)
(* What each verifier finds out when it gets an answer; the algebra it     *)
(* does is abstracted to what its answer says of the geometry.             *)
(***************************************************************************)
IdentityAnswer(g, c) ==
    IF ~TrueAt(g, c, Claim[c].at) THEN "REFUTED"
    ELSE IF g.ambient[Claim[c].says] THEN "VERIFIED_AMBIENT" ELSE "VERIFIED_DERIVED"

ConditionAnswer(g, c) == IF TrueAt(g, c, Claim[c].at) THEN "VERIFIED" ELSE "REFUTED"

\* A sum of squares leaves points over no ordered field, a unit ideal over none.
CertificateAnswer(g, c) ==
    IF g.over[Claim[c].at] \cap (IF Claim[c].reach = "ORDERED" THEN Ordered ELSE Fields) = {}
    THEN "VERIFIED" ELSE "NOT_UNIT"

RingIsoAnswer(g, e) ==
    IF \A x \in Statements : g.valid[x][Edge[e].src] = g.valid[x][Edge[e].dst]
    THEN "VERIFIED" ELSE "NOT_AN_ISOMORPHISM"

OutputAnswer(g, e) == IF g.stated[e] THEN "VERIFIED" ELSE "NOT_THE_STATED_OUTPUT"

ExhaustiveAnswer(g, p) ==
    IF Covered(g, p) THEN "VERIFIED" ELSE "NOT_GEOMETRICALLY_EXHAUSTIVE"

Answer(g, subject) ==
    CASE subject[1] = "identity"    -> IdentityAnswer(g, subject[2])
      [] subject[1] = "condition"   -> ConditionAnswer(g, subject[2])
      [] subject[1] = "certificate" -> CertificateAnswer(g, subject[2])
      [] subject[1] = "ring_iso"    -> RingIsoAnswer(g, subject[2])
      [] subject[1] = "output"      -> OutputAnswer(g, subject[2])
      [] subject[1] = "exhaustive"  -> ExhaustiveAnswer(g, subject[2])

\* What a supplied proof can show of an elimination: a section lifts points and
\* contracts ideals, a Groebner certificate contracts, a cover lifts.
GroebnerHolds(g, e) == \A x \in Statements : Contracted(g, e, x)
SectionHolds(g, e)  == GroebnerHolds(g, e) /\ Lifted(g, e)

Shown(g, subject) ==
    IF subject[1] = "lift"
    THEN {v \in {"VERIFIED_POINT_LIFT"} : Lifted(g, subject[2])}
    ELSE {v \in {"VERIFIED_SECTION"} : SectionHolds(g, subject[2])}
            \cup {v \in {"VERIFIED_GROEBNER"} : GroebnerHolds(g, subject[2])}

Verdict(what, id) ==
    IF <<what, id>> \in Subjects THEN verdict[<<what, id>>] ELSE "none"

\* A verdict beats the declaration.
EffectiveOrigin(c) ==
    CASE Verdict("identity", c) = "VERIFIED_AMBIENT" -> "AMBIENT"
      [] Verdict("identity", c) = "VERIFIED_DERIVED" -> "DERIVED"
      [] OTHER                                       -> Claim[c].origin

HasCertificate(c) ==
    /\ Claim[c].certified
    /\ Verdict("certificate", c) # "NOT_UNIT"
    /\ Claim[c].localized => Verdict("certificate", c) = "VERIFIED"

\* The fields an emptiness reaches are what the verifier earned it by replaying
\* its certificate.
EffectiveReach(c) ==
    IF Verdict("certificate", c) = "VERIFIED" THEN Claim[c].reach ELSE "NONE"

EffectiveIso(e) ==
    Edge[e].ringIso /\ Edge[e].mapped /\ Verdict("ring_iso", e) = "VERIFIED"

\* The construction invented nothing.
Constructed(e) == Verdict("output", e) = "VERIFIED"

EffectiveLift(e) ==
    /\ Edge[e].built /\ Constructed(e)
    /\ Verdict("contraction", e) = "VERIFIED_SECTION" \/ Verdict("lift", e) = "VERIFIED_POINT_LIFT"

EffectiveContraction(e) ==
    Edge[e].built =>
        /\ Constructed(e)
        /\ Verdict("contraction", e) \in {"VERIFIED_SECTION", "VERIFIED_GROEBNER"}

EffectiveClosure(e) == Edge[e].built => EffectiveLift(e)

-----------------------------------------------------------------------------
(***************************************************************************)
(* The walk of an inference                                                *)
(***************************************************************************)
From(e, dir) == IF dir = "ALONG" THEN Edge[e].src ELSE Edge[e].dst
To(e, dir)   == IF dir = "ALONG" THEN Edge[e].dst ELSE Edge[e].src

EffectiveEdge(e) ==
    [type |-> Edge[e].type, poly |-> Edge[e].map # "RATIONAL", embedded |-> Edge[e].embedded,
     iso |-> EffectiveIso(e), contraction |-> EffectiveContraction(e),
     closure |-> EffectiveClosure(e), lifts |-> EffectiveLift(e)]

\* A structured condition is expressible at the target of a constructed
\* elimination that kept the variables it mentions.
Expressible(c, e, dir, typed) ==
    /\ typed /\ dir = "ALONG"
    /\ Edge[e].type = "IMAGE_CLOSURE" /\ Edge[e].built
    /\ Claim[c].retained

\* `typed` says that the claim's condition is still known in the coordinates
\* the walk has reached.
EffectiveClaim(c, e, dir, typed) ==
    [kind |-> Claim[c].kind, scheme |-> Claim[c].scheme, reach |-> EffectiveReach(c),
     origin |-> EffectiveOrigin(c), integral |-> Claim[c].integral,
     inBase |-> Claim[c].inBase, existential |-> Claim[c].existential,
     expressible |-> Expressible(c, e, dir, typed),
     closed |-> Claim[c].closed /\ (Claim[c].structured => Expressible(c, e, dir, typed))]

Crosses(c, e, dir, typed) ==
    Licensed(EffectiveClaim(c, e, dir, typed), EffectiveEdge(e),
             Model[From(e, dir)], Model[To(e, dir)], dir)

\* Whether the condition can be rewritten into the coordinates beyond.
Rewritten(c, e, dir, typed) ==
    /\ typed
    /\ \/ Edge[e].type = "EQUIVALENCE" /\ (EffectiveIso(e) \/ (~Edge[e].mapped /\ Edge[e].map = "IDENTITY"))
       \/ /\ Edge[e].type # "EQUIVALENCE" /\ dir = "AGAINST"
          /\ \/ Edge[e].map = "IDENTITY"
             \/ Edge[e].type = "IMAGE_CLOSURE" /\ Edge[e].built /\ Constructed(e)
       \/ Expressible(c, e, dir, typed)

Open(premise) == premise.claim = "none"

\* Where a premise's path ends.
Reaches(premise) ==
    IF premise.path = <<>> THEN Claim[premise.claim].at
    ELSE LET last == premise.path[Len(premise.path)] IN To(last[1], last[2])

Connected(premise) ==
    \A k \in DOMAIN premise.path :
        From(premise.path[k][1], premise.path[k][2]) =
            IF k = 1 THEN Claim[premise.claim].at
            ELSE To(premise.path[k - 1][1], premise.path[k - 1][2])

\* What validate() demands of an inference that was folded.
PremisesMeet(i) ==
    LET stated == {n \in DOMAIN Inference[i].premises : ~Open(Inference[i].premises[n])}
    IN  /\ \A n \in stated : Connected(Inference[i].premises[n])
        /\ Inference[i].via = "none" =>
               \A n \in stated : Reaches(Inference[i].premises[n]) = Inference[i].at
        /\ Inference[i].via # "none" => Inference[i].at = Partition[Inference[i].via].parent
        /\ \E n \in stated : Claim[Inference[i].premises[n].claim].kind = Inference[i].kind

ASSUME InferencesFold == \A i \in DOMAIN Inference : PremisesMeet(i)

\* A branch that is empty without a certificate in force is not covered.
BranchCovered(i, e) ==
    \E n \in DOMAIN Inference[i].premises :
        LET c == Inference[i].premises[n].claim IN
        /\ ~Open(Inference[i].premises[n])
        /\ Claim[c].at = Edge[e].src
        /\ Claim[c].kind = Inference[i].kind
        /\ Claim[c].kind = "EMPTY" => HasCertificate(c)

SplitHolds(i) ==
    LET p == Inference[i].via IN
    SplitLicensed(Inference[i].kind,
        \A e \in Partition[p].legs : BranchCovered(i, e),
        /\ \E n \in DOMAIN Inference[i].premises :
               Inference[i].premises[n].claim = Partition[p].exhaustive
        /\ Verdict("exhaustive", p) = "VERIFIED")

-----------------------------------------------------------------------------
NoAudit == [pc |-> "idle"]

Init ==
    /\ geo \in Geometries
    /\ verdict = [s \in Subjects |-> "none"]
    /\ asked = [v \in Verifiers |-> None]
    /\ runs = 0
    /\ gone = {}
    /\ audit = NoAudit

\* `gp verify` asks what no verdict has settled.  A proof somebody supplies of
\* a contraction or a lift is checked by a command of its own.
Supplied == {s \in Subjects : s[1] \in {"contraction", "lift"}}

Unsettled(s) == verdict[s] \in {"none", "UNVERIFIED"}

\* Mutant: what has a verdict is asked again.
OutstandingAlways == Subjects \ Supplied

Outstanding == {s \in Subjects \ Supplied : Unsettled(s)}

\* It reads the graph,
StartVerify(v) ==
    /\ audit = NoAudit /\ asked[v] = None /\ runs < MaxRuns
    /\ asked' = [asked EXCEPT ![v] = Outstanding]
    /\ runs' = runs + 1
    /\ UNCHANGED <<geo, verdict, gone, audit>>

\* and when every obligation has been put to its verifier, appends the answers
\* to the log, whose last verdict on a subject is the one in force.
Verify(v) ==
    /\ audit = NoAudit /\ asked[v] # None
    /\ \E failed \in {F \in SUBSET asked[v] : Cardinality(F) <= MaxFailed} :
        verdict' = [s \in Subjects |-> IF s \in failed THEN "UNVERIFIED"
                                      ELSE IF s \in asked[v] THEN Answer(geo, s) ELSE verdict[s]]
    /\ asked' = [asked EXCEPT ![v] = None]
    /\ UNCHANGED <<geo, runs, gone, audit>>

\* A supplied proof that is refused leaves what is in force alone.
Supply(s, value) ==
    /\ audit = NoAudit /\ runs < MaxRuns
    /\ value # verdict[s]
    /\ verdict' = [verdict EXCEPT ![s] = value]
    /\ runs' = runs + 1
    /\ UNCHANGED <<geo, asked, gone, audit>>

\* An inference is retracted.
Withdraw(i) ==
    /\ audit = NoAudit /\ i \notin gone /\ Cardinality(gone) < MaxGone
    /\ gone' = gone \cup {i}
    /\ UNCHANGED <<geo, verdict, asked, runs, audit>>

At(n, m, k, ok, refused) ==
    [pc |-> "walk", inf |-> n, prem |-> m, step |-> k, ok |-> ok, typed |-> TRUE,
     refused |-> refused]

\* (The report is a function of the graph it reads, so that it is enough to
\* look at graphs that no verifier is working on.)
StartAudit ==
    /\ audit = NoAudit /\ \A v \in Verifiers : asked[v] = None
    /\ audit' = At(1, 1, 0, TRUE, {})
    /\ UNCHANGED <<geo, verdict, asked, runs, gone>>

Walking == audit.pc = "walk" /\ audit.inf <= Len(Order)
Current == Order[audit.inf]
Premise == Inference[Current].premises[audit.prem]
Walked  == Walking /\ audit.prem > Len(Inference[Current].premises)

\* The walk over a live inference that goes by edges.
ByEdges == Walking /\ ~Walked /\ Current \notin gone /\ Inference[Current].via = "none"

\* An open slot; or a localized certificate nobody has replayed, which carries
\* its claim nowhere.
Barred ==
    \/ Open(Premise)
    \/ /\ ~Open(Premise) /\ Premise.path # <<>>
       /\ Claim[Premise.claim].localized /\ ~HasCertificate(Premise.claim)

Bar ==
    /\ ByEdges /\ Barred
    /\ audit' = At(audit.inf, audit.prem + 1, 0, FALSE, audit.refused)
    /\ UNCHANGED <<geo, verdict, asked, runs, gone>>

Cross ==
    /\ ByEdges /\ ~Barred
    /\ audit.step < Len(Premise.path)
    /\ LET e   == Premise.path[audit.step + 1][1]
           dir == Premise.path[audit.step + 1][2]
           lic == Crosses(Premise.claim, e, dir, audit.typed)
       IN  audit' = [audit EXCEPT !.step = @ + 1, !.ok = @ /\ lic,
                         !.typed = lic /\ Rewritten(Premise.claim, e, dir, audit.typed)]
    /\ UNCHANGED <<geo, verdict, asked, runs, gone>>

NextPremise ==
    /\ ByEdges /\ ~Barred
    /\ audit.step = Len(Premise.path)
    /\ audit' = At(audit.inf, audit.prem + 1, 0, audit.ok, audit.refused)
    /\ UNCHANGED <<geo, verdict, asked, runs, gone>>

\* A case split is ruled on at once.
Split ==
    /\ Walking /\ ~Walked /\ Current \notin gone /\ Inference[Current].via # "none"
    /\ audit' = At(audit.inf, Len(Inference[Current].premises) + 1, 0, SplitHolds(Current),
                   audit.refused)
    /\ UNCHANGED <<geo, verdict, asked, runs, gone>>

\* Mutant: a refusal is filed under the claim that was refused.
NextInferenceByClaim ==
    /\ Walked \/ (Walking /\ Current \in gone)
    /\ audit' = At(audit.inf + 1, 1, 0, TRUE,
                   IF audit.ok THEN audit.refused
                   ELSE audit.refused \cup {Inference[Current].premises[1].claim})
    /\ UNCHANGED <<geo, verdict, asked, runs, gone>>

\* A refused inference is reported; a withdrawn one is passed over.
NextInference ==
    /\ Walked \/ (Walking /\ Current \in gone)
    /\ audit' = At(audit.inf + 1, 1, 0, TRUE,
                   IF audit.ok THEN audit.refused ELSE audit.refused \cup {Current})
    /\ UNCHANGED <<geo, verdict, asked, runs, gone>>

Reported == audit.pc = "walk" /\ audit.inf > Len(Order)

EndAudit ==
    /\ Reported
    /\ audit' = NoAudit
    /\ UNCHANGED <<geo, verdict, asked, runs, gone>>

Next ==
    \/ \E v \in Verifiers : StartVerify(v) \/ Verify(v)
    \/ \E s \in Supplied : \E value \in Shown(geo, s) : Supply(s, value)
    \/ \E i \in DOMAIN Inference : Withdraw(i)
    \/ StartAudit \/ Bar \/ Cross \/ NextPremise \/ Split \/ NextInference \/ EndAudit

Spec == Init /\ [][Next]_vars

-----------------------------------------------------------------------------
(***************************************************************************)
(* The report                                                              *)
(***************************************************************************)
FirstPremise(i) == Inference[i].premises[1]

\* The models a set closed under inheritance makes of the refused inferences.
TaintClosed(S, refused) ==
    \A m \in DOMAIN BuiltBy : \A i \in BuiltBy[m] :
        i \in refused \/ Claim[FirstPremise(i).claim].at \in S => m \in S

\* Mutant: a model is tainted by its own builders alone.
TaintedOnce(refused) == {m \in DOMAIN BuiltBy : BuiltBy[m] \cap refused # {}}

Tainted(refused) ==
    {m \in DOMAIN BuiltBy :
        \A S \in SUBSET DOMAIN BuiltBy : TaintClosed(S, refused) => m \in S}

\* What a verdict, or the want of one, has said against a claim or an edge.
FlaggedClaim(c) ==
    \/ Verdict("certificate", c) = "NOT_UNIT"
    \/ Verdict("certificate", c) = "UNVERIFIED" /\ ~Claim[c].localized
    \/ /\ Claim[c].kind = "IDENTITY"
       /\ \/ Verdict("identity", c) \notin {"VERIFIED_AMBIENT", "VERIFIED_DERIVED"}
          \/ Claim[c].origin = "AMBIENT" /\ Verdict("identity", c) = "VERIFIED_DERIVED"
    \/ Claim[c].structured /\ Verdict("condition", c) # "VERIFIED"

FlaggedEdge(e) ==
    \/ "UNVERIFIED" \in {Verdict("ring_iso", e), Verdict("output", e)}
    \/ Edge[e].ringIso /\ Verdict("ring_iso", e) = "NOT_AN_ISOMORPHISM"
    \/ Verdict("output", e) = "NOT_THE_STATED_OUTPUT"

\* The inferences `gp check` prints as sound.
Clean(i) ==
    /\ i \notin gone \cup audit.refused
    /\ \A n \in DOMAIN Inference[i].premises :
        LET premise == Inference[i].premises[n] IN
        /\ ~Open(premise) => ~FlaggedClaim(premise.claim)
        /\ \A k \in DOMAIN premise.path : ~FlaggedEdge(premise.path[k][1])

-----------------------------------------------------------------------------
(***************************************************************************)
(* What is promised                                                        *)
(***************************************************************************)
TypeOK ==
    /\ Geometry(geo)
    /\ DOMAIN verdict = Subjects
    /\ \A v \in Verifiers : asked[v] = None \/ asked[v] \subseteq Subjects
    /\ runs \in 0..MaxRuns
    /\ gone \subseteq DOMAIN Inference
    /\ audit \in {NoAudit} \cup
        [pc : {"walk"}, inf : 1..Len(Order) + 1, prem : Nat \ {0}, step : Nat,
         ok : BOOLEAN, typed : BOOLEAN, refused : SUBSET DOMAIN Inference]

\* What the transport table takes on the author's word: an identity nobody has
\* reduced is of the origin declared.
Credible(g, c) ==
    Claim[c].kind = "IDENTITY" /\ EffectiveOrigin(c) = "AMBIENT" => g.ambient[Claim[c].says]

\* Where the walk stands.
Standing ==
    IF audit.step = 0 THEN Claim[Premise.claim].at
    ELSE To(Premise.path[audit.step][1], Premise.path[audit.step][2])

\* The transport table and its gates are sound: at every step of a walk that
\* nothing has refused, a claim that is true where it was made is true where
\* the walk has brought it, whatever the geometry and whatever verdicts are in
\* force.
WalkIsTrue ==
    ByEdges /\ ~Barred /\ audit.ok =>
        (TrueAt(geo, Premise.claim, Claim[Premise.claim].at) /\ Credible(geo, Premise.claim)
            => TrueAt(geo, Premise.claim, Standing))

Stated(i) == {Inference[i].premises[n].claim : n \in DOMAIN Inference[i].premises} \ {"none"}

\* What an inference says of the branches of its partition.
OfBranches(i) ==
    {c \in Stated(i) : /\ Claim[c].kind = Inference[i].kind
                       /\ \E e \in Partition[Inference[i].via].legs : Claim[c].at = Edge[e].src}

\* What an inference concludes, and what it takes for granted.  Cases that say
\* different things of their branches conclude that one of them is so.
Concluded(i) ==
    CASE Inference[i].via = "none" -> \A c \in Stated(i) : TrueAt(geo, c, Inference[i].at)
      [] Inference[i].via # "none" /\ Inference[i].kind = "EMPTY" -> geo.pts[Inference[i].at] = {}
      [] OTHER -> \A q \in geo.pts[Inference[i].at] :
                      \E c \in OfBranches(i) : q \in geo.holds[Claim[c].says][Inference[i].at]

Builders == UNION {BuiltBy[m] : m \in DOMAIN BuiltBy}

Granted(i) ==
    \A j \in {i} \cup Builders : \A c \in Stated(j) :
        Credible(geo, c) /\ (Claim[c].at \notin DOMAIN BuiltBy => TrueAt(geo, c, Claim[c].at))

\* A claim at a model that inferences built holds if they were right to.
Founded ==
    \A c \in DOMAIN Claim : Claim[c].at \in DOMAIN BuiltBy =>
        ((\A i \in BuiltBy[Claim[c].at] : Concluded(i)) => TrueAt(geo, c, Claim[c].at))

\* The builders of a model reason from models of a set; those among them that
\* draw on a tainted model draw on one by their first premise, too.
Based(m, S, refused) ==
    \A i \in BuiltBy[m] : \A c \in Stated(i) : Claim[c].at \in DOMAIN BuiltBy =>
        /\ Claim[c].at \in S
        /\ Claim[c].at \in Tainted(refused) => Claim[FirstPremise(i).claim].at \in Tainted(refused)

\* The built models that rest, at some remove, on models nobody built: none
\* that was built by reasoning from itself.
Rooted(refused) ==
    {m \in DOMAIN BuiltBy :
        \A S \in SUBSET DOMAIN BuiltBy :
            (\A n \in DOMAIN BuiltBy : Based(n, S, refused) => n \in S) => m \in S}

\* What the report calls clean is so, if the built models it reasons from are
\* rooted and the report taints none of them: the report need not be asked
\* about the models behind those.  (None of the inferences that built a model
\* has been retracted.)
CleanIsTrue ==
    Reported /\ gone \cap Builders = {} /\ Founded =>
        \A i \in DOMAIN Inference :
            /\ Clean(i) /\ Granted(i)
            /\ \A c \in Stated(i) : Claim[c].at \in DOMAIN BuiltBy =>
                   Claim[c].at \in Rooted(audit.refused) \ Tainted(audit.refused)
            => Concluded(i)

\* What crosses, and what the splits carry.
Licences ==
    {l \in (DOMAIN Claim) \X Edges \X Directions : Crosses(l[1], l[2], l[3], TRUE)}
        \cup {<<i, "split", "COVERS">> : i \in {j \in DOMAIN Inference :
                                                   Inference[j].via # "none" /\ SplitHolds(j)}}

\* An attempt that settles nothing grants no authority: when all that a step
\* adds to the verdicts is UNVERIFIED, or the answer that something is not so,
\* nothing is licensed that was not.
Against == {"UNVERIFIED", "REFUTED", "NOT_UNIT", "NOT_AN_ISOMORPHISM", "NOT_THE_STATED_OUTPUT",
            "NOT_GEOMETRICALLY_EXHAUSTIVE"}

InconclusiveGrantsNothing ==
    [][verdict' # verdict /\ (\A s \in Subjects : verdict'[s] \in Against \cup {verdict[s]})
           => Licences' \subseteq Licences]_vars
=============================================================================
