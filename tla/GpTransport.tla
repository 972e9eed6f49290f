---------------------------- MODULE GpTransport -----------------------------
(***************************************************************************)
(* What the v0.37 kernel lets a claim do (grandportage/kernel.py, and the  *)
(* field contexts of grandportage/field.py): the transport table, read off *)
(* the point relation an edge declares, the gates of the cells that are    *)
(* not decided by the edge's type, and the rule for case splits.           *)
(*                                                                         *)
(* An edge points from its tighter model to its looser one; a claim goes   *)
(* ALONG it or AGAINST it.  An edge and a claim come here with the         *)
(* attributes the checker found effective.                                 *)
(***************************************************************************)
EXTENDS Naturals, FiniteSets

Types ==
    {"EQUIVALENCE", "NECESSARY_CONDITION", "RESTRICTION", "BASE_EXTENSION",
     "IMAGE_CLOSURE", "SPECIALIZATION", "UNTYPED"}

Directions == {"ALONG", "AGAINST"}
Kinds      == {"EMPTY", "NONEMPTY", "PREDICATE", "IDENTITY"}
Fields     == {"Q", "R", "C"}

\* Every point of the source relates to one of the target, and the converse.
Total      == Types \ {"SPECIALIZATION", "UNTYPED"}
Surjective == {"EQUIVALENCE"}

\* An existence statement follows the relation, the others run against it.
PointRule(type, dir, kind) ==
    type \in IF (kind = "NONEMPTY") = (dir = "ALONG") THEN Total ELSE Surjective

\* The cells whose answer is the claim's or the edge's own authority.
Overridden(type, dir, kind) ==
    \/ type = "EQUIVALENCE" /\ kind = "PREDICATE"
    \/ type = "BASE_EXTENSION" /\ dir = "ALONG" /\ kind = "EMPTY"
    \/ type = "IMAGE_CLOSURE" /\ dir = "ALONG" /\ kind = "PREDICATE"
    \/ type = "IMAGE_CLOSURE" /\ dir = "AGAINST" /\ kind = "NONEMPTY"

PointGate(c, e, dir) ==
    \/ e.type = "EQUIVALENCE" /\ e.embedded
    \/ e.type = "BASE_EXTENSION" /\ c.scheme
    \/ /\ e.type = "IMAGE_CLOSURE" /\ dir = "ALONG"
       /\ \/ e.lifts /\ c.expressible
          \/ c.closed /\ e.closure
    \/ e.type = "IMAGE_CLOSURE" /\ dir = "AGAINST" /\ c.existential

\* A rewriting is a statement about functions, not about points.
IdentityRule(c, e, dir) ==
    \/ e.type = "EQUIVALENCE" /\ e.iso
    \/ e.type = "NECESSARY_CONDITION" /\ e.poly /\ (dir = "ALONG" => c.origin = "AMBIENT")
    \/ e.type = "RESTRICTION"
    \/ e.type = "BASE_EXTENSION" /\ (dir = "AGAINST" => c.inBase)
    \/ e.type = "IMAGE_CLOSURE" /\ e.poly /\ (dir = "ALONG" => e.contraction)
    \/ /\ e.type = "SPECIALIZATION" /\ dir = "ALONG"
       /\ e.poly /\ c.integral /\ c.origin = "AMBIENT"

Transport(c, e, dir) ==
    IF c.kind = "IDENTITY" THEN IdentityRule(c, e, dir)
    ELSE IF Overridden(e.type, dir, c.kind) THEN PointGate(c, e, dir)
    ELSE PointRule(e.type, dir, c.kind)

-----------------------------------------------------------------------------
(***************************************************************************)
(* Field contexts.  Models of format 8 name the field they are about and   *)
(* whether their points lie in it or in its algebraic closure; a certified *)
(* emptiness names the fields it reaches.                                  *)
(***************************************************************************)
Ordered == {"Q", "R"}

Extends(f, g) == <<f, g>> \in {<<"Q", "Q">>, <<"R", "R">>, <<"C", "C">>,
                               <<"Q", "R">>, <<"Q", "C">>, <<"R", "C">>}

\* The fields a certificate reaches.  (A certificate over a prime field
\* reaches none of these.)
Reached(reach) ==
    CASE reach = "ORDERED" -> Ordered
      [] reach = "CHAR_0"  -> Fields
      [] OTHER             -> {}

Instantiates(reach, m) ==
    m.about \in Reached(reach) /\ ~(reach = "ORDERED" /\ m.universe = "ALGEBRAIC_CLOSURE")

Compatible(from, to) ==
    /\ Extends(from.about, to.about)
    /\ from.universe = to.universe
    /\ from.embedding = to.embedding

\* The two models an edge leads between, in the direction of travel.
FieldGate(c, from, to) ==
    /\ from.typed /\ to.typed
    /\ IF c.kind = "EMPTY" THEN Instantiates(c.reach, to) ELSE Compatible(from, to)

\* Mutant: the scope an author wrote is not asked for where a field is named.
LicensedUnscoped(c, e, from, to, dir) ==
    Transport(IF c.kind = "EMPTY" THEN [c EXCEPT !.scheme = TRUE] ELSE c, e, dir)

\* The kernel's ruling, once the field gate has had its say.  A reach that
\* applies at the target stands in for the scope SCHEME.
Licensed(c, e, from, to, dir) ==
    IF ~from.typed /\ ~to.typed
    THEN Transport(c, e, dir)
    ELSE /\ FieldGate(c, from, to)
         /\ Transport(IF c.kind = "EMPTY" THEN [c EXCEPT !.scheme = TRUE] ELSE c, e, dir)

\* A case split carries a kind to the parent when every branch has a claim of
\* that kind and the cover is verified.
SplitKinds == {"EMPTY", "PREDICATE"}

SplitLicensed(kind, branchesCovered, exhaustive) ==
    kind \in SplitKinds /\ exhaustive /\ branchesCovered
=============================================================================
