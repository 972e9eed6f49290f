----------------------------- MODULE MCGpAudit ------------------------------
(***************************************************************************)
(* A graph for GpAudit with an edge of each kind a walk meets: a parent T, *)
(* two branches L and U, a change of coordinates Q of L, an elimination C  *)
(* of L, an extension K of T to the complex numbers, and models B and B2   *)
(* that inferences built.                                                  *)
(***************************************************************************)
EXTENDS GpAudit, TLC

TheStatements == {"p", "d", "b", "x"}

Over(field) == [typed |-> TRUE, about |-> field, universe |-> "BASE", embedding |-> "-"]

TheModel == [m \in {"T", "L", "U", "C", "Q", "B", "B2"} |-> Over("Q")] @@ [m \in {"K"} |-> Over("C")]

Leads(src, dst, type) ==
    [src |-> src, dst |-> dst, type |-> type, map |-> "POLYNOMIAL", embedded |-> TRUE,
     built |-> FALSE, ringIso |-> FALSE, mapped |-> FALSE]

TheEdge ==
    [lt |-> Leads("L", "T", "NECESSARY_CONDITION"),
     ut |-> Leads("U", "T", "RESTRICTION"),
     lc |-> [Leads("L", "C", "IMAGE_CLOSURE") EXCEPT !.built = TRUE],
     lq |-> [Leads("L", "Q", "EQUIVALENCE") EXCEPT !.ringIso = TRUE, !.mapped = TRUE],
     tk |-> [Leads("T", "K", "BASE_EXTENSION") EXCEPT !.map = "IDENTITY"]]

Says(kind, at, statement) ==
    [kind |-> kind, at |-> at, says |-> statement, scheme |-> FALSE, reach |-> "NONE",
     certified |-> FALSE, localized |-> FALSE, origin |-> "UNKNOWN", integral |-> FALSE,
     inBase |-> FALSE, existential |-> FALSE, closed |-> FALSE, structured |-> FALSE,
     retained |-> FALSE]

Empty(at, reach) ==
    [Says("EMPTY", at, "p") EXCEPT !.certified = TRUE, !.scheme = (reach = "CHAR_0"),
                                   !.reach = reach]

TheClaim ==
    [e0 |-> Empty("T", "CHAR_0"), e1 |-> Empty("T", "ORDERED"),
     el |-> Empty("L", "CHAR_0"), eu |-> [Empty("U", "CHAR_0") EXCEPT !.localized = TRUE],
     n1 |-> [Says("NONEMPTY", "C", "p") EXCEPT !.existential = TRUE],
     p1 |-> [Says("PREDICATE", "L", "p") EXCEPT !.closed = TRUE, !.structured = TRUE,
                                                !.retained = TRUE],
     pu |-> Says("PREDICATE", "U", "p"),
     d1 |-> [Says("IDENTITY", "L", "d") EXCEPT !.origin = "AMBIENT"],
     x1 |-> Says("PREDICATE", "T", "x"),
     b1 |-> Says("PREDICATE", "B", "b"), b2 |-> Says("PREDICATE", "B2", "b")]

From1(claim, path) == [claim |-> claim, path |-> path]

Walks(kind, at, premises) == [kind |-> kind, at |-> at, via |-> "none", premises |-> premises]
Splits(kind, premises) == [kind |-> kind, at |-> "T", via |-> "cases", premises |-> premises]

TheInference ==
    [i1 |-> Walks("EMPTY", "K", <<From1("e0", <<<<"tk", "ALONG">>>>)>>),
     i2 |-> Walks("EMPTY", "K", <<From1("e1", <<<<"tk", "ALONG">>>>)>>),
     i3 |-> Splits("EMPTY", <<From1("el", <<>>), From1("eu", <<>>), From1("x1", <<>>)>>),
     i4 |-> Walks("PREDICATE", "C", <<From1("p1", <<<<"lc", "ALONG">>>>)>>),
     i5 |-> Walks("NONEMPTY", "T", <<From1("n1", <<<<"lc", "AGAINST">>, <<"lt", "ALONG">>>>),
                                     From1("none", <<>>)>>),
     i6 |-> Walks("NONEMPTY", "T", <<From1("n1", <<<<"lc", "AGAINST">>, <<"lt", "ALONG">>>>)>>),
     i7 |-> Walks("IDENTITY", "T", <<From1("d1", <<<<"lt", "ALONG">>>>)>>),
     i8 |-> Walks("PREDICATE", "B", <<From1("b1", <<>>)>>),
     i9 |-> Walks("PREDICATE", "B2", <<From1("b2", <<>>)>>),
     i10 |-> Walks("IDENTITY", "Q", <<From1("d1", <<<<"lq", "ALONG">>>>)>>),
     i11 |-> Walks("EMPTY", "Q", <<From1("e1", <<<<"lt", "AGAINST">>, <<"lq", "ALONG">>>>)>>),
     i12 |-> Splits("PREDICATE", <<From1("p1", <<>>), From1("pu", <<>>), From1("x1", <<>>)>>)]

TheOrder == <<"i1", "i2", "i3", "i4", "i5", "i6", "i7", "i8", "i9", "i10", "i11", "i12">>

TheBuiltBy == [B |-> {"i7"}, B2 |-> {"i8"}]

ThePartition ==
    [cases |-> [parent |-> "T", legs |-> {"lt", "ut"}, exhaustive |-> "x1"]]

TheSubjects ==
    {<<"certificate", "e0">>, <<"certificate", "e1">>, <<"certificate", "el">>,
     <<"certificate", "eu">>, <<"identity", "d1">>, <<"condition", "p1">>,
     <<"ring_iso", "lq">>, <<"output", "lc">>,
     <<"contraction", "lc">>, <<"lift", "lc">>, <<"exhaustive", "cases">>}

(***************************************************************************)
(* Geometries.  All models lie in one another's coordinates, so that edges *)
(* relate a point to itself.  `f` are the fields over which a model without *)
(* points has points nevertheless.                                         *)
(***************************************************************************)
MCGeometry(t, l, u, c, f, p, b, ambient, dt, dc, dq) ==
    LET pts == [T |-> t, L |-> l, U |-> u, C |-> c, Q |-> l, B |-> {1}, B2 |-> {1},
                K |-> IF t = {} /\ "C" \in f THEN {1} ELSE t]
    IN  [pts |-> pts,
         over |-> [m \in DOMAIN TheModel |->
                      IF pts[m] = {} \/ (m = "K" /\ t = {}) THEN f ELSE Fields],
         rel |-> [e \in DOMAIN TheEdge |-> {<<x, x>> : x \in pts[TheEdge[e].src]}],
         holds |-> [s \in TheStatements |-> [m \in DOMAIN TheModel |->
                       CASE s = "b" -> IF b THEN {1} ELSE {}
                         [] s = "x" -> {1, 2}
                         [] OTHER   -> p]],
         valid |-> [s \in TheStatements |-> [m \in DOMAIN TheModel |->
                       s = "d" /\ CASE m \in {"T", "U", "K"} -> dt
                                    [] m = "C"               -> dc
                                    [] m = "Q"               -> dq
                                    [] OTHER                 -> TRUE]],
         ambient |-> [s \in TheStatements |-> s = "d" /\ ambient],
         stated |-> [e \in DOMAIN TheEdge |-> TRUE]]

\* Emptiness and existence; closed predicates; identities.
TheGeometries ==
    {g \in {MCGeometry({}, {}, {}, {}, f, {1}, TRUE, TRUE, TRUE, TRUE, TRUE) :
                f \in {{}, {"C"}, {"R", "C"}}}
           \cup {MCGeometry({1, 2}, l, u, c, {}, p, TRUE, TRUE, TRUE, TRUE, TRUE) :
                l \in {{}, {1}}, u \in {{}, {2}}, c \in {{}, {1}, {1, 2}}, p \in {{1}, {1, 2}}}
           \cup {MCGeometry({1, 2}, {1}, {2}, {1}, {}, {1}, b, a, dt, dc, dq) :
                b, a, dt, dc, dq \in BOOLEAN} :
        WellMeant(g)}

\* TLC evaluates a definition once, and one that stands for a constant each time.
MCStatements == TheStatements
MCModel == TheModel
MCEdge == TheEdge
MCClaim == TheClaim
MCInference == TheInference
MCOrder == TheOrder
MCBuiltBy == TheBuiltBy
MCPartition == ThePartition
MCSubjects == TheSubjects
MCGeometries == TheGeometries
=============================================================================
