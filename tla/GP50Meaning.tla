----------------------------- MODULE GP50Meaning ----------------------------
(***************************************************************************)
(* What the kernel's verdicts mean (phase2/lean/GP50/Semantics, Narrowing, *)
(* Cover, Conflict): a statement holds or not in a context, a clause means *)
(* that its statement holds throughout its scope, and the registry is      *)
(* sound when every receipt that replays is for a clause that means so.    *)
(***************************************************************************)
EXTENDS GP50Fold

CONSTANT Holds      \* the set of pairs <<stmt, ctx>> such that stmt holds in ctx

\* Profiles declare statements contradictory in pairs: `contra` of the
\* registered profiles is symmetric, and conflictFindings looks at one order.
ASSUME ContraSymmetric == \A p \in Contra : <<p[2], p[1]>> \in Contra

Means(c) == \A ctx \in c.scope : <<c.stmt, ctx>> \in Holds

\* The replay of a receipt proves its clause (Profile soundness of Receipt).
ReceiptsSound ==
    \A r \in Receipts, c \in Clauses :
        /\ r.replays
        /\ r.claim = c.key /\ r.version = c.version /\ r.binding = c.binding
        => Means(c)

\* contra_sound of a profile.
ContraSound ==
    \A p \in Contra : ~\E h, g \in Holds : h[1] = p[1] /\ g[1] = p[2] /\ h[2] = g[2]

\* A supported warrant's statement is true throughout its scope as long as the
\* receipts are sound: neither a cover, nor a narrowing, nor any chain of them
\* claims a context its premises do not reach.
SupportIsTrue ==
    ReceiptsSound =>
        \A w \in WarrantsIn(view.of) :
            w.id \in view.supports =>
                /\ BoundClauses(w) # {}
                /\ \A c \in BoundClauses(w) : Means(c)

\* The same of every round of a running closure.
ReachedIsTrue ==
    ReceiptsSound =>
        \A w \in WarrantsIn(input) :
            w.id \in reached =>
                /\ BoundClauses(w) # {}
                /\ \A c \in BoundClauses(w) : Means(c)

\* Sound receipts never freeze a release: an inhabited contradiction between
\* two supports can only come from a receipt that proves nothing.
FreezeNeedsUnsoundReceipt ==
    /\ ReceiptsSound
    /\ ContraSound
    => ReleaseAllowed(view.of, view.supports)

\* Whatever the receipts are worth, two clauses under an allowed release that
\* contradict each other in a shared context are a pair of scopes the checker
\* cannot tell about (an unknown overlap stays unresolved and blocks nothing):
\* the review looks at every supported pair, in the order of its ids, over any
\* chain of covers and narrowings.  (A statement that contradicts itself is no
\* finding: it holds nowhere.)
AllowedReleaseIsConsistent ==
    ReleaseAllowed(view.of, view.supports) =>
        \A v, w \in WarrantsIn(view.of) :
            v # w /\ {v.id, w.id} \subseteq view.supports =>
                \A c \in BoundClauses(v), d \in BoundClauses(w) :
                    /\ <<c.stmt, d.stmt>> \in Contra
                    /\ c.scope \cap d.scope # {}
                    => \/ <<c.scope, d.scope>> \in Undecided
                       \/ <<d.scope, c.scope>> \in Undecided
=============================================================================
