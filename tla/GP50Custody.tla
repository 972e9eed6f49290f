---------------------------- MODULE GP50Custody -----------------------------
(***************************************************************************)
(* What the kernel promises of a campaign's events: a log that only grows, *)
(* and a published view of some prefix of it that holds exactly what the   *)
(* LEAST set of warrants closed under the admitted rules supports, or that *)
(* is malformed.  How the closure is computed is GP50Fold's business.      *)
(***************************************************************************)
CONSTANTS
    Events,                 \* the events that may ever be recorded
    InitLog,                \* the log the campaign starts from
    WellFormed(_),          \* a log that resolves
    WarrantIds(_),          \* the warrants of a log
    Closed(_, _),           \* a set of warrants that the admitted rules do not leave
    ProjectClaims(_, _)     \* the claims that a set of warrants is for

VARIABLES
    log,        \* every event recorded so far
    view        \* the published fold of a log, or NoView while there is none

custodyVars == <<log, view>>

NoView == [status |-> "NONE", of |-> {}, supports |-> {}, claims |-> {}]

\* The warrants that every closed set holds.
LeastSupport(l) ==
    LET closed == {S \in SUBSET WarrantIds(l) : Closed(l, S)}
    IN  {id \in WarrantIds(l) : \A S \in closed : id \in S}

Fold(l) ==
    IF WellFormed(l)
    THEN [status |-> "OK", of |-> l, supports |-> LeastSupport(l),
          claims |-> ProjectClaims(l, LeastSupport(l))]
    ELSE [status |-> "MALFORMED", of |-> l, supports |-> {}, claims |-> {}]

-----------------------------------------------------------------------------
CustodyInit == log = InitLog /\ view = NoView

Record(e) == /\ log' = log \cup {e}
             /\ UNCHANGED view

\* What is published is the fold of a log the campaign has had, not always of
\* the newest one: writers do not wait for folds.
Publish == /\ InitLog \subseteq view'.of
           /\ view'.of \subseteq log
           /\ view' = Fold(view'.of)
           /\ UNCHANGED log

Begin == view' = NoView /\ UNCHANGED log

CustodyNext == Begin \/ Publish \/ (\E e \in Events : Record(e))

CustodySpec == CustodyInit /\ [][CustodyNext]_custodyVars
=============================================================================
