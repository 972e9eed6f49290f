----------------------------- MODULE MCGP50Fold -----------------------------
(***************************************************************************)
(* A small campaign for TLC.  Claims A (statement p in context 1), B (p in *)
(* context 2), C (p in both), D (its contradiction q in 2 and 3), E (p    *)
(* in three contexts).                                                     *)
(* C is covered by A and B, which do not cover E; A narrows from C, which  *)
(* makes a loop when C is covered by that A.  The overlap checker can tell *)
(* that C and D share a context, and cannot tell that B and D do.          *)
(***************************************************************************)
EXTENDS GP50Meaning

CONSTANT Unsound    \* whether the registry has a receipt that proves nothing

Bind(claim, v) == [family |-> "f", of |-> claim, rev |-> v]

TheClauses ==
    { [key |-> "A", version |-> 1, binding |-> Bind("A", 1), stmt |-> "p", scope |-> {1}],
      [key |-> "B", version |-> 1, binding |-> Bind("B", 1), stmt |-> "p", scope |-> {2}],
      [key |-> "C", version |-> 1, binding |-> Bind("C", 1), stmt |-> "p", scope |-> {1, 2}],
      [key |-> "D", version |-> 1, binding |-> Bind("D", 1), stmt |-> "q", scope |-> {2, 3}],
      [key |-> "E", version |-> 1, binding |-> Bind("E", 1), stmt |-> "p", scope |-> {1, 2, 3}] }

Receipt(name, claim, replays) ==
    [name |-> name, claim |-> claim, version |-> 1, binding |-> Bind(claim, 1),
     replays |-> replays]

TheReceipts == {Receipt("rA", "A", TRUE), Receipt("rB", "B", TRUE), Receipt("rD", "D", Unsound)}

TheRules == {[name |-> "cover", destination |-> "C", branches |-> <<"A", "B">>],
            [name |-> "short", destination |-> "E", branches |-> <<"A", "B">>]}

TheContra == {<<"p", "q">>, <<"q", "p">>}
TheUndecided == {<<{2}, {2, 3}>>, <<{2, 3}, {2}>>}
TheHolds  == {<<"p", 1>>, <<"p", 2>>, <<"q", 3>>}

Declare(claim) == [kind |-> "declare", claim |-> claim]
Current(claim, v, rev) ==
    [kind |-> "current", claim |-> claim, version |-> v, binding |-> Bind(claim, rev)]
Warrant(id, claim, v, evidence) ==
    [kind |-> "warrant", id |-> id, claim |-> claim, version |-> v,
     binding |-> Bind(claim, v), evidence |-> evidence]
Retract(id) == [kind |-> "retract", target |-> id]
Supersede(a, b) == [kind |-> "supersede", target |-> a, successor |-> b]

ByReceipt(name)   == [kind |-> "receipt", data |-> name]
Covered(premises) == [kind |-> "derived", premises |-> premises, side |-> "cover"]
Narrowed(premise) == [kind |-> "narrow", premise |-> premise]
FailedAttempt     == [kind |-> "attempt", status |-> "failed"]

WA  == Warrant(1, "A", 1, ByReceipt("rA"))
WB  == Warrant(2, "B", 1, ByReceipt("rB"))
WC  == Warrant(3, "C", 1, Covered(<<1, 2>>))
WA2 == Warrant(4, "A", 1, Narrowed(5))
WC2 == Warrant(5, "C", 1, Covered(<<4, 2>>))
WD  == Warrant(6, "D", 1, ByReceipt("rD"))
WE  == Warrant(7, "E", 1, [kind |-> "derived", premises |-> <<1, 2>>, side |-> "short"])
WA3 == Warrant(8, "A", 1, FailedAttempt)

Currents1 == {Current(claim, 1, 1) : claim \in {"A", "B", "C", "D", "E"}}

\* The fold run: a support of every kind, a loop and a withdrawal.
TheFoldInit   == Currents1 \cup {WB, WA2, WE}
TheFoldEvents == TheFoldInit \cup {WA, WC, WC2, WD, Retract(2), Supersede(1, 4)}

\* The log run: every way a log can go wrong or change its verdicts.
TheLogInit   == Currents1 \cup {WB}
TheLogEvents == TheLogInit \cup
    {WA, WA2, WC, WC2, WA3, WD, Declare("Z"), Current("A", 2, 2), Current("B", 1, 2),
     [WA EXCEPT !.evidence = FailedAttempt],
     Retract(1), Retract(2), Supersede(1, 2), Supersede(1, 4), Supersede(4, 1)}

\* What the configurations name: TLC keeps the value of a definition it is
\* sent to by another, and works out again the one a constant stands for.
MCClauses  == TheClauses
MCReceipts == TheReceipts
MCRules    == TheRules
MCContra   == TheContra
MCUndecided == TheUndecided
MCHolds    == TheHolds
FoldInit   == TheFoldInit
FoldEvents == TheFoldEvents
LogInit    == TheLogInit
LogEvents  == TheLogEvents

\* A campaign whose writers record, until somebody folds what they have.
Recording == phase = "idle" /\ view = NoView /\ \E e \in Events \ log : Record(e)
Folding   == view = NoView /\ (Refuse \/ Resolve \/ Round \/ Publish)

LogSpec == Init /\ [][Recording \/ Folding]_vars
=============================================================================
