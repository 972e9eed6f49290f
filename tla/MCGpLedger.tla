----------------------------- MODULE MCGpLedger -----------------------------
(***************************************************************************)
(* A small campaign for TLC.  Claims A and B are filed on the branch every *)
(* copy was made from; C and D are different claims under one label.  A    *)
(* and B have a certificate each (a1, b1) and a rule receipt from the      *)
(* other (a2, b2); a0 proves nothing and ax does not parse.                *)
(*                                                                         *)
(* A campaign with a goal has its claims Q and N, two exclusions E and F   *)
(* of one graph, a cover V of just that graph with its spine S, and a      *)
(* claim Y, true as it stands, which is filed as a realization and is none.*)
(***************************************************************************)
EXTENDS GpLedger

TheKeys      == {"A", "B", "C", "D"}
TheGoalKeys  == {"Q", "N", "E", "F", "S", "V", "Y"}
TheLabels    == {"a", "b", "c", "q", "n", "e", "f", "s", "v", "y"}
TheLabelOf   == [k \in Keys |->
    CASE k = "A" -> "a" [] k = "B" -> "b" [] k \in {"C", "D"} -> "c" [] k = "Q" -> "q"
      [] k = "N" -> "n" [] k = "E" -> "e" [] k = "F" -> "f" [] k = "S" -> "s" [] k = "V" -> "v"
      [] OTHER -> "y"]
TheReceipts  == {"a0", "ax", "a1", "a2", "b1", "b2"}
TheRules     == {"e1", "f1", "v1", "y1", "spineE", "spineF", "decide", "realize"}
ThePremises  == [r \in Receipts |->
    CASE r = "a2" -> {"B"} [] r = "b2" -> {"A"} [] r = "spineE" -> {"E"} [] r = "spineF" -> {"F"}
      [] r = "decide" -> {"S", "V"} [] r = "realize" -> {"Y"} [] OTHER -> {}]
TheValid     == {<<"A", "a1">>, <<"A", "a2">>, <<"B", "b1">>, <<"B", "b2">>}
TheGoalValid == TheValid \cup {<<"E", "e1">>, <<"F", "f1">>, <<"V", "v1">>, <<"Y", "y1">>,
                               <<"S", "spineE">>, <<"S", "spineF">>, <<"N", "decide">>}

Offer1(k, r) == [key |-> k, receipt |-> r]
TheOffers     == {Offer1("A", "ax"), Offer1("A", "a1"), Offer1("A", "a2"),
                 Offer1("B", "b1"), Offer1("B", "b2")}
TheGoalOffers == TheOffers \cup {Offer1("E", "e1"), Offer1("F", "f1"), Offer1("Y", "y1")}
TheBatches    == {<<Offer1("A", "a2"), Offer1("B", "b1")>>, <<Offer1("A", "a1"), Offer1("B", "b2")>>,
                 <<Offer1("A", "a2"), Offer1("B", "b2")>>, <<Offer1("A", "a0"), Offer1("B", "b2")>>,
                 <<Offer1("A", "ax"), Offer1("B", "b2")>>, <<Offer1("E", "e1"), Offer1("Y", "y1")>>}
TheCovers     == {[cover |-> "V", spine |-> "S", retry |-> <<Offer1("V", "v1")>>]}
TheProposals  == {Offer1("S", "spineE"), Offer1("S", "spineF"), Offer1("N", "decide"),
                 Offer1("Q", "realize")}
Nothing       == {}
NoGoal        == <<>>

InitRecord == [op |-> "init", statement |-> "v1"]
Supported(k, r) == Support(Offer1(k, r))

TheFiledHistory ==
    <<InitRecord, ClaimRecord("A"), ClaimRecord("B"), Supported("A", "a1"), Supported("B", "b1")>>
TheGoalClaims  == <<"Q", "N">>
TheGoalHistory == <<InitRecord, ClaimRecord("Q"), ClaimRecord("N"), ClaimRecord("E"), ClaimRecord("F"),
                    Supported("E", "e1")>>
TheBothHistory == TheFiledHistory \o <<ClaimRecord("Q"), ClaimRecord("N")>>

\* A was supported by its certificate and then, for a while, by the rule.
TheResubmittedHistory == Append(TheFiledHistory, Supported("A", "a2"))

From(recs, keys, statements, commands) ==
    {[recs |-> recs, keys |-> keys, statements |-> statements, commands |-> commands]}

TheBranchStarts ==
    From(<<>>, {"C", "D"}, {"v1", "v2", "v3"}, 6)
        \cup From(TheBothHistory, {}, {}, 4)
        \cup From(TheGoalHistory, {"S", "V", "Y"}, {}, 3)

\* What the configurations name: TLC keeps the value of a definition it is
\* sent to by another, and works out again the one a constant stands for.
MCKeys           == TheKeys
GoalKeys         == TheKeys \cup TheGoalKeys
MCLabels         == TheLabels
MCLabelOf        == TheLabelOf
MCReceipts       == TheReceipts
GoalReceipts     == TheReceipts \cup TheRules
MCPremises       == ThePremises
MCValid          == TheValid
GoalValid        == TheGoalValid
MCOffers         == TheOffers
GoalOffers       == TheGoalOffers
MCBatches        == TheBatches
MCCovers         == TheCovers
MCProposals      == TheProposals
MCGoalClaims     == TheGoalClaims
BranchStarts     == TheBranchStarts
BranchesStarts   == From(TheFiledHistory, TheKeys, {}, 4)
LossesStarts     == From(TheFiledHistory, TheKeys, {}, 3)
ResubmittedStart == From(TheResubmittedHistory, TheKeys, {}, 3)

\* Every command but a batch, which a kill may leave half recorded.
AllButBatch == {"init", "restate", "claim", "cover", "submit", "withdraw", "withdraw --cascade"}
Commands    == AllButBatch \cup {"submit-batch", "merge"}

\* Branches start as copies of each other, and no action tells them apart.
Alike == Permutations(Branches)
=============================================================================
