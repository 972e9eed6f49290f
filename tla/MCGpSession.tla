---------------------------- MODULE MCGpSession -----------------------------
(***************************************************************************)
(* A small graph for TLC: an inference i1 that rests on claim c1, and a    *)
(* family f1.  c2 replaces c1 and says the same; so does another c2, but   *)
(* says it differently, which two writers may file at the same time; c3    *)
(* retires c1.  d1 doubts i1.  e1 cites the certificate k1.  b1 cannot be  *)
(* read until x1 voids it; x2 voids f1, and x3 the answer d2 to the doubt, *)
(* which can, unless another one is filed with them.  v1 and v2 are        *)
(* verdicts on c1, v3 one on c2.  The bridge q3, on which i3 rests, binds  *)
(* the family f3, its enumeration n3 with its evidence s3, and its         *)
(* coverage g3; f4 replaces the family, s4 retires the evidence.           *)
(***************************************************************************)
EXTENDS GpSession

CONSTANTS P, Q

\* What an event says if nothing else is said of it.
Plain ==
    [sound |-> TRUE, says |-> "a", bears |-> "a", names |-> {}, cites |-> None, quotes |-> FALSE,
     supersedes |-> None, discharge |-> None, voids |-> None, answered |-> FALSE,
     enumerates |-> None, result |-> None]

Told ==
    [c1  |-> [kind |-> "claim", id |-> "c1"],
     i1  |-> [kind |-> "inference", id |-> "i1", names |-> {"c1"}],
     f1  |-> [kind |-> "family", id |-> "f1"],
     c2  |-> [kind |-> "claim", id |-> "c2", supersedes |-> "c1", discharge |-> "AMEND"],
     c2x |-> [kind |-> "claim", id |-> "c2", says |-> "b", supersedes |-> "c1", discharge |-> "RESTATE"],
     c2y |-> [kind |-> "claim", id |-> "c2", says |-> "b", supersedes |-> "c1", discharge |-> "AMEND"],
     c3  |-> [kind |-> "claim", id |-> "c3", supersedes |-> "c1", discharge |-> "RETRACT"],
     i2  |-> [kind |-> "inference", id |-> "i2", names |-> {"c2"}, bears |-> "b",
              supersedes |-> "i1", discharge |-> "RELICENSE"],
     d1  |-> [kind |-> "doubt", id |-> "d1", names |-> {"i1"}],
     d2  |-> [kind |-> "doubt", id |-> "d2", names |-> {"i1"}, answered |-> TRUE,
              supersedes |-> "d1", discharge |-> "AMEND"],
     d2x |-> [kind |-> "doubt", id |-> "d2", says |-> "b"],
     d3  |-> [kind |-> "doubt", id |-> "d3", names |-> {"c1"}, quotes |-> TRUE],
     d4  |-> [kind |-> "doubt", id |-> "d4", names |-> {"c1"}],
     k1  |-> [kind |-> "certificate", id |-> "k1"],
     e1  |-> [kind |-> "claim", id |-> "e1", cites |-> "k1"],
     b1  |-> [kind |-> "claim", id |-> "b1", sound |-> FALSE],
     x1  |-> [kind |-> "erratum", id |-> "x1", voids |-> "b1"],
     x2  |-> [kind |-> "erratum", id |-> "x2", voids |-> "f1"],
     x3  |-> [kind |-> "erratum", id |-> "x3", voids |-> "d2"],
     f1x |-> [kind |-> "family", id |-> "f1", says |-> "b"],
     f2  |-> [kind |-> "family", id |-> "f2", supersedes |-> "f1", discharge |-> "RESTATE"],
     v1  |-> [kind |-> "verdict", id |-> "v1", names |-> {"c1"}, result |-> "REFUTED"],
     v2  |-> [kind |-> "verdict", id |-> "v2", names |-> {"c1"}, result |-> "UNVERIFIED"],
     v3  |-> [kind |-> "verdict", id |-> "v3", names |-> {"c2"}, result |-> "REFUTED"],
     f3  |-> [kind |-> "family", id |-> "f3"],
     n3  |-> [kind |-> "claim", id |-> "n3", names |-> {"f3"}],
     g3  |-> [kind |-> "claim", id |-> "g3", names |-> {"f3"}],
     s3  |-> [kind |-> "evidence", id |-> "s3", names |-> {"n3"}],
     q3  |-> [kind |-> "family_bridge", id |-> "q3", names |-> {"f3", "n3", "g3"}, enumerates |-> "n3"],
     i3  |-> [kind |-> "inference", id |-> "i3", names |-> {"n3", "q3"}],
     f4  |-> [kind |-> "family", id |-> "f4", supersedes |-> "f3", discharge |-> "AMEND"],
     s4  |-> [kind |-> "evidence", id |-> "s4", supersedes |-> "s3", discharge |-> "RETRACT"]]

TheGraph   == <<"c1", "i1", "f1", "d1">>
TheFamily  == <<"f3", "n3", "g3", "s3">>
TheBatches == {TheGraph, <<"c2">>, <<"c2x">>, <<"c2y">>, <<"c3">>, <<"i2">>, <<"d2">>, <<"d4">>, <<"d3">>,
               <<"k1", "e1">>, <<"b1", "x1">>, <<"x2">>, <<"f1x", "x2">>, <<"d2x", "x3">>, <<"f2">>,
               <<"v1">>, <<"v2">>, <<"v3">>, <<"q3", "i3">>, <<"f4">>, <<"s4">>}

TheEvent == [n \in UNION {Range(batch) : batch \in TheBatches \cup {TheFamily}} |-> Told[n] @@ Plain]

TheWork ==
    [w1 |-> [id |-> "w1", family |-> "f1", resolves |-> None],
     w2 |-> [id |-> "w1", family |-> "f2", resolves |-> None],
     r1 |-> [id |-> "r1", family |-> None, resolves |-> "w1"],
     r2 |-> [id |-> "r2", family |-> None, resolves |-> "w1"]]

Start(recs, byP, byQ, n) == [log |-> recs, roles |-> (P :> byP) @@ (Q :> byQ), appends |-> n]
Small  == <<"meta">> \o TheGraph
Family == <<"meta">> \o TheFamily

\* A writer whose tool calls are checked, beside another, beside an acceptor
\* when it accepts as well, and a writer and work; two writers, from no graph
\* at all, and about a family.
TheStarts ==
    {Start(Small, {"append", "check"}, {"append"}, 2),
     Start(Small, {"append", "check", "accept"}, {"accept"}, 1),
     Start(Small, {"append", "work"}, {"work"}, 1)}
    \cup {Start(recs, {"append"}, {"append"}, 3) : recs \in {<<>>, Family}}

\* Two acceptors of a doubt and a stale premise.
TheAcceptors == {Start(Append(Small, "c2"), {"accept"}, {"accept"}, 0)}

MCEvent   == TheEvent
MCBatches == TheBatches
MCWorks   == DOMAIN TheWork
MCWork    == TheWork
MCStarts  == TheStarts
MCAcceptors == TheAcceptors
MCLegacy  == {<<"DOUBT", "d1">>}
=============================================================================
