------------------------------ MODULE GpStore -------------------------------
(***************************************************************************)
(* How the v0.37 engine reads its graph (grandportage/store.py) and what   *)
(* it then has to say about superseded and doubted records (check.py).     *)
(*                                                                         *)
(* A log is the sequence of its lines: "meta", the header; "torn", a line  *)
(* cut short; or the name of an event.  Event gives a name's contents, so  *)
(* two names with one kind and id are conflicting declarations:            *)
(*   kind, id    "claim", "inference", "doubt", "family", "evidence",      *)
(*               "family_bridge", "certificate", "verdict" or "erratum"    *)
(*   sound       whether its _apply_ method can read it                    *)
(*   says, bears its identifying and its licensing fields; of a verdict,   *)
(*               those of the claim it was reached for                     *)
(*   names       the records it refers to, by id                           *)
(*   cites       the certificate its scope is derived from, or None        *)
(*   quotes      whether a doubt quotes the record it is about             *)
(*   supersedes  the record it replaces or retires, or None                *)
(*   discharge   AMEND, RELICENSE, RESTATE or RETRACT; None if it replaces *)
(*               nothing                                                   *)
(*   voids       the id an erratum voids, or None                          *)
(*   answered    whether a doubt records its answer                        *)
(*   enumerates  the claim that enumerates a bridge's family, or None      *)
(*   result      what a verdict found, or None                             *)
(* Models and edges are there whatever the log says: no record here brings *)
(* one in, and a doubt about one is a doubt that names nothing.            *)
(***************************************************************************)
EXTENDS SequencesExt

CONSTANTS
    None,
    Event   \* the contents of the event a name stands for

Names == DOMAIN Event

ASSUME LinesApart == {"meta", "torn"} \cap Names = {}

\* The scope of a claim is derived from the certificate it cites.
ASSUME ClaimsCite == \A n \in Names : Event[n].cites # None => Event[n].kind = "claim"

KindOf(n) == Event[n].kind
IdOf(n)   == Event[n].id

Of(names, kind) == {n \in names : KindOf(n) = kind}

\* What the names of a record may refer to, by its kind.
Bears == [claim |-> {"family"}, inference |-> {"claim", "family_bridge"}, doubt |-> {"claim", "inference"},
          family |-> {}, certificate |-> {}, evidence |-> {"claim"},
          family_bridge |-> {"family", "claim"}, verdict |-> {"claim"}]

Bearing(names, m) == {n \in names : KindOf(n) \in Bears[KindOf(m)]}

-----------------------------------------------------------------------------
(* Reading a file.  An empty one is an empty graph. *)

Readable(log) ==
    log # <<>> =>
        /\ log[1] = "meta"
        /\ \A i \in 2..Len(log) : log[i] \notin {"meta", "torn"}

\* What comes after the header.
Records(log) == IF log = <<>> THEN <<>> ELSE Tail(log)

(***************************************************************************)
(* apply_all.  Errata first: an event with a voided id is skipped,         *)
(* whatever its kind.  Certificates are applied before the rest, so that a *)
(* claim may cite one declared after it.                                   *)
(***************************************************************************)
Errata(batch) == {i \in DOMAIN batch : KindOf(batch[i]) = "erratum"}

Voided(batch) == {Event[batch[i]].voids : i \in Errata(batch)}

\* Where the events are that are applied.
Kept(batch) == {i \in DOMAIN batch \ Errata(batch) : IdOf(batch[i]) \notin Voided(batch)}

\* Mutant: certificates are applied where they stand.
InLogOrder(batch, j, i) == j < i

Precedes(batch, j, i) ==
    LET certificate(k) == KindOf(batch[k]) = "certificate"
    IN  \/ certificate(j) /\ ~certificate(i)
        \/ (certificate(j) <=> certificate(i)) /\ j < i

\* The records that are applied.
Applied(batch) == {batch[i] : i \in Kept(batch)}

Tombstone(n) == Event[n].discharge = "RETRACT"

\* The records that are in a registry of the graph: tombstones are not.
Standing(graph) == {n \in graph : ~Tombstone(n)}

SameEntity(m, n) == KindOf(m) = KindOf(n) /\ IdOf(m) = IdOf(n)

\* Mutant: the same event again is a conflict.
OnceOnly(batch) == \A i, j \in Kept(batch) : i # j => ~SameEntity(batch[i], batch[j])

\* The same event again is no conflict.
NoConflict(batch) == \A m, n \in Applied(batch) : SameEntity(m, n) => m = n

\* What has been applied before the event at i.
Before(batch, i) == {batch[j] : j \in {k \in Kept(batch) : Precedes(batch, k, i)}}

\* A doubt that quotes its record, and a verdict, come after what they name.
ComesAfter(n) == Event[n].quotes \/ KindOf(n) = "verdict"

\* An event is applied to those before it.
Applies(n, before) ==
    /\ Event[n].sound
    /\ Event[n].cites # None => \E c \in Of(Standing(before), "certificate") : IdOf(c) = Event[n].cites
    /\ ComesAfter(n) =>
           \A id \in Event[n].names : \E m \in Bearing(Standing(before), n) : IdOf(m) = id

EachApplies(batch) == \A i \in Kept(batch) : Applies(batch[i], Before(batch, i))

(***************************************************************************)
(* _apply_verdict.  A verdict is history unless it was reached for the     *)
(* claim as it is there; then it is projected on the claim, in place of    *)
(* what an earlier one left there.  The same verdict again does nothing.   *)
(***************************************************************************)
Current(n, before) ==
    \E c \in Bearing(Standing(before), n) :
        /\ IdOf(c) \in Event[n].names
        /\ Event[c].says = Event[n].says /\ Event[c].bears = Event[n].bears

Projected(batch) ==
    {i \in Kept(batch) : /\ KindOf(batch[i]) = "verdict"
                         /\ batch[i] \notin Before(batch, i)
                         /\ Current(batch[i], Before(batch, i))}

\* What the claims have on them in the end.
Shown(batch) ==
    {batch[i] : i \in {i \in Projected(batch) :
        ~ \E j \in Projected(batch) : j > i /\ Event[batch[j]].names = Event[batch[i]].names}}

\* The graph: the records, but of the verdicts those that show.
GraphOf(batch) == {n \in Applied(batch) : KindOf(n) = "verdict" => n \in Shown(batch)}

-----------------------------------------------------------------------------
(* validate: supersession, references, and what must be live.               *)

Rank == [AMEND |-> 0, RELICENSE |-> 1, RESTATE |-> 2]

\* classify_supersession: the strongest change between two versions.
Changed(old, new) ==
    IF Event[old].says # Event[new].says THEN "RESTATE"
    ELSE IF Event[old].bears # Event[new].bears THEN "RELICENSE" ELSE "AMEND"

\* The records and tombstones that name n as what they replace.
SupersededBy(graph, n) ==
    {m \in graph : KindOf(m) = KindOf(n) /\ Event[m].supersedes = IdOf(n)}

Superseded(graph, n) == SupersededBy(graph, n) # {}

\* What m replaces, if it is there.
Replaced(graph, m) == {n \in Standing(graph) : m \in SupersededBy(graph, n)}

SupersessionsResolve(graph) ==
    \A m \in graph : Event[m].supersedes # None =>
        /\ Event[m].supersedes # IdOf(m)
        /\ Replaced(graph, m) # {}
        /\ \A n \in Replaced(graph, m) :
               IF Tombstone(m) THEN SupersededBy(graph, n) = {m}
               ELSE Rank[Event[m].discharge] >= Rank[Changed(n, m)]

ReferencesResolve(graph) ==
    \A m \in Standing(graph) : \A id \in Event[m].names :
        \E n \in Bearing(Standing(graph), m) : IdOf(n) = id

\* A bridge binds live records: its family, that family's enumeration and its
\* coverage, and evidence for the enumeration that is live as well.
Live(graph) == {n \in Standing(graph) : ~Superseded(graph, n)}

Proves(e, b) == KindOf(e) = "evidence" /\ Event[b].enumerates \in Event[e].names

Binds(graph, b) ==
    /\ \A id \in Event[b].names : \E n \in Bearing(Live(graph), b) : IdOf(n) = id
    /\ \E e \in Live(graph) : Proves(e, b)

BridgesBind(graph) == \A b \in Of(Standing(graph), "family_bridge") : Binds(graph, b)

WellFormed(batch) ==
    /\ NoConflict(batch)
    /\ EachApplies(batch)
    /\ SupersessionsResolve(Applied(batch))
    /\ ReferencesResolve(Applied(batch))
    /\ BridgesBind(Applied(batch))

\* The batch without what is at i; the rest stays where it is.
Without(batch, i) == Restrict(batch, DOMAIN batch \ {i})

\* _refuse_unneeded_errata drops the last erratum of an id, and that one only.
Needed(batch) ==
    \A i \in Errata(batch) :
        \/ \E j \in Errata(batch) : j > i /\ Event[batch[j]].voids = Event[batch[i]].voids
        \/ ~WellFormed(Without(batch, i))

Folds(batch) == WellFormed(batch) /\ Needed(batch)

\* A file the engine can use.
LogFolds(log) == Readable(log) /\ Folds(Records(log))
Graph(log)    == GraphOf(Records(log))

-----------------------------------------------------------------------------
(***************************************************************************)
(* What check.run finds.  A finding is known by its rule and subject (its  *)
(* fid) and by what it says (its fingerprint).  Findings about retired     *)
(* records are history, which neither accept nor the hook looks at.        *)
(***************************************************************************)
Ids(names) == {IdOf(n) : n \in names}

\* historical_entity_ids: what is retired, and what a retired record owns.
Historical(graph) ==
    LET retired == Ids({n \in Standing(graph) : Superseded(graph, n)})
        owned(kind, ids) == Ids({n \in Of(Standing(graph), kind) : Event[n].names \cap ids # {}})
        claims == retired \cup owned("claim", retired)
    IN  claims \cup owned("doubt", claims)

\* Whether what the finding is about refers to a retired record.
RefersToHistory(graph, id) ==
    \E n \in Standing(graph) : IdOf(n) = id /\ Event[n].names \cap Historical(graph) # {}

Finding(fid, says, severity) == [fid |-> fid, says |-> says, severity |-> severity]

\* check_doubts
DoubtFindings(graph) ==
    {Finding(<<"DOUBT", IdOf(d)>>,
             {d} \cup {about \in Event[d].names : RefersToHistory(graph, about)},
             "UNSOUND") :
        d \in {d \in Of(Standing(graph), "doubt") :
                  /\ ~Event[d].answered /\ ~Superseded(graph, d)
                  /\ Event[d].names \cap Historical(graph) = {}}}

\* check_stale_premises: an inference rests on a claim that was replaced.
Bookkeeping(successors) ==
    /\ Standing(successors) # {}
    /\ \A s \in Standing(successors) : Event[s].discharge = "AMEND"

StaleFindings(graph) ==
    {Finding(<<"STALE-PREMISE", IdOf(p[1]), IdOf(p[2])>>, SupersededBy(graph, p[2]),
             IF Bookkeeping(SupersededBy(graph, p[2])) THEN "DEBT" ELSE "UNSOUND") :
        p \in {p \in Of(Standing(graph), "inference") \X Of(Standing(graph), "claim") :
                  /\ ~Superseded(graph, p[1]) /\ Superseded(graph, p[2])
                  /\ IdOf(p[2]) \in Event[p[1]].names}}

\* check_identity: a verdict is not that the claim holds.
VerdictFindings(graph) ==
    {Finding(<<"UNTESTED-IDENTITY", Event[p[1]].result, p[2]>>, {p[1]},
             IF Event[p[1]].result = "REFUTED" THEN "UNSOUND" ELSE "TRIAGE") :
        p \in {p \in Of(graph, "verdict") \X Ids(Of(graph, "claim")) :
                  /\ p[2] \in Event[p[1]].names \ Historical(graph)
                  /\ Event[p[1]].result \in {"REFUTED", "UNVERIFIED"}}}

Actionable(graph) == DoubtFindings(graph) \cup StaleFindings(graph) \cup VerdictFindings(graph)
Blocking(graph)   == {f \in Actionable(graph) : f.severity = "UNSOUND"}

Fids(findings) == {f.fid : f \in findings}
=============================================================================
