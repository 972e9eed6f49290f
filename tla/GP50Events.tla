----------------------------- MODULE GP50Events -----------------------------
(***************************************************************************)
(* Resolution of a GP50 event log into a snapshot, and which warrants of   *)
(* the snapshot are in custody (phase2/lean/GP50/Events.lean).             *)
(*                                                                         *)
(* A log is a SET of events: every list the source reads is passed through *)
(* eraseDups or canonicalIds before anything depends on it, and            *)
(* EventOrderProofs.lean proves that order and repetition are invisible.   *)
(* An event is a record whose "kind" says which constructor it is:         *)
(*   [kind |-> "declare",   claim]                                         *)
(*   [kind |-> "current",   claim, version, binding]                       *)
(*   [kind |-> "warrant",   id, claim, version, binding, evidence]         *)
(*   [kind |-> "retract",   target]                                        *)
(*   [kind |-> "supersede", target, successor]                             *)
(***************************************************************************)
EXTENDS Naturals, FiniteSets

OfKind(log, kind) == {e \in log : e.kind = kind}

CurrentsIn(log) == OfKind(log, "current")
WarrantsIn(log) == OfKind(log, "warrant")

\* Only the newest version of a claim's binding is current.
Currents(log) ==
    {c \in CurrentsIn(log) :
        \A d \in CurrentsIn(log) : d.claim = c.claim => d.version <= c.version}

WarrantIds(log) == {w.id : w \in WarrantsIn(log)}
Retracted(log)  == {e.target : e \in OfKind(log, "retract")}
Links(log)      == {<<e.target, e.successor>> : e \in OfKind(log, "supersede")}

Domain(log) ==
    {e.claim : e \in OfKind(log, "declare")} \cup {c.claim : c \in CurrentsIn(log)}

\* <<a, b>> is in Follows(links) when some chain of at most |links| links
\* leads from a to b: the fuel the source gives `follows`.
Follows(links) ==
    LET upTo[n \in 0..Cardinality(links)] ==
            IF n = 0 THEN {}
            ELSE links \cup {<<ep[1][1], ep[2][2]>> :
                                ep \in {ep \in links \X upTo[n - 1] :
                                           ep[1][2] = ep[2][1]}}
    IN  upTo[Cardinality(links)]

(***************************************************************************)
(* The checks `resolve` makes, each a set of the offenders it would name.  *)
(***************************************************************************)
ConflictingCurrents(log) ==
    {c.claim : c \in {c \in Currents(log) : \E d \in Currents(log) :
                                                d.claim = c.claim /\ d # c}}

\* Mutant: a retraction also settles which of two contents was meant.
ConflictingWarrantsUnretracted(log) ==
    {w.id : w \in {w \in WarrantsIn(log) : /\ w.id \notin Retracted(log)
                                           /\ \E v \in WarrantsIn(log) :
                                                 v.id = w.id /\ v # w}}

ConflictingWarrants(log) ==
    {w.id : w \in {w \in WarrantsIn(log) : \E v \in WarrantsIn(log) :
                                                v.id = w.id /\ v # w}}

SelfSupersessions(log) == {l \in Links(log) : l[1] = l[2]}

MissingEndpoints(log) ==
    {l \in Links(log) : ~({l[1], l[2]} \subseteq WarrantIds(log))}

WithdrawnAndReplaced(log) == {l \in Links(log) : l[1] \in Retracted(log)}

SupersessionCycles(log) ==
    {l \in Links(log) : <<l[2], l[1]>> \in Follows(Links(log))}

WellFormed(log) ==
    /\ ConflictingCurrents(log) = {}
    /\ ConflictingWarrants(log) = {}
    /\ SelfSupersessions(log) = {}
    /\ MissingEndpoints(log) = {}
    /\ WithdrawnAndReplaced(log) = {}
    /\ SupersessionCycles(log) = {}

(***************************************************************************)
(* Custody: the claim is in the domain, the warrant is neither retracted   *)
(* nor superseded, and a current binding matches it exactly.               *)
(***************************************************************************)
\* Mutant: a retracted successor gives its target back.
SupersededWhileSuccessorStands(log) ==
    {l[1] : l \in {l \in Links(log) : l[2] \notin Retracted(log)}}

Superseded(log) == {l[1] : l \in Links(log)}

\* Mutant: the latest warrant of a claim buries the earlier ones.
LiveIfLatest(log, w) ==
    /\ w.claim \in Domain(log)
    /\ w.id \notin Retracted(log) \cup Superseded(log)
    /\ \A v \in WarrantsIn(log) : v.claim = w.claim => v.id <= w.id
    /\ \E c \in Currents(log) :
          c.claim = w.claim /\ c.version = w.version /\ c.binding = w.binding

Live(log, w) ==
    /\ w.claim \in Domain(log)
    /\ w.id \notin Retracted(log)
    /\ w.id \notin Superseded(log)
    /\ \E c \in Currents(log) :
          /\ c.claim = w.claim
          /\ c.version = w.version
          /\ c.binding = w.binding
=============================================================================
