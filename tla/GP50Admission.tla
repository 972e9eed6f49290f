--------------------------- MODULE GP50Admission ----------------------------
(***************************************************************************)
(* What a registry admits: the receipt, cover and narrowing validators the *)
(* scoped runner builds from its registry file (BoundReplay, Cover,        *)
(* CoveredSpan, Narrowing), and the requirements they put on a warrant     *)
(* (Runtime.requirements).                                                 *)
(*                                                                         *)
(* A scope is the set of contexts it contains.  A binding is a record      *)
(* whose "family" stands for the statement, model, input and kernel hashes *)
(* that narrowing and covering compare, and whose other fields are free.   *)
(* A registered receipt carries the verdict of its exact replay, which the *)
(* source recomputes from the cofactors.                                   *)
(***************************************************************************)
EXTENDS GP50Events, Sequences

CONSTANTS
    Clauses,    \* [key, version, binding, stmt, scope]: the registered statements
    Receipts,   \* [name, claim, version, binding, replays]
    Rules,      \* [name, destination, branches]: cover rules; branches is a sequence
    Contra,     \* pairs of statements that exclude each other in a context
    Undecided   \* pairs of scopes the overlap checker finds no witness for,
                \* whether or not they share a context

ASSUME RegistryShape ==
    /\ \A c \in Clauses : DOMAIN c = {"key", "version", "binding", "stmt", "scope"}
    /\ \A r \in Receipts : r.replays \in BOOLEAN

\* A registry that names a key, receipt or rule twice admits nothing through it.
KeysUnique      == \A c, d \in Clauses  : c.key = d.key => c = d
ReceiptsUnique  == \A r, s \in Receipts : r.name = s.name => r = s
RulesUnique     == \A r, s \in Rules    : r.name = s.name => r = s

\* The clauses a warrant is bound to: at most one, none when keys repeat.
BoundClauses(w) ==
    {c \in Clauses : KeysUnique /\ c.key = w.claim /\ c.version = w.version
                                /\ c.binding = w.binding}

\* Mutant: a registered receipt is taken without replaying it.
AcceptsReceiptUnreplayed(w) ==
    /\ KeysUnique /\ ReceiptsUnique
    /\ \E c \in BoundClauses(w), r \in Receipts :
          /\ r.name = w.evidence.data
          /\ r.claim = c.key
          /\ r.version = c.version
          /\ r.binding = c.binding

AcceptsReceipt(w) ==
    /\ KeysUnique /\ ReceiptsUnique
    /\ \E c \in BoundClauses(w), r \in Receipts :
          /\ r.name = w.evidence.data
          /\ r.claim = c.key
          /\ r.version = c.version
          /\ r.binding = c.binding
          /\ r.replays

CheckNarrow(dest, source) ==
    /\ dest.stmt = source.stmt
    /\ dest.scope \subseteq source.scope
    /\ dest.binding.family = source.binding.family

AcceptsNarrow(dest, source) ==
    \E d \in BoundClauses(dest), s \in BoundClauses(source) : CheckNarrow(d, s)

\* Mutant: the branches agree with the destination, but need not cover it.
CheckCoverAgreement(dest, branches) ==
    \A b \in branches : /\ dest.stmt = b.stmt
                        /\ dest.binding.family = b.binding.family

CheckCover(dest, branches) ==
    /\ \A b \in branches : /\ dest.stmt = b.stmt
                           /\ dest.binding.family = b.binding.family
    /\ dest.scope \subseteq UNION {b.scope : b \in branches}

\* premises is the sequence of warrants the evidence names, in its order.
AcceptsCover(w, premises) ==
    /\ RulesUnique
    /\ \E r \in Rules : /\ r.name = w.evidence.side
                        /\ r.destination = w.claim
                        /\ r.branches = [i \in DOMAIN premises |-> premises[i].claim]
    /\ \A i \in DOMAIN premises : BoundClauses(premises[i]) # {}
    /\ \E d \in BoundClauses(w) :
          CheckCover(d, UNION {BoundClauses(premises[i]) : i \in DOMAIN premises})

(***************************************************************************)
(* requirements: a blocked warrant is not Admitted; an admitted one needs  *)
(* the warrants in Premises.  A theorem name, a citation, an assertion and *)
(* an attempt are inert here.                                              *)
(***************************************************************************)
Premises(w) ==
    IF w.evidence.kind = "derived"
    THEN {w.evidence.premises[i] : i \in DOMAIN w.evidence.premises}
    ELSE IF w.evidence.kind = "narrow" THEN {w.evidence.premise} ELSE {}

Lookup(log, id) == CHOOSE w \in WarrantsIn(log) : w.id = id

\* Mutant: an attempt is admitted like a receipt that needs nothing.
AdmittedOrAttempted(log, w) ==
    /\ Live(log, w)
    /\ w.evidence.kind = "attempt" \/ (w.evidence.kind = "receipt" /\ AcceptsReceipt(w))

Admitted(log, w) ==
    /\ Live(log, w)
    /\ Premises(w) \subseteq WarrantIds(log)
    /\ \/ /\ w.evidence.kind = "receipt"
          /\ AcceptsReceipt(w)
       \/ /\ w.evidence.kind = "derived"
          /\ AcceptsCover(w, [i \in DOMAIN w.evidence.premises |->
                                 Lookup(log, w.evidence.premises[i])])
       \/ /\ w.evidence.kind = "narrow"
          /\ AcceptsNarrow(w, Lookup(log, w.evidence.premise))

Enabled(log, w, reached) == Admitted(log, w) /\ Premises(w) \subseteq reached

\* Mutant: premises are on record, but need not be reached.
AdvanceUnchecked(log, reached) ==
    reached \cup {w.id : w \in {w \in WarrantsIn(log) : Admitted(log, w)}}

\* One round of the closure: every warrant whose premises are all reached.
Advance(log, reached) ==
    reached \cup {w.id : w \in {w \in WarrantsIn(log) : Enabled(log, w, reached)}}

\* A set of warrants no round leaves.
Closed(log, S) == \A w \in WarrantsIn(log) : Enabled(log, w, S) => w.id \in S

\* The whole closure: as many rounds as there are support nodes.
Closure(log) ==
    LET rounds[n \in 0..Cardinality(WarrantIds(log))] ==
            IF n = 0 THEN {} ELSE Advance(log, rounds[n - 1])
    IN  rounds[Cardinality(WarrantIds(log))]

ProjectClaims(log, supports) ==
    {w.claim : w \in {w \in WarrantsIn(log) : w.id \in supports}}

(***************************************************************************)
(* Conflict review of a fold's supports: a finding is a pair of supported  *)
(* warrants bound to contradictory statements; a release is allowed when   *)
(* no finding has an overlap witness.  A profile's checker is only sound:  *)
(* a witness is a shared context, none may mean that it could not tell.    *)
(* The scoped runner's checker decides every pair (Undecided = {}).        *)
(***************************************************************************)
ConflictFindings(log, supports) ==
    {f \in WarrantsIn(log) \X WarrantsIn(log) :
        /\ f[1].id < f[2].id
        /\ {f[1].id, f[2].id} \subseteq supports
        /\ \E c \in BoundClauses(f[1]), d \in BoundClauses(f[2]) :
              <<c.stmt, d.stmt>> \in Contra}

\* Mutant: inclusion of the second scope is taken for the only overlap.
InhabitedIfIncluded(finding) ==
    \E c \in BoundClauses(finding[1]), d \in BoundClauses(finding[2]) :
        d.scope # {} /\ d.scope \subseteq c.scope

Inhabited(finding) ==
    \E c \in BoundClauses(finding[1]), d \in BoundClauses(finding[2]) :
        /\ c.scope \cap d.scope # {}
        /\ <<c.scope, d.scope>> \notin Undecided

ReleaseAllowed(log, supports) ==
    \A f \in ConflictFindings(log, supports) : ~Inhabited(f)
=============================================================================
