------------------------------ MODULE GpRecords ------------------------------
(***************************************************************************)
(* How the gp CLI reads a campaign ledger (tools/gp.py): a ledger is the   *)
(* sequence of its records, oldest first, and everything a command knows   *)
(* it computes from the records it read.                                   *)
(*                                                                         *)
(* A record is [op, ...] without its time, which is what the source calls  *)
(* its `content`:                                                          *)
(*   [op |-> "init", statement]         [op |-> "restate", old, new]       *)
(*   [op |-> "claim", key]              [op |-> "withdraw", key]           *)
(*   [op |-> "support", key, receipt]   [op |-> "refused", key, receipt]   *)
(*   [op |-> "merge", from, upTo]  from's ledger as it was at that length  *)
(* A claim's key stands for its label and statement, of which it is the    *)
(* hash; LabelOf gives the label back.                                     *)
(***************************************************************************)
EXTENDS Naturals, Sequences, FiniteSets

CONSTANTS
    Keys,       \* the claims that may be filed
    Labels,
    LabelOf,    \* a claim's label
    Receipts,   \* the receipts that may be submitted
    PremisesOf, \* the claims a rule receipt rests on; {} for a certificate
    Valid       \* <<key, receipt>> pairs whose check passes once the premises hold

ASSUME LabelOfType    == LabelOf \in [Keys -> Labels]
ASSUME PremisesOfType == PremisesOf \in [Receipts -> SUBSET Keys]
ASSUME ValidType      == Valid \subseteq Keys \X Receipts

Contents(recs) == {recs[i] : i \in DOMAIN recs}

\* [x for x in s if x in T]: the elements of s that are in T, in their order.
Only(s, T) ==
    LET at == {i \in DOMAIN s : s[i] \in T}
        nth(n) == CHOOSE i \in at : Cardinality({j \in at : j <= i}) = n
    IN  [n \in 1..Cardinality(at) |-> s[nth(n)]]

\* Where the records of one kind are.
At(recs, op) == {i \in DOMAIN recs : recs[i].op = op}

LastOf(S) == CHOOSE i \in S : \A j \in S : j <= i

Claims(recs) == {recs[i].key : i \in At(recs, "claim")}

LabelsTaken(recs) == {LabelOf[k] : k \in Claims(recs)}

Withdrawn(recs) == {recs[i].key : i \in At(recs, "withdraw")}

\* The statement the ledger binds: the init record's, or the latest restatement's.
BoundStatement(recs) ==
    LET binding == At(recs, "init") \cup At(recs, "restate")
        latest  == recs[LastOf(binding)]
    IN  IF latest.op = "init" THEN latest.statement ELSE latest.new

\* The accepted support of each claim: later supports supersede.
Supports(recs) ==
    LET of(k) == {i \in At(recs, "support") : recs[i].key = k}
    IN  [k \in {recs[i].key : i \in At(recs, "support")} |-> recs[LastOf(of(k))].receipt]

(***************************************************************************)
(* The fold.  `surface` offers each filed claim with a receipt, the trial  *)
(* one or else its support's; a withdrawn claim's warrant is retracted; a  *)
(* claim is held when its receipt checks and its premises are held.  The   *)
(* runner computes that set by rounds, and GP50Fold's ImplementsCustody    *)
(* says it is the least closed one: a command gets it as a value.          *)
(***************************************************************************)
Offer(recs, trial) ==
    LET sup == Supports(recs)
    IN  {[key |-> k, receipt |-> IF k \in DOMAIN trial THEN trial[k] ELSE sup[k]] :
            k \in Claims(recs) \cap (DOMAIN sup \cup DOMAIN trial)}

\* Mutant: withdrawn keys do not reach the runner.
StandsIgnoringWithdrawals(recs, e) == <<e.key, e.receipt>> \in Valid

\* What is offered for a claim is a warrant for it, once its premises are held.
Stands(recs, e) ==
    /\ e.key \notin Withdrawn(recs)
    /\ <<e.key, e.receipt>> \in Valid

HeldWith(recs, trial) ==
    LET rules == {e \in Offer(recs, trial) : Stands(recs, e)}
        keys  == {e.key : e \in rules}
        Closed(S) == \A e \in rules : PremisesOf[e.receipt] \subseteq S => e.key \in S
    IN  {k \in keys : \A S \in SUBSET keys : Closed(S) => k \in S}

NoTrial == [k \in {} |-> {}]

Held(recs) == HeldWith(recs, NoTrial)

\* The claims that are withdrawn or whose support rests on one that is, in
\* any number of steps, whether or not they are held: what the views and the
\* pre-checks take for lost.
RestsOnWithdrawn(recs) ==
    LET sup   == Supports(recs)
        gone  == Withdrawn(recs)
        keys  == gone \cup DOMAIN sup
        rests == {<<k, PremisesOf[sup[k]]>> : k \in DOMAIN sup}
        Grown(T) == gone \subseteq T /\ \A e \in rests : e[2] \cap T # {} => e[1] \in T
    IN  {k \in keys : \A T \in SUBSET keys : Grown(T) => k \in T}
=============================================================================
