------------------------------ MODULE GP50Fold ------------------------------
(***************************************************************************)
(* The kernel's fold as the runner computes it (phase2/lean/GP50/Runtime,  *)
(* Closure): decode and resolve a log, then close its support nodes in     *)
(* rounds, then publish.  A campaign's writers append to the log while a   *)
(* runner works on the copy it was given.                                  *)
(***************************************************************************)
EXTENDS GP50Admission

CONSTANTS
    Events,     \* the events that may ever be recorded
    InitLog     \* the log the campaign starts from

ASSUME InitLogInEvents == InitLog \subseteq Events
ASSUME InitLogFinite   == IsFiniteSet(InitLog)
ASSUME IdsAreNumbers   == \A e \in Events : e.kind = "warrant" => e.id \in Nat

VARIABLES
    log,        \* every event recorded so far
    input,      \* the log the running (or last) fold was given
    phase,      \* "idle", "closing"
    rounds,     \* rounds of the closure done
    reached,    \* warrants reached by those rounds
    view        \* what this fold has printed: NoView until it ends

vars == <<log, input, phase, rounds, reached, view>>

NoView == [status |-> "NONE", of |-> {}, supports |-> {}, claims |-> {}]

Nodes(l) == Cardinality(WarrantIds(l))

-----------------------------------------------------------------------------
Init ==
    /\ log = InitLog
    /\ input = {}
    /\ phase = "idle"
    /\ rounds = 0
    /\ reached = {}
    /\ view = NoView

\* Mutant: a claim's earlier warrants are dropped when it gets a new one.
RecordReplacing(e) ==
    /\ log' = {o \in log : ~(o.kind = "warrant" /\ e.kind = "warrant" /\ o.claim = e.claim)} \cup {e}
    /\ UNCHANGED <<input, phase, rounds, reached, view>>

\* A writer appends an event.  Appending what is there already is no change.
Record(e) ==
    /\ log' = log \cup {e}
    /\ UNCHANGED <<input, phase, rounds, reached, view>>

\* resolve throws: the runner reports MALFORMED and holds nothing.
Refuse ==
    /\ phase = "idle"
    /\ ~WellFormed(log)
    /\ input' = log
    /\ view' = [status |-> "MALFORMED", of |-> log, supports |-> {}, claims |-> {}]
    /\ rounds' = 0
    /\ reached' = {}
    /\ UNCHANGED <<log, phase>>

\* A new command starts from nothing: no earlier view is carried over.
Resolve ==
    /\ phase = "idle"
    /\ WellFormed(log)
    /\ input' = log
    /\ phase' = "closing"
    /\ rounds' = 0
    /\ reached' = {}
    /\ view' = NoView
    /\ UNCHANGED log

Round ==
    /\ phase = "closing"
    /\ rounds < Nodes(input)
    /\ rounds' = rounds + 1
    /\ reached' = Advance(input, reached)
    /\ UNCHANGED <<log, input, phase, view>>

\* Mutant: the result is published as the fold of the newest log.
PublishAsNewest ==
    /\ phase = "closing"
    /\ rounds = Nodes(input) \/ Advance(input, reached) = reached
    /\ phase' = "idle"
    /\ view' = [status |-> "OK", of |-> log, supports |-> reached,
                claims |-> ProjectClaims(input, reached)]
    /\ UNCHANGED <<log, input, rounds, reached>>

\* Mutant: the first round is taken for the whole closure.
PublishFirstRound ==
    /\ phase = "closing"
    /\ rounds = 1
    /\ phase' = "idle"
    /\ view' = [status |-> "OK", of |-> input, supports |-> reached,
                claims |-> ProjectClaims(input, reached)]
    /\ UNCHANGED <<log, input, rounds, reached>>

\* Mutant: a result is dropped, and waited for, when the log has moved on.
PublishIfNewest ==
    /\ phase = "closing"
    /\ input = log
    /\ rounds = Nodes(input) \/ Advance(input, reached) = reached
    /\ phase' = "idle"
    /\ view' = [status |-> "OK", of |-> input, supports |-> reached,
                claims |-> ProjectClaims(input, reached)]
    /\ UNCHANGED <<log, input, rounds, reached>>

\* The bound is the number of support nodes; the compiled closure also stops
\* as soon as a round adds nothing.
Publish ==
    /\ phase = "closing"
    /\ \/ rounds = Nodes(input)
       \/ Advance(input, reached) = reached
    /\ phase' = "idle"
    /\ view' = [status |-> "OK", of |-> input, supports |-> reached,
                claims |-> ProjectClaims(input, reached)]
    /\ UNCHANGED <<log, input, rounds, reached>>

Next ==
    \/ \E e \in Events \ log : Record(e)
    \/ Refuse
    \/ Resolve
    \/ Round
    \/ Publish

Spec == Init /\ [][Next]_vars

\* A runner is a terminating function that its caller waits for: once started
\* it takes its rounds and prints its result.  Writers need never write.
FairSpec == Spec /\ WF_vars(Round) /\ WF_vars(Publish)

-----------------------------------------------------------------------------
(***************************************************************************)
(* Properties                                                              *)
(***************************************************************************)
TypeOK ==
    /\ log \subseteq Events /\ InitLog \subseteq log
    /\ input \subseteq log
    /\ phase \in {"idle", "closing"}
    /\ rounds \in Nat
    /\ reached \subseteq WarrantIds(input)
    /\ view.status \in {"NONE", "OK", "MALFORMED"}
    /\ view.of \subseteq log
    /\ view.supports \subseteq WarrantIds(view.of)

\* The kernel implements its abstract specification: whatever is published is
\* the least closed support of a log the campaign has had.  In particular the
\* bound on the rounds is never too small.
Custody == INSTANCE GP50Custody
               WITH Events <- Events, InitLog <- InitLog, WellFormed <- WellFormed,
                    WarrantIds <- WarrantIds, Closed <- Closed, ProjectClaims <- ProjectClaims,
                    log <- log, view <- view
ImplementsCustody == Custody!CustodySpec

\* Cycles seed nothing: the rounds never reach a warrant outside any closed
\* set of warrants, so a loop of warrants that only cite each other is never
\* supported, however many rounds run.
ReachedIsLeast ==
    \A S \in SUBSET WarrantIds(input) : Closed(input, S) => reached \subseteq S

\* Every supported warrant is in custody and admitted, with every premise it
\* names supported in the same fold: nothing is held on a withdrawn, replaced
\* or out-of-date warrant, at any depth.
ViewIsGrounded ==
    \A id \in view.supports :
        \E w \in WarrantsIn(view.of) : w.id = id /\ Enabled(view.of, w, view.supports)

\* A runner that has started publishes.
FoldTerminates == (phase = "closing") ~> (phase = "idle")

\* Recording a warrant or a declaration never takes a support away, short of
\* making the log malformed: support is lost to a withdrawal, a replacement or
\* a newer version of a claim, and to nothing else.
LossNeedsLifecycle ==
    [][ \A e \in log' \ log :
            e.kind \in {"declare", "warrant"} /\ WellFormed(log') /\ WellFormed(log)
            => Closure(log) \subseteq Closure(log') ]_log

\* A retraction takes away its target and what cannot do without it, and
\* restores nothing: every other warrant that is lost names a lost premise.
RetractionIsLocal ==
    [][ \A e \in log' \ log :
            e.kind = "retract" /\ WellFormed(log') /\ WellFormed(log) =>
            LET lost == Closure(log) \ Closure(log')
            IN  /\ e.target \notin Closure(log')
                /\ Closure(log') \subseteq Closure(log)
                /\ \A w \in WarrantsIn(log) :
                      w.id \in lost \ {e.target} => Premises(w) \cap lost # {} ]_log

\* Evidence that certifies nothing (a failed or timed out attempt, a citation,
\* an assertion, a theorem name no binder validates) leaves every verdict as
\* it was, unless its id was already another warrant's.
FailureIsInert ==
    [][ \A e \in log' \ log :
            /\ e.kind = "warrant"
            /\ e.evidence.kind \in {"attempt", "citation", "assertion", "theorem"}
            /\ e.id \notin WarrantIds(log)
            /\ \A l \in Links(log) : e.id \notin {l[1], l[2]}
            => /\ WellFormed(log') <=> WellFormed(log)
               /\ WellFormed(log) => Closure(log') = Closure(log) ]_log

\* A malformed log is repaired only by a newer binding of a claim whose
\* bindings conflict or by the arrival of a missing endpoint; conflicting
\* contents, cycles and a withdrawn-and-replaced warrant are for good.
RepairIsLimited ==
    [][ ~WellFormed(log) /\ WellFormed(log') =>
            \/ ConflictingCurrents(log) # {}
            \/ MissingEndpoints(log) # {} ]_log

=============================================================================
