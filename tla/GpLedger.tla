------------------------------ MODULE GpLedger -------------------------------
(***************************************************************************)
(* The gp CLI (tools/gp.py): commands on the branches of a campaign.  A    *)
(* branch is a directory with a ledger, receipt files and campaign.json.   *)
(* A command reads the ledger once, decides everything it will do from     *)
(* what it read, and then does it one file or one record at a time; there  *)
(* is no lock, so commands of several processes interleave, and a process  *)
(* that is killed leaves what it has done.  A command that refuses before  *)
(* it writes changes nothing and is no step here.                          *)
(*                                                                         *)
(* A campaign with a DECIDE goal has claims that gp files itself: the goal *)
(* and its negation, and with each candidate cover its spine.  After each  *)
(* command that filed something gp offers the receipts by which the kernel *)
(* may now hold them (goal_sync); like any receipt, the fold decides.      *)
(* Contradictory claims are left out.                                      *)
(***************************************************************************)
EXTENDS GpRecords, SequencesExt

CONSTANTS
    Branches,
    Procs,
    Statements,     \* the contents campaign.json may have
    Draft,          \* what it has before the ledger is started
    Starts,         \* [recs, keys, statements, commands]: the ledger every branch
                    \* was copied with, the claims that may be filed and contents
                    \* campaign.json may get, and a bound: commands and edits
    Offers,         \* the [key, receipt] entries that may be submitted
    Batches,        \* the files submit-batch may be given: sequences of entries
    Broken,         \* the receipts that make a fold fail to elaborate
    Killable,       \* the commands that may be killed
    GoalClaims,     \* the goal and its negation, <<>> without one
    Covers,         \* the [cover, spine, retry] that may be filed: a cover, its
                    \* spine, and the receipt offered for an exhaustive list
    Proposals,      \* the [key, receipt] that gp may offer by itself
    Rounds          \* how many it offers after one command, at most

ASSUME BrokenType  == Broken \subseteq Receipts
ASSUME DraftType   == Draft \in Statements
ASSUME RoundsType  == Rounds \in Nat
ASSUME OffersType  == Offers \subseteq [key : Keys, receipt : Receipts]
ASSUME BatchesType == \A batch \in Batches : batch \in Seq([key : Keys, receipt : Receipts])

VARIABLES
    ledger,     \* per branch, its records
    files,      \* per branch, the receipt files in it
    statement,  \* per branch, what campaign.json holds
    proc,       \* per process, Idle or the command it is running
    allowed     \* what the users may still do: [keys, statements, commands]

vars == <<ledger, files, statement, proc, allowed>>

Idle == [cmd |-> "idle"]

Records ==
    [op : {"init"}, statement : Statements]
    \cup [op : {"restate"}, old : Statements, new : Statements]
    \cup [op : {"claim", "withdraw"}, key : Keys]
    \cup [op : {"support", "refused"}, key : Keys, receipt : Receipts]
    \cup [op : {"merge"}, from : Branches, upTo : Nat]

ASSUME StartsType ==
    Starts \subseteq [recs : Seq(Records), keys : SUBSET Keys, statements : SUBSET Statements,
                     commands : Nat]

Support(e)  == [op |-> "support", key |-> e.key, receipt |-> e.receipt]
Refused(e)  == [op |-> "refused", key |-> e.key, receipt |-> e.receipt]
Withdraw(k) == [op |-> "withdraw", key |-> k]

ReceiptsIn(recs) == {recs[i].receipt : i \in At(recs, "support")}

-----------------------------------------------------------------------------
(***************************************************************************)
(* What a command decides from the records it read                         *)
(***************************************************************************)
Trial(entries) ==
    [k \in {e.key : e \in entries} |-> (CHOOSE e \in entries : e.key = k).receipt]

\* Mutant: a receipt is accepted by its own check, with no trial fold.
VerdictUnfolded(recs, e) ==
    IF <<e.key, e.receipt>> \in Valid THEN Support(e) ELSE Refused(e)

\* One receipt, one fold of the ledger with the receipt swapped in.
Verdict(recs, e) ==
    IF e.receipt \notin Broken /\ e.key \in HeldWith(recs, Trial({e}))
    THEN Support(e) ELSE Refused(e)

\* Mutant: the claim is not looked up.
SubmittableUnfiled(recs) == Keys \ Withdrawn(recs)

Submittable(recs) == Claims(recs) \ Withdrawn(recs)

\* Many receipts, one fold: what is kept holds without the refused ones, and
\* nothing more drops.  What held only beside a refused one is retried one at
\* a time, and so is the whole batch if it does not elaborate.
BatchPlan(recs, batch) ==
    LET prepared == Only(batch, {e \in ToSet(batch) : e.key \in Submittable(recs)})
        heldOf(es) == {e \in es : e.key \in HeldWith(recs, Trial(es))}
        held  == heldOf(ToSet(prepared))
        keep[n \in 0..Len(prepared)] == IF n = 0 THEN held ELSE heldOf(keep[n - 1])
        kept  == keep[Len(prepared)]
        first == Only(prepared, ToSet(prepared) \ (held \ kept))
    IN  IF \E e \in ToSet(prepared) : e.receipt \in Broken
        THEN [todo |-> <<>>, retry |-> prepared]
        ELSE [todo  |-> [i \in DOMAIN first |->
                            IF first[i] \in kept THEN Support(first[i]) ELSE Refused(first[i])],
              retry |-> Only(prepared, held \ kept)]

\* Mutant: the folds before and after are swapped.
LostToSwapped(recs, k) == (Held(Append(recs, Withdraw(k))) \ Held(recs)) \ {k}

\* The other claims that would lose their hold.
LostTo(recs, k) == (Held(recs) \ Held(Append(recs, Withdraw(k)))) \ {k}

\* Mutant: a support that the merged order buries is not filed again.
MergePlanUnrestated(ours, theirs) ==
    LET new   == Only(theirs, Contents(theirs) \ Contents(ours))
        so    == Supports(ours)
        st    == Supports(theirs)
        rec(s, k) == Support([key |-> k, receipt |-> s[k]])
        both  == DOMAIN so \cap DOMAIN st
        stay  == {k \in both : rec(st, k) \in Contents(ours)}
        give  == {k \in both \ stay : rec(so, k) \in Contents(theirs)}
    IN  [new |-> new, split |-> both \ (stay \cup give)]

\* The merged ledger is ours, then every record of theirs that ours lacks.
\* Where the supports differ the one the other branch has seen gives way; a
\* claim is split when neither has seen the other's.  A chosen support that
\* the merged order would bury is filed again at the end.
MergePlan(ours, theirs) ==
    LET new   == Only(theirs, Contents(theirs) \ Contents(ours))
        so    == Supports(ours)
        st    == Supports(theirs)
        rec(s, k) == Support([key |-> k, receipt |-> s[k]])
        both  == DOMAIN so \cap DOMAIN st
        stay  == {k \in both : rec(st, k) \in Contents(ours)}
        give  == {k \in both \ stay : rec(so, k) \in Contents(theirs)}
        chosen == [k \in stay \cup give |-> IF k \in stay THEN so[k] ELSE st[k]]
        late  == Supports(ours \o new)
        buried == {k \in DOMAIN chosen : late[k] # chosen[k]}
    IN  [new   |-> new \o SetToSeq({rec(chosen, k) : k \in buried}),
         split |-> both \ (stay \cup give)]

LabelConflict(recs) ==
    \E k, l \in Claims(recs) : k # l /\ LabelOf[k] = LabelOf[l]

\* Mutant: the labels of the merged ledger are not compared.
MergeableUnlabelled(ours, theirs) ==
    LET plan == MergePlan(ours, theirs)
    IN  /\ theirs # <<>>
        /\ BoundStatement(ours) = BoundStatement(theirs)
        /\ theirs[1] = ours[1]
        /\ plan.new # <<>>
        /\ plan.split = {}

\* No two claims share a key, a hash of the claim, so only labels can collide.
Mergeable(ours, theirs) ==
    LET plan == MergePlan(ours, theirs)
        merged == ours \o plan.new
    IN  /\ theirs # <<>>
        /\ BoundStatement(ours) = BoundStatement(theirs)
        /\ theirs[1] = ours[1]
        /\ plan.new # <<>>
        /\ plan.split = {}
        /\ ~LabelConflict(merged)
        /\ Withdrawn(plan.new) \subseteq Claims(merged)

\* What a merge appends: the new records, then a record of the merge itself.
MergedRecords(new) == Append(new, [op |-> "merging"])

-----------------------------------------------------------------------------
(***************************************************************************)
(* The DECIDE goal.  Two claims say the goal and its negation.  The kernel *)
(* holds the first by rule realize from a realization; it holds a spine by *)
(* rule spine from one exclusion for each candidate graph, and the second  *)
(* goal claim by rule decide from a spine and its cover.                   *)
(***************************************************************************)
ClaimRecord(k) == [op |-> "claim", key |-> k]

\* ensure_goal_claims
GoalRecords(recs) ==
    LET missing == Only(GoalClaims, Keys \ Claims(recs))
    IN  [i \in DOMAIN missing |-> ClaimRecord(missing[i])]

\* The ledger as every command that files something finds it.
Filed(recs) == recs \o GoalRecords(recs)

Spines == {c.spine : c \in Covers}

\* A batch names a claim once: the code refuses every entry but the first.
ASSUME BatchesDistinct ==
    \A batch \in Batches : \A i, j \in DOMAIN batch : batch[i].key = batch[j].key => i = j

\* A label that is taken is primed until it is free: the goal's claims stand
\* here with the labels they come to.
ASSUME GoalsType ==
    /\ GoalClaims \in Seq(Keys)
    /\ \A i, j \in DOMAIN GoalClaims : GoalClaims[i] = GoalClaims[j] => i = j
    /\ \A i \in DOMAIN GoalClaims, k \in Keys : LabelOf[k] = LabelOf[GoalClaims[i]] => k = GoalClaims[i]

\* The spine of cover L is labelled `L:spine`.
ASSUME CoversType ==
    \A c \in Covers : /\ c.cover \in Keys /\ c.spine \in Keys
                      /\ LabelOf[c.cover] # LabelOf[c.spine]
                      /\ c.retry \in Seq([key : {c.cover}, receipt : Receipts])

\* What gp offers by itself it offers for the goal's claims and for spines.
ASSUME ProposalsType ==
    /\ IsFiniteSet(Proposals)
    /\ Proposals \subseteq [key : Range(GoalClaims) \cup Spines, receipt : Receipts]

\* The realize receipt of a claim filed as a realization.
RealizedBy(k) == SetToSeq({e \in Proposals : e.key \notin Spines /\ PremisesOf[e.receipt] = {k}})

\* Mutant: the spines of the covers are not looked at.
PendingSpineless(recs) ==
    LET supported == DOMAIN Supports(recs) \ RestsOnWithdrawn(recs)
    IN  /\ Range(GoalClaims) \subseteq Claims(recs) \ supported
        /\ \E e \in Proposals : /\ e.key \in Range(GoalClaims) \ supported
                               /\ PremisesOf[e.receipt] \subseteq supported

\* goal_pending: whether a rule might apply, as far as it shows without a fold.
Pending(recs) ==
    LET supported == DOMAIN Supports(recs) \ RestsOnWithdrawn(recs)
    IN  /\ Range(GoalClaims) \subseteq Claims(recs) \ supported
        /\ \E e \in Proposals : /\ e.key \in Claims(recs) \ supported
                               /\ PremisesOf[e.receipt] \subseteq supported

Proves(e) == <<e.key, e.receipt>> \in Valid

\* goal_proposals: the rules whose premises are held; for a spine one choice of
\* exclusions, of the right frame if there are such.
Proposed(recs) ==
    LET held == Held(recs)
        ripe == {e \in Proposals : /\ e.key \in Claims(recs) \ held
                                   /\ PremisesOf[e.receipt] \subseteq held}
    IN  {e \in ripe : e.key \in Spines /\ ~Proves(e) => ~ \E f \in ripe : f.key = e.key /\ Proves(f)}

\* A proposal that was refused is made again only if that was for want of
\* premises (goal_attempt).
Worth(recs) == {e \in Proposed(recs) : Proves(e) \/ Refused(e) \notin Contents(recs)}

-----------------------------------------------------------------------------
StartFrom(start) ==
    /\ ledger = [b \in Branches |-> start.recs]
    /\ files = [b \in Branches |-> ReceiptsIn(start.recs)]
    /\ statement = [b \in Branches |-> IF start.recs = <<>> THEN Draft
                                       ELSE BoundStatement(start.recs)]
    /\ allowed = [keys |-> start.keys, statements |-> start.statements,
                  commands |-> start.commands]

Init == /\ \E start \in Starts : StartFrom(start)
        /\ proc = [p \in Procs |-> Idle]

Spend ==
    /\ allowed.commands > 0
    /\ allowed' = [allowed EXCEPT !.commands = @ - 1]

\* The commands that have gp offer what the goal's rules need, after their own.
Syncing == {"submit", "submit-batch", "cover"}

\* A command starts: it reads the ledger and campaign.json, and has records to
\* append and receipts to submit one at a time.
Start(p, b, cmd, todo, retry) ==
    /\ proc[p] = Idle
    /\ Spend
    /\ proc' = [proc EXCEPT ![p] =
                    [cmd |-> cmd, branch |-> b, seen |-> ledger[b],
                     todo |-> todo, retry |-> retry,
                     rounds |-> IF cmd \in Syncing THEN Rounds ELSE 0]]
    /\ UNCHANGED <<ledger, files, statement>>

\* What every command but init and restate checks first.
Bound(b) == ledger[b] # <<>> /\ BoundStatement(ledger[b]) = statement[b]

\* A missing receipt file refuses every fold.
Readable(b) == \A k \in DOMAIN Supports(ledger[b]) : Supports(ledger[b])[k] \in files[b]

\* The user edits campaign.json.
Edit(b, s) ==
    /\ s \in allowed.statements /\ s # statement[b]
    /\ Spend
    /\ statement' = [statement EXCEPT ![b] = s]
    /\ UNCHANGED <<ledger, files, proc>>

InitLedger(p, b) ==
    /\ ledger[b] = <<>>
    /\ Start(p, b, "init", <<[op |-> "init", statement |-> statement[b]]>> \o GoalRecords(<<>>),
             <<>>)

Restate(p, b) ==
    /\ ledger[b] # <<>>
    /\ BoundStatement(ledger[b]) # statement[b]
    /\ Start(p, b, "restate",
             <<[op |-> "restate", old |-> BoundStatement(ledger[b]), new |-> statement[b]]>>, <<>>)

\* Every command that files something first files the goal's claims if the
\* ledger has not got them, also when it then refuses.
FileGoal(p, b) ==
    /\ Bound(b) /\ GoalRecords(ledger[b]) # <<>>
    /\ Start(p, b, "claim", GoalRecords(ledger[b]), <<>>)

\* A claim filed as the goal's realization is offered for it at once.
Claim(p, b, k) ==
    /\ Bound(b)
    /\ k \in allowed.keys
    /\ LabelOf[k] \notin LabelsTaken(Filed(ledger[b]))
    /\ Start(p, b, "claim", Append(GoalRecords(ledger[b]), ClaimRecord(k)), RealizedBy(k))

\* A cover is filed with its spine, and the kernel's own check of an exhaustive
\* list is offered.
Cover(p, b, c) ==
    /\ Bound(b) /\ Readable(b)
    /\ {c.cover, c.spine} \subseteq allowed.keys
    /\ {LabelOf[c.cover], LabelOf[c.spine]} \cap LabelsTaken(Filed(ledger[b])) = {}
    /\ Start(p, b, "cover",
             GoalRecords(ledger[b]) \o <<ClaimRecord(c.cover), ClaimRecord(c.spine)>>, c.retry)

Submit(p, b, e) ==
    /\ Bound(b) /\ Readable(b)
    /\ e.key \in Submittable(Filed(ledger[b]))
    /\ Start(p, b, "submit", GoalRecords(ledger[b]), <<e>>)

Batch(p, b, batch) ==
    /\ Bound(b) /\ Readable(b)
    /\ LET plan == BatchPlan(Filed(ledger[b]), batch)
       IN  /\ plan.todo \o plan.retry # <<>>
           /\ Start(p, b, "submit-batch", GoalRecords(ledger[b]) \o plan.todo, plan.retry)

\* The next of the receipts that are submitted one at a time is decided on the
\* ledger as the command knows it.  A submit that is refused ends there.
SubmitNext(p) ==
    /\ proc[p] # Idle
    /\ proc[p].todo = <<>> /\ proc[p].retry # <<>>
    /\ LET rec == Verdict(proc[p].seen, Head(proc[p].retry))
       IN  proc' = [proc EXCEPT ![p].todo   = <<rec>>,
                                ![p].retry  = Tail(@),
                                ![p].rounds = IF proc[p].cmd = "submit" /\ rec.op = "refused"
                                              THEN 0 ELSE @]
    /\ UNCHANGED <<ledger, files, statement, allowed>>

\* goal_sync: a receipt that is worth it is offered for a claim of the goal's.
\* It stops when none is, or has had its rounds.
SyncNext(p) ==
    /\ proc[p] # Idle
    /\ proc[p].todo = <<>> /\ proc[p].retry = <<>> /\ proc[p].rounds > 0
    /\ \E e \in Worth(proc[p].seen) :
        LET rec == Verdict(proc[p].seen, e)
        IN  proc' = [proc EXCEPT ![p].todo   = <<rec>>,
                                 ![p].rounds = IF rec.op = "support" THEN @ - 1 ELSE @]
    /\ UNCHANGED <<ledger, files, statement, allowed>>

WithdrawClaim(p, b, k, cascade) ==
    /\ Bound(b) /\ Readable(b)
    /\ k \in Submittable(ledger[b]) \ (Range(GoalClaims) \cup Spines)
    /\ cascade \/ LostTo(ledger[b], k) = {}
    /\ Start(p, b, IF cascade THEN "withdraw --cascade" ELSE "withdraw", <<Withdraw(k)>>, <<>>)

\* A merge reads its own ledger first and the other branch's later.
BeginMerge(p, b) ==
    /\ Bound(b) /\ Readable(b)
    /\ Start(p, b, "merge", <<>>, <<>>)

PlanMerge(p, other) ==
    /\ proc[p].cmd = "merge" /\ proc[p].todo = <<>>
    /\ LET ours == proc[p].seen
           theirs == ledger[other]
       IN  IF Readable(other) /\ Mergeable(ours, theirs)
           THEN proc' = [proc EXCEPT ![p] =
                    [cmd |-> "merge", branch |-> @.branch, seen |-> ours,
                     todo |-> MergedRecords(MergePlan(ours, theirs).new), retry |-> <<>>, rounds |-> 0,
                     other |-> other, ours |-> ours, theirs |-> theirs]]
           ELSE proc' = [proc EXCEPT ![p] = Idle]
    /\ UNCHANGED <<ledger, files, statement, allowed>>

Working(p) == proc[p] # Idle /\ proc[p].todo # <<>>

\* The receipt files that land before the next record does: a merge copies
\* all of them first, the other commands store each with its support.
Needed(p) ==
    ReceiptsIn(<<Head(proc[p].todo)>>)
        \cup (IF proc[p].cmd = "merge" THEN ReceiptsIn(proc[p].todo) ELSE {})

\* A receipt is stored or copied; one whose file is there is left alone.
Store(p, r) ==
    /\ Working(p)
    /\ r \in Needed(p) \ files[proc[p].branch]
    /\ files' = [files EXCEPT ![proc[p].branch] = @ \cup {r}]
    /\ UNCHANGED <<ledger, statement, proc, allowed>>

\* The merge record names the other ledger as it is when the record is made.
NextRecord(p) ==
    LET rec == Head(proc[p].todo)
    IN  IF rec.op = "merging"
        THEN [op |-> "merge", from |-> proc[p].other, upTo |-> Len(ledger[proc[p].other])]
        ELSE rec

Ended(command) ==
    /\ command.todo = <<>> /\ command.retry = <<>>
    /\ command.rounds = 0 \/ ~Pending(command.seen) \/ Worth(command.seen) = {}

\* What is left of a command after a record: nothing, or the rest of its work
\* on the ledger as it knows it.
After(p) ==
    LET rest == [proc[p] EXCEPT !.todo = Tail(@), !.seen = Append(@, NextRecord(p))]
    IN  IF Ended(rest) THEN Idle ELSE rest

\* Mutant: the record is appended before its receipt is stored.
WriteFirst(p) ==
    /\ Working(p)
    /\ ledger' = [ledger EXCEPT ![proc[p].branch] = Append(@, NextRecord(p))]
    /\ proc' = [proc EXCEPT ![p] = After(p)]
    /\ UNCHANGED <<files, statement, allowed>>

Write(p) ==
    /\ Working(p)
    /\ Needed(p) \subseteq files[proc[p].branch]
    /\ ledger' = [ledger EXCEPT ![proc[p].branch] = Append(@, NextRecord(p))]
    /\ proc' = [proc EXCEPT ![p] = After(p)]
    /\ UNCHANGED <<files, statement, allowed>>

\* The process is killed, or an error ends it, between two steps.
Crash(p) ==
    /\ proc[p] # Idle /\ proc[p].cmd \in Killable
    /\ proc' = [proc EXCEPT ![p] = Idle]
    /\ UNCHANGED <<ledger, files, statement, allowed>>

Next ==
    \/ \E b \in Branches, s \in Statements : Edit(b, s)
    \/ \E p \in Procs, b \in Branches :
        \/ InitLedger(p, b)
        \/ Restate(p, b)
        \/ BeginMerge(p, b)
        \/ FileGoal(p, b)
        \/ \E k \in Keys : Claim(p, b, k)
        \/ \E c \in Covers : Cover(p, b, c)
        \/ \E e \in Offers : Submit(p, b, e)
        \/ \E batch \in Batches : Batch(p, b, batch)
        \/ \E k \in Keys, cascade \in BOOLEAN : WithdrawClaim(p, b, k, cascade)
    \/ \E p \in Procs, other \in Branches : PlanMerge(p, other)
    \/ \E p \in Procs : SubmitNext(p) \/ SyncNext(p)
    \/ \E p \in Procs, r \in Receipts : Store(p, r)
    \/ \E p \in Procs : Write(p)
    \/ \E p \in Procs : Crash(p)

Spec == Init /\ [][Next]_vars

-----------------------------------------------------------------------------
(***************************************************************************)
(* Properties                                                              *)
(***************************************************************************)
\* Ledgers have the shape every reader counts on: one init record, first, and
\* every record that names a claim comes after that claim's.
WellFiled(recs) ==
    /\ recs = <<>> \/ At(recs, "init") = {1}
    /\ \A i \in At(recs, "support") \cup At(recs, "refused") \cup At(recs, "withdraw") :
          \E j \in At(recs, "claim") : j < i /\ recs[j].key = recs[i].key

TypeOK ==
    /\ ledger \in [Branches -> Seq(Records)]
    /\ \A b \in Branches : WellFiled(ledger[b])
    /\ files \in [Branches -> SUBSET Receipts]
    /\ statement \in [Branches -> Statements]
    /\ \A p \in Procs : proc[p] = Idle \/ proc[p].branch \in Branches
    /\ allowed \in [keys : SUBSET Keys, statements : SUBSET Statements, commands : Nat]

\* A set that has every claim whose accepted support is valid and rests on it,
\* whether or not the claim is withdrawn.
Stable(recs, S) ==
    \A k \in DOMAIN Supports(recs) :
        <<k, Supports(recs)[k]>> \in Valid /\ PremisesOf[Supports(recs)[k]] \subseteq S => k \in S

\* What would be held if nothing were withdrawn.
Ground(recs) ==
    {k \in DOMAIN Supports(recs) :
        \A S \in SUBSET DOMAIN Supports(recs) : Stable(recs, S) => k \in S}

Grounded(recs) == DOMAIN Supports(recs) \subseteq Ground(recs)

\* The ledger a campaign is copied with is one that gp could have written.
ASSUME StartsFiled ==
    \A start \in Starts :
        /\ WellFiled(start.recs) /\ ~LabelConflict(start.recs) /\ Grounded(start.recs)

Quiet(b) == \A p \in Procs : proc[p] # Idle => proc[p].branch # b

\* Process p writes the last record of its merge.
MergeEnds(p) == Working(p) /\ Head(proc[p].todo).op = "merging" /\ ledger' # ledger

Appended(b) == ledger'[b][Len(ledger'[b])]

\* A withdrawal reaches everything that rests on it: no claim is held whose
\* accepted support leads, through any chain of rules, to a withdrawn claim,
\* whatever was submitted or merged before or after.
NothingHeldRestsOnWithdrawn ==
    \A b \in Branches : Held(ledger[b]) \cap RestsOnWithdrawn(ledger[b]) = {}

\* A claim that was accepted stays held until it is withdrawn or something it
\* rests on is: resubmitting a support never breaks a hold, alone or in a batch.
AcceptedStaysHeld ==
    \A b \in Branches :
        Quiet(b) => DOMAIN Supports(ledger[b])
                        \subseteq Held(ledger[b]) \cup RestsOnWithdrawn(ledger[b])

\* Holds end by withdrawals alone: no other record of a command that decides
\* one receipt at a time takes any claim's hold away, whatever it supersedes and
\* also if it rests on something withdrawn; a withdrawal takes only what rests on
\* it, and without --cascade no other claim.
HoldsEndByWithdrawal ==
    [][ \A p \in Procs :
            proc[p] # Idle /\ proc[p].cmd \notin {"submit-batch", "merge"} /\ ledger' # ledger =>
            LET b == proc[p].branch
                lost == Held(ledger[b]) \ Held(ledger'[b])
            IN  lost # {} =>
                    /\ Appended(b).op = "withdraw"
                    /\ lost \subseteq RestsOnWithdrawn(ledger'[b])
                    /\ proc[p].cmd = "withdraw --cascade" \/ lost \subseteq {Appended(b).key} ]_vars

\* One label names one claim on a branch, however branches are merged.
LabelsNameOneClaim == \A b \in Branches : ~LabelConflict(ledger[b])

\* A completed merge joins the two ledgers it read: every record of both is
\* there, and every claim both had a support for keeps one of those two.
MergeIsAJoin ==
    [][ \A p \in Procs :
            MergeEnds(p) =>
            LET merged == ledger'[proc[p].branch]
                so == Supports(proc[p].ours)
                st == Supports(proc[p].theirs)
            IN  /\ Contents(proc[p].ours) \cup Contents(proc[p].theirs) \subseteq Contents(merged)
                /\ \A k \in DOMAIN so \cap DOMAIN st : Supports(merged)[k] \in {so[k], st[k]} ]_vars

\* Every receipt a ledger cites is in the branch's directory, also between two
\* steps of a command, after a crash, and with several processes at work.
ReceiptsInCustody == \A b \in Branches : ReceiptsIn(ledger[b]) \subseteq files[b]

\* A command that files something leaves no rule of the goal behind that would
\* hold: unless the goal is decided one way or the other, every claim of the
\* goal's is held whose rule has its premises held (goal_sync), though what is
\* worth a fold is told from supports, and no refused proposal is made again.
Syncs(p) == proc[p] # Idle /\ proc[p].rounds > 0 /\ proc'[p] = Idle /\ ledger' # ledger

GoalRulesApplied ==
    [][ \A p \in Procs :
            Syncs(p) =>
            LET recs == ledger'[proc[p].branch]
            IN  \/ Range(GoalClaims) \cap Held(recs) # {}
                \/ \A e \in Proposals :
                      Proves(e) /\ e.key \in Claims(recs) /\ PremisesOf[e.receipt] \subseteq Held(recs)
                          => e.key \in Held(recs) ]_vars

(***************************************************************************)
(* What the documentation says of merges and the code does not do          *)
(***************************************************************************)
MergedInto(ours, theirs) == ours \o MergePlan(ours, theirs).new

\* "Both merge orders give the same state": two branches that can be merged
\* either way round hold the same claims afterwards.
MergeOrdersAgree ==
    \A b, c \in Branches :
        /\ Quiet(b) /\ Quiet(c)
        /\ Mergeable(ledger[b], ledger[c]) /\ Mergeable(ledger[c], ledger[b])
        => Held(MergedInto(ledger[b], ledger[c])) = Held(MergedInto(ledger[c], ledger[b]))

\* What merge prints as not held: it folds its own ledger again, to compare,
\* only when a withdrawal came from the other branch, and of the claims that
\* came from there it names those that are, or rest on, withdrawn ones.
ListedLosses(ours, new, merged) ==
    (IF Withdrawn(new) # {} THEN Held(ours) \ Held(merged) ELSE {})
    \cup {k \in Claims(new) \cup DOMAIN Supports(new) :
            k \in RestsOnWithdrawn(merged) \ Held(merged)}

\* "Merge lists any claim here that is no longer held."
MergeListsLosses ==
    [][ \A p \in Procs :
            MergeEnds(p) =>
            LET ours == proc[p].ours
                merged == ledger'[proc[p].branch]
            IN  Held(ours) \ Held(merged)
                    \subseteq ListedLosses(ours, MergePlan(ours, proc[p].theirs).new, merged) ]_vars

=============================================================================
