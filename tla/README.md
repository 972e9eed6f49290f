# Grand Portage in TLA+

Grand Portage keeps campaigns of mathematical claims: people and programs file
claims, submit certificates for them, withdraw claims, and merge branches of a
campaign; what is *held* is recomputed from the records every time, by a kernel
that trusts no record's word for its own success. This directory models that
core, checks it with TLC and proves its main safety properties with TLAPS.

    tlc -workers 2 -config MCGP50Fold.cfg MCGP50Fold      # and the other .cfg files
    tlapm GP50FoldProofs.tla                              # and the other *Proofs modules

## The system

The repository holds two generations of the program.

**The current line (0.50 and later)**

| part | code | state | operations |
|---|---|---|---|
| kernel | `phase2/lean/GP50/*.lean` | none between runs: a runner is a function from a registry and an event log to what is held | `resolve`, `requirements`, `closure`, `projectClaims`, `reviewRelease` |
| profile packages | `profile/GPProfile/*.lean` | none | polynomial certificates as an admission of the kernel; a guard for merges |
| binding packages | `binding/` | none | proofs that certificates mean what the claims say |
| `gp` command | `tools/gp.py` | per branch: `ledger.jsonl`, `receipts/`, `campaign.json` | init, restate, claim, submit, submit-batch, withdraw, merge; status, explain, frontier, tailings, emit-lean |
| DECIDE goals | `tools/gp.py` 791-1045 | claims that `gp` files itself | cover, goal_sync, file_goal_family |
| runner builds | `tools/gp.py` 510-760 | executable and stamp files | stale, lake_build, write_stamp |
| Lane P | `tools/gp_lanep.py` | work directory | searches for certificates and submits them |

**The frozen 0.37 engine** (`grandportage/`)

| part | code | state | operations |
|---|---|---|---|
| graph store | `store.py` | `graph.jsonl`, an event log | append (judge a batch against what folds, then write), load, errata, supersession and retirement |
| kernel and check | `kernel.py`, `field.py`, `check.py` | none: a walk over the graph | transport of claims along edges, case splits, taint, the clean list |
| verdicts | `verify.py`, `authority*.py` | verdict events of the log | `gp verify`, supplied certificates |
| session | `hook.py`, `cli.py`, `work.py` | `baseline.json`, `work.jsonl`, a lock file | tool-call gate, accept, work records |
| solver calls | `cas.py`, `artifacts.py` | a child process, three threads, objects named by their contents | run_cas, persist |
| the rest | exact algebra, campaign and release files, projections, the MCP server | | |

How they interact: `gp` appends records to a ledger, turns the whole ledger into
a registry and an event log (`surface`), runs the profile's runner as a child
process and reads back what is held. Commands share nothing but files; there is
no lock (the work log of 0.37 is the exception). In the old engine a solver's
answer becomes a model, an edge and a note of the execution; a check walks the
inferences over the edges under the verdicts the log holds; a hook reads graph and
baseline before every tool call. Branches of a campaign are directories that start as copies of each
other, and meet when one is merged into another.

What is hard about it:

- *custody*: withdrawal, replacement and new versions cut warrants off, and every
  claim that rests on one, through any chain, must go with them and nothing else;
- *cycles*: rules may make claims rest on each other, and a loop must not hold
  itself up;
- *order*: the kernel reads a set of events, but `gp` reads a sequence (later
  supports win, the latest restatement binds), and a merge appends one sequence
  to another;
- *stale reads*: a command decides on the ledger it read at its start;
- *crashes*: each command is several files and records, written one at a time;
- *authority*: what an edge licenses depends on gates, on verdicts that may be
  missing, inconclusive or withdrawn, and on what earlier edges did to the claim;
- *processes*: a solver that hangs, floods its pipes, dies or leaves descendants,
  read by threads while a clock runs.

`PROJECT.json` lists every component and, under `hazards`, each place where this
bites, with the properties that watch it or the reason why none does.

## The modules

| module | what it models |
|---|---|
| `GP50Events` | the event log: `resolve`'s checks, one set of offenders each, and `live` |
| `GP50Admission` | receipts, covers, narrowing, `requirements`, one round of the closure, conflict review |
| `GP50Custody` | the abstract promise: a log that grows, and a view that is the *least closed* support of some log the campaign had |
| `GP50Fold` | the runner: `Resolve` or `Refuse`, then `Round` after `Round`, then `Publish`, while writers `Record` |
| `GP50Meaning` | truth of statements in contexts, soundness of receipts, and what support then means |
| `GP50FoldProofs` | theorems about the fold, its logs and its meaning; the fold implements `GP50Custody` |
| `GpRecords` | how `gp` reads a ledger: claims, supports, withdrawals, bound statement, what is held |
| `GpLedger` | the `gp` commands on branches: `Start` (read and decide), `Store` and `Write` (one receipt file, one record), `Crash` |
| `GpRecordsProofs`, `GpLedgerProofs` | lemmas about what a list of records says; theorems about ledgers |
| `GpBuild` | which executable a `gp` command runs: `Check`, `Identify`, `Compile`, `Link`, `Stamp`, `Finish`, with edits, builds by hand, failures and kills |
| `GpBuildProofs` | a theorem about runner builds |
| `GpTransport` | the transport table of 0.37: point relations, gates, field contexts, case splits |
| `GpAudit` | verifiers that answer for a graph, supplied proofs, withdrawals, and the walk of a check, premise by premise and edge by edge |
| `GpAuditProofs` | theorems about walks and verdicts |
| `GpStore` | how a log is read: records, errata, order of application, verdicts, supersession, references, bridges; and the findings that block |
| `GpSession` | the processes of a campaign: `append`, the hook, `accept`, the work log with its lock, and kills |
| `GpSessionProofs` | theorems about the hook, the files, the work log, and how a log reads and breaks |
| `GpSolver` | one call of a solver: process, group and descendants, threads, pipes, timeout, judgement, publication |
| `GpSolverProofs` | theorems about solver calls |
| `Iterations` | lemmas: what a monotone step reaches when it is repeated, and least and greatest numbers |
| `MCGP50Fold`, `MCGpLedger`, `MCGpAudit`, `MCGpSession`, `MCGpSolver` | small instances for TLC |

`GpAudit` extends `GpTransport`, and `GpSession` extends `GpStore`.
`GP50Events`, `GP50Admission` and `GP50Fold` extend one another; `GP50Fold`
instantiates `GP50Custody` and is proved to implement it. `GP50Custody` knows a log
only through four constant operators (`WellFormed`, `WarrantIds`, `Closed`,
`ProjectClaims`), for which the kernel's definitions stand in the instance.
`GpRecords` takes from
the kernel only what `ImplementsCustody` says: what is held is the
least closed set. It has no copy of the rounds.

### The kernel

A log is a *set* of events. Every list that `resolve` reads goes through
`canonicalIds` or `eraseDups` first, and `EventOrderProofs.lean` proves that order
and repetition are invisible. `WellFormed` is the conjunction of the checks that
`resolve` makes, in the set form of each: two contents for one newest binding, two
contents for one warrant id, a supersession of itself, of something missing, of
something withdrawn, or in a circle. `Live` is custody. `Admitted` and `Premises`
are the two halves of `requirements` (`none`, or the warrants it needs).

Data is abstract where no property looks at it. A scope is the set of contexts it
contains (Lean's `Profile` gives it that meaning); a binding is a family, which
covers and narrowing compare, and whatever else. A profile's overlap checker is only
sound: a witness is a shared context, and none may mean that it could not tell.
`Undecided` is the pairs of scopes it finds none for, any at all; the scoped
runner's checker decides every pair (`Undecided = {}`). The exact replay of a receipt's
cofactors is the Boolean `replays`. `refuseAll`, `theoremWarrant` and citations
are inert in the runners modelled here, so they are one more kind of evidence
that admits nothing. The indexed twins in the source (`resolveFast`,
`supportNodesFast`, `closureFast`) are proved equal there by `csimp` lemmas and
have no twin here, except that `Publish` may stop as soon as a round adds nothing,
as `closureFast` does.

A runner has no memory between runs, and this is `Resolve` clearing everything.
`Record` may happen at any time: the log moves on while a runner works on what it
read.

### The gp command

A command is one process: it reads ledger and `campaign.json` when it starts
(`Ledger.__init__`, `verify_statement`), decides from what it read all that it
will write, and then writes, one receipt file or one line at a time. So `Start`
computes `todo`, the records to append, and `Store` and `Write` do the rest, with
other processes in between. `SubmitNext` is `submit_one` for the receipts of a
batch that are retried one at a time, each decided on the ledger as the process
knows it (`seen`), which includes what it has itself appended. A merge reads its
own ledger at `BeginMerge` and the other at `PlanMerge`, because the code does; it
copies all receipts before it appends anything, and reads the other ledger once
more for the record of the merge (`NextRecord`).

A command that refuses before it has written is no step of the model.
`AcceptedStaysHeld` and others rest on the refusals being the guards of `Start`.

Every command that files something finds the goal's claims filed: its guard and its
records are read off `Filed(ledger)`, the ledger with what `ensure_goal_claims` is
about to append. `SyncNext` takes another round only while rounds are left.

A record is what the source calls its `content`, without its time. A claim's key
stands for its label and statement; `LabelOf` gives the label, and different keys
may have one label. `Valid` and `PremisesOf` are what the profile's checker says
of a receipt and a claim, `Broken` the receipts on which a fold does not
elaborate.

A DECIDE goal makes `gp` file claims by itself. `Cover` and the filing commands
file them (`GoalRecords`: the goal's two claims, a cover, its spine), and then
`SyncNext` is one round of `goal_sync`: if the pre-check `Pending`, which looks at
supports and not at the fold, finds anything, the proposals the fold allows are
offered one after the other until one is accepted, at most `Rounds` times.
`Proposals` are the rule instances a goal may ever need; that two graphs are the
same (`canon`) is not decided in the model but given by them.

Left out of these commands: contradictory claims (the kernel's theorem
`FreezeIsUnsound` says they need an unsound receipt, and conflicts never filter
what is held), the routing of claims to two runners, the setting aside of claims
whose text does not parse, and what a goal allows a claim's text to say.

### Runner builds

What a fold says is worth as much as the executable that ran it. The first fold of
a command compares the stamp with the sources (`Check`, which is `stale`), and
builds if they differ: it hashes the sources (`Identify`), lets lake build
(`Compile` when it reads the sources, `Link` when the executable is replaced) and
writes the stamp with the hash it took *before* (`Stamp`). A build by hand is
another process, which stamps nothing. Contents are numbers, as `tree_identity`
hashes contents and ignores times. `since` and `latest` are history: the contents a
command could have seen since its check, and the newest an executable was built from.

Neither `gp` nor anything else that is part of the repository keeps two builds
apart, so builds overlap and may end in any order. One thing is assumed of lake: a
build reads all its sources at one moment.

### The graph store and its session

A line of `graph.jsonl` is the header, an event's name, or `"torn"`; what an event
is and says is a constant (`Event`), and whether its own fields are in order is one
Boolean of it (`sound`). `apply_all` is said in terms of the places of a batch: `Kept`
are those that errata do not void, `Precedes` is the order they are applied in
(certificates first, then the rest as they stand), `Before` is what the graph holds
when a record is applied, and `Applies` what its `_apply_` method asks of that: a
claim its certificate, a doubt that quotes its record and a verdict (`ComesAfter`)
what they are about. Whether a record can be applied depends on those before it being
there and not on what became of them, so `EachApplies` is a conjunction. A verdict
on a claim is projected if it was reached for the claim as it is (`Current`: the
fingerprint of `provenance.py` is what the claim says and bears), and of several
the last shows (`Shown`). `SupersessionsResolve`, `ReferencesResolve`, `BridgesBind`
and `Needed` are the passes after it, and `Folds` is all of them, as an exception in
any is the end of `load`. A family bridge is the one record that binds others which
must be *live* (`Binds`): its family, the enumeration with evidence for it, and the
coverage. `Applied` is every record that was applied, and `GraphOf` what is left to
see of them: the records, and of the verdicts those that show.

What `validate` asks of a record by itself, or of records that nothing replaces (a
bridge's member and proved group), is part of `sound`. That a live claim carries
no fields of another kind, and a live edge no inexact ring, can only come true
by a supersession, not false.

`append` judges its batch with the log it read (`BeginAppend`), opens the file
(`OpenLog`, where the header is written if the log was empty), and writes line by
line (`Flush`), and other processes come in between. The hook reads the graph and
then the baseline (`ReadGraph`, `LetPass`, `Block`); `accept` reads both, truncates
the file and writes it (`BeginAccept`, `OpenBaseline`, `Save`). Work is judged and
written under a lock file (`Lock` to `Unlock`), against families read before it;
a kill leaves the lock, and `RecoverLock` is its removal by hand. A start of the
model says which commands a process gives and which log it finds.

`FoldIgnoresOrder` is about every place where a log can be cut and read the other way
round (`Turned`), unless the cut parts records that are `Tied`: two verdicts on one
claim, or a verdict or a quoting doubt and what it is about. Those really depend on
the order, though the documents deny it (see what else was found).
`BreaksOnlyByConflict` lists how a log can come to be unreadable at all: each item
of the list is a race or a kill that the code leaves open, and nothing else does it.

### Verdicts and walks

`GpAudit` fixes the graph (what folds is `GpStore`'s subject) and lets everything
else vary. A *geometry* says which points the models have, how edges relate them and
what statements hold where, and is any in which the graph's own declarations are
true (`WellMeant`): an edge declared an equivalence is one. What authors declare
and verifiers are there to check, as certificates, origins and isomorphisms, may
be false. The algebra of a verifier is abstracted to what it says of the
geometry: an `Answer` is true of it, or UNVERIFIED when it fails. `StartVerify`
takes what is unsettled in the graph it read; `Verify` appends all answers of a
run; `Supply` is a proof handed in by a command, `Withdraw` a retraction.

An audit reads the verdicts once and walks: inference by inference, premise by
premise, edge by edge (`Cross`), with the effective attributes that `check.py`
computes for claim and edge at each. `Transport` is the 56-cell table, in the form
it is derived from (`point_relation_capabilities`), with the overridden cells
and their gates, and the identity column. The fields an emptiness may reach
(`EffectiveReach`) are those its verifier earned by replaying the certificate, and
none before that.

`CleanIsTrue` is about what the report shows: an inference is listed as clean, and
the models it reasons from are not tainted. Taint follows the first premise only
(`check.py:622`), so a builder further back may have drawn on a tainted model by
another premise, which the reader is not told of; and a model may
have been built by reasoning from itself, which proves nothing. `Rooted` is the built
models of which neither is so.

### Solver calls

`run_cas` on a POSIX system. The caller (`Launch`, `Waited` or `TimeOut`, `Kill`,
`KillAgain` or `Reap`, `Join`, `Close`, `Tally`, `Note`, `Judge`, `WriteObject`,
`Link`, `Record`) has a thread that feeds the program and one per stream that reads
blocks and keeps them up to a limit (`Read`, `Measure`, `Keep`, `Overflow`). The room
that is left in a buffer and what is put there are two steps, as there are two
writers: the caller adds its `Diagnostic` to the errors of a call that is over the
limit (`Tally` looks at the room, `Note` writes), and a thread it stopped waiting for
may be between its own two. What a program prints is a script of
four kinds of piece, since that is what a transcript is read for. The solver prints
its script or less, starts one descendant or none, in its group or outside, and ends
at any time with any code. `Join` waits ten seconds for each thread, so in the
model it may give up at any time; `Close` waits for a thread that is inside a read,
as the interpreter's buffered streams do. Calls share only the order of the lines
they append, so one call is enough for TLC; the theorems are for any number.

## The runs

| run | bounds | what it shows |
|---|---|---|
| `kernel_fold` | 5 claims, 7 warrants of three kinds, a cover, a narrowing, a loop, a retraction, a supersession; 6 events may be recorded at any time | a running fold beside writers implements `GP50Custody`, reaches only the least closed set, publishes grounded and true support, and ends |
| `kernel_log` | 15 events in any order, well formed or not; one registered receipt proves nothing, and the overlap checker cannot tell about one pair of scopes | what one event may do to a log's verdicts; contradictions do arise, and an allowed release holds one only where the checker cannot tell |
| `ledger_branches` | 1 process that may be killed, 2 branches, 4 claims of which 2 share a label, 6 receipts | withdrawals reach everything, labels name one claim, a merge is a join, no ledger cites a receipt it has not got |
| `ledger_branch` | 1 branch from its init (6 commands), from a pair of claims in a circle (4) and from a goal (3); batches, a cover, 3 statements, kills of all but batches | accepted claims stay held, only withdrawals end holds and without `--cascade` of nothing else, no rule of the goal is left unapplied |
| `audit` | 8 models, 5 edges, 11 claims, 12 inferences, 10 subjects of verification; 1 verifier, 2 runs, 1 failed answer, 1 withdrawal | a walk nothing refused carries truths to truths; what is called clean and untainted is so, case splits that say different things of their branches included; an inconclusive verdict licenses nothing |
| `session` | 2 processes that may be killed, 21 batches; writers alone on no log or one about a family (3 appends), or beside tool calls (2), acceptances or work (1) | a log reads the same from every cut that parts no tied records, and breaks only by the listed conflicts; the hook passes only what was accepted as it reads, no work record is doubled, the work log reads with whatever the graph has become |
| `session_accept` | 2 acceptors, no kills | the fourth disagreement below |
| `solver` | 1 call, 4 scripts, blocks of 2 pieces, 3 kept, 2 added by the caller | a model comes only from a transcript read whole, executions are published first, the output limit is exact, calls return |
| `runner_build` | 2 commands or hand builds that overlap, 3 edits, crashes; contents never come back | a command folds with an executable older than the sources it checked only while a build that ended late has put an older one in place |
| `runner_revert` | 1 command, 2 edits and reverts | the third disagreement below |
| `merge_order`, `merge_losses` | 2 branches, 3 commands | the first two disagreements below |

Bounds. `FoldEvents` has the smallest loop with two kinds of rule (A narrows from
C, C is covered by A and B) and every lifecycle event that can cut it; `LogEvents`
has one instance of each way a log can be malformed, and of each way to repair it.
Three or four commands per behaviour are what the properties need: the longest
interesting story is two submissions that make a cycle, a withdrawal and a merge.
Claims A and B each have a certificate and a rule receipt from the other, which is
the smallest set of receipts that can go round in a circle. Histories other than
the empty one start a run where longer behaviours would take it (claims filed and
supported; a support superseded), and each is a ledger that
the commands themselves produce. Branches are symmetric: they start as copies, no
action tells them apart, and no run with symmetry has a liveness property.

The graph of `audit` has one edge of each kind a walk meets, a claim of every kind
with and against each gate, and both ways of splitting; its geometries are those
over two points in which emptiness, a closed predicate or an identity can come out
either way. `session` has, for each way two records can conflict and for each way a
finding can change, one batch that does it; two appends are a conflict and its
aftermath, and where writers are alone the third files the graph, or puts a
supersession between a bridge and the errata or verdicts that come after it. In
`solver` a script of three pieces leaves an odd one in a block of two, which is the
block a thread still holds when the pipe is let go; one of five crosses the limit
inside a block.

`CHECK_DEADLOCK FALSE` in every run but `audit`: behaviours end when the events,
commands or calls that the bounds allow are spent. An audit can always be run again.

Fairness: in `GP50Fold`, `WF(Round)` and `WF(Publish)`: a runner is a terminating
function that its caller waits for. In `GpSolver`, weak fairness of each thread's
steps and of the caller, whose clock goes on; nothing is asked of the solver or of
what it leaves behind, and `CallsReturn` is of calls whose descendants let the pipes
go at last. Writers owe nothing, nor do people at a keyboard or the hook's agents, so
`GpLedger`, `GpSession` and `GpAudit` have no fairness and no liveness property.

Every property has a mutant in the module it guards (an operator with "Mutant:"
above it): the plausible mistake that breaks it.

### Where code and documents disagree

- `merge_order`: a support that was superseded and then submitted again is *old
  content* to the other branch, so each side of a merge keeps its own and the two
  merge orders hold different claims. The comment in `cmd_merge` and
  `docs/GP-CLI.md` say they give the same state. Their argument, that the fold
  depends only on the set of records, leaves out that `supports` is last-wins.
- `merge_losses`: `cmd_merge` folds its ledger beforehand only when withdrawals
  came over, so claims lost because the two branches' rules form a circle are
  lost silently, though `docs/USING-GP.md` says that merge lists them.
- `runner_revert`: a stamp names sources, and `stale` takes its word for the
  executable. Sources that change and change back while lake builds (or a build
  that was killed, or made by hand, before they changed back) leave a matching
  stamp beside an executable of other sources, and it is run as fresh. The
  docstrings of `stale` and `lake_build` say never, and that the next check catches
  an edit made during the build. That holds for edits that bring new contents, as
  long as no build is overtaken, which is what `runner_build` and its theorem show.
- `session_accept`: `save_baseline` says that a prune is the only way to drop entries,
  and that it only drops findings which are not in the graph any more
  (`hook.py:132-133`). It reads, merges and writes without a lock: of two accepts at
  once one is overwritten by the other, and a kill between truncation and write
  (which this run leaves out) loses all there is.

### What else was found

These have no run of their own: they are what the conditions of a property are for,
or lie outside what it says. The first four contradict a document too.

- Order of a log. `apply_all` says that certificates are the only events whose prior
  presence changes how a later one folds (`store.py:2623-2625`). A verdict before its
  claim is refused (`store.py:732-735`), and so is a quotation from a record that is
  not there yet. `load` says of several logs that their order does not matter for the
  result (`store.py:3426`). Two logs with a verdict of their own on one claim each fold,
  and the verdict of the one that is read last shows, refuted or not. `Tied` are the
  records of which this is so; without it `FoldIgnoresOrder` fails.
- Taint. A model is said to be tainted when one of its builders draws on a claim of a
  tainted model (`check.py:601-603`); `propagate_taint` looks at the first premise of a
  builder alone (622), so what enters by the second taints nothing. Hence `Rooted` in
  `CleanIsTrue`.
- Builds that overlap. A command looks at the stamp once, and builds take no lock. A
  build that read the sources before an edit and ends after a build of the edited ones
  puts its older executable in their place, and the command that has checked the
  edited sources folds with it, though `stale` says "never run a stale checker"
  (`gp.py:537`). Hence the condition of `StaleOnlyIfOvertaken`.
- Statements. A merge drops records whose content is already there, restatements
  included. After a restatement to an earlier version (for the same reason) both
  branches bind one statement, as `docs/GP-CLI.md:19` requires, and the merged ledger
  another.
- Solver calls. `_run_subprocess` promises "whole-tree timeout containment"
  (`cas.py:873`), but `_kill_process_tree` does nothing once the solver itself has
  ended, and reaches nothing that left its group; a descendant that keeps a pipe then
  blocks `pipe.close()`, and the call outlasts its timeout. Without the condition on
  descendants `CallsReturn` fails. `reports/PHASE-0A-BATCH-74.md:13` names this as
  unverified. An error printed on stderr can be missed when its thread has not kept
  the block by the time the text is decoded; one on stdout cannot, as the last line
  is then missing too. `Popen` reports a signal as a negative code, so a solver that
  was killed directly is refused and not noted as aborted (`ABORT_CODES` has 137 and
  139, which a wrapper gives).
- Verdicts. Two `gp verify` runs at once: the later may append UNVERIFIED over what
  the earlier settled, and after a refutation the declaration is in force again.
  Retracting a refused inference takes its taint away (`check.py:632`). An inference
  from a tainted model is still listed as clean. `unit_ideal` returns a pair for a reason (`verify.py:2092`), on which the
  command that prints it fails after the verdicts are appended.
- Store. Two first appends each write the header; a kill within a batch leaves a
  log that `append` refuses for good, also for the erratum that would repair it. A batch with a second declaration
  and an erratum for its id removes the record that had folded (against
  `store.py:2639-2647`), and an erratum voids an id in every kind. A bridge and a
  supersession of what it binds, which two writers append at once, leave a log that
  does not fold. Two models may supersede each other if they
  come in one batch.
- Session. A prune drops the findings that were not in the graph *it read*, and an
  erratum of another writer may have brought one back before the file is written.
  `accept --only` names a finding by its id and saves what it says at that moment.
- Goals. A command killed between cover and spine leaves a cover whose label is
  taken; a goal claim whose merged support is not held blocks the pre-check.

## The proofs

All are proved without bounds: any registry, any events, any number of processes,
branches, claims, commands, edits and calls.

`GP50FoldProofs`. The inductive invariant `IInv` says of a running fold what is
needed about the finished one: `reached` is grounded (each warrant in it is
enabled by the others), within every closed set, and true if the receipts are
sound; and the same three of the published view, for the log it is the view *of*.
None of the properties is inductive alone: that a published support is grounded
follows only from the rounds that made it. The argument runs over three lemmas on
one round, `AdvanceGrounded`, `AdvanceLeast` and `AdvanceTrue`; the last rests on
`ReceiptTrue`, `NarrowTrue` and `CoverTrue`, one for each kind of evidence.

- `TypeCorrect`, `NoSelfSeeding`, `PublishedIsGrounded`, `PublishedIsTrue`;
- `OnlyLifecycleTakes`, `RetractionsTakeTheirOwn`, `FailuresAreInert`,
  `RepairsAreLimited`: what one event may do to a log. `ClosureIsLeast` makes the
  closure the least closed set, in as many rounds as there are warrants, so two
  closures are compared by showing that one is closed for the other log: a recorded
  warrant only adds to what is enabled (`StepsAreSparing`), a retracted one takes
  away only itself, an inert one neither. A log is finite (`LogIsFinite`), and so
  are its links; for the repairs, a chain of supersessions stays one when the log
  grows (`FollowsGrows`), so a circle is there for good.
- `ReleaseIsConsistent`: two contradictory supports of an allowed release share a
  context only if the overlap checker cannot tell about their scopes, whichever of
  the two has the smaller id in `conflictFindings`;
- `FreezeIsUnsound`: with sound receipts and contradictions no release is frozen.
  Two supported statements that contradict each other in a shared context would
  both be true there.

The assumptions are the ones in the modules: the shape of a registry entry, that
the initial log is among the events and finite, that warrant ids are numbers, and
that `contra` is symmetric.

`FoldImplementsCustody`, in the same module: the fold implements the abstract
promise, step by step. Recording and refusing map to themselves, rounds to
stuttering, and publishing to showing the least closed support, which needs that
the bounded rounds have reached a fixed point. The invariant `Progress` counts:
after *n* rounds without a fixed point at least *n* warrants are reached, and no
more can be reached than the log has ids, which is the bound the code uses.

`GpLedgerProofs`.

- `WithdrawalReaches`: no held claim rests on a withdrawn one. The lemma
  `HeldRestsOnNothingWithdrawn` shows it for *every* sequence of records: the
  complement of what rests on a withdrawn claim is closed under the checks that
  hold, so the least closed set is within it.
- `ReceiptsStay`: every cited receipt is on disk. The inductive invariant
  `Custody` adds what commands in progress will write: a process has stored
  what its next record needs before it writes it, and files are never removed.
- `LedgersAreFiled`, `LabelsName`: the shape of ledgers, and one claim per label.
  Their invariant `Orderly` says of every process what it knows of its branch
  (`Sound`): the ledger is still as it knows it, and what it has yet to append
  leaves it in shape, after every record and whichever way its receipts are decided.
- `MergesJoin`: `Intent` adds what a withdrawal and a merge set out to do: the rest
  of their list, appended to the ledger as it stands, is what they decided. It then is
  a statement about two lists of records and `MergePlan`, which needs that a claim's
  support is its last (`LastOf`).
- `HoldsEnd`: of every record that a command other than a merge or batch may append,
  either it takes no hold away or it is a withdrawal of what is lost. For a support
  this rests on how it was judged: with the closure of the ledger it goes to, which
  the command knows as it stands.
- `AcceptedHold`: an accepted claim stays held. A ledger is `Grounded` if all it
  supports would be held were nothing withdrawn; the invariant `Grounds` says that
  every ledger is, unless a batch is at work on it, and that every command leaves it
  so (`Leaves`). The argument compares the least closed set of a list of records
  before and after each kind of record: an accepted support was judged with those of
  its time, and one that replaces another cannot unground what rested on the claim,
  because its own premises are held without it.
- `RulesApplied`: a command that offers receipts for the goal's claims stops only when
  nothing is left to offer. It stops on two tests, one of them without a fold
  (`Pending` counts supports). On a `Grounded` ledger a claim is held exactly if it is
  supported and rests on nothing withdrawn (`SupportedHold`), so the cheap test is
  right; and `GoalFiled` adds that the goal's claims are filed by then, or the test
  would pass for the want of a claim.

  The hypotheses are about people, not about data. `Alone`: no two commands work on
  one branch at a time. The ledger has no lock, and without this every one of these
  properties is false (the hazard at `gp.py:2032`). `Unmerged`, for the last
  two: `merge_losses` shows that a merge breaks what they rest on.
  `BatchesRunOut`, for the last two: a batch killed between two of its records leaves
  supports its fold never judged (the hazard at `gp.py:2560`).
  The assumptions on constants are the types of receipts, goals, covers and
  proposals, that a batch names a claim once (the code refuses the second), and
  that a ledger found at the start is one the commands could have left (`StartsFiled`).

`GpRecordsProofs` is about lists alone: `Only` keeps order and members, `LastOf` and
`Supports` of a longer list, what is `Held` as a least closed set.

`GpBuildProofs`. `CheckerIsCurrent`: if contents never come back, a command folds
with an executable of contents it could have seen since its check, or with one that
stands in the place of a newer one. Builds overlap and end in any order. The
invariant is an order: a stamp is never newer than the newest contents ever built,
nor what a building command identified newer than what it built; of the executable
itself it says nothing, which is why the property has its condition; `runner_revert`
shows that the assumption is needed.

`GpAuditProofs`. Assumed is what the module says: the graph folded, and its
declarations are true of the geometry.

- `TypesHold`, and `VerdictsRight`: whatever the order of runs, supplies and
  withdrawals, a verdict in force says something true of the geometry.
- `WalksAreTrue`: by cases on the cells of the table. The lemmas are one per column
  (emptiness, existence, predicates, identities); each gate is needed in one of them.
  The invariant adds what a walk has seen so far (`Informed`): the audit's verdicts are
  true ones, and a condition that could not be rewritten stays inexpressible.
- `CleanAreTrue`: what the report calls clean is so. The invariant `WalkedThrough`
  says of a walk under way that every premise before the current one has arrived at
  the inference's model with its claim intact (`Carried`), or the inference will be
  refused, and that whatever is behind and not refused was walked this way
  under the verdicts as they are. The rest is an argument on the finished report:
  an inference that is clean and whose claims are in untainted models concludes
  rightly if the builders of those models did, which are untainted themselves. For
  a model that is `Rooted` this is an induction, and one the prover can follow
  as `Rooted` is the least set there is: the models that are tainted or whose builders
  concluded rightly are closed under what defines it. No assumption on the graph is
  needed: models may be built in circles, those are just not rooted. For a case split,
  `SplitConcludes` takes a point of the parent to the branch that covers it and
  back along its leg (`PartitionsFold`: legs lead to the parent and keep predicates).
- `OneVerifierGrantsNothing`: with one verifier, a run that began before a
  verdict was settled cannot replace it, so all it adds is for subjects that had none.

`GpSessionProofs`.

- `GateIsKnowing`: every entry of the baseline, of a copy a process holds, or being
  written, was agreed to as it reads; so the hook, which compares entries, passes only those.
- `WorkIsOnce`: while the lock file stands at most one process is between `Lock` and
  `Unlock`, and what it decided is still true of the log when it writes. A lock left
  by a kill is removed only when no writer is inside.
- `FilesKeepShape`: `TypeOK`.
- `OrderIsIgnored`: a log folds or does not, and to the same graph, from every cut that
  parts no tied records. The log read the other way round is a bijection of places
  that keeps the order of tied events (`Aligned`), and so what matters to an event
  stands before it in both or in neither (`BeforeAlike`): a certificate always comes
  before the claims that cite it, whatever else was ordered is tied. So the same
  records apply, the same verdicts are projected and the same ones show (`GraphAlike`),
  and an erratum is needed if it is the only one for its id and the log fails
  without it (`FoldsIsOnce`), which is so of both.
- `OnlyConflictsBreak`: the invariant `BackInv` says of every record of a log that can
  be read that somebody judged it: with records that the log held by then, in front of
  it, and with a batch it belongs to (`Backed`). It has to follow each line through
  judging, opening, and a kill after any number of lines (`ReadableWrites`). Then, if no
  batch is there in part, every record has all it needs in the log and in front of
  it, and the passes over the whole graph fail only where two records meet that were
  judged apart: one entity twice, a retirement beside another successor, or a bridge
  beside a successor of what it binds (`SourcedFold`).
- `WorkKeepsItsFamilies`: the log only grows (`LogExtends`), so the families a
  process read are declared in it for good; what it weighed under the lock is
  what it writes; and a declared family is in the graph unless an erratum voids it.

  Assumed of constants: only claims cite (`ClaimsCite`), a header and a cut line are
  no events (`LinesApart`), and the log that is found at the start folds (`StartsFold`).

`GpSolverProofs`. The invariant says of every stream that, while its thread reads,
what is kept, held in the thread, still in the pipe and still to be printed make up
the script in this order (`Flows`), and that what is kept is always a beginning of it.
A beginning that contains the last line is all of it (`CompleteIsAll`), and the code 0
is only ever that of a solver that ended by itself (`Settled`). Hence

- `AnswersAreWhole`, `PublishesFirst`;
- `LimitsAreExact`: beside `Flows` it needs how much room each of the two writers of
  the errors has seen (`Bound`): together they put there no more than the limit and
  the caller's own words, whatever they overlap.

A step of one call leaves the others alone (`OthersStay`), so each part of the
invariant is proved for the call that steps, from what a step does to its process
(`SolverMoves`), its caller (`CallerMoves`) and the graph (`Writes`).

Proving corrected the model in four places that the bounded runs had let pass: a
round of `goal_sync` after the last one (`SyncNext`); commands that ignored the goal
claims just filed for them (`Filed`); a property of acceptances that promised what
a prune cannot know; and a case split whose conclusion followed from its
exhaustiveness claim alone (`Concluded`).

Every invariant and action property of the passing runs has its theorem. Only
model-checked: liveness (`FoldTerminates`, `CallsReturn`), which is out of the
prover's reach.

## What is not modelled

The parts of `PROJECT.json` with status `not_modelled`, each with its reason. In
short: decoding and printing, which have no state; polynomial arithmetic and
certificate checking, whose data are unbounded and whose correctness is a matter of
algebra (and of the Lean proofs in the repository); projections, advisory rules of
`check.py` and views, which read once and print; Lane P, which produces certificates
that are checked like anybody's; release bundles and data. Of the 60,000 lines of
implementation most are of these kinds: the solver programs of `cas.py`, the verifiers'
algebra, the command line's wording and the text of findings have no behaviour beyond
one pure function, so the share of lines that the map names stays small.

Records of the 0.50 ledger are atomic. In the file they are lines, and a process
killed in the middle of one leaves a torn line, on which every later command stops.
(In the 0.37 log, torn lines are modelled.)

## Plan

1. *(done)* kernel: events, admission, fold, meaning; abstract custody; proofs.
2. *(done)* `gp` ledger: records, commands, branches, crashes, DECIDE goals; proofs.
3. *(done)* Runner builds: sources, stamp, executable, edits and crashes; proof.
4. *(done)* The 0.37 store and session: log, errata, supersession, appends by several
   processes, hook, acceptances, work log; proofs.
5. *(done)* Transport, verdicts and audits of 0.37; proofs.
6. *(done)* Solver calls and their artifacts; proofs.
7. *(done)* What one event may do to a log; ledgers of branches that are worked on by
   one command at a time, and the goal they settle; clean reports; lost acceptances; how a
   log of the old engine reads, how it can break, and the work log beside it.
8. What would come next: the registry of authorities that may record a verdict;
   covers that stay open, and two processes at work on one goal; the MCP server's
   handoff, once it holds state between requests.

The set of runs stays small, so that all of it can be checked on every change.
