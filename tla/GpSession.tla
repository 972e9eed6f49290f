----------------------------- MODULE GpSession ------------------------------
(***************************************************************************)
(* Processes at work on one .portage directory, of which nothing but the   *)
(* work log is locked:                                                     *)
(*   append   store.append: judge the batch against the log, then write it *)
(*   check    hook.evaluate: may the next tool call go ahead?              *)
(*   accept   cli.cmd_accept, hook.save_baseline: carry findings knowingly *)
(*   work     work.append: record an attempt, or what became of one        *)
(* Each is killed at any point if it may be.                               *)
(***************************************************************************)
EXTENDS GpStore

CONSTANTS
    Procs,
    Starts,    \* [log, roles, appends]: a log, the commands each process is used
               \* for, and a bound: how many appends there are
    Batches,   \* what may be appended
    Legacy,    \* fids carried since before entries had fingerprints: these say {}
    Works,     \* the work records that may be sent
    Work,      \* their contents: [id, family, resolves], one of the last two None
    MayCrash   \* whether a process may be killed

Commands == {"append", "check", "accept", "work"}

ASSUME FlagType    == MayCrash \in BOOLEAN
ASSUME StartsType  == \A start \in Starts : /\ start.log \in Seq(Names \cup {"meta", "torn"})
                                           /\ start.roles \in [Procs -> SUBSET Commands]
                                           /\ start.appends \in Nat
ASSUME StartsFold  == \A start \in Starts : LogFolds(start.log)
ASSUME BatchesType == Batches \subseteq Seq(Names)
ASSUME WorkType    == Work \in [Works -> [id : STRING, family : STRING \cup {None},
                                          resolves : STRING \cup {None}]]
ASSUME TornIsNoWork == "torn" \notin Works

VARIABLES
    log,      \* the lines of graph.jsonl, <<>> if it is empty or not there
    baseline, \* the entries [fid, says] of baseline.json
    worklog,  \* the lines of the work log
    locked,   \* whether the work log's lock file is there
    appends,  \* how many appends may yet begin
    roles,    \* what each process is used for
    proc,     \* where each process is, and what it read
    agreed    \* every [fid, says] an accept was ever told to carry

vars == <<log, baseline, worklog, locked, appends, roles, proc, agreed>>

Idle == [pc |-> "idle"]

At(p, pc) == proc[p].pc = pc

May(p, command) == At(p, "idle") /\ command \in roles[p]

Goes(p, to) == proc' = [proc EXCEPT ![p] = to]

\* Mutant: an entry carries all of its finding.
WholeFinding(f) == f

Entry(f) == [fid |-> f.fid, says |-> f.says]

-----------------------------------------------------------------------------
Init ==
    /\ \E start \in Starts : log = start.log /\ roles = start.roles /\ appends = start.appends
    /\ baseline = {[fid |-> fid, says |-> {}] : fid \in Legacy \cap Fids(Actionable(Graph(log)))}
    /\ worklog = <<>> /\ locked = FALSE
    /\ proc = [p \in Procs |-> Idle]
    /\ agreed = {}

(***************************************************************************)
(* append.  The log is read and judged, alone and with the batch; the file *)
(* is opened, and given a header if it is empty; and the lines go out when *)
(* it is closed, after whatever is there by then.                          *)
(***************************************************************************)
Judged(before, batch) == LogFolds(before) /\ Folds(Records(before) \o batch)

BeginAppend(p) ==
    /\ May(p, "append") /\ appends > 0
    /\ appends' = appends - 1
    /\ \E batch \in Batches :
        /\ Judged(log, batch)
        /\ Goes(p, [pc |-> "judged", batch |-> batch, read |-> log])
    /\ UNCHANGED <<log, baseline, worklog, locked, roles, agreed>>

OpenLog(p) ==
    /\ At(p, "judged")
    /\ Goes(p, [pc |-> "open", read |-> proc[p].read,
                lines |-> (IF log = <<>> THEN <<"meta">> ELSE <<>>) \o proc[p].batch])
    /\ UNCHANGED <<log, baseline, worklog, locked, appends, roles, agreed>>

\* After a line cut short, the first new line only lengthens it.
Lengthened(file, lines) ==
    IF lines # <<>> /\ file # <<>> /\ Last(file) = "torn" THEN file \o Tail(lines) ELSE file \o lines

Flush(p) ==
    /\ At(p, "open")
    /\ log' = Lengthened(log, proc[p].lines)
    /\ Goes(p, Idle)
    /\ UNCHANGED <<baseline, worklog, locked, appends, roles, agreed>>

-----------------------------------------------------------------------------
(***************************************************************************)
(* evaluate.  No graph, no objection.  A graph that does not fold blocks,  *)
(* and so does a finding that no entry of the baseline carries as it is.   *)
(***************************************************************************)

\* Mutant: an accepted finding is passed whatever it says by now.
SettledByName(findings, entries) == Fids(findings) \subseteq Fids(entries)

Settled(findings, entries) == \A f \in findings : Entry(f) \in entries

ReadGraph(p) ==
    /\ May(p, "check")
    /\ LogFolds(log)
    /\ Goes(p, [pc |-> "check", read |-> log])
    /\ UNCHANGED <<log, baseline, worklog, locked, appends, roles, agreed>>

LetPass(p) ==
    /\ At(p, "check")
    /\ Settled(Blocking(Graph(proc[p].read)), baseline)
    /\ Goes(p, [pc |-> "passed", read |-> proc[p].read])
    /\ UNCHANGED <<log, baseline, worklog, locked, appends, roles, agreed>>

Block(p) ==
    /\ At(p, "check")
    /\ ~Settled(Blocking(Graph(proc[p].read)), baseline)
    /\ Goes(p, Idle)
    /\ UNCHANGED <<log, baseline, worklog, locked, appends, roles, agreed>>

NextCall(p) ==
    /\ At(p, "passed")
    /\ Goes(p, Idle)
    /\ UNCHANGED <<log, baseline, worklog, locked, appends, roles, agreed>>

-----------------------------------------------------------------------------
(***************************************************************************)
(* accept, of one finding (--only) or of all there are; with --prune the   *)
(* entries of findings that are not there any more are dropped.            *)
(***************************************************************************)

Saved(entries, chosen, live, prune) ==
    LET merged == {e \in entries : e.fid \notin Fids(chosen)} \cup {Entry(f) : f \in chosen}
    IN  IF prune THEN {e \in merged : e.fid \in Fids(live)} ELSE merged

BeginAccept(p) ==
    /\ May(p, "accept")
    /\ LogFolds(log)
    /\ LET live == Actionable(Graph(log))
       IN  \E chosen \in {live} \cup {{f} : f \in live}, prune \in BOOLEAN :
            /\ Goes(p, [pc |-> "accept", chosen |-> chosen, live |-> live, prune |-> prune])
            /\ agreed' = agreed \cup {Entry(f) : f \in chosen}
    /\ UNCHANGED <<log, baseline, worklog, locked, appends, roles>>

\* read_baseline once more, then open the file for writing, which truncates
\* it: until it is saved it does not parse, and that reads as no entries.
OpenBaseline(p) ==
    /\ At(p, "accept")
    /\ Goes(p, [pc |-> "save",
                entries |-> Saved(baseline, proc[p].chosen, proc[p].live, proc[p].prune)])
    /\ baseline' = {}
    /\ UNCHANGED <<log, worklog, locked, appends, roles, agreed>>

Save(p) ==
    /\ At(p, "save")
    /\ baseline' = proc[p].entries
    /\ Goes(p, Idle)
    /\ UNCHANGED <<log, worklog, locked, appends, roles, agreed>>
-----------------------------------------------------------------------------
(***************************************************************************)
(* work.append, under a lock file that is made exclusively.  The families  *)
(* are those of a graph that was read before.                              *)
(***************************************************************************)

\* What a new attempt may be filed for.  Mutant: old records are read with it too.
LiveFamilies(graph) ==
    Ids({n \in Of(Standing(graph), "family") : ~Superseded(graph, n)})

Families(graph) == Ids(Of(Standing(graph), "family"))

IsAttempt(w) == Work[w].family # None

\* fold: the records in order, each judged after the ones before it.
WorkFolds(records, families) ==
    /\ "torn" \notin Range(records)
    /\ \A i \in DOMAIN records :
        LET w == records[i]
        IN  /\ \A j \in 1..(i - 1) : Work[records[j]].id # Work[w].id
            /\ IF IsAttempt(w)
               THEN Work[w].family \in families
               ELSE /\ \E j \in 1..(i - 1) : /\ IsAttempt(records[j])
                                             /\ Work[records[j]].id = Work[w].resolves
                    /\ \A j \in 1..(i - 1) : Work[records[j]].resolves # Work[w].resolves

AtWork(pc, item, families) == [pc |-> pc, item |-> item, families |-> families]

BeginWork(p) ==
    /\ May(p, "work")
    /\ LogFolds(log)
    /\ \E w \in Works :
        /\ IsAttempt(w) => Work[w].family \in LiveFamilies(Graph(log))
        /\ Goes(p, AtWork("work", w, Families(Graph(log))))
    /\ UNCHANGED <<log, baseline, worklog, locked, appends, roles, agreed>>

\* Mutant: the lock file is opened, existing or not.
NotExclusive == TRUE

LockIsFree == ~locked

Lock(p) ==
    /\ At(p, "work") /\ LockIsFree
    /\ locked' = TRUE
    /\ Goes(p, AtWork("locked", proc[p].item, proc[p].families))
    /\ UNCHANGED <<log, baseline, worklog, appends, roles, agreed>>

LockedOut(p) ==
    /\ At(p, "work") /\ ~LockIsFree
    /\ Goes(p, Idle)
    /\ UNCHANGED <<log, baseline, worklog, locked, appends, roles, agreed>>

WorkHolds(p) == WorkFolds(Append(worklog, proc[p].item), proc[p].families)

WeighWork(p) ==
    /\ At(p, "locked") /\ WorkHolds(p)
    /\ Goes(p, AtWork("weighed", proc[p].item, proc[p].families))
    /\ UNCHANGED <<log, baseline, worklog, locked, appends, roles, agreed>>

RefuseWork(p) ==
    /\ At(p, "locked") /\ ~WorkHolds(p)
    /\ locked' = FALSE
    /\ Goes(p, Idle)
    /\ UNCHANGED <<log, baseline, worklog, appends, roles, agreed>>

WriteWork(p) ==
    /\ At(p, "weighed")
    /\ worklog' = Append(worklog, proc[p].item)
    /\ Goes(p, AtWork("written", proc[p].item, proc[p].families))
    /\ UNCHANGED <<log, baseline, locked, appends, roles, agreed>>

Unlock(p) ==
    /\ At(p, "written")
    /\ locked' = FALSE
    /\ Goes(p, Idle)
    /\ UNCHANGED <<log, baseline, worklog, appends, roles, agreed>>

\* "A lock left by a crashed writer requires explicit recovery": by hand,
\* once it is clear that nobody is writing.
RecoverLock ==
    /\ locked
    /\ \A p \in Procs : proc[p].pc \notin {"locked", "weighed", "written"}
    /\ locked' = FALSE
    /\ UNCHANGED <<log, baseline, worklog, appends, roles, proc, agreed>>

-----------------------------------------------------------------------------
(* A process is killed.  What it was writing may be there in part.          *)

Crash(p) ==
    /\ MayCrash /\ ~At(p, "idle")
    /\ IF At(p, "open")
       THEN \E n \in 0..Len(proc[p].lines), cut \in {<<>>, <<"torn">>} :
                log' = Lengthened(log, SubSeq(proc[p].lines, 1, n) \o cut)
       ELSE UNCHANGED log
    /\ IF At(p, "weighed") THEN worklog' \in {worklog, Append(worklog, "torn")}
       ELSE UNCHANGED worklog
    /\ Goes(p, Idle)
    /\ UNCHANGED <<baseline, locked, appends, roles, agreed>>

Next ==
    \/ \E p \in Procs :
        \/ BeginAppend(p) \/ OpenLog(p) \/ Flush(p)
        \/ ReadGraph(p) \/ LetPass(p) \/ Block(p) \/ NextCall(p)
        \/ BeginAccept(p) \/ OpenBaseline(p) \/ Save(p)
        \/ BeginWork(p) \/ Lock(p) \/ LockedOut(p) \/ WeighWork(p) \/ RefuseWork(p)
        \/ WriteWork(p) \/ Unlock(p)
        \/ Crash(p)
    \/ RecoverLock

Spec == Init /\ [][Next]_vars

-----------------------------------------------------------------------------
(* What the directory is kept for.                                         *)

\* The files hold lines and entries of their own kind.
TypeOK ==
    /\ log \in Seq(Names \cup {"meta", "torn"})
    /\ \A e \in baseline : DOMAIN e = {"fid", "says"}
    /\ worklog \in Seq(Works \cup {"torn"})
    /\ locked \in BOOLEAN
    /\ appends \in Nat
    /\ roles \in [Procs -> SUBSET Commands]
    /\ DOMAIN proc = Procs

\* Which of two records comes first matters if one needs the other there, or
\* if they are verdicts on one claim.
Needs(n, m) == ComesAfter(n) /\ m \in Bearing({m}, n) /\ IdOf(m) \in Event[n].names

Tied(m, n) ==
    \/ Needs(m, n) \/ Needs(n, m)
    \/ /\ KindOf(m) = "verdict" /\ KindOf(n) = "verdict"
       /\ Event[m].names = Event[n].names

\* The records from after the n-th on, and then those up to it.
Turned(recs, n) == SubSeq(recs, n + 1, Len(recs)) \o SubSeq(recs, 1, n)

ReadAlike(one, other) == Folds(one) = Folds(other) /\ GraphOf(one) = GraphOf(other)

\* A log folds or not, and to the same graph, whichever part of it is read
\* first, wherever it can be cut so that no records in the two parts are tied:
\* certificates, supersessions, errata and references may lie on either side.
\* (Every log there ever is is there while nobody is at work.)
FoldIgnoresOrder ==
    LET recs == Records(log)
    IN  (\A p \in Procs : At(p, "idle")) /\ Readable(log) =>
            \A n \in 1..(Len(recs) - 1) :
                (\A i \in 1..n, j \in (n + 1)..Len(recs) : ~Tied(recs[i], recs[j]))
                    => ReadAlike(recs, Turned(recs, n))

\* The bridge b rests on n.
RestsOn(b, n) == (n \in Bearing({n}, b) /\ IdOf(n) \in Event[b].names) \/ Proves(n, b)

\* A bridge does not bind any more, as something it rested on was replaced.
BridgeIsBroken(graph) ==
    \E b \in Of(Standing(graph), "family_bridge"), n \in graph :
        ~Binds(graph, b) /\ Superseded(graph, n) /\ RestsOn(b, n)

\* store.append judges every batch before it writes, and takes no lock: a log
\* comes to be unreadable only by a line cut short, a second header, part of a
\* batch, two declarations of one record, a retirement of a record that was
\* also replaced, a supersession of what a bridge rests on, or errata.
BreaksOnlyByConflict ==
    LET recs  == Records(log)
        graph == Applied(recs)
    IN  ~LogFolds(log) =>
            \/ ~Readable(log)
            \/ \E batch \in Batches : Range(log) \cap Range(batch) \notin {{}, Range(batch)}
            \/ \E m, n \in graph : SameEntity(m, n) /\ m # n
            \/ \E m, n \in graph : Tombstone(m) /\ m # n /\ Event[m].supersedes = Event[n].supersedes
            \/ BridgeIsBroken(graph)
            \/ Errata(recs) # {}

\* The hook lets a tool call go ahead only if somebody agreed to carry every
\* blocking finding of the graph it read, with what the finding says there.
GateKnows ==
    \A p \in Procs : At(p, "passed") =>
        \A f \in Blocking(Graph(proc[p].read)) : Entry(f) \in agreed

\* What the campaign carries: what somebody is about to save, or has.
Carried == baseline \cup UNION {IF At(p, "save") THEN proc[p].entries ELSE {} : p \in Procs}

Lost == Fids(Carried) \ Fids(Carried')

\* save_baseline: "prune=True is the only way to drop entries, and it only
\* drops findings that no longer appear in the graph".
OnlyPruneDrops ==
    [][Lost # {} =>
        \E p \in Procs : /\ At(p, "accept") /\ proc[p].prune
                         /\ Lost \cap Fids(proc[p].live) = {}]_<<baseline, proc>>

\* Nothing is recorded twice in the work log: ids are unique, and an attempt
\* that is there has at most one resolution.
NoWorkTwice ==
    \A i, j \in DOMAIN worklog : i < j /\ "torn" \notin {worklog[i], worklog[j]} =>
        /\ Work[worklog[i]].id # Work[worklog[j]].id
        /\ ~IsAttempt(worklog[j]) => Work[worklog[i]].resolves # Work[worklog[j]].resolves

\* work.fold: the work log can be read with the graph as it is, though its
\* writers had read older ones, as long as no erratum has voided a family.
WorkReadsWithGraph ==
    /\ LogFolds(log) /\ "torn" \notin Range(worklog)
    /\ ~ \E w \in Range(worklog) : Work[w].family \in Voided(Records(log))
    => WorkFolds(worklog, Families(Graph(log)))
=============================================================================
