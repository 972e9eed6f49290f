-------------------------- MODULE GpSessionProofs ---------------------------
(***************************************************************************)
(* Proofs about processes in one .portage directory: the files keep their  *)
(* shape; a gate that opens knew of every blocking finding, whoever wrote  *)
(* the log or died meanwhile; the lock of the work log, with recovery by   *)
(* hand, lets nothing be recorded twice; a log reads the same from every   *)
(* cut across which no events are tied; what is judged and then written    *)
(* without a lock breaks a log by conflicts only; and the work log goes on *)
(* folding with a graph that has moved on.                                 *)
(***************************************************************************)
EXTENDS GpSession, SequenceTheorems, Iterations

-----------------------------------------------------------------------------
(* Who is where: every step moves one process, or none.                     *)

Placed == DOMAIN proc = Procs

Move(p) ==
    \/ BeginAppend(p) \/ OpenLog(p) \/ Flush(p)
    \/ ReadGraph(p) \/ LetPass(p) \/ Block(p) \/ NextCall(p)
    \/ BeginAccept(p) \/ OpenBaseline(p) \/ Save(p)
    \/ BeginWork(p) \/ Lock(p) \/ LockedOut(p) \/ WeighWork(p) \/ RefuseWork(p)
    \/ WriteWork(p) \/ Unlock(p)
    \/ Crash(p)

LEMMA StepsAreMoves == Next <=> (\E p \in Procs : Move(p)) \/ RecoverLock
BY DEF Next, Move

\* What Goes does, to the process and to the others.
LEMMA Going ==
    ASSUME Placed, NEW p \in Procs, NEW to, Goes(p, to)
    PROVE  /\ Placed'
           /\ proc'[p] = to
           /\ \A q \in Procs \ {p} : proc'[q] = proc[q]
BY DEF Placed, Goes

-----------------------------------------------------------------------------
(***************************************************************************)
(* The gate.  Every entry of the baseline was agreed to or has no          *)
(* fingerprint, and so has every entry that is about to be saved.          *)
(***************************************************************************)
Known(entries) == \A e \in entries : e \in agreed \/ e.says = {}

AcceptsKnow ==
    \A p \in Procs :
        /\ At(p, "accept") => \A f \in proc[p].chosen : Entry(f) \in agreed
        /\ At(p, "save") => Known(proc[p].entries)

GateInv == Placed /\ Known(baseline) /\ AcceptsKnow /\ GateKnows

\* A finding says something, so no entry without fingerprint settles it.
LEMMA FindingsSaySomething ==
    ASSUME NEW graph, NEW f \in Blocking(graph)
    PROVE  Entry(f).says # {}
<1>1. CASE f \in DoubtFindings(graph)
  BY <1>1 DEF DoubtFindings, Finding, Entry
<1>2. CASE f \in StaleFindings(graph)
  BY <1>2 DEF StaleFindings, Finding, Entry, Superseded
<1>3. CASE f \in VerdictFindings(graph)
  BY <1>3 DEF VerdictFindings, Finding, Entry
<1> QED  BY <1>1, <1>2, <1>3 DEF Blocking, Actionable

LEMMA GateInvInit == Init => GateInv
<1> SUFFICES ASSUME Init PROVE GateInv
  OBVIOUS
<1>1. Placed /\ \A p \in Procs : proc[p].pc = "idle"
  BY DEF Init, Placed, Idle
<1>2. Known(baseline)
  BY DEF Init, Known
<1> QED  BY <1>1, <1>2 DEF GateInv, AcceptsKnow, GateKnows, At

LEMMA GateInvStep == GateInv /\ [Next]_vars => GateInv'
<1> SUFFICES ASSUME GateInv, [Next]_vars PROVE GateInv'
  OBVIOUS
<1> USE DEF GateInv
<1>1. CASE UNCHANGED vars
  BY <1>1 DEF vars, Placed, Known, AcceptsKnow, GateKnows, At, Entry
<1>2. CASE RecoverLock
  BY <1>2 DEF RecoverLock, Placed, Known, AcceptsKnow, GateKnows, At, Entry
<1>3. ASSUME NEW p \in Procs, Move(p) PROVE GateInv'
  <2> DEFINE OthersStand == \A q \in Procs \ {p} : proc'[q] = proc[q]
  \* Most steps leave the baseline and what was agreed to alone, and bring
  \* their process to a place of which nothing is asked.
  <2>1. ASSUME NEW to, Goes(p, to), UNCHANGED <<baseline, agreed>>,
               to.pc \notin {"accept", "save", "passed"}
        PROVE  GateInv'
    <3>1. Placed' /\ proc'[p] = to /\ OthersStand
      BY <2>1, Going
    <3>2. Known(baseline)'
      BY <2>1 DEF Known
    <3>3. AcceptsKnow'
      BY <2>1, <3>1 DEF AcceptsKnow, Known, At, Entry
    <3>4. GateKnows'
      BY <2>1, <3>1 DEF GateKnows, At, Entry
    <3> QED  BY <3>1, <3>2, <3>3, <3>4
  <2>2. CASE BeginAppend(p)
    BY <2>1, <2>2 DEF BeginAppend
  <2>3. CASE OpenLog(p)
    BY <2>1, <2>3 DEF OpenLog
  <2>4. CASE Flush(p) \/ Block(p) \/ NextCall(p) \/ LockedOut(p) \/ RefuseWork(p) \/ Unlock(p)
    BY <2>1, <2>4 DEF Flush, Block, NextCall, LockedOut, RefuseWork, Unlock, Idle
  <2>5. CASE ReadGraph(p)
    BY <2>1, <2>5 DEF ReadGraph
  <2>6. CASE BeginWork(p) \/ Lock(p) \/ WeighWork(p) \/ WriteWork(p)
    BY <2>1, <2>6 DEF BeginWork, Lock, WeighWork, WriteWork, AtWork
  <2>7. CASE Crash(p)
    BY <2>1, <2>7 DEF Crash, Idle
  <2>8. CASE LetPass(p)
    <3>1. Placed' /\ proc'[p] = [pc |-> "passed", read |-> proc[p].read] /\ OthersStand
      BY <2>8, Going DEF LetPass
    <3>2. Known(baseline)' /\ AcceptsKnow'
      BY <2>8, <3>1 DEF LetPass, Known, AcceptsKnow, At, Entry
    <3>3. ASSUME NEW f \in Blocking(Graph(proc[p].read)) PROVE Entry(f) \in agreed
      BY <2>8, <3>3, FindingsSaySomething DEF LetPass, Settled, Known
    <3>4. GateKnows'
      <4>1. ASSUME NEW f \in Blocking(Graph(proc'[p].read)) PROVE Entry(f) \in agreed'
        <5>1. proc'[p].read = proc[p].read
          BY <3>1
        <5> QED  BY <2>8, <3>3, <4>1, <5>1 DEF LetPass
      <4>2. ASSUME NEW q \in Procs \ {p} PROVE proc'[q] = proc[q] /\ agreed' = agreed
        BY <2>8, <3>1, <4>2 DEF LetPass
      <4> QED  BY <4>1, <4>2 DEF GateKnows, At
    <3> QED  BY <3>1, <3>2, <3>4
  <2>9. CASE BeginAccept(p)
    <3>1. PICK chosen, live, prune :
            /\ Goes(p, [pc |-> "accept", chosen |-> chosen, live |-> live, prune |-> prune])
            /\ agreed' = agreed \cup {Entry(f) : f \in chosen}
      BY <2>9 DEF BeginAccept
    <3>2. /\ Placed' /\ OthersStand
          /\ proc'[p] = [pc |-> "accept", chosen |-> chosen, live |-> live, prune |-> prune]
      BY <3>1, Going
    <3>3. Known(baseline)'
      BY <2>9, <3>1 DEF BeginAccept, Known
    <3>4. /\ agreed \subseteq agreed'
          /\ \A f \in chosen : Entry(f) \in agreed'
      BY <3>1
    <3>5. AcceptsKnow'
      <4>1. /\ proc'[p].pc = "accept" /\ proc'[p].chosen = chosen
        BY <3>2
      <4>2. ASSUME NEW q \in Procs \ {p} PROVE proc'[q] = proc[q]
        BY <3>2, <4>2
      <4> QED  BY <3>4, <4>1, <4>2 DEF AcceptsKnow, Known, At
    <3>6. GateKnows'
      <4>1. proc'[p].pc = "accept"
        BY <3>2
      <4>2. ASSUME NEW q \in Procs \ {p} PROVE proc'[q] = proc[q]
        BY <3>2, <4>2
      <4> QED  BY <3>4, <4>1, <4>2 DEF GateKnows, At
    <3> QED  BY <3>2, <3>3, <3>5, <3>6
  <2>10. CASE OpenBaseline(p)
    <3> DEFINE saved == Saved(baseline, proc[p].chosen, proc[p].live, proc[p].prune)
    <3>1. /\ Placed' /\ OthersStand
          /\ proc'[p] = [pc |-> "save", entries |-> saved]
      BY <2>10, Going DEF OpenBaseline
    <3>2. \A f \in proc[p].chosen : Entry(f) \in agreed
      BY <2>10 DEF OpenBaseline, AcceptsKnow
    <3>3. Known(saved)
      BY <3>2 DEF Saved, Known
    <3>4. Known(baseline)'
      BY <2>10 DEF OpenBaseline, Known
    <3>5. AcceptsKnow'
      BY <2>10, <3>1, <3>3 DEF OpenBaseline, AcceptsKnow, Known, At, Entry
    <3>6. GateKnows'
      <4>1. proc'[p].pc = "save" /\ agreed' = agreed
        BY <2>10, <3>1 DEF OpenBaseline
      <4>2. ASSUME NEW q \in Procs \ {p} PROVE proc'[q] = proc[q]
        BY <3>1, <4>2
      <4> QED  BY <4>1, <4>2 DEF GateKnows, At
    <3> QED  BY <3>1, <3>4, <3>5, <3>6
  <2>11. CASE Save(p)
    <3>1. Placed' /\ proc'[p] = Idle /\ OthersStand
      BY <2>11, Going DEF Save
    <3>2. Known(baseline)'
      BY <2>11 DEF Save, AcceptsKnow, Known
    <3>3. proc'[p].pc = "idle" /\ agreed' = agreed
      BY <2>11, <3>1 DEF Save, Idle
    <3>4. ASSUME NEW q \in Procs \ {p} PROVE proc'[q] = proc[q]
      BY <3>1, <3>4
    <3>5. AcceptsKnow' /\ GateKnows'
      BY <3>3, <3>4 DEF AcceptsKnow, GateKnows, Known, At
    <3> QED  BY <3>1, <3>2, <3>5
  <2> QED
    BY <1>3, <2>2, <2>3, <2>4, <2>5, <2>6, <2>7, <2>8, <2>9, <2>10, <2>11 DEF Move
<1> QED  BY <1>1, <1>2, <1>3, StepsAreMoves

\* When the hook lets a tool call go ahead, somebody had agreed to carry every
\* blocking finding of the graph it read, with what the finding says there.
THEOREM GateIsKnowing == Spec => []GateKnows
<1>1. GateInv => GateKnows
  BY DEF GateInv
<1> QED  BY GateInvInit, GateInvStep, <1>1, PTL DEF Spec

-----------------------------------------------------------------------------
(***************************************************************************)
(* The files keep their shape: what a process is about to write is made of *)
(* lines and entries.                                                      *)
(***************************************************************************)
Lines == Names \cup {"meta", "torn"}

IsEntry(e) == DOMAIN e = {"fid", "says"}

WritesKnown ==
    \A p \in Procs :
        /\ At(p, "judged") => proc[p].batch \in Seq(Names)
        /\ At(p, "open") => proc[p].lines \in Seq(Lines)
        /\ At(p, "save") => \A e \in proc[p].entries : IsEntry(e)
        /\ proc[p].pc \in {"work", "locked", "weighed"} => proc[p].item \in Works

TypeInv == TypeOK /\ WritesKnown

LEMMA LengthenedType ==
    ASSUME NEW file \in Seq(Lines), NEW lines \in Seq(Lines)
    PROVE  Lengthened(file, lines) \in Seq(Lines)
<1>1. lines # <<>> => Tail(lines) \in Seq(Lines)
  OBVIOUS
<1> QED  BY <1>1 DEF Lengthened

LEMMA TypeInvInit == Init => TypeInv
<1> SUFFICES ASSUME Init PROVE TypeInv
  OBVIOUS
<1>1. PICK start \in Starts : log = start.log /\ roles = start.roles /\ appends = start.appends
  BY DEF Init
<1>2. /\ log \in Seq(Names \cup {"meta", "torn"})
      /\ appends \in Nat
      /\ roles \in [Procs -> SUBSET Commands]
  BY <1>1, StartsType
<1>3. \A e \in baseline : DOMAIN e = {"fid", "says"}
  BY DEF Init
<1>4. /\ worklog \in Seq(Works \cup {"torn"})
      /\ locked \in BOOLEAN
      /\ DOMAIN proc = Procs
  <2>1. worklog = <<>> /\ locked = FALSE /\ proc = [p \in Procs |-> Idle]
    BY DEF Init
  <2>2. /\ <<>> \in Seq(Works \cup {"torn"})
        /\ FALSE \in BOOLEAN
        /\ DOMAIN [p \in Procs |-> Idle] = Procs
    OBVIOUS
  <2> QED  BY <2>1, <2>2
<1>5. \A p \in Procs : proc[p].pc = "idle"
  BY DEF Init, Idle
<1> QED  BY <1>2, <1>3, <1>4, <1>5 DEF TypeInv, TypeOK, WritesKnown, At

\* A step keeps the shape if the files do and its process's new place does.
LEMMA TypeKept ==
    ASSUME TypeInv, NEW p \in Procs, NEW to, Goes(p, to), UNCHANGED roles,
           log' \in Seq(Lines), \A e \in baseline' : IsEntry(e),
           worklog' \in Seq(Works \cup {"torn"}), locked' \in BOOLEAN, appends' \in Nat,
           to.pc = "judged" => to.batch \in Seq(Names),
           to.pc = "open" => to.lines \in Seq(Lines),
           to.pc = "save" => \A e \in to.entries : IsEntry(e),
           to.pc \in {"work", "locked", "weighed"} => to.item \in Works
    PROVE  TypeInv'
<1>1. /\ Placed' /\ proc'[p] = to
      /\ \A q \in Procs \ {p} : proc'[q] = proc[q]
  BY Going DEF TypeInv, TypeOK, Placed
<1>2. TypeOK'
  BY <1>1 DEF TypeInv, TypeOK, Placed, Lines, IsEntry
<1>3. ASSUME NEW q \in Procs \ {p} PROVE proc'[q] = proc[q]
  BY <1>1, <1>3
<1>4. WritesKnown'
  BY <1>1, <1>3 DEF TypeInv, WritesKnown, At
<1> QED  BY <1>2, <1>4 DEF TypeInv

LEMMA TypeInvStep == TypeInv /\ [Next]_vars => TypeInv'
<1> SUFFICES ASSUME TypeInv, [Next]_vars PROVE TypeInv'
  OBVIOUS
<1>0. /\ log \in Seq(Lines) /\ \A e \in baseline : IsEntry(e)
      /\ worklog \in Seq(Works \cup {"torn"}) /\ locked \in BOOLEAN /\ appends \in Nat
      /\ Placed
  BY DEF TypeInv, TypeOK, Lines, IsEntry, Placed
<1>1. CASE UNCHANGED vars
  BY <1>1 DEF vars, TypeInv, TypeOK, WritesKnown, At
<1>2. CASE RecoverLock
  BY <1>2 DEF RecoverLock, TypeInv, TypeOK, WritesKnown, At
<1>3. ASSUME NEW p \in Procs, Move(p) PROVE TypeInv'
  <2>1. CASE BeginAppend(p)
    <3>1. PICK batch \in Batches : Goes(p, [pc |-> "judged", batch |-> batch, read |-> log])
      BY <2>1 DEF BeginAppend
    <3>2. batch \in Seq(Names) /\ appends' \in Nat
      BY <2>1, <1>0, BatchesType DEF BeginAppend
    <3> QED  BY <1>0, <2>1, <3>1, <3>2, TypeKept DEF BeginAppend
  <2>2. CASE OpenLog(p)
    <3> DEFINE lines == (IF log = <<>> THEN <<"meta">> ELSE <<>>) \o proc[p].batch
    <3>1. proc[p].batch \in Seq(Names)
      BY <2>2 DEF OpenLog, TypeInv, WritesKnown
    <3>2. lines \in Seq(Lines)
      <4>1. proc[p].batch \in Seq(Lines)
        BY <3>1 DEF Lines
      <4>2. <<"meta">> \in Seq(Lines) /\ <<>> \in Seq(Lines)
        BY DEF Lines
      <4>3. (IF log = <<>> THEN <<"meta">> ELSE <<>>) \in Seq(Lines)
        BY <4>2
      <4> QED  BY <4>1, <4>3
    <3>3. Goes(p, [pc |-> "open", read |-> proc[p].read, lines |-> lines])
      BY <2>2 DEF OpenLog
    <3> HIDE DEF lines
    <3> QED  BY <1>0, <2>2, <3>2, <3>3, TypeKept DEF OpenLog
  <2>3. CASE Flush(p)
    <3>1. proc[p].lines \in Seq(Lines)
      BY <2>3 DEF Flush, TypeInv, WritesKnown
    <3>2. log' \in Seq(Lines)
      BY <1>0, <2>3, <3>1, LengthenedType DEF Flush
    <3> QED  BY <1>0, <2>3, <3>2, TypeKept DEF Flush, Idle
  <2>4. CASE ReadGraph(p) \/ LetPass(p) \/ Block(p) \/ NextCall(p)
    BY <1>0, <2>4, TypeKept DEF ReadGraph, LetPass, Block, NextCall, Idle
  <2>5. CASE BeginAccept(p)
    <3>1. PICK chosen, live, prune :
            Goes(p, [pc |-> "accept", chosen |-> chosen, live |-> live, prune |-> prune])
      BY <2>5 DEF BeginAccept
    <3> QED  BY <1>0, <2>5, <3>1, TypeKept DEF BeginAccept
  <2>6. CASE OpenBaseline(p)
    <3> DEFINE saved == Saved(baseline, proc[p].chosen, proc[p].live, proc[p].prune)
    <3>1. \A f : IsEntry(Entry(f))
      BY DEF IsEntry, Entry
    <3>2. \A e \in saved : IsEntry(e)
      BY <1>0, <3>1 DEF Saved
    <3>3. Goes(p, [pc |-> "save", entries |-> saved]) /\ baseline' = {}
      BY <2>6 DEF OpenBaseline
    <3> HIDE DEF saved
    <3> QED  BY <1>0, <2>6, <3>2, <3>3, TypeKept DEF OpenBaseline
  <2>7. CASE Save(p)
    <3>1. \A e \in baseline' : IsEntry(e)
      BY <2>7 DEF Save, TypeInv, WritesKnown
    <3> QED  BY <1>0, <2>7, <3>1, TypeKept DEF Save, Idle
  <2>8. CASE BeginWork(p)
    <3>1. PICK w \in Works : Goes(p, AtWork("work", w, Families(Graph(log))))
      BY <2>8 DEF BeginWork
    <3> QED  BY <1>0, <2>8, <3>1, TypeKept DEF BeginWork, AtWork
  <2>9. CASE Lock(p) \/ LockedOut(p) \/ WeighWork(p) \/ RefuseWork(p) \/ Unlock(p)
    <3>1. (Lock(p) \/ WeighWork(p)) => proc[p].item \in Works
      BY DEF Lock, WeighWork, At, TypeInv, WritesKnown
    <3> QED
      BY <1>0, <2>9, <3>1, TypeKept
      DEF Lock, LockedOut, WeighWork, RefuseWork, Unlock, AtWork, Idle
  <2>10. CASE WriteWork(p)
    <3>1. proc[p].item \in Works
      BY <2>10 DEF WriteWork, At, TypeInv, WritesKnown
    <3>2. worklog' \in Seq(Works \cup {"torn"})
      BY <1>0, <2>10, <3>1 DEF WriteWork
    <3> QED  BY <1>0, <2>10, <3>2, TypeKept DEF WriteWork, AtWork
  <2>11. CASE Crash(p)
    <3>1. log' \in Seq(Lines)
      <4>1. CASE At(p, "open")
        <5>1. PICK n \in 0..Len(proc[p].lines), cut \in {<<>>, <<"torn">>} :
                log' = Lengthened(log, SubSeq(proc[p].lines, 1, n) \o cut)
          BY <2>11, <4>1 DEF Crash
        <5>2. proc[p].lines \in Seq(Lines)
          BY <4>1 DEF TypeInv, WritesKnown
        <5>3. SubSeq(proc[p].lines, 1, n) \in Seq(Lines)
          <6>1. n \in Int /\ \A i \in 1..n : proc[p].lines[i] \in Lines
            BY <5>2, LenProperties
          <6> QED  BY <6>1, SubSeqProperties
        <5>4. <<>> \in Seq(Lines) /\ <<"torn">> \in Seq(Lines)
          BY DEF Lines
        <5>5. SubSeq(proc[p].lines, 1, n) \o cut \in Seq(Lines)
          <6>1. cut \in Seq(Lines)
            BY <5>4
          <6> QED  BY <5>3, <6>1, ConcatProperties
        <5> QED  BY <1>0, <5>1, <5>5, LengthenedType
      <4>2. CASE ~At(p, "open")
        BY <1>0, <2>11, <4>2 DEF Crash
      <4> QED  BY <4>1, <4>2
    <3>2. worklog' \in Seq(Works \cup {"torn"})
      <4>1. worklog' \in {worklog, Append(worklog, "torn")}
        BY <2>11 DEF Crash
      <4> QED  BY <1>0, <4>1
    <3> QED  BY <1>0, <2>11, <3>1, <3>2, TypeKept DEF Crash, Idle
  <2> QED
    BY <1>3, <2>1, <2>2, <2>3, <2>4, <2>5, <2>6, <2>7, <2>8, <2>9, <2>10, <2>11 DEF Move
<1> QED  BY <1>1, <1>2, <1>3, StepsAreMoves

\* The files of a directory hold lines and entries of their own kind,
\* whoever is killed while writing them.
THEOREM FilesKeepShape == Spec => []TypeOK
<1>1. TypeInv => TypeOK
  BY DEF TypeInv
<1> QED  BY TypeInvInit, TypeInvStep, <1>1, PTL DEF Spec

-----------------------------------------------------------------------------
(***************************************************************************)
(* The work log.  Only the process that made the lock file is between lock *)
(* and unlock, so what it weighed is what it writes after.                 *)
(***************************************************************************)
Writing(p) == proc[p].pc \in {"locked", "weighed", "written"}

OneWriter == \A p \in Procs : Writing(p) => locked /\ \A q \in Procs : Writing(q) => p = q

WeighedHolds == \A p \in Procs : At(p, "weighed") => WorkHolds(p)

WorkInv == OneWriter /\ WeighedHolds /\ NoWorkTwice

\* A log that folds records nothing twice.
LEMMA FoldedOnce ==
    ASSUME NEW families, NEW records \in Seq(Works \cup {"torn"}), WorkFolds(records, families),
           NEW i \in DOMAIN records, NEW j \in DOMAIN records, i < j
    PROVE  /\ Work[records[i]].id # Work[records[j]].id
           /\ ~IsAttempt(records[j]) => Work[records[i]].resolves # Work[records[j]].resolves
<1>1. i \in 1..(j - 1)
  OBVIOUS
<1> QED  BY <1>1 DEF WorkFolds

LEMMA WorkInvInit == Init => WorkInv
<1> SUFFICES ASSUME Init PROVE WorkInv
  OBVIOUS
<1>1. \A p \in Procs : proc[p].pc = "idle"
  BY DEF Init, Idle
<1>2. worklog = <<>>
  BY DEF Init
<1>3. NoWorkTwice
  BY <1>2 DEF NoWorkTwice
<1> QED  BY <1>1, <1>3 DEF WorkInv, OneWriter, WeighedHolds, Writing, At

\* A process that is not writing afterwards, and touches neither the work log
\* nor the lock of another.
LEMMA WorkKept ==
    ASSUME TypeInv, WorkInv, NEW p \in Procs, NEW to, Goes(p, to), UNCHANGED <<worklog, locked>>,
           to.pc \notin {"locked", "weighed", "written"}
    PROVE  WorkInv'
<1>1. /\ Placed' /\ proc'[p] = to
      /\ \A q \in Procs \ {p} : proc'[q] = proc[q]
  BY Going DEF TypeInv, TypeOK, Placed
<1>2. ~Writing(p)' /\ ~At(p, "weighed")'
  BY <1>1 DEF Writing, At
<1>3. ASSUME NEW q \in Procs \ {p} PROVE /\ Writing(q)' = Writing(q)
                                          /\ At(q, "weighed")' = At(q, "weighed")
                                          /\ WorkHolds(q)' = WorkHolds(q)
  BY <1>1, <1>3 DEF Writing, At, WorkHolds
<1>4. OneWriter'
  BY <1>2, <1>3 DEF WorkInv, OneWriter
<1>5. WeighedHolds'
  BY <1>2, <1>3 DEF WorkInv, WeighedHolds
<1>6. NoWorkTwice'
  BY DEF WorkInv, NoWorkTwice
<1> QED  BY <1>4, <1>5, <1>6 DEF WorkInv

\* A process that is the only one to write, with the lock.
LEMMA WorkAlone ==
    ASSUME TypeInv, WorkInv, NEW p \in Procs, NEW to, Goes(p, to),
           \A q \in Procs \ {p} : ~Writing(q),
           to.pc \in {"locked", "weighed", "written"} => locked',
           to.pc = "weighed" => WorkHolds(p)',
           NoWorkTwice'
    PROVE  WorkInv'
<1>1. /\ Placed' /\ proc'[p] = to
      /\ \A q \in Procs \ {p} : proc'[q] = proc[q]
  BY Going DEF TypeInv, TypeOK, Placed
<1>2. ASSUME NEW q \in Procs \ {p} PROVE ~Writing(q)' /\ ~At(q, "weighed")'
  BY <1>1, <1>2 DEF Writing, At
<1>3. Writing(p)' => locked'
  BY <1>1 DEF Writing
<1>4. At(p, "weighed")' => WorkHolds(p)'
  BY <1>1 DEF At
<1>5. OneWriter'
  BY <1>2, <1>3 DEF OneWriter
<1>6. WeighedHolds'
  BY <1>2, <1>4 DEF WeighedHolds
<1> QED  BY <1>5, <1>6 DEF WorkInv

LEMMA WorkInvStep == TypeInv /\ TypeInv' /\ WorkInv /\ [Next]_vars => WorkInv'
<1> SUFFICES ASSUME TypeInv, TypeInv', WorkInv, [Next]_vars PROVE WorkInv'
  OBVIOUS
<1>1. CASE UNCHANGED vars
  BY <1>1 DEF vars, WorkInv, OneWriter, WeighedHolds, NoWorkTwice, Writing, At, WorkHolds
<1>2. CASE RecoverLock
  BY <1>2 DEF RecoverLock, WorkInv, OneWriter, WeighedHolds, NoWorkTwice, Writing, At, WorkHolds
<1>3. ASSUME NEW p \in Procs, Move(p) PROVE WorkInv'
  \* While p writes, nobody else does.
  <2>1. Writing(p) => locked /\ \A q \in Procs \ {p} : ~Writing(q)
    BY DEF WorkInv, OneWriter
  <2>2. CASE \/ OpenLog(p) \/ Flush(p) \/ ReadGraph(p) \/ LetPass(p) \/ Block(p) \/ NextCall(p)
             \/ OpenBaseline(p) \/ Save(p) \/ LockedOut(p)
    BY <2>2, WorkKept
    DEF OpenLog, Flush, ReadGraph, LetPass, Block, NextCall, OpenBaseline, Save, LockedOut, Idle
  <2>3. CASE BeginAppend(p) \/ BeginAccept(p) \/ BeginWork(p)
    BY <2>3, WorkKept DEF BeginAppend, BeginAccept, BeginWork, AtWork
  <2>4. CASE RefuseWork(p) \/ Unlock(p)
    <3>1. Writing(p) /\ Goes(p, Idle) /\ UNCHANGED worklog
      BY <2>4 DEF RefuseWork, Unlock, At, Writing
    <3> QED  BY <2>1, <3>1, WorkAlone DEF Idle, WorkInv, NoWorkTwice
  <2>5. CASE Lock(p)
    <3>1. Goes(p, AtWork("locked", proc[p].item, proc[p].families)) /\ locked' /\ UNCHANGED worklog
      BY <2>5 DEF Lock
    <3>2. \A q \in Procs : ~Writing(q)
      BY <2>5 DEF Lock, LockIsFree, WorkInv, OneWriter
    <3>3. NoWorkTwice'
      BY <3>1 DEF WorkInv, NoWorkTwice
    <3> QED  BY <3>1, <3>2, <3>3, WorkAlone DEF AtWork
  <2>6. CASE WeighWork(p)
    <3>1. /\ Writing(p) /\ WorkHolds(p) /\ UNCHANGED <<worklog, locked>>
          /\ Goes(p, AtWork("weighed", proc[p].item, proc[p].families))
      BY <2>6 DEF WeighWork, At, Writing
    <3>2. WorkHolds(p)'
      <4>1. proc'[p] = AtWork("weighed", proc[p].item, proc[p].families)
        BY <3>1, Going DEF TypeInv, TypeOK, Placed
      <4> QED  BY <3>1, <4>1 DEF WorkHolds, AtWork
    <3>3. NoWorkTwice'
      BY <3>1 DEF WorkInv, NoWorkTwice
    <3> QED  BY <2>1, <3>1, <3>2, <3>3, WorkAlone DEF AtWork
  <2>7. CASE WriteWork(p)
    <3>1. /\ Writing(p) /\ UNCHANGED locked
          /\ Goes(p, AtWork("written", proc[p].item, proc[p].families))
          /\ worklog' = Append(worklog, proc[p].item)
      BY <2>7 DEF WriteWork, At, Writing
    <3>2. WorkFolds(worklog', proc[p].families)
      BY <2>7, <3>1 DEF WriteWork, WorkInv, WeighedHolds, WorkHolds
    <3>3. NoWorkTwice'
      <4>1. worklog' \in Seq(Works \cup {"torn"})
        BY DEF TypeInv, TypeOK
      <4> QED  BY <3>2, <4>1, FoldedOnce DEF NoWorkTwice
    <3> QED  BY <2>1, <3>1, <3>3, WorkAlone DEF AtWork
  <2>8. CASE Crash(p)
    <3>1. Goes(p, Idle) /\ UNCHANGED locked
      BY <2>8 DEF Crash
    <3>2. CASE UNCHANGED worklog
      BY <3>1, <3>2, WorkKept DEF Idle
    <3>3. CASE At(p, "weighed") /\ worklog' = Append(worklog, "torn")
      <4>1. Writing(p)
        BY <3>3 DEF At, Writing
      <4>2. NoWorkTwice'
        BY <3>3 DEF TypeInv, TypeOK, WorkInv, NoWorkTwice
      <4> QED  BY <2>1, <3>1, <4>1, <4>2, WorkAlone DEF Idle
    <3> QED  BY <2>8, <3>2, <3>3 DEF Crash
  <2> QED  BY <1>3, <2>2, <2>3, <2>4, <2>5, <2>6, <2>7, <2>8 DEF Move
<1> QED  BY <1>1, <1>2, <1>3, StepsAreMoves

\* work.append records nothing twice, whoever dies with the lock and whoever
\* takes it away by hand once nobody is writing.
THEOREM WorkIsOnce == Spec => []NoWorkTwice
<1>1. WorkInv => NoWorkTwice
  BY DEF WorkInv
<1> QED  BY TypeInvInit, TypeInvStep, WorkInvInit, WorkInvStep, <1>1, PTL DEF Spec
-----------------------------------------------------------------------------
(***************************************************************************)
(* How a log reads.  Two batches are aligned if they hold the same events, *)
(* each as often, and tied events in the same order.                       *)
(***************************************************************************)
Aligned(a, b, to) ==
    /\ to \in [DOMAIN b -> DOMAIN a]
    /\ \A i, j \in DOMAIN b : to[i] = to[j] => i = j
    /\ \A k \in DOMAIN a : \E i \in DOMAIN b : to[i] = k
    /\ \A i \in DOMAIN b : b[i] \in Names /\ b[i] = a[to[i]]
    /\ \A i, j \in DOMAIN b : Tied(b[i], b[j]) => (i < j <=> to[i] < to[j])

LEMMA KeptAlike ==
    ASSUME NEW a, NEW b, NEW to, Aligned(a, b, to)
    PROVE  /\ \A i \in Errata(b) : to[i] \in Errata(a)
           /\ \A k \in Errata(a) : \E i \in Errata(b) : to[i] = k
           /\ \A i \in DOMAIN b : i \in Kept(b) <=> to[i] \in Kept(a)
           /\ Applied(b) = Applied(a)
<1>1. /\ \A i \in Errata(b) : to[i] \in Errata(a) /\ b[i] = a[to[i]]
      /\ \A k \in Errata(a) : \E i \in Errata(b) : to[i] = k
  BY DEF Aligned, Errata
<1>2. Voided(b) = Voided(a)
  BY <1>1 DEF Voided
<1>3. \A i \in DOMAIN b : i \in Errata(b) <=> to[i] \in Errata(a)
  BY DEF Aligned, Errata
<1>4. \A i \in DOMAIN b : i \in Kept(b) <=> to[i] \in Kept(a)
  BY <1>2, <1>3 DEF Kept, Aligned
<1>5. Applied(b) \subseteq Applied(a)
  <2>1. ASSUME NEW i \in Kept(b) PROVE b[i] \in Applied(a)
    BY <1>4, <2>1 DEF Applied, Aligned, Kept
  <2> QED  BY <2>1 DEF Applied
<1>6. Applied(a) \subseteq Applied(b)
  <2>1. ASSUME NEW k \in Kept(a) PROVE a[k] \in Applied(b)
    <3>1. PICK i \in DOMAIN b : to[i] = k
      BY DEF Kept, Aligned
    <3> QED  BY <1>4, <3>1 DEF Applied, Aligned
  <2> QED  BY <2>1 DEF Applied
<1> QED  BY <1>1, <1>4, <1>5, <1>6

\* What matters to an event stands before it in both, or in neither.
Matters(m, n) == Tied(m, n) \/ (KindOf(m) = "certificate" /\ KindOf(n) # "certificate")

LEMMA BeforeAlike ==
    ASSUME NEW a, NEW b, NEW to, Aligned(a, b, to), NEW i \in Kept(b), NEW m, Matters(m, b[i])
    PROVE  m \in Before(b, i) <=> m \in Before(a, to[i])
<1>1. i \in DOMAIN b /\ to[i] \in DOMAIN a /\ b[i] = a[to[i]]
  BY DEF Kept, Aligned
<1>2. ASSUME NEW j \in Kept(b), b[j] = m
      PROVE  /\ to[j] \in Kept(a) /\ a[to[j]] = m
             /\ Precedes(b, j, i) <=> Precedes(a, to[j], to[i])
  <2>1. j \in DOMAIN b /\ to[j] \in Kept(a) /\ a[to[j]] = m
    BY <1>2, KeptAlike DEF Kept, Aligned
  <2>2. Tied(b[j], b[i]) => (j < i <=> to[j] < to[i])
    BY <1>1, <2>1 DEF Aligned
  <2> QED  BY <1>1, <1>2, <2>1, <2>2 DEF Precedes, Matters
<1>3. ASSUME m \in Before(b, i) PROVE m \in Before(a, to[i])
  <2>1. PICK j \in Kept(b) : b[j] = m /\ Precedes(b, j, i)
    BY <1>3 DEF Before
  <2> QED  BY <1>2, <2>1 DEF Before
<1>4. ASSUME m \in Before(a, to[i]) PROVE m \in Before(b, i)
  <2>1. PICK k \in Kept(a) : a[k] = m /\ Precedes(a, k, to[i])
    BY <1>4 DEF Before
  <2>2. PICK j \in DOMAIN b : to[j] = k
    BY <2>1 DEF Aligned, Kept
  <2>3. j \in Kept(b) /\ b[j] = m
    BY <2>1, <2>2, KeptAlike DEF Aligned
  <2> QED  BY <1>2, <2>1, <2>2, <2>3 DEF Before
<1> QED  BY <1>3, <1>4

\* Of what an event needs there, the same stands before it in both.
LEMMA NeededAlike ==
    ASSUME NEW a, NEW b, NEW to, Aligned(a, b, to), NEW i \in Kept(b), ComesAfter(b[i]),
           NEW id \in Event[b[i]].names, NEW m, IdOf(m) = id
    PROVE  m \in Bearing(Standing(Before(b, i)), b[i])
              <=> m \in Bearing(Standing(Before(a, to[i])), b[i])
<1>1. ASSUME KindOf(m) \in Bears[KindOf(b[i])] PROVE m \in Before(b, i) <=> m \in Before(a, to[i])
  <2>1. Matters(m, b[i])
    BY <1>1 DEF Matters, Tied, Needs, Bearing
  <2> QED  BY <2>1, BeforeAlike
<1> QED  BY <1>1 DEF Bearing, Standing

LEMMA AppliesAlike ==
    ASSUME NEW a, NEW b, NEW to, Aligned(a, b, to), NEW i \in Kept(b)
    PROVE  Applies(b[i], Before(b, i)) <=> Applies(a[to[i]], Before(a, to[i]))
<1> DEFINE n == b[i]
<1>1. n \in Names /\ a[to[i]] = n
  BY DEF Aligned, Kept
<1>2. ASSUME Event[n].cites # None, NEW c
      PROVE  c \in Of(Standing(Before(b, i)), "certificate")
                <=> c \in Of(Standing(Before(a, to[i])), "certificate")
  <2>1. KindOf(n) # "certificate"
    BY <1>1, <1>2, ClaimsCite DEF KindOf
  <2>2. ASSUME KindOf(c) = "certificate" PROVE c \in Before(b, i) <=> c \in Before(a, to[i])
    <3>1. Matters(c, b[i])
      BY <2>1, <2>2 DEF Matters
    <3> QED  BY <3>1, BeforeAlike
  <2> QED  BY <2>2 DEF Of, Standing
<1>3. ASSUME ComesAfter(n)
      PROVE  (\A id \in Event[n].names : \E m \in Bearing(Standing(Before(b, i)), n) : IdOf(m) = id)
                <=> \A id \in Event[n].names :
                        \E m \in Bearing(Standing(Before(a, to[i])), n) : IdOf(m) = id
  <2>1. ASSUME NEW id \in Event[n].names, NEW m, IdOf(m) = id
        PROVE  m \in Bearing(Standing(Before(b, i)), n)
                  <=> m \in Bearing(Standing(Before(a, to[i])), n)
    BY <1>3, <2>1, NeededAlike
  <2> HIDE DEF n
  <2> QED  BY <2>1
<1> HIDE DEF n
<1>4. Applies(n, Before(b, i)) <=> Applies(n, Before(a, to[i]))
  BY <1>2, <1>3 DEF Applies
<1> QED  BY <1>1, <1>4 DEF n

LEMMA ProjectedAlike ==
    ASSUME NEW a, NEW b, NEW to, Aligned(a, b, to), NEW i \in DOMAIN b
    PROVE  i \in Projected(b) <=> to[i] \in Projected(a)
<1>1. b[i] = a[to[i]] /\ (i \in Kept(b) <=> to[i] \in Kept(a))
  BY KeptAlike DEF Aligned
<1>2. ASSUME i \in Kept(b), KindOf(b[i]) = "verdict"
      PROVE  /\ b[i] \in Before(b, i) <=> b[i] \in Before(a, to[i])
             /\ Current(b[i], Before(b, i)) <=> Current(b[i], Before(a, to[i]))
  <2>1. Matters(b[i], b[i]) /\ ComesAfter(b[i])
    BY <1>2 DEF Matters, Tied, ComesAfter
  <2>2. ASSUME NEW c, IdOf(c) \in Event[b[i]].names
        PROVE  c \in Bearing(Standing(Before(b, i)), b[i])
                  <=> c \in Bearing(Standing(Before(a, to[i])), b[i])
    BY <1>2, <2>1, <2>2, NeededAlike
  <2>3. b[i] \in Before(b, i) <=> b[i] \in Before(a, to[i])
    BY <1>2, <2>1, BeforeAlike
  <2> QED  BY <2>2, <2>3 DEF Current
<1> QED  BY <1>1, <1>2 DEF Projected

\* Aligned batches make one graph, if any.
LEMMA GraphAlike ==
    ASSUME NEW a, NEW b, NEW to, Aligned(a, b, to)
    PROVE  GraphOf(a) = GraphOf(b) /\ (WellFormed(a) <=> WellFormed(b))
<1>1. Applied(b) = Applied(a)
  BY KeptAlike
<1>2. ASSUME NEW i \in Projected(b), NEW j \in Projected(b), Event[b[i]].names = Event[b[j]].names
      PROVE  i < j <=> to[i] < to[j]
  <2>1. Tied(b[i], b[j]) /\ i \in DOMAIN b /\ j \in DOMAIN b
    BY <1>2 DEF Projected, Kept, Tied
  <2> QED  BY <2>1 DEF Aligned
<1>3. /\ \A i \in Projected(b) : i \in DOMAIN b /\ to[i] \in Projected(a) /\ b[i] = a[to[i]]
      /\ \A k \in Projected(a) : \E i \in Projected(b) : to[i] = k
  <2>1. \A i \in DOMAIN b : i \in Projected(b) <=> to[i] \in Projected(a)
    BY ProjectedAlike
  <2>2. \A i \in Projected(b) : i \in DOMAIN b
    BY DEF Projected, Kept
  <2>3. \A k \in Projected(a) : k \in DOMAIN a
    BY DEF Projected, Kept
  <2> QED  BY <2>1, <2>2, <2>3 DEF Aligned
<1>4. ASSUME NEW i \in Projected(b)
      PROVE  (\E j \in Projected(b) : j > i /\ Event[b[j]].names = Event[b[i]].names)
                <=> \E k \in Projected(a) : k > to[i] /\ Event[a[k]].names = Event[a[to[i]]].names
  BY <1>2, <1>3
<1>5. Shown(b) = Shown(a)
  <2>1. ASSUME NEW n \in Shown(b) PROVE n \in Shown(a)
    BY <1>3, <1>4, <2>1 DEF Shown
  <2>2. ASSUME NEW n \in Shown(a) PROVE n \in Shown(b)
    <3>1. PICK k \in Projected(a) :
             /\ a[k] = n
             /\ ~ \E l \in Projected(a) : l > k /\ Event[a[l]].names = Event[a[k]].names
      BY <2>2 DEF Shown
    <3>2. PICK i \in Projected(b) : to[i] = k
      BY <1>3
    <3> QED  BY <1>3, <1>4, <3>1, <3>2 DEF Shown
  <2> QED  BY <2>1, <2>2
<1>6. EachApplies(a) <=> EachApplies(b)
  <2>1. ASSUME NEW i \in Kept(b)
        PROVE  Applies(b[i], Before(b, i)) <=> Applies(a[to[i]], Before(a, to[i]))
    BY AppliesAlike
  <2>2. /\ \A i \in Kept(b) : to[i] \in Kept(a)
        /\ \A k \in Kept(a) : \E i \in Kept(b) : to[i] = k
    BY KeptAlike DEF Kept, Aligned
  <2> QED  BY <2>1, <2>2 DEF EachApplies
<1> QED  BY <1>1, <1>5, <1>6 DEF GraphOf, WellFormed, NoConflict

LEMMA WithoutAlike ==
    ASSUME NEW a, NEW b, NEW to, Aligned(a, b, to), NEW i \in DOMAIN b
    PROVE  WellFormed(Without(a, to[i])) <=> WellFormed(Without(b, i))
<1> DEFINE c == Without(a, to[i])
           d == Without(b, i)
           by == [j \in DOMAIN b \ {i} |-> to[j]]
<1>1. /\ DOMAIN c = DOMAIN a \ {to[i]} /\ DOMAIN d = DOMAIN b \ {i}
      /\ \A k \in DOMAIN c : c[k] = a[k]
      /\ \A j \in DOMAIN d : d[j] = b[j]
  BY DEF Without, Restrict
<1>2. DOMAIN by = DOMAIN d /\ \A j \in DOMAIN d : by[j] = to[j]
  BY <1>1
<1>3. by \in [DOMAIN d -> DOMAIN c]
  BY <1>1 DEF Aligned
<1> HIDE DEF c, d, by
<1>4. ASSUME NEW k \in DOMAIN c PROVE \E j \in DOMAIN d : by[j] = k
  <2>1. PICK j \in DOMAIN b : to[j] = k
    BY <1>1 DEF Aligned
  <2> QED  BY <1>1, <1>2, <2>1
<1>5. Aligned(c, d, by)
  BY <1>1, <1>2, <1>3, <1>4 DEF Aligned
<1> QED  BY <1>5, GraphAlike DEF c, d

\* Whether a batch is well formed is a matter of what is kept of it.
LEMMA KeptDecides ==
    ASSUME NEW a, NEW b, Kept(a) = Kept(b), \A i \in Kept(a) : a[i] = b[i]
    PROVE  WellFormed(a) <=> WellFormed(b)
<1>1. Applied(a) = Applied(b)
  BY DEF Applied
<1>2. \A i, j \in Kept(a) : Precedes(a, j, i) <=> Precedes(b, j, i)
  BY DEF Precedes
<1>3. ASSUME NEW i \in Kept(a) PROVE Before(a, i) = Before(b, i)
  BY <1>2, <1>3 DEF Before
<1> QED  BY <1>1, <1>3 DEF WellFormed, NoConflict, EachApplies

\* A second erratum for one id can be spared, so it is refused.
LEMMA SecondIsSpare ==
    ASSUME NEW batch, NEW i \in Errata(batch), NEW j \in Errata(batch), i # j,
           Event[batch[i]].voids = Event[batch[j]].voids
    PROVE  WellFormed(Without(batch, i)) <=> WellFormed(batch)
<1> DEFINE rest == Without(batch, i)
<1>1. DOMAIN rest = DOMAIN batch \ {i} /\ \A k \in DOMAIN rest : rest[k] = batch[k]
  BY DEF Without, Restrict
<1> HIDE DEF rest
<1>2. Errata(rest) = Errata(batch) \ {i}
  BY <1>1 DEF Errata
<1>3. \A k \in Errata(batch) : k \in DOMAIN batch
  BY DEF Errata
<1>4. Voided(rest) = Voided(batch)
  BY <1>1, <1>2, <1>3 DEF Voided
<1>5. Kept(rest) = Kept(batch)
  BY <1>1, <1>2, <1>4 DEF Kept
<1>6. \A k \in Kept(batch) : rest[k] = batch[k]
  BY <1>1, <1>5 DEF Kept
<1> QED  BY <1>5, <1>6, KeptDecides DEF rest

\* Folding, without looking which erratum of an id is the last one.
FoldsOnce(batch) ==
    /\ WellFormed(batch)
    /\ \A i, j \in Errata(batch) : Event[batch[i]].voids = Event[batch[j]].voids => i = j
    /\ \A i \in Errata(batch) : ~WellFormed(Without(batch, i))

LEMMA FoldsIsOnce ==
    ASSUME NEW batch \in Seq(Names) PROVE Folds(batch) <=> FoldsOnce(batch)
<1>1. ASSUME Folds(batch), NEW i \in Errata(batch), NEW j \in Errata(batch), i # j,
             Event[batch[i]].voids = Event[batch[j]].voids
      PROVE  FALSE
  <2> DEFINE same == {k \in Errata(batch) : Event[batch[k]].voids = Event[batch[i]].voids}
  <2>1. Len(batch) \in Nat /\ same \in SUBSET (1..Len(batch)) /\ same # {}
    BY LenProperties DEF Errata
  <2>2. PICK last \in same : \A k \in same : k <= last
    <3> HIDE DEF same
    <3> QED  BY <2>1, HasGreatest
  <2>3. ~ \E k \in Errata(batch) : k > last /\ Event[batch[k]].voids = Event[batch[last]].voids
    BY <2>1, <2>2
  <2>4. ~WellFormed(Without(batch, last))
    BY <1>1, <2>3 DEF Folds, Needed
  <2>5. PICK other \in same : other # last
    BY <1>1
  <2>6. WellFormed(Without(batch, last)) <=> WellFormed(batch)
    BY <2>2, <2>5, SecondIsSpare
  <2> QED  BY <1>1, <2>4, <2>6 DEF Folds
<1>2. ASSUME Folds(batch) PROVE FoldsOnce(batch)
  <2>1. ASSUME NEW i \in Errata(batch) PROVE ~WellFormed(Without(batch, i))
    <3>1. ~ \E j \in Errata(batch) : j > i /\ Event[batch[j]].voids = Event[batch[i]].voids
      <4>1. \A j \in Errata(batch) : j \in Int /\ i \in Int
        BY LenProperties DEF Errata
      <4> QED  BY <1>1, <1>2, <4>1
    <3> QED  BY <1>2, <3>1 DEF Folds, Needed
  <2> QED  BY <1>1, <1>2, <2>1 DEF FoldsOnce, Folds
<1>3. ASSUME FoldsOnce(batch) PROVE Folds(batch)
  BY <1>3 DEF FoldsOnce, Folds, Needed
<1> QED  BY <1>2, <1>3

LEMMA FoldsAlike ==
    ASSUME NEW a \in Seq(Names), NEW b \in Seq(Names), NEW to, Aligned(a, b, to)
    PROVE  Folds(a) <=> Folds(b)
<1>1. /\ \A i \in Errata(b) : i \in DOMAIN b /\ to[i] \in Errata(a) /\ b[i] = a[to[i]]
      /\ \A k \in Errata(a) : \E i \in Errata(b) : to[i] = k
      /\ \A i, j \in Errata(b) : to[i] = to[j] => i = j
  <2>1. \A i \in Errata(b) : i \in DOMAIN b
    BY DEF Errata
  <2>2. /\ \A i \in DOMAIN b : b[i] = a[to[i]]
        /\ \A i, j \in DOMAIN b : to[i] = to[j] => i = j
    BY DEF Aligned
  <2>3. /\ \A i \in Errata(b) : to[i] \in Errata(a)
        /\ \A k \in Errata(a) : \E i \in Errata(b) : to[i] = k
    BY KeptAlike
  <2> QED  BY <2>1, <2>2, <2>3
<1>2. \A i \in Errata(b) : WellFormed(Without(a, to[i])) <=> WellFormed(Without(b, i))
  BY <1>1, WithoutAlike
<1>3. (\A i, j \in Errata(a) : Event[a[i]].voids = Event[a[j]].voids => i = j)
         <=> \A i, j \in Errata(b) : Event[b[i]].voids = Event[b[j]].voids => i = j
  <2>1. ASSUME \A i, j \in Errata(a) : Event[a[i]].voids = Event[a[j]].voids => i = j,
               NEW i \in Errata(b), NEW j \in Errata(b), Event[b[i]].voids = Event[b[j]].voids
        PROVE  i = j
    <3>1. to[i] = to[j]
      BY <1>1, <2>1
    <3> QED  BY <1>1, <3>1
  <2>2. ASSUME \A i, j \in Errata(b) : Event[b[i]].voids = Event[b[j]].voids => i = j,
               NEW k \in Errata(a), NEW l \in Errata(a), Event[a[k]].voids = Event[a[l]].voids
        PROVE  k = l
    <3>1. PICK i \in Errata(b) : to[i] = k
      BY <1>1
    <3>2. PICK j \in Errata(b) : to[j] = l
      BY <1>1
    <3>3. i = j
      BY <1>1, <2>2, <3>1, <3>2
    <3> QED  BY <3>1, <3>2, <3>3
  <2> QED  BY <2>1, <2>2
<1>4. (\A k \in Errata(a) : ~WellFormed(Without(a, k)))
         <=> \A i \in Errata(b) : ~WellFormed(Without(b, i))
  BY <1>1, <1>2
<1>5. WellFormed(a) <=> WellFormed(b)
  BY GraphAlike
<1>6. FoldsOnce(a) <=> FoldsOnce(b)
  BY <1>3, <1>4, <1>5 DEF FoldsOnce
<1> QED  BY <1>6, FoldsIsOnce

\* A piece of a sequence, from one place to another.
LEMMA PieceOf ==
    ASSUME NEW S, NEW s \in Seq(S), NEW m \in Int, NEW n \in Int, 1 <= m, m <= n + 1, n <= Len(s)
    PROVE  /\ SubSeq(s, m, n) \in Seq(S) /\ Len(SubSeq(s, m, n)) = n - m + 1
           /\ \A j \in 1..(n - m + 1) : SubSeq(s, m, n)[j] = s[m + j - 1]
<1> DEFINE piece == SubSeq(s, m, n)
<1>1. Len(s) \in Nat /\ \A j \in m..n : j \in 1..Len(s)
  BY LenProperties
<1>2. \A j \in m..n : s[j] \in S
  BY <1>1, ElementOfSeq
<1>3. /\ piece \in Seq(S) /\ Len(piece) = (IF m <= n THEN n - m + 1 ELSE 0)
      /\ \A j \in 1..(n - m + 1) : piece[j] = s[m + j - 1]
  BY <1>2, SubSeqProperties
<1> HIDE DEF piece
<1>4. Len(piece) = n - m + 1
  BY <1>3
<1> QED  BY <1>3, <1>4 DEF piece

\* The place in a batch of what comes i-th when it is read from after the n-th.
From(length, n, i) == IF i <= length - n THEN i + n ELSE i - (length - n)

LEMMA ReadFrom ==
    ASSUME NEW batch \in Seq(Names), NEW n \in 1..(Len(batch) - 1), NEW other,
           other = Turned(batch, n),
           \A i \in 1..n, j \in (n + 1)..Len(batch) : ~Tied(batch[i], batch[j])
    PROVE  /\ other \in Seq(Names)
           /\ Aligned(batch, other, [i \in 1..Len(batch) |-> From(Len(batch), n, i)])
<1> DEFINE a == SubSeq(batch, n + 1, Len(batch))
           b == SubSeq(batch, 1, n)
           length == Len(batch)
           t == a \o b
           to == [i \in 1..length |-> From(length, n, i)]
<1>1. /\ length \in Nat /\ DOMAIN batch = 1..length /\ \A j \in 1..length : batch[j] \in Names
      /\ n \in Nat /\ 1 <= n /\ n < length
  BY LenProperties, ElementOfSeq
<1>2. a \in Seq(Names) /\ Len(a) = length - n /\ \A j \in 1..(length - n) : a[j] = batch[j + n]
  <2>1. /\ n + 1 \in Int /\ length \in Int /\ 1 <= n + 1 /\ n + 1 <= length + 1
        /\ length <= Len(batch)
    BY <1>1
  <2>2. /\ a \in Seq(Names) /\ Len(a) = length - (n + 1) + 1
        /\ \A j \in 1..(length - (n + 1) + 1) : a[j] = batch[(n + 1) + j - 1]
    BY <2>1, PieceOf
  <2>3. length - (n + 1) + 1 = length - n /\ \A j \in 1..(length - n) : (n + 1) + j - 1 = j + n
    BY <1>1
  <2> HIDE DEF a, length
  <2> QED  BY <2>2, <2>3
<1>3. b \in Seq(Names) /\ Len(b) = n /\ \A j \in 1..n : b[j] = batch[j]
  <2>1. 1 \in Int /\ n \in Int /\ 1 <= 1 /\ 1 <= n + 1 /\ n <= Len(batch)
    BY <1>1
  <2>2. /\ b \in Seq(Names) /\ Len(b) = n - 1 + 1
        /\ \A j \in 1..(n - 1 + 1) : b[j] = batch[1 + j - 1]
    BY <2>1, PieceOf
  <2>3. n - 1 + 1 = n /\ \A j \in 1..n : 1 + j - 1 = j
    BY <1>1
  <2> HIDE DEF b
  <2> QED  BY <2>2, <2>3
<1>4. other = t
  BY DEF Turned
<1> HIDE DEF a, b, length
<1>5. /\ t \in Seq(Names) /\ DOMAIN t = 1..length
      /\ \A j \in 1..length : t[j] = IF j <= length - n THEN a[j] ELSE b[j - (length - n)]
  <2>1. /\ t \in Seq(Names) /\ Len(t) = Len(a) + Len(b)
        /\ \A j \in 1..(Len(a) + Len(b)) : t[j] = IF j <= Len(a) THEN a[j] ELSE b[j - Len(a)]
    BY <1>2, <1>3, ConcatProperties
  <2>2. Len(a) = length - n /\ Len(a) + Len(b) = length
    BY <1>1, <1>2, <1>3
  <2>3. DOMAIN t = 1..Len(t)
    BY <2>1, LenProperties
  <2> QED  BY <2>1, <2>2, <2>3
<1> HIDE DEF t
<1>6. ASSUME NEW j \in 1..length PROVE /\ From(length, n, j) \in 1..length
                                       /\ t[j] = batch[From(length, n, j)]
  <2>1. CASE j <= length - n
    <3>1. j \in 1..(length - n) /\ From(length, n, j) = j + n /\ j + n \in 1..length
      BY <1>1, <2>1 DEF From
    <3>2. t[j] = a[j]
      BY <1>5, <2>1
    <3>3. a[j] = batch[j + n]
      BY <1>2, <3>1
    <3> QED  BY <3>1, <3>2, <3>3
  <2>2. CASE ~(j <= length - n)
    <3>1. /\ j - (length - n) \in 1..n /\ j - (length - n) \in 1..length
          /\ From(length, n, j) = j - (length - n)
      BY <1>1, <2>2 DEF From
    <3>2. t[j] = b[j - (length - n)]
      BY <1>5, <2>2
    <3>3. b[j - (length - n)] = batch[j - (length - n)]
      BY <1>3, <3>1
    <3> QED  BY <3>1, <3>2, <3>3
  <2> QED  BY <2>1, <2>2
<1>7. \A i, j \in 1..length : From(length, n, i) = From(length, n, j) => i = j
  BY <1>1 DEF From
<1>8. ASSUME NEW k \in 1..length PROVE \E i \in 1..length : From(length, n, i) = k
  <2>1. CASE k > n
    <3>1. k - n \in 1..length /\ From(length, n, k - n) = k
      BY <1>1, <2>1 DEF From
    <3> QED  BY <3>1
  <2>2. CASE ~(k > n)
    <3>1. k + (length - n) \in 1..length /\ From(length, n, k + (length - n)) = k
      BY <1>1, <2>2 DEF From
    <3> QED  BY <3>1
  <2> QED  BY <2>1, <2>2
<1>9. ASSUME NEW i \in 1..length, NEW j \in 1..length, Tied(t[i], t[j])
      PROVE  i < j <=> From(length, n, i) < From(length, n, j)
  <2> DEFINE k == From(length, n, i)
             l == From(length, n, j)
  <2>1. Tied(batch[k], batch[l]) /\ Tied(batch[l], batch[k])
    BY <1>6, <1>9 DEF Tied
  <2>2. k \in 1..length /\ l \in 1..length
    BY <1>6
  <2>3. (k <= n <=> l <= n)
    <3>1. ~(k \in 1..n /\ l \in (n + 1)..length) /\ ~(l \in 1..n /\ k \in (n + 1)..length)
      BY <2>1 DEF length
    <3> HIDE DEF k, l
    <3> QED  BY <1>1, <2>2, <3>1
  <2> QED  BY <1>1, <2>2, <2>3 DEF From
<1>10. to \in [1..length -> 1..length] /\ \A i \in 1..length : to[i] = From(length, n, i)
  BY <1>6
<1>11. \A i \in 1..length : t[i] \in Names
  BY <1>1, <1>6
<1> HIDE DEF to
<1>12. Aligned(batch, t, to)
  <2>1. DOMAIN batch = 1..length /\ DOMAIN t = 1..length
    BY <1>1, <1>5
  <2>2. /\ \A i, j \in 1..length : to[i] = to[j] => i = j
        /\ \A i \in 1..length : t[i] \in Names /\ t[i] = batch[to[i]]
    BY <1>6, <1>7, <1>10, <1>11
  <2>3. \A k \in 1..length : \E i \in 1..length : to[i] = k
    BY <1>8, <1>10
  <2>4. \A i, j \in 1..length : Tied(t[i], t[j]) => (i < j <=> to[i] < to[j])
    BY <1>9, <1>10
  <2> QED  BY <1>10, <2>1, <2>2, <2>3, <2>4 DEF Aligned
<1> QED  BY <1>4, <1>5, <1>12 DEF length, to

\* What comes after the header of a file that can be read.
LEMMA RecordsAreNames ==
    ASSUME NEW file \in Seq(Lines), Readable(file)
    PROVE  Records(file) \in Seq(Names)
<1>1. CASE file = <<>>
  BY <1>1 DEF Records
<1>2. CASE file # <<>>
  <2>1. /\ Tail(file) \in Seq(Lines) /\ Len(Tail(file)) = Len(file) - 1
        /\ \A i \in 1..Len(Tail(file)) : Tail(file)[i] = file[i + 1]
    BY <1>2, HeadTailProperties
  <2>2. /\ Len(Tail(file)) \in Nat /\ DOMAIN Tail(file) = 1..Len(Tail(file))
        /\ \A i \in 1..Len(Tail(file)) : Tail(file)[i] \in Lines
    BY <2>1, LenProperties, ElementOfSeq
  <2>3. \A i \in 1..Len(Tail(file)) : Tail(file)[i] \in Names
    <3>1. \A i \in 1..Len(Tail(file)) : i + 1 \in 2..Len(file)
      BY <2>1, <2>2
    <3> QED  BY <1>2, <2>1, <2>2, <3>1 DEF Readable, Lines
  <2>4. Tail(file) \in Seq(Names)
    <3>1. Tail(file) \in [1..Len(Tail(file)) -> Names]
      BY <2>1, <2>2, <2>3, LenProperties
    <3> QED  BY <2>2, <3>1, SeqDef
  <2> QED  BY <1>2, <2>4 DEF Records
<1> QED  BY <1>1, <1>2

\* apply_all: a log folds or not, and to the same graph, from wherever it is
\* read first, unless the cut is between a verdict or a quoting doubt and the
\* record it is about, or between two verdicts on one claim.
THEOREM OrderIsIgnored == Spec => []FoldIgnoresOrder
<1>1. ASSUME TypeInv PROVE FoldIgnoresOrder
  <2> DEFINE recs == Records(log)
  <2>1. SUFFICES ASSUME Readable(log), NEW n \in 1..(Len(recs) - 1),
                        \A i \in 1..n, j \in (n + 1)..Len(recs) : ~Tied(recs[i], recs[j])
                 PROVE  ReadAlike(recs, Turned(recs, n))
    BY DEF FoldIgnoresOrder
  <2>2. recs \in Seq(Names)
    BY <1>1, <2>1, RecordsAreNames DEF TypeInv, TypeOK, Lines
  <2> DEFINE other == Turned(recs, n)
             to    == [i \in 1..Len(recs) |-> From(Len(recs), n, i)]
  <2> HIDE DEF recs
  <2>3. other \in Seq(Names) /\ Aligned(recs, other, to)
    BY <2>1, <2>2, ReadFrom
  <2> HIDE DEF other, to
  <2>4. GraphOf(recs) = GraphOf(other) /\ (Folds(recs) <=> Folds(other))
    BY <2>2, <2>3, GraphAlike, FoldsAlike
  <2>5. Folds(other) \in BOOLEAN /\ Folds(recs) \in BOOLEAN
    BY DEF Folds, WellFormed, Needed, NoConflict
  <2> QED  BY <2>4, <2>5 DEF ReadAlike, other
<1> QED  BY <1>1, TypeInvInit, TypeInvStep, PTL DEF Spec

-----------------------------------------------------------------------------
(***************************************************************************)
(* The log only grows, and so do the families it declares, which is what   *)
(* the work records were judged with.                                      *)
(***************************************************************************)
Extends(more, file) == DOMAIN file \subseteq DOMAIN more /\ \A i \in DOMAIN file : more[i] = file[i]

LEMMA ConcatExtends ==
    ASSUME NEW file \in Seq(Lines), NEW lines \in Seq(Lines) PROVE Extends(file \o lines, file)
<1> DEFINE more == file \o lines
<1>1. /\ more \in Seq(Lines) /\ Len(more) = Len(file) + Len(lines)
      /\ \A i \in 1..(Len(file) + Len(lines)) :
             more[i] = IF i <= Len(file) THEN file[i] ELSE lines[i - Len(file)]
  BY ConcatProperties
<1>2. Len(file) \in Nat /\ Len(lines) \in Nat /\ DOMAIN file = 1..Len(file)
  BY LenProperties
<1>3. DOMAIN more = 1..(Len(file) + Len(lines))
  BY <1>1, LenProperties
<1> HIDE DEF more
<1> QED  BY <1>1, <1>2, <1>3 DEF Extends, more

LEMMA LengthenedExtends ==
    ASSUME NEW file \in Seq(Lines), NEW lines \in Seq(Lines) PROVE Extends(Lengthened(file, lines), file)
<1>1. lines # <<>> => Tail(lines) \in Seq(Lines)
  BY HeadTailProperties
<1> QED  BY <1>1, ConcatExtends DEF Lengthened

LEMMA LogExtends == TypeInv /\ [Next]_vars => Extends(log', log)
<1> SUFFICES ASSUME TypeInv, [Next]_vars PROVE Extends(log', log)
  OBVIOUS
<1>1. log \in Seq(Lines)
  BY DEF TypeInv, TypeOK, Lines
<1>2. CASE UNCHANGED log
  BY <1>2 DEF Extends
<1>3. ASSUME NEW p \in Procs, Flush(p) PROVE Extends(log', log)
  BY <1>1, <1>3, LengthenedExtends DEF Flush, TypeInv, WritesKnown
<1>4. ASSUME NEW p \in Procs, Crash(p), At(p, "open") PROVE Extends(log', log)
  <2>1. PICK n \in 0..Len(proc[p].lines), cut \in {<<>>, <<"torn">>} :
          log' = Lengthened(log, SubSeq(proc[p].lines, 1, n) \o cut)
    BY <1>4 DEF Crash
  <2>2. proc[p].lines \in Seq(Lines)
    BY <1>4 DEF TypeInv, WritesKnown
  <2>3. SubSeq(proc[p].lines, 1, n) \in Seq(Lines)
    <3>1. n \in Int /\ \A i \in 1..n : proc[p].lines[i] \in Lines
      BY <2>2, LenProperties
    <3> QED  BY <3>1, SubSeqProperties
  <2>4. cut \in Seq(Lines)
    <3>1. <<>> \in Seq(Lines) /\ <<"torn">> \in Seq(Lines)
      BY DEF Lines
    <3> QED  BY <3>1
  <2>5. SubSeq(proc[p].lines, 1, n) \o cut \in Seq(Lines)
    BY <2>3, <2>4, ConcatProperties
  <2> QED  BY <1>1, <2>1, <2>5, LengthenedExtends
<1>5. ASSUME NEW p \in Procs, Move(p) PROVE UNCHANGED log \/ Flush(p) \/ (Crash(p) /\ At(p, "open"))
  BY <1>5
  DEF Move, BeginAppend, OpenLog, ReadGraph, LetPass, Block, NextCall, BeginAccept, OpenBaseline,
      Save, BeginWork, Lock, LockedOut, WeighWork, RefuseWork, WriteWork, Unlock, Crash
<1>6. CASE RecoverLock
  BY <1>2, <1>6 DEF RecoverLock
<1>7. CASE UNCHANGED vars
  BY <1>2, <1>7 DEF vars
<1> QED  BY <1>2, <1>3, <1>4, <1>5, <1>6, <1>7, StepsAreMoves

\* Where a log declares a family.
Declares(file, i) ==
    file[i] \notin {"meta", "torn"} /\ KindOf(file[i]) = "family" /\ ~Tombstone(file[i])

Declared(file) == {IdOf(file[i]) : i \in {i \in DOMAIN file : Declares(file, i)}}

LEMMA DeclaredGrows ==
    ASSUME NEW more, NEW file, Extends(more, file) PROVE Declared(file) \subseteq Declared(more)
<1> SUFFICES ASSUME NEW i \in DOMAIN file, Declares(file, i) PROVE IdOf(file[i]) \in Declared(more)
  BY DEF Declared
<1>1. i \in DOMAIN more /\ more[i] = file[i]
  BY DEF Extends
<1> QED  BY <1>1 DEF Declared, Declares

\* Where the records of a file that can be read are in it.
LEMMA RecordsStand ==
    ASSUME NEW file \in Seq(Lines), Readable(file), file # <<>>
    PROVE  /\ DOMAIN Records(file) = 1..(Len(file) - 1)
           /\ \A i \in 1..(Len(file) - 1) :
                  /\ i + 1 \in DOMAIN file /\ i + 1 \in 2..Len(file)
                  /\ Records(file)[i] = file[i + 1]
<1>1. /\ Tail(file) \in Seq(Lines) /\ Len(Tail(file)) = Len(file) - 1
      /\ \A i \in 1..Len(Tail(file)) : Tail(file)[i] = file[i + 1]
  BY HeadTailProperties
<1>2. Len(file) \in Nat /\ DOMAIN file = 1..Len(file) /\ DOMAIN Tail(file) = 1..Len(Tail(file))
  BY <1>1, LenProperties
<1>3. Records(file) = Tail(file)
  BY DEF Records
<1> QED  BY <1>1, <1>2, <1>3

\* A family of the graph is declared in the log; one that is declared is in
\* the graph, unless its id is voided.
LEMMA FamiliesAreDeclared ==
    ASSUME NEW file \in Seq(Lines), Readable(file)
    PROVE  /\ Families(Graph(file)) \subseteq Declared(file)
           /\ Declared(file) \ Voided(Records(file)) \subseteq Families(Graph(file))
<1> DEFINE recs == Records(file)
<1>1. CASE file = <<>>
  BY <1>1 DEF Records, Graph, GraphOf, Applied, Kept, Families, Of, Standing, Ids, Declared
<1>2. CASE file # <<>>
  <2>1. /\ DOMAIN recs = 1..(Len(file) - 1) /\ Len(file) \in Nat /\ DOMAIN file = 1..Len(file)
        /\ \A i \in DOMAIN recs : /\ i + 1 \in DOMAIN file /\ i + 1 \in 2..Len(file)
                                  /\ recs[i] = file[i + 1]
    BY <1>2, RecordsStand, LenProperties
  <2>2. /\ file[1] = "meta"
        /\ \A i \in 2..Len(file) : file[i] \notin {"meta", "torn"} /\ i - 1 \in DOMAIN recs
    BY <1>2, <2>1 DEF Readable
  <2> HIDE DEF recs
  <2>3. ASSUME NEW id \in Families(Graph(file)) PROVE id \in Declared(file)
    <3>1. PICK n \in Graph(file) : KindOf(n) = "family" /\ ~Tombstone(n) /\ IdOf(n) = id
      BY <2>3 DEF Families, Ids, Of, Standing
    <3>2. PICK i \in DOMAIN recs : recs[i] = n
      BY <3>1 DEF Graph, GraphOf, Applied, Kept, recs
    <3>3. i + 1 \in DOMAIN file /\ file[i + 1] = n /\ n \notin {"meta", "torn"}
      BY <2>1, <2>2, <3>2
    <3> QED  BY <3>1, <3>3 DEF Declared, Declares
  <2>4. ASSUME NEW id \in Declared(file), id \notin Voided(recs) PROVE id \in Families(Graph(file))
    <3>1. PICK i \in DOMAIN file : Declares(file, i) /\ IdOf(file[i]) = id
      BY <2>4 DEF Declared
    <3>2. i # 1
      BY <2>2, <3>1 DEF Declares
    <3>3. i - 1 \in DOMAIN recs /\ recs[i - 1] = file[i]
      BY <2>1, <2>2, <3>2
    <3>4. i - 1 \in Kept(recs)
      BY <2>4, <3>1, <3>3 DEF Kept, Errata, Declares
    <3>5. file[i] \in Graph(file)
      BY <3>1, <3>3, <3>4 DEF Graph, GraphOf, Applied, Declares, recs
    <3> QED  BY <3>1, <3>5 DEF Families, Ids, Of, Standing, Declares
  <2> QED  BY <2>3, <2>4 DEF recs
<1> QED  BY <1>1, <1>2

\* What the process at work read is a part of the log by now.
FamiliesKnown ==
    \A p \in Procs :
        proc[p].pc \in {"work", "locked", "weighed"} => proc[p].families \subseteq Declared(log)

WorkIsDeclared == "torn" \notin Range(worklog) => WorkFolds(worklog, Declared(log))

LEMMA FoldsWithMore ==
    ASSUME NEW records, NEW families, NEW more, families \subseteq more, WorkFolds(records, families)
    PROVE  WorkFolds(records, more)
BY DEF WorkFolds

LEMMA DeclaredInit == Init => FamiliesKnown /\ WorkIsDeclared
<1> SUFFICES ASSUME Init PROVE FamiliesKnown /\ WorkIsDeclared
  OBVIOUS
<1>1. \A p \in Procs : proc[p].pc = "idle"
  BY DEF Init, Idle
<1>2. worklog = <<>>
  BY DEF Init
<1> QED  BY <1>1, <1>2 DEF FamiliesKnown, WorkIsDeclared, WorkFolds, Range

LEMMA DeclaredStep ==
    TypeInv /\ TypeInv' /\ WorkInv /\ FamiliesKnown /\ WorkIsDeclared /\ [Next]_vars
       => FamiliesKnown' /\ WorkIsDeclared'
<1> SUFFICES ASSUME TypeInv, TypeInv', WorkInv, FamiliesKnown, WorkIsDeclared, [Next]_vars
             PROVE  FamiliesKnown' /\ WorkIsDeclared'
  OBVIOUS
<1>1. Declared(log) \subseteq Declared(log)'
  BY LogExtends, DeclaredGrows
<1>2. ASSUME UNCHANGED worklog PROVE WorkIsDeclared'
  BY <1>1, <1>2, FoldsWithMore DEF WorkIsDeclared
<1>3. ASSUME NEW p \in Procs, NEW to, Goes(p, to),
             to.pc \in {"work", "locked", "weighed"} => to.families \subseteq Declared(log)
      PROVE  FamiliesKnown'
  <2>1. proc'[p] = to /\ \A q \in Procs \ {p} : proc'[q] = proc[q]
    BY <1>3, Going DEF TypeInv, TypeOK, Placed
  <2>2. ASSUME NEW q \in Procs \ {p} PROVE proc'[q] = proc[q]
    BY <2>1, <2>2
  <2> QED  BY <1>1, <1>3, <2>1, <2>2 DEF FamiliesKnown
<1>4. ASSUME UNCHANGED proc PROVE FamiliesKnown'
  BY <1>1, <1>4 DEF FamiliesKnown
<1>5. CASE UNCHANGED vars
  BY <1>2, <1>4, <1>5 DEF vars
<1>6. CASE RecoverLock
  BY <1>2, <1>4, <1>6 DEF RecoverLock
<1>7. ASSUME NEW p \in Procs, Move(p) PROVE FamiliesKnown' /\ WorkIsDeclared'
  <2>1. CASE \/ BeginAppend(p) \/ OpenLog(p) \/ Flush(p) \/ ReadGraph(p) \/ LetPass(p) \/ Block(p)
             \/ NextCall(p) \/ BeginAccept(p) \/ OpenBaseline(p) \/ Save(p) \/ LockedOut(p)
             \/ RefuseWork(p) \/ Unlock(p)
    BY <1>2, <1>3, <2>1
    DEF BeginAppend, OpenLog, Flush, ReadGraph, LetPass, Block, NextCall, BeginAccept, OpenBaseline,
        Save, LockedOut, RefuseWork, Unlock, Idle
  <2>2. CASE BeginWork(p)
    <3>1. PICK w \in Works : Goes(p, AtWork("work", w, Families(Graph(log))))
      BY <2>2 DEF BeginWork
    <3>2. Families(Graph(log)) \subseteq Declared(log)
      BY <2>2, FamiliesAreDeclared DEF BeginWork, LogFolds, TypeInv, TypeOK, Lines
    <3> QED  BY <1>2, <1>3, <2>2, <3>1, <3>2 DEF BeginWork, AtWork
  <2>3. CASE Lock(p) \/ WeighWork(p)
    <3>1. proc[p].families \subseteq Declared(log)
      BY <2>3 DEF Lock, WeighWork, At, FamiliesKnown
    <3> QED  BY <1>2, <1>3, <2>3, <3>1 DEF Lock, WeighWork, AtWork
  <2>4. CASE WriteWork(p)
    <3>1. /\ WorkFolds(Append(worklog, proc[p].item), proc[p].families)
          /\ proc[p].families \subseteq Declared(log)
      BY <2>4 DEF WriteWork, At, FamiliesKnown, WorkInv, WeighedHolds, WorkHolds
    <3>2. WorkIsDeclared'
      BY <1>1, <2>4, <3>1, FoldsWithMore DEF WriteWork, WorkIsDeclared
    <3>3. FamiliesKnown'
      BY <1>3, <2>4, <3>1 DEF WriteWork, AtWork
    <3> QED  BY <3>2, <3>3
  <2>5. CASE Crash(p)
    <3>1. FamiliesKnown'
      BY <1>3, <2>5 DEF Crash, Idle
    <3>2. CASE worklog' = Append(worklog, "torn")
      <4>1. worklog \in Seq(Works \cup {"torn"})
        BY DEF TypeInv, TypeOK
      <4>2. "torn" \in Range(worklog')
        BY <3>2, <4>1, LenProperties DEF Range
      <4> QED  BY <3>1, <4>2 DEF WorkIsDeclared
    <3> QED  BY <1>2, <2>5, <3>1, <3>2 DEF Crash
  <2> QED  BY <1>7, <2>1, <2>2, <2>3, <2>4, <2>5 DEF Move
<1> QED  BY <1>5, <1>6, <1>7, StepsAreMoves

\* work.fold: the work log can be read with the graph as it is, though its
\* writers had read older ones, as long as no erratum has voided a family.
THEOREM WorkKeepsItsFamilies == Spec => []WorkReadsWithGraph
<1>1. TypeInv /\ WorkIsDeclared => WorkReadsWithGraph
  <2> SUFFICES ASSUME TypeInv, WorkIsDeclared, LogFolds(log), "torn" \notin Range(worklog),
                      \A w \in Range(worklog) : Work[w].family \notin Voided(Records(log))
               PROVE  WorkFolds(worklog, Families(Graph(log)))
    BY DEF WorkReadsWithGraph
  <2>1. WorkFolds(worklog, Declared(log))
    BY DEF WorkIsDeclared
  <2>2. Declared(log) \ Voided(Records(log)) \subseteq Families(Graph(log))
    BY FamiliesAreDeclared DEF LogFolds, TypeInv, TypeOK, Lines
  <2>3. \A i \in DOMAIN worklog : Work[worklog[i]].family \notin Voided(Records(log))
    BY DEF Range
  <2> QED  BY <2>1, <2>2, <2>3 DEF WorkFolds
<1> QED
  BY TypeInvInit, TypeInvStep, WorkInvInit, WorkInvStep, DeclaredInit, DeclaredStep, <1>1, PTL DEF Spec

-----------------------------------------------------------------------------
(***************************************************************************)
(* Where the records of a log come from.  Each was judged with what the    *)
(* log held when its writer read it, and with the rest of its batch; what  *)
(* it was judged after stands before it.                                   *)
(***************************************************************************)
BackedBy(file, i, judged, j) ==
    /\ Folds(judged)
    /\ judged[j] = file[i]
    /\ \/ Range(judged) \subseteq Range(file)
       \/ \E batch \in Batches : /\ file[i] \in Range(batch)
                                /\ Range(judged) \subseteq Range(file) \cup Range(batch)
    /\ \A k \in 1..(j - 1) : \E l \in 1..(i - 1) : file[l] = judged[k]

Backed(file, i) == \E judged \in Seq(Names) : \E j \in DOMAIN judged : BackedBy(file, i, judged, j)

AllBacked(file) == Readable(file) => \A i \in DOMAIN file : i >= 2 => Backed(file, i)

\* What a batch was judged with.
Reads(file, read, batch) ==
    read \in Seq(Lines) /\ Readable(read) /\ Extends(file, read) /\ Folds(Records(read) \o batch)

\* What of a batch has been added to a file, as far as it can be read.
Writes(more, file, batch) ==
    /\ Extends(more, file)
    /\ \A i \in DOMAIN more \ DOMAIN file : i >= 2 =>
           \E r \in DOMAIN batch : /\ more[i] = batch[r]
                                 /\ \A s \in 1..(r - 1) : \E l \in 1..(i - 1) : more[l] = batch[s]

LEMMA ExtendsReadable ==
    ASSUME NEW more \in Seq(Lines), NEW file \in Seq(Lines), Extends(more, file), Readable(more)
    PROVE  Readable(file)
<1>1. /\ DOMAIN file = 1..Len(file) /\ DOMAIN more = 1..Len(more)
      /\ Len(file) \in Nat /\ Len(more) \in Nat
  BY LenProperties
<1>2. CASE file # <<>>
  <2>1. Len(file) >= 1
    BY <1>1, <1>2, EmptySeq
  <2>2. Len(file) <= Len(more) /\ more # <<>> /\ more[1] = file[1]
        /\ \A i \in 2..Len(file) : i \in 2..Len(more) /\ more[i] = file[i]
    BY <1>1, <2>1, EmptySeq DEF Extends
  <2> QED  BY <2>2 DEF Readable
<1> QED  BY <1>2 DEF Readable

LEMMA ExtendsTwice ==
    ASSUME NEW most, NEW more, NEW file, Extends(most, more), Extends(more, file)
    PROVE  Extends(most, file) /\ Range(file) \subseteq Range(more)
BY DEF Extends, Range

LEMMA StaysBacked ==
    ASSUME NEW more \in Seq(Lines), NEW file \in Seq(Lines), Extends(more, file),
           NEW i \in DOMAIN file, Backed(file, i)
    PROVE  Backed(more, i)
<1>0. PICK judged \in Seq(Names) : \E j \in DOMAIN judged : BackedBy(file, i, judged, j)
  BY DEF Backed
<1>1. PICK j \in DOMAIN judged : BackedBy(file, i, judged, j)
  BY <1>0
<1>2. Range(file) \subseteq Range(more) /\ more[i] = file[i]
  BY DEF Extends, Range
<1>3. \A l \in 1..(i - 1) : more[l] = file[l]
  BY LenProperties DEF Extends
<1>4. \A k \in 1..(j - 1) : \E l \in 1..(i - 1) : more[l] = judged[k]
  BY <1>1, <1>3 DEF BackedBy
<1>5. BackedBy(more, i, judged, j)
  BY <1>1, <1>2, <1>4 DEF BackedBy
<1> QED  BY <1>1, <1>5 DEF Backed

\* The lines of a batch, and what a kill may leave after part of them.
LinesOf(lines, batch) == lines \in {batch, <<"meta">> \o batch}
CutShort(cut) == cut \in {<<>>, <<"torn">>}

LEMMA LinesOfBatch ==
    ASSUME NEW batch \in Seq(Names), NEW lines, LinesOf(lines, batch)
    PROVE  /\ lines \in Seq(Lines)
           /\ \/ lines = batch
              \/ /\ Len(lines) = Len(batch) + 1 /\ lines[1] = "meta"
                 /\ \A q \in 2..(Len(batch) + 1) : lines[q] = batch[q - 1]
<1> DEFINE header == <<"meta">> \o batch
<1>1. batch \in Seq(Lines)
  BY SeqMonotonic DEF Lines
<1>2. /\ header \in Seq(Lines) /\ Len(header) = Len(batch) + 1 /\ header[1] = "meta"
      /\ \A q \in 2..(Len(batch) + 1) : header[q] = batch[q - 1]
  <2>1. <<"meta">> \in Seq(Lines) /\ Len(<<"meta">>) = 1 /\ <<"meta">>[1] = "meta" /\ Len(batch) \in Nat
    BY <1>1, LenProperties DEF Lines
  <2>2. /\ header \in Seq(Lines) /\ Len(header) = 1 + Len(batch)
        /\ \A q \in 1..(1 + Len(batch)) : header[q] = IF q <= 1 THEN <<"meta">>[q] ELSE batch[q - 1]
    BY <1>1, <2>1, ConcatProperties
  <2> QED  BY <2>1, <2>2
<1> QED  BY <1>1, <1>2 DEF LinesOf

LEMMA CutIsTorn ==
    ASSUME NEW cut, CutShort(cut)
    PROVE  cut \in Seq(Lines) /\ Len(cut) \in Nat /\ \A q \in 1..Len(cut) : cut[q] = "torn"
<1>1. <<>> \in Seq(Lines) /\ <<"torn">> \in Seq(Lines)
  BY DEF Lines
<1>2. CASE cut = <<>>
  BY <1>1, <1>2
<1>3. CASE cut = <<"torn">>
  BY <1>1, <1>3
<1> QED  BY <1>2, <1>3 DEF CutShort

\* A file that can be read is not one that ends in a line cut short, nor one
\* that had a second header.
LEMMA ReadableWrites ==
    ASSUME NEW file \in Seq(Lines), NEW batch \in Seq(Names),
           NEW lines, LinesOf(lines, batch), NEW n \in 0..Len(lines), NEW cut, CutShort(cut),
           NEW more, more = Lengthened(file, SubSeq(lines, 1, n) \o cut), Readable(more)
    PROVE  more \in Seq(Lines) /\ Writes(more, file, batch)
<1> DEFINE part == SubSeq(lines, 1, n)
           w == part \o cut
<1>2. /\ lines \in Seq(Lines)
      /\ \/ lines = batch
         \/ /\ Len(lines) = Len(batch) + 1 /\ lines[1] = "meta"
            /\ \A q \in 2..(Len(batch) + 1) : lines[q] = batch[q - 1]
  BY LinesOfBatch
<1>3. /\ lines \in Seq(Lines) /\ Len(lines) \in Nat /\ DOMAIN lines = 1..Len(lines) /\ n \in Nat
      /\ Len(batch) \in Nat /\ DOMAIN batch = 1..Len(batch)
      /\ Len(file) \in Nat /\ DOMAIN file = 1..Len(file)
  BY <1>2, LenProperties
<1>4. /\ part \in Seq(Lines) /\ Len(part) = n /\ \A q \in 1..n : part[q] = lines[q]
  <2>1. 1 \in Int /\ n \in Int /\ 1 <= 1 /\ 1 <= n + 1 /\ n <= Len(lines)
    BY <1>3
  <2>2. /\ part \in Seq(Lines) /\ Len(part) = n - 1 + 1
        /\ \A q \in 1..(n - 1 + 1) : part[q] = lines[1 + q - 1]
    BY <1>2, <2>1, PieceOf
  <2>3. n - 1 + 1 = n /\ \A q \in 1..n : 1 + q - 1 = q
    BY <1>3
  <2> HIDE DEF part
  <2> QED  BY <2>2, <2>3
<1>5. cut \in Seq(Lines) /\ Len(cut) \in Nat /\ \A q \in 1..Len(cut) : cut[q] = "torn"
  BY CutIsTorn
<1> HIDE DEF part
<1>6. /\ w \in Seq(Lines) /\ Len(w) = n + Len(cut)
      /\ \A q \in 1..n : w[q] = lines[q]
      /\ \A q \in (n + 1)..Len(w) : w[q] = "torn"
  <2>1. /\ w \in Seq(Lines) /\ Len(w) = n + Len(cut)
        /\ \A q \in 1..(n + Len(cut)) : w[q] = IF q <= n THEN part[q] ELSE cut[q - n]
    BY <1>4, <1>5, ConcatProperties
  <2> HIDE DEF w
  <2>2. ASSUME NEW q \in 1..n PROVE w[q] = lines[q]
    BY <1>3, <1>4, <1>5, <2>1
  <2>3. ASSUME NEW q \in (n + 1)..Len(w) PROVE w[q] = "torn"
    <3>1. w[q] = cut[q - n] /\ q - n \in 1..Len(cut)
      BY <1>3, <1>5, <2>1
    <3> QED  BY <1>5, <3>1
  <2> QED  BY <2>1, <2>2, <2>3
<1>7. more = Lengthened(file, w)
  BY DEF part
<1> HIDE DEF w
<1>8. more \in Seq(Lines) /\ Extends(more, file)
  BY <1>6, <1>7, LengthenedType, LengthenedExtends
<1>9. more = file \o w
  <2>1. SUFFICES ASSUME file # <<>>, Last(file) = "torn" PROVE FALSE
    BY <1>7 DEF Lengthened
  <2>2. Len(file) >= 1 /\ file[Len(file)] = "torn"
    BY <1>3, <2>1, EmptySeq DEF Last
  <2>3. Readable(file)
    BY <1>8, ExtendsReadable
  <2>4. CASE Len(file) = 1
    BY <2>1, <2>2, <2>3, <2>4 DEF Readable
  <2>5. CASE Len(file) # 1
    <3>1. Len(file) \in 2..Len(file)
      BY <1>3, <2>2, <2>5
    <3> QED  BY <2>1, <2>2, <2>3, <3>1 DEF Readable
  <2> QED  BY <2>4, <2>5
<1>10. /\ DOMAIN more = 1..(Len(file) + Len(w)) /\ Len(more) = Len(file) + Len(w) /\ Len(w) \in Nat
       /\ \A q \in 1..Len(w) : more[Len(file) + q] = w[q]
  <2> DEFINE both == file \o w
  <2>1. /\ both \in Seq(Lines) /\ Len(both) = Len(file) + Len(w) /\ Len(w) \in Nat
        /\ \A i \in 1..(Len(file) + Len(w)) :
               both[i] = IF i <= Len(file) THEN file[i] ELSE w[i - Len(file)]
    BY <1>6, ConcatProperties, LenProperties
  <2>2. DOMAIN both = 1..(Len(file) + Len(w))
    BY <2>1, LenProperties
  <2> HIDE DEF both
  <2>3. ASSUME NEW q \in 1..Len(w) PROVE both[Len(file) + q] = w[q]
    <3>1. /\ Len(file) + q \in 1..(Len(file) + Len(w)) /\ ~(Len(file) + q <= Len(file))
          /\ Len(file) + q - Len(file) = q
      BY <1>3, <2>1
    <3> QED  BY <2>1, <3>1
  <2>4. more = both
    BY <1>9 DEF both
  <2> QED  BY <2>1, <2>2, <2>3, <2>4
<1>11. ASSUME NEW i \in DOMAIN more \ DOMAIN file, i >= 2
       PROVE  \E r \in DOMAIN batch : /\ more[i] = batch[r]
                                    /\ \A s \in 1..(r - 1) : \E l \in 1..(i - 1) : more[l] = batch[s]
  <2> DEFINE q == i - Len(file)
  <2>1. q \in 1..Len(w) /\ Len(file) + q = i /\ i \in 2..Len(more)
    BY <1>3, <1>10, <1>11
  <2>2. more[i] = w[q] /\ more[i] \notin {"meta", "torn"}
    <3>1. more # <<>>
      BY <1>8, <2>1, EmptySeq
    <3> QED  BY <1>10, <2>1, <3>1 DEF Readable
  <2> HIDE DEF q
  <2>3. q \in 1..n
    <3>1. SUFFICES ASSUME q \notin 1..n PROVE FALSE
      OBVIOUS
    <3>2. q \in (n + 1)..Len(w)
      BY <1>3, <1>10, <2>1, <3>1
    <3> QED  BY <1>6, <2>2, <3>2
  <2>4. more[i] = lines[q]
    BY <1>6, <2>2, <2>3
  <2>5. \A t \in 1..(q - 1) : Len(file) + t \in 1..(i - 1) /\ more[Len(file) + t] = lines[t]
    <3>1. ASSUME NEW t \in 1..(q - 1)
          PROVE  t \in 1..n /\ t \in 1..Len(w) /\ Len(file) + t \in 1..(i - 1)
      BY <1>3, <1>10, <2>1, <2>3
    <3> QED  BY <1>6, <1>10, <3>1
  <2>6. CASE lines = batch
    <3>1. q \in DOMAIN batch
      BY <1>3, <2>3, <2>6
    <3> QED  BY <2>4, <2>5, <2>6, <3>1
  <2>7. CASE /\ Len(lines) = Len(batch) + 1 /\ lines[1] = "meta"
             /\ \A t \in 2..(Len(batch) + 1) : lines[t] = batch[t - 1]
    <3>1. q # 1
      BY <2>2, <2>4, <2>7
    <3>2. q \in 2..(Len(batch) + 1) /\ q - 1 \in DOMAIN batch
      BY <1>3, <2>3, <2>7, <3>1
    <3>3. more[i] = batch[q - 1]
      BY <2>4, <2>7, <3>2
    <3>4. ASSUME NEW s \in 1..(q - 1 - 1) PROVE \E l \in 1..(i - 1) : more[l] = batch[s]
      <4>1. s + 1 \in 1..(q - 1) /\ s + 1 \in 2..(Len(batch) + 1) /\ s + 1 - 1 = s
        BY <1>3, <3>2
      <4>2. lines[s + 1] = batch[s]
        BY <2>7, <4>1
      <4>3. more[Len(file) + (s + 1)] = batch[s] /\ Len(file) + (s + 1) \in 1..(i - 1)
        BY <2>5, <4>1, <4>2
      <4> QED  BY <4>3
    <3> QED  BY <3>2, <3>3, <3>4
  <2> QED  BY <1>2, <2>6, <2>7
<1> QED  BY <1>8, <1>11 DEF Writes

\* A batch that was judged with what its writer read backs what of it is written.
LEMMA WritesBacked ==
    ASSUME NEW file \in Seq(Lines), NEW more \in Seq(Lines), NEW read, NEW batch \in Batches,
           Reads(file, read, batch), Writes(more, file, batch), AllBacked(file), Readable(more)
    PROVE  AllBacked(more)
<1>1. SUFFICES ASSUME NEW i \in DOMAIN more, i >= 2 PROVE Backed(more, i)
  BY DEF AllBacked
<1>2. Extends(more, file) /\ Readable(file)
  BY ExtendsReadable DEF Writes
<1>3. CASE i \in DOMAIN file
  <2>1. Backed(file, i)
    BY <1>1, <1>2, <1>3 DEF AllBacked
  <2> QED  BY <1>2, <1>3, <2>1, StaysBacked
<1>4. CASE i \notin DOMAIN file
  <2> DEFINE recs == Records(read)
             judged == recs \o batch
  <2>1. batch \in Seq(Names) /\ recs \in Seq(Names) /\ Folds(judged)
    BY BatchesType, RecordsAreNames DEF Reads
  <2>2. PICK r \in DOMAIN batch :
          /\ more[i] = batch[r]
          /\ \A s \in 1..(r - 1) : \E l \in 1..(i - 1) : more[l] = batch[s]
    BY <1>1, <1>4 DEF Writes
  <2>3. /\ Len(recs) \in Nat /\ DOMAIN recs = 1..Len(recs)
        /\ Len(batch) \in Nat /\ DOMAIN batch = 1..Len(batch)
        /\ Len(file) \in Nat /\ DOMAIN file = 1..Len(file) /\ DOMAIN more = 1..Len(more)
        /\ Len(read) \in Nat /\ DOMAIN read = 1..Len(read) /\ Len(more) \in Nat
    BY <2>1, LenProperties DEF Reads
  <2>4. Extends(more, read) /\ Extends(file, read)
    BY <1>2, ExtendsTwice DEF Reads
  \* What was read stands in the file, and in front of what is written.
  <2>5. ASSUME NEW k \in 1..Len(recs) PROVE \E l \in 1..(i - 1) : l \in DOMAIN more /\ more[l] = recs[k]
    <3>1. read # <<>>
      <4>1. SUFFICES ASSUME read = <<>> PROVE FALSE
        OBVIOUS
      <4>2. recs = <<>>
        BY <4>1 DEF Records
      <4> QED  BY <4>2
    <3>2. DOMAIN recs = 1..(Len(read) - 1) /\ k + 1 \in DOMAIN read /\ recs[k] = read[k + 1]
      BY <2>3, <2>5, <3>1, RecordsStand DEF Reads
    <3>3. k + 1 \in DOMAIN file /\ k + 1 \in DOMAIN more /\ more[k + 1] = recs[k]
      BY <2>4, <3>2 DEF Extends
    <3>4. k + 1 \in 1..(i - 1)
      BY <1>1, <1>4, <2>3, <3>3
    <3> QED  BY <3>3, <3>4
  <2> HIDE DEF recs
  <2>6. /\ judged \in Seq(Names) /\ DOMAIN judged = 1..(Len(recs) + Len(batch))
        /\ \A k \in 1..(Len(recs) + Len(batch)) :
               judged[k] = IF k <= Len(recs) THEN recs[k] ELSE batch[k - Len(recs)]
    <3>1. /\ judged \in Seq(Names) /\ Len(judged) = Len(recs) + Len(batch)
          /\ \A k \in 1..(Len(recs) + Len(batch)) :
                 judged[k] = IF k <= Len(recs) THEN recs[k] ELSE batch[k - Len(recs)]
      BY <2>1, ConcatProperties
    <3> QED  BY <3>1, LenProperties
  <2> HIDE DEF judged
  <2>7. \A k \in 1..Len(recs) : judged[k] = recs[k]
    BY <2>3, <2>6
  <2>8. \A s \in 1..Len(batch) : Len(recs) + s \in DOMAIN judged /\ judged[Len(recs) + s] = batch[s]
    <3> SUFFICES ASSUME NEW s \in 1..Len(batch)
                 PROVE  Len(recs) + s \in DOMAIN judged /\ judged[Len(recs) + s] = batch[s]
      OBVIOUS
    <3>1. /\ Len(recs) + s \in 1..(Len(recs) + Len(batch)) /\ ~(Len(recs) + s <= Len(recs))
          /\ Len(recs) + s - Len(recs) = s
      BY <2>3
    <3>2. judged[Len(recs) + s] = batch[Len(recs) + s - Len(recs)]
      BY <2>6, <3>1
    <3> QED  BY <2>6, <3>1, <3>2
  <2>9. ASSUME NEW k \in DOMAIN judged, k \notin 1..Len(recs)
        PROVE  k - Len(recs) \in 1..Len(batch) /\ judged[k] = batch[k - Len(recs)]
    <3>1. k - Len(recs) \in 1..Len(batch) /\ Len(recs) + (k - Len(recs)) = k
      BY <2>3, <2>6, <2>9
    <3> QED  BY <2>8, <3>1
  <2>10. Len(recs) + r \in DOMAIN judged /\ judged[Len(recs) + r] = more[i]
    BY <2>2, <2>3, <2>8
  <2>11. Range(judged) \subseteq Range(more) \cup Range(batch) /\ more[i] \in Range(batch)
    <3>1. ASSUME NEW k \in DOMAIN judged PROVE judged[k] \in Range(more) \cup Range(batch)
      <4>1. CASE k \in 1..Len(recs)
        BY <2>5, <2>7, <4>1 DEF Range
      <4>2. CASE k \notin 1..Len(recs)
        BY <2>3, <2>9, <4>2 DEF Range
      <4> QED  BY <4>1, <4>2
    <3> QED  BY <2>2, <3>1 DEF Range
  <2>12. ASSUME NEW k \in 1..(Len(recs) + r - 1) PROVE \E l \in 1..(i - 1) : more[l] = judged[k]
    <3>1. CASE k \in 1..Len(recs)
      BY <2>5, <2>7, <3>1
    <3>2. CASE k \notin 1..Len(recs)
      <4>1. k \in DOMAIN judged /\ k - Len(recs) \in 1..(r - 1)
        BY <2>2, <2>3, <2>6, <2>12, <3>2
      <4>2. judged[k] = batch[k - Len(recs)]
        BY <2>9, <3>2, <4>1
      <4> QED  BY <2>2, <4>1, <4>2
    <3> QED  BY <3>1, <3>2
  <2>13. BackedBy(more, i, judged, Len(recs) + r)
    BY <2>1, <2>10, <2>11, <2>12 DEF BackedBy
  <2> QED  BY <2>6, <2>10, <2>13 DEF Backed
<1> QED  BY <1>3, <1>4

WritersRead ==
    \A p \in Procs :
        /\ At(p, "judged") => proc[p].batch \in Batches /\ Reads(log, proc[p].read, proc[p].batch)
        /\ At(p, "open") => \E batch \in Batches : /\ LinesOf(proc[p].lines, batch)
                                                /\ Reads(log, proc[p].read, batch)

BackInv == WritersRead /\ AllBacked(log)

LEMMA BackInvInit == Init => BackInv
<1> SUFFICES ASSUME Init PROVE BackInv
  OBVIOUS
<1>1. \A p \in Procs : proc[p].pc = "idle"
  BY DEF Init, Idle
<1>2. log \in Seq(Lines) /\ LogFolds(log)
  BY StartsType, StartsFold DEF Init, Lines
<1>3. ASSUME NEW i \in DOMAIN log, i >= 2 PROVE Backed(log, i)
  <2> DEFINE recs == Records(log)
  <2>0. log # <<>> /\ Len(log) \in Nat /\ DOMAIN log = 1..Len(log)
    BY <1>2, <1>3, LenProperties, EmptySeq
  <2>1. /\ recs \in Seq(Names) /\ Folds(recs) /\ DOMAIN recs = 1..(Len(log) - 1)
        /\ \A k \in 1..(Len(log) - 1) : k + 1 \in DOMAIN log /\ recs[k] = log[k + 1]
    BY <1>2, <2>0, RecordsAreNames, RecordsStand DEF LogFolds
  <2> HIDE DEF recs
  <2>2. i - 1 \in DOMAIN recs /\ recs[i - 1] = log[i]
    <3>1. i - 1 \in 1..(Len(log) - 1) /\ i - 1 + 1 = i
      BY <1>3, <2>0
    <3> QED  BY <2>1, <3>1
  <2>3. Range(recs) \subseteq Range(log)
    BY <2>1 DEF Range
  <2>4. ASSUME NEW k \in 1..(i - 1 - 1) PROVE \E l \in 1..(i - 1) : log[l] = recs[k]
    <3>1. k \in 1..(Len(log) - 1) /\ k + 1 \in 1..(i - 1)
      BY <1>3, <2>0
    <3> QED  BY <2>1, <3>1
  <2>5. BackedBy(log, i, recs, i - 1)
    BY <2>1, <2>2, <2>3, <2>4 DEF BackedBy
  <2> QED  BY <2>1, <2>2, <2>5 DEF Backed
<1> QED  BY <1>1, <1>3 DEF BackInv, WritersRead, AllBacked, At

LEMMA BackInvStep == TypeInv /\ TypeInv' /\ BackInv /\ [Next]_vars => BackInv'
<1> SUFFICES ASSUME TypeInv, TypeInv', BackInv, [Next]_vars PROVE BackInv'
  OBVIOUS
<1>1. Extends(log', log) /\ log \in Seq(Lines) /\ log' \in Seq(Lines)
  BY LogExtends DEF TypeInv, TypeOK, Lines
<1>2. ASSUME NEW read, NEW batch, Reads(log, read, batch) PROVE Reads(log', read, batch)
  BY <1>1, <1>2, ExtendsTwice DEF Reads
<1>3. ASSUME UNCHANGED log PROVE AllBacked(log)'
  BY <1>3 DEF BackInv
<1>4. ASSUME NEW p \in Procs, NEW to, Goes(p, to),
             to.pc = "judged" => to.batch \in Batches /\ Reads(log, to.read, to.batch),
             to.pc = "open" => \E batch \in Batches : /\ LinesOf(to.lines, batch)
                                                    /\ Reads(log, to.read, batch)
      PROVE  WritersRead'
  <2>1. proc'[p] = to /\ \A q \in Procs \ {p} : proc'[q] = proc[q]
    BY <1>4, Going DEF TypeInv, TypeOK, Placed
  <2>2. ASSUME NEW q \in Procs \ {p} PROVE proc'[q] = proc[q]
    BY <2>1, <2>2
  <2>3. \A read, batch : Reads(log, read, batch) => Reads(log', read, batch)
    BY <1>2
  <2> QED  BY <1>4, <2>1, <2>2, <2>3 DEF BackInv, WritersRead, At
<1>5. ASSUME UNCHANGED proc PROVE WritersRead'
  <2>1. \A read, batch : Reads(log, read, batch) => Reads(log', read, batch)
    BY <1>2
  <2> QED  BY <1>5, <2>1 DEF BackInv, WritersRead, At
<1>6. CASE UNCHANGED vars
  BY <1>3, <1>5, <1>6 DEF vars, BackInv
<1>7. CASE RecoverLock
  BY <1>3, <1>5, <1>7 DEF RecoverLock, BackInv
\* What a process that has opened the log writes, all of it or part.
<1>8. ASSUME NEW p \in Procs, At(p, "open"), NEW n \in 0..Len(proc[p].lines), NEW cut, CutShort(cut),
             log' = Lengthened(log, SubSeq(proc[p].lines, 1, n) \o cut)
      PROVE  AllBacked(log)'
  <2>1. SUFFICES ASSUME Readable(log') PROVE AllBacked(log)'
    BY DEF AllBacked
  <2>2. PICK batch \in Batches : LinesOf(proc[p].lines, batch) /\ Reads(log, proc[p].read, batch)
    BY <1>8 DEF BackInv, WritersRead
  <2>3. batch \in Seq(Names)
    BY BatchesType
  <2>4. Writes(log', log, batch)
    BY <1>1, <1>8, <2>1, <2>2, <2>3, ReadableWrites
  <2> QED  BY <1>1, <2>1, <2>2, <2>4, WritesBacked DEF BackInv
<1>9. ASSUME NEW p \in Procs, Move(p) PROVE BackInv'
  <2>1. CASE \/ ReadGraph(p) \/ LetPass(p) \/ Block(p) \/ NextCall(p) \/ BeginAccept(p)
             \/ OpenBaseline(p) \/ Save(p) \/ BeginWork(p) \/ Lock(p) \/ LockedOut(p)
             \/ WeighWork(p) \/ RefuseWork(p) \/ WriteWork(p) \/ Unlock(p)
    <3>1. UNCHANGED log
      BY <2>1
      DEF ReadGraph, LetPass, Block, NextCall, BeginAccept, OpenBaseline, Save, BeginWork, Lock,
          LockedOut, WeighWork, RefuseWork, WriteWork, Unlock
    <3>2. WritersRead'
      BY <1>4, <2>1
      DEF ReadGraph, LetPass, Block, NextCall, BeginAccept, OpenBaseline, Save, BeginWork, Lock,
          LockedOut, WeighWork, RefuseWork, WriteWork, Unlock, AtWork, Idle
    <3> QED  BY <1>3, <3>1, <3>2 DEF BackInv
  <2>2. CASE BeginAppend(p)
    <3>1. PICK batch \in Batches :
            Judged(log, batch) /\ Goes(p, [pc |-> "judged", batch |-> batch, read |-> log])
      BY <2>2 DEF BeginAppend
    <3>2. Reads(log, log, batch)
      BY <1>1, <3>1 DEF Judged, LogFolds, Reads, Extends
    <3>3. WritersRead'
      BY <1>4, <3>1, <3>2
    <3> QED  BY <1>3, <2>2, <3>3 DEF BeginAppend, BackInv
  <2>3. CASE OpenLog(p)
    <3> DEFINE lines == (IF log = <<>> THEN <<"meta">> ELSE <<>>) \o proc[p].batch
    <3>1. proc[p].batch \in Batches /\ Reads(log, proc[p].read, proc[p].batch)
      BY <2>3 DEF OpenLog, BackInv, WritersRead
    <3>2. LinesOf(lines, proc[p].batch)
      <4>1. <<>> \o proc[p].batch = proc[p].batch
        BY <3>1, BatchesType, ConcatEmptySeq
      <4> QED  BY <4>1 DEF LinesOf
    <3>3. Goes(p, [pc |-> "open", read |-> proc[p].read, lines |-> lines]) /\ UNCHANGED log
      BY <2>3 DEF OpenLog
    <3> HIDE DEF lines
    <3>4. WritersRead'
      BY <1>4, <3>1, <3>2, <3>3
    <3> QED  BY <1>3, <3>3, <3>4 DEF BackInv
  <2>4. CASE Flush(p)
    <3>1. At(p, "open") /\ log' = Lengthened(log, proc[p].lines) /\ Goes(p, Idle)
      BY <2>4 DEF Flush
    <3>2. proc[p].lines \in Seq(Lines)
      BY <3>1 DEF TypeInv, WritesKnown
    <3>3. /\ SubSeq(proc[p].lines, 1, Len(proc[p].lines)) \o <<>> = proc[p].lines
          /\ Len(proc[p].lines) \in 0..Len(proc[p].lines) /\ CutShort(<<>>)
      BY <3>2, SubSeqFull, ConcatEmptySeq, LenProperties DEF CutShort
    <3>4. AllBacked(log)'
      BY <1>8, <3>1, <3>3
    <3> QED  BY <1>4, <3>1, <3>4 DEF Idle, BackInv
  <2>5. CASE Crash(p)
    <3>1. WritersRead'
      BY <1>4, <2>5 DEF Crash, Idle
    <3>2. CASE ~At(p, "open")
      BY <1>3, <2>5, <3>1, <3>2 DEF Crash, BackInv
    <3>3. CASE At(p, "open")
      <4>1. PICK n \in 0..Len(proc[p].lines), cut \in {<<>>, <<"torn">>} :
              log' = Lengthened(log, SubSeq(proc[p].lines, 1, n) \o cut)
        BY <2>5, <3>3 DEF Crash
      <4>2. CutShort(cut)
        BY DEF CutShort
      <4> QED  BY <1>8, <3>1, <3>3, <4>1, <4>2 DEF BackInv
    <3> QED  BY <3>2, <3>3
  <2> QED  BY <1>9, <2>1, <2>2, <2>3, <2>4, <2>5 DEF Move
<1> QED  BY <1>6, <1>7, <1>9, StepsAreMoves

(***************************************************************************)
(* Records that were each judged with others of the same log, after what   *)
(* stands before them, make a graph together: nothing that one of them     *)
(* needs is lost, unless two declare one record, one is retired twice, or  *)
(* what a bridge rests on is replaced.                                     *)
(***************************************************************************)
SourcedBy(recs, i, judged, j) ==
    /\ Folds(judged) /\ Range(judged) \subseteq Range(recs) /\ judged[j] = recs[i]
    /\ \A k \in 1..(j - 1) : \E l \in 1..(i - 1) : recs[l] = judged[k]

Sourced(recs, i) == \E judged \in Seq(Names) : \E j \in DOMAIN judged : SourcedBy(recs, i, judged, j)

AllSourced(recs) == \A i \in DOMAIN recs : Sourced(recs, i)

\* What BreaksOnlyByConflict excuses, of the records.
Unspoilt(recs) ==
    /\ Errata(recs) = {}
    /\ \A m, n \in Range(recs) : SameEntity(m, n) => m = n
    /\ \A m, n \in Range(recs) : Tombstone(m) /\ Event[m].supersedes = Event[n].supersedes => m = n
    /\ ~BridgeIsBroken(Range(recs))

LEMMA KeptIsAll ==
    ASSUME NEW recs, Errata(recs) = {} PROVE Kept(recs) = DOMAIN recs /\ Applied(recs) = Range(recs)
BY DEF Kept, Voided, Applied, Range

\* What validate asks of the records that were applied.
HoldsTogether(part) == SupersessionsResolve(part) /\ ReferencesResolve(part) /\ BridgesBind(part)

\* What was judged with a record, and what that says of it.
LEMMA JudgedRecord ==
    ASSUME NEW recs, Unspoilt(recs), NEW i \in DOMAIN recs, NEW judged \in Seq(Names),
           NEW j \in DOMAIN judged, SourcedBy(recs, i, judged, j)
    PROVE  /\ j \in Kept(judged) /\ recs[i] \in Applied(judged)
           /\ Applies(recs[i], Before(judged, j))
           /\ HoldsTogether(Applied(judged))
           /\ Kept(judged) = DOMAIN judged /\ Applied(judged) \subseteq Range(recs)
<1>1. Errata(judged) = {}
  BY DEF SourcedBy, Unspoilt, Errata, Range
<1>2. Kept(judged) = DOMAIN judged /\ Applied(judged) = Range(judged)
  BY <1>1, KeptIsAll
<1> QED  BY <1>2 DEF SourcedBy, Folds, WellFormed, EachApplies, HoldsTogether, Range

\* Where one of them came before a record, it comes before it here.
LEMMA BeforeStays ==
    ASSUME NEW recs \in Seq(Names), Unspoilt(recs), NEW i \in DOMAIN recs, NEW judged \in Seq(Names),
           NEW j \in DOMAIN judged, SourcedBy(recs, i, judged, j)
    PROVE  Before(judged, j) \subseteq Before(recs, i)
<1>1. SUFFICES ASSUME NEW k \in Kept(judged), Precedes(judged, k, j) PROVE judged[k] \in Before(recs, i)
  BY DEF Before
<1>2. /\ k \in DOMAIN judged /\ judged[k] \in Range(recs) /\ judged[j] = recs[i]
      /\ DOMAIN judged = 1..Len(judged) /\ DOMAIN recs = 1..Len(recs)
      /\ Len(judged) \in Nat /\ Len(recs) \in Nat
  BY <1>1, LenProperties DEF Kept, SourcedBy, Range
<1>3. Kept(recs) = DOMAIN recs
  BY KeptIsAll DEF Unspoilt
<1>4. \E l \in DOMAIN recs : recs[l] = judged[k] /\ Precedes(recs, l, i)
  <2>1. CASE KindOf(judged[k]) = "certificate" /\ KindOf(judged[j]) # "certificate"
    <3>1. PICK l \in DOMAIN recs : recs[l] = judged[k]
      BY <1>2 DEF Range
    <3> QED  BY <1>2, <2>1, <3>1 DEF Precedes
  <2>2. CASE /\ KindOf(judged[k]) = "certificate" <=> KindOf(judged[j]) = "certificate"
             /\ k < j
    <3>1. k \in 1..(j - 1)
      BY <1>2, <2>2
    <3>2. PICK l \in 1..(i - 1) : recs[l] = judged[k]
      BY <3>1 DEF SourcedBy
    <3>3. l \in DOMAIN recs /\ l < i
      BY <1>2
    <3> QED  BY <1>2, <2>2, <3>2, <3>3 DEF Precedes
  <2> QED  BY <1>1, <2>1, <2>2 DEF Precedes
<1> QED  BY <1>3, <1>4 DEF Before

LEMMA AppliesWithMore ==
    ASSUME NEW n, NEW before, NEW more, before \subseteq more, Applies(n, before)
    PROVE  Applies(n, more)
BY DEF Applies, Of, Standing, Bearing

LEMMA SourcedFold ==
    ASSUME NEW recs \in Seq(Names), Unspoilt(recs), AllSourced(recs)
    PROVE  Folds(recs)
<1> DEFINE graph == Applied(recs)
<1>1. Kept(recs) = DOMAIN recs /\ graph = Range(recs) /\ Errata(recs) = {}
  BY KeptIsAll DEF Unspoilt
<1> HIDE DEF graph
<1>2. NoConflict(recs)
  BY <1>1 DEF NoConflict, Unspoilt, graph
<1>3. EachApplies(recs)
  <2> SUFFICES ASSUME NEW i \in DOMAIN recs PROVE Applies(recs[i], Before(recs, i))
    BY <1>1 DEF EachApplies
  <2>1. PICK judged \in Seq(Names) : \E j \in DOMAIN judged : SourcedBy(recs, i, judged, j)
    BY DEF AllSourced, Sourced
  <2>2. PICK j \in DOMAIN judged : SourcedBy(recs, i, judged, j)
    BY <2>1
  <2>3. Applies(recs[i], Before(judged, j))
    BY <2>2, JudgedRecord
  <2>4. Before(judged, j) \subseteq Before(recs, i)
    BY <2>2, BeforeStays
  <2> QED  BY <2>3, <2>4, AppliesWithMore
\* Every record of the graph is in one that was judged, and is a part of it.
<1>4. ASSUME NEW m \in graph
      PROVE  \E part \in SUBSET graph : m \in part /\ HoldsTogether(part)
  <2>1. PICK i \in DOMAIN recs : recs[i] = m
    BY <1>1, <1>4 DEF Range
  <2>2. PICK judged \in Seq(Names) : \E j \in DOMAIN judged : SourcedBy(recs, i, judged, j)
    BY DEF AllSourced, Sourced
  <2>3. PICK j \in DOMAIN judged : SourcedBy(recs, i, judged, j)
    BY <2>2
  <2>4. m \in Applied(judged) /\ Applied(judged) \in SUBSET graph /\ HoldsTogether(Applied(judged))
    BY <1>1, <2>1, <2>3, JudgedRecord
  <2> QED  BY <2>4
<1>5. SupersessionsResolve(graph)
  <2> SUFFICES ASSUME NEW m \in graph, Event[m].supersedes # None
               PROVE  /\ Event[m].supersedes # IdOf(m)
                      /\ Replaced(graph, m) # {}
                      /\ \A n \in Replaced(graph, m) :
                             IF Tombstone(m) THEN SupersededBy(graph, n) = {m}
                             ELSE Rank[Event[m].discharge] >= Rank[Changed(n, m)]
    BY DEF SupersessionsResolve
  <2>1. PICK part \in SUBSET graph : m \in part /\ SupersessionsResolve(part)
    BY <1>4 DEF HoldsTogether
  <2>2. /\ Event[m].supersedes # IdOf(m) /\ Replaced(part, m) # {}
        /\ \A n \in Replaced(part, m) :
               ~Tombstone(m) => Rank[Event[m].discharge] >= Rank[Changed(n, m)]
    BY <2>1 DEF SupersessionsResolve
  <2>3. Replaced(part, m) \subseteq Replaced(graph, m)
    BY <2>1 DEF Replaced, Standing, SupersededBy
  <2>4. ASSUME NEW n \in Replaced(graph, m) PROVE n \in Replaced(part, m)
    <3>1. PICK o \in Replaced(part, m) : TRUE
      BY <2>2
    <3>2. /\ n \in graph /\ o \in graph /\ KindOf(n) = KindOf(m) /\ KindOf(o) = KindOf(m)
          /\ IdOf(n) = Event[m].supersedes /\ IdOf(o) = Event[m].supersedes
      BY <2>1, <2>3, <3>1 DEF Replaced, SupersededBy, Standing
    <3>3. n = o
      BY <1>1, <3>2 DEF Unspoilt, SameEntity
    <3> QED  BY <3>1, <3>3
  <2>5. ASSUME NEW n \in Replaced(graph, m), Tombstone(m) PROVE SupersededBy(graph, n) = {m}
    <3>1. m \in SupersededBy(graph, n) /\ Event[m].supersedes = IdOf(n)
      BY DEF Replaced, SupersededBy
    <3>2. ASSUME NEW o \in SupersededBy(graph, n) PROVE o = m
      BY <1>1, <2>5, <3>1, <3>2 DEF SupersededBy, Unspoilt
    <3> QED  BY <3>1, <3>2
  <2>6. ASSUME NEW n \in Replaced(graph, m)
        PROVE  IF Tombstone(m) THEN SupersededBy(graph, n) = {m}
               ELSE Rank[Event[m].discharge] >= Rank[Changed(n, m)]
    BY <2>2, <2>4, <2>5, <2>6
  <2> QED  BY <2>2, <2>3, <2>6
<1>6. ReferencesResolve(graph)
  <2> SUFFICES ASSUME NEW m \in Standing(graph), NEW id \in Event[m].names
               PROVE  \E n \in Bearing(Standing(graph), m) : IdOf(n) = id
    BY DEF ReferencesResolve
  <2>1. PICK part \in SUBSET graph : m \in part /\ ReferencesResolve(part)
    BY <1>4 DEF Standing, HoldsTogether
  <2>2. m \in Standing(part) /\ Standing(part) \subseteq Standing(graph)
    BY <2>1 DEF Standing
  <2>3. PICK n \in Bearing(Standing(part), m) : IdOf(n) = id
    BY <2>1, <2>2 DEF ReferencesResolve
  <2> QED  BY <2>2, <2>3 DEF Bearing
<1>7. BridgesBind(graph)
  <2> SUFFICES ASSUME NEW b \in Of(Standing(graph), "family_bridge"), ~Binds(graph, b) PROVE FALSE
    BY DEF BridgesBind
  <2>1. PICK part \in SUBSET graph : b \in part /\ BridgesBind(part)
    BY <1>4 DEF Of, Standing, HoldsTogether
  <2>2. Binds(part, b)
    BY <2>1 DEF BridgesBind, Of, Standing
  <2>3. ASSUME NEW n \in Live(part), RestsOn(b, n) PROVE n \in Live(graph)
    <3>1. n \in graph /\ n \in Standing(graph)
      BY <2>1, <2>3 DEF Live, Standing
    <3>2. ~Superseded(graph, n)
      BY <1>1, <2>3, <3>1 DEF Unspoilt, BridgeIsBroken
    <3> QED  BY <3>1, <3>2 DEF Live
  <2>4. ASSUME NEW id \in Event[b].names PROVE \E n \in Bearing(Live(graph), b) : IdOf(n) = id
    <3>1. PICK n \in Bearing(Live(part), b) : IdOf(n) = id
      BY <2>2, <2>4 DEF Binds
    <3>2. n \in Live(part) /\ n \in Bearing({n}, b) /\ RestsOn(b, n)
      BY <2>4, <3>1 DEF Bearing, RestsOn
    <3> QED  BY <2>3, <3>1, <3>2 DEF Bearing
  <2>5. \E e \in Live(graph) : Proves(e, b)
    BY <2>2, <2>3 DEF Binds, RestsOn
  <2> QED  BY <2>4, <2>5 DEF Binds
<1>8. Needed(recs)
  BY <1>1 DEF Needed
<1> QED  BY <1>2, <1>3, <1>5, <1>6, <1>7, <1>8 DEF Folds, WellFormed, graph

\* A log of whole batches, without its header.
LEMMA BackedAreSourced ==
    ASSUME NEW file \in Seq(Lines), Readable(file), AllBacked(file),
           \A batch \in Batches : Range(file) \cap Range(batch) \in {{}, Range(batch)}
    PROVE  Records(file) \in Seq(Names) /\ AllSourced(Records(file))
<1> DEFINE recs == Records(file)
<1>1. recs \in Seq(Names)
  BY RecordsAreNames
<1>2. CASE file = <<>>
  <2>1. recs = <<>>
    BY <1>2 DEF Records
  <2>2. DOMAIN recs = {}
    BY <2>1
  <2> QED  BY <1>1, <2>2 DEF AllSourced
<1>3. CASE file # <<>>
  <2>1. /\ DOMAIN recs = 1..(Len(file) - 1) /\ Len(file) \in Nat /\ DOMAIN file = 1..Len(file)
        /\ \A i \in 1..(Len(file) - 1) : /\ i + 1 \in DOMAIN file /\ i + 1 \in 2..Len(file)
                                        /\ recs[i] = file[i + 1]
        /\ file[1] = "meta"
    BY <1>3, RecordsStand, LenProperties DEF Readable
  <2> HIDE DEF recs
  <2>2. ASSUME NEW l \in DOMAIN file, file[l] \in Names PROVE l - 1 \in DOMAIN recs /\ recs[l - 1] = file[l]
    <3>1. l # 1
      BY <2>1, <2>2, LinesApart
    <3>2. l - 1 \in 1..(Len(file) - 1) /\ l - 1 + 1 = l
      BY <2>1, <3>1
    <3> QED  BY <2>1, <3>2
  <2>3. ASSUME NEW i \in DOMAIN recs PROVE Sourced(recs, i)
    <3>1. i + 1 \in DOMAIN file /\ i + 1 >= 2 /\ recs[i] = file[i + 1] /\ i \in Nat
      BY <2>1
    <3>2. PICK judged \in Seq(Names) : \E j \in DOMAIN judged : BackedBy(file, i + 1, judged, j)
      BY <3>1 DEF AllBacked, Backed
    <3>3. PICK j \in DOMAIN judged : BackedBy(file, i + 1, judged, j)
      BY <3>2
    <3>4. Range(judged) \subseteq Range(file)
      <4>1. ASSUME NEW batch \in Batches, file[i + 1] \in Range(batch) PROVE Range(batch) \subseteq Range(file)
        <5>1. file[i + 1] \in Range(file)
          BY <3>1 DEF Range
        <5> QED  BY <4>1, <5>1
      <4> QED  BY <3>3, <4>1 DEF BackedBy
    <3>5. \A k \in DOMAIN judged : judged[k] \in Names /\ judged[k] \in Range(file)
      BY <3>2, <3>4, LenProperties, ElementOfSeq DEF Range
    <3>6. Range(judged) \subseteq Range(recs)
      <4>1. ASSUME NEW k \in DOMAIN judged PROVE judged[k] \in Range(recs)
        <5>1. PICK l \in DOMAIN file : file[l] = judged[k]
          BY <3>5 DEF Range
        <5>2. l - 1 \in DOMAIN recs /\ recs[l - 1] = judged[k]
          BY <2>2, <3>5, <5>1
        <5> QED  BY <5>2 DEF Range
      <4> QED  BY <4>1 DEF Range
    <3>7. ASSUME NEW k \in 1..(j - 1) PROVE \E l \in 1..(i - 1) : recs[l] = judged[k]
      <4>1. k \in DOMAIN judged
        BY LenProperties
      <4>2. PICK l \in 1..((i + 1) - 1) : file[l] = judged[k]
        BY <3>3 DEF BackedBy
      <4>3. l \in DOMAIN file
        BY <2>1, <3>1
      <4>4. l - 1 \in DOMAIN recs /\ recs[l - 1] = judged[k]
        BY <2>2, <3>5, <4>1, <4>2, <4>3
      <4>5. l - 1 \in 1..(i - 1)
        BY <2>1, <3>1, <4>4
      <4> QED  BY <4>4, <4>5
    <3>8. SourcedBy(recs, i, judged, j)
      BY <3>1, <3>3, <3>6, <3>7 DEF BackedBy, SourcedBy
    <3> QED  BY <3>8 DEF Sourced
  <2> QED  BY <1>1, <2>3 DEF AllSourced, recs
<1> QED  BY <1>2, <1>3

\* store.append judges and then writes without a lock: whatever else writes in
\* between, a log comes to be unreadable only by a line cut short, a second
\* header, part of a batch, two declarations of one record, a retirement of a
\* record that was also replaced, a supersession of what a bridge rests on, or
\* errata.
THEOREM OnlyConflictsBreak == Spec => []BreaksOnlyByConflict
<1>1. TypeInv /\ BackInv => BreaksOnlyByConflict
  <2> DEFINE recs == Records(log)
  <2> SUFFICES ASSUME TypeInv, BackInv, Readable(log),
                      \A batch \in Batches : Range(log) \cap Range(batch) \in {{}, Range(batch)},
                      \A m, n \in Applied(recs) : SameEntity(m, n) => m = n,
                      \A m, n \in Applied(recs) :
                          Tombstone(m) /\ Event[m].supersedes = Event[n].supersedes => m = n,
                      ~BridgeIsBroken(Applied(recs)), Errata(recs) = {}
               PROVE  LogFolds(log)
    BY DEF BreaksOnlyByConflict
  <2>1. recs \in Seq(Names) /\ AllSourced(recs)
    BY BackedAreSourced DEF BackInv, TypeInv, TypeOK, Lines
  <2>2. Unspoilt(recs)
    BY KeptIsAll DEF Unspoilt
  <2> HIDE DEF recs
  <2>3. Folds(recs)
    BY <2>1, <2>2, SourcedFold
  <2> QED  BY <2>3 DEF LogFolds, recs
<1> QED  BY TypeInvInit, TypeInvStep, BackInvInit, BackInvStep, <1>1, PTL DEF Spec
=============================================================================
