--------------------------- MODULE GpSolverProofs ---------------------------
(***************************************************************************)
(* What holds of every number of calls, whatever their programs print, for *)
(* every size of a block and every limit, however solvers, descendants,    *)
(* threads, clocks and kills interleave.                                   *)
(***************************************************************************)
EXTENDS GpSolver, SequenceTheorems, TLAPS

Codes    == {"none", "zero", "other", "abort", "signal"}
Findings == Codes \cup {"timeout", "limit"}
Events   == {"model", "edge", "note"}
Places   == {"idle", "wait", "kill", "reap", "join", "close", "tally", "note", "judge",
             "publish", "append", "returned", "dead"}
Threading == {"read", "keep", "extend", "over", "done"}
Readers   == [at : Threading, block : Seq(Pieces), room : Int]

Processes == [state : {"none", "running", "ended"}, rc : Codes, fed : BOOLEAN,
              left : [Streams -> Seq(Pieces)], heir : {"none", "group", "session"}]

Callers == [pc : Places, rc : Findings, open : SUBSET (Streams \cup {"stdin"}),
            room : Int, seen : [Streams -> Seq(Pieces)], todo : Seq(Events),
            temp : {"none", "part", "whole"}]

Typed ==
    /\ script \in [Calls -> Scripts]
    /\ solver \in [Calls -> Processes]
    /\ pipe \in [Calls -> [Streams -> Seq(Pieces)]]
    /\ reader \in [Calls -> [Streams -> Readers]]
    /\ kept \in [Calls -> [Streams -> Seq(Pieces)]]
    /\ overflow \in [Calls -> BOOLEAN]
    /\ feeder \in [Calls -> {"writing", "done"}]
    /\ caller \in [Calls -> Callers]
    /\ objects \subseteq [call : Calls, whole : BOOLEAN]
    /\ graph \in Seq([call : Calls, ev : Events])

(***************************************************************************)
(* Sequences of pieces                                                     *)
(***************************************************************************)

\* What is cut in two is still what it was.
LEMMA Cut ==
    ASSUME NEW s \in Seq(Pieces), NEW n \in 0..Len(s)
    PROVE  /\ SubSeq(s, 1, n) \in Seq(Pieces)
           /\ SubSeq(s, n + 1, Len(s)) \in Seq(Pieces)
           /\ SubSeq(s, 1, n) \o SubSeq(s, n + 1, Len(s)) = s
           /\ Len(SubSeq(s, 1, n)) = n
<1>1. Len(s) \in Nat /\ s \in [1..Len(s) -> Pieces]
  BY LenProperties
<1>2. \A i \in 1..n : s[i] \in Pieces
  BY <1>1
<1>3. \A i \in n + 1..Len(s) : s[i] \in Pieces
  BY <1>1
<1>4. SubSeq(s, 1, n) \in Seq(Pieces) /\ Len(SubSeq(s, 1, n)) = n
  BY <1>1, <1>2, SubSeqProperties
<1>5. SubSeq(s, n + 1, Len(s)) \in Seq(Pieces)
  BY <1>1, <1>3, SubSeqProperties
<1>6. 1 \in 1..Len(s) + 1 /\ n \in 1 - 1..Len(s) /\ Len(s) \in n..Len(s)
  BY <1>1
<1>7. SubSeq(s, 1, n) \o SubSeq(s, n + 1, Len(s)) = SubSeq(s, 1, Len(s))
  BY <1>6, ConcatAdjacentSubSeq
<1> QED BY <1>4, <1>5, <1>7, SubSeqFull

\* A piece that moves from one sequence to the one before it stays in place.
LEMMA Moved ==
    ASSUME NEW s \in Seq(Pieces), NEW t \in Seq(Pieces), t # <<>>
    PROVE  /\ Append(s, Head(t)) \in Seq(Pieces)
           /\ Tail(t) \in Seq(Pieces)
           /\ Append(s, Head(t)) \o Tail(t) = s \o t
<1>1. /\ Head(t) \in Pieces
      /\ Tail(t) \in Seq(Pieces)
      /\ Len(Tail(t)) = Len(t) - 1
      /\ \A i \in 1..Len(Tail(t)) : Tail(t)[i] = t[i + 1]
  BY HeadTailProperties
<1>2. Append(s, Head(t)) = s \o <<Head(t)>> /\ Append(s, Head(t)) \in Seq(Pieces)
  BY <1>1, AppendIsConcat, AppendProperties
<1>3. <<Head(t)>> \in Seq(Pieces) /\ Len(<<Head(t)>>) = 1 /\ <<Head(t)>>[1] = Head(t)
  BY <1>1
<1>4. <<Head(t)>> \o Tail(t) = t
  <2>1. Len(t) \in Nat /\ Head(t) = t[1]
    BY LenProperties, EmptySeq
  <2>2. /\ <<Head(t)>> \o Tail(t) \in Seq(Pieces)
        /\ Len(<<Head(t)>> \o Tail(t)) = Len(t)
        /\ \A i \in 1..Len(t) : (<<Head(t)>> \o Tail(t))[i] =
                                   IF i <= 1 THEN <<Head(t)>>[i] ELSE Tail(t)[i - 1]
    BY <1>1, <1>3, <2>1, ConcatProperties
  <2>3. \A i \in 1..Len(t) : (<<Head(t)>> \o Tail(t))[i] = t[i]
    BY <1>1, <1>3, <2>1, <2>2
  <2> QED BY <2>1, <2>2, <2>3, SeqEqual
<1> QED BY <1>1, <1>2, <1>3, <1>4, ConcatAssociative

\* A beginning of a program's output that has its last line is all of it.
LEMMA CompleteIsAll ==
    ASSUME NEW s \in Seq(Pieces), NEW t \in Seq(Pieces), EndsOnce(s \o t), Complete(s)
    PROVE  s = s \o t
<1>1. Len(s) \in Nat /\ Len(t) \in Nat /\ DOMAIN s = 1..Len(s) /\ s \o t \in Seq(Pieces)
  BY LenProperties, ConcatProperties
<1>2. Len(s) \in DOMAIN s /\ s[Len(s)] = "end"
  BY DEF Complete
<1>3. (s \o t)[Len(s)] = "end" /\ Len(s) \in DOMAIN (s \o t) /\ Len(s \o t) = Len(s) + Len(t)
  BY <1>1, <1>2, ConcatProperties, LenProperties
<1>4. Len(s) = Len(s \o t)
  BY <1>3 DEF EndsOnce
<1>5. \A i \in 1..Len(s) : (s \o t)[i] = s[i]
  BY <1>1, <1>3, <1>4, ConcatProperties
<1> QED BY <1>1, <1>4, <1>5, SeqEqual

(***************************************************************************)
(* Types                                                                   *)
(***************************************************************************)

LEMMA TypedInit == Init => Typed
<1> SUFFICES ASSUME Init PROVE Typed
  OBVIOUS
<1>1. script \in [Calls -> Scripts] /\ \A c \in Calls : script[c] \in [Streams -> Seq(Pieces)]
  BY ScriptsType DEF Init
<1>2. <<>> \in Seq(Pieces) /\ <<>> \in Seq(Events) /\ <<>> \in Seq([call : Calls, ev : Events])
  BY EmptySeq
<1>3. Nothing \in [Streams -> Seq(Pieces)]
  BY <1>2 DEF Nothing
<1>4. solver \in [Calls -> Processes]
  BY <1>1 DEF Init, Processes, Codes
<1>5. reader \in [Calls -> [Streams -> Readers]]
  BY <1>2 DEF Init, Both, Thread, Readers, Threading
<1>6. caller \in [Calls -> Callers]
  BY <1>2, <1>3 DEF Init, Callers, Places, Findings, Codes
<1> QED BY <1>1, <1>2, <1>3, <1>4, <1>5, <1>6 DEF Init, Typed

\* A process is one whatever of it changes.
LEMMA ProcessUpdated ==
    ASSUME NEW p \in Processes
    PROVE  /\ [p EXCEPT !.fed = TRUE] \in Processes
           /\ \A state \in {"none", "running", "ended"} : [p EXCEPT !.state = state] \in Processes
           /\ \A heir \in {"none", "group", "session"} : [p EXCEPT !.heir = heir] \in Processes
           /\ \A rc \in Codes : [p EXCEPT !.state = "ended", !.rc = rc] \in Processes
           /\ \A rc \in Codes, heir \in {"none", "group", "session"} :
                 [p EXCEPT !.state = "ended", !.rc = rc, !.heir = heir] \in Processes
           /\ \A left \in [Streams -> Seq(Pieces)] : [p EXCEPT !.left = left] \in Processes
BY DEF Processes

LEMMA SolversUpdated ==
    ASSUME solver \in [Calls -> Processes], NEW c \in Calls, NEW p \in Processes
    PROVE  [solver EXCEPT ![c] = p] \in [Calls -> Processes]
OBVIOUS

LEMMA TypedKilled ==
    ASSUME solver \in [Calls -> Processes], NEW c \in Calls
    PROVE  Killed(c) \in [Calls -> Processes]
<1> DEFINE p    == solver[c]
           heir == IF p.heir = "group" THEN "none" ELSE p.heir
<1>1. p \in Processes /\ heir \in {"none", "group", "session"}
  BY DEF Processes
<1>2. [p EXCEPT !.state = "ended", !.rc = "signal", !.heir = heir] \in Processes
  BY <1>1, ProcessUpdated DEF Codes
<1> QED BY <1>2 DEF Killed

\* What a solver or its descendant does.
LEMMA TypedExternal ==
    ASSUME Typed, NEW c \in Calls, External(c)
    PROVE  Typed'
<1> DEFINE p == solver[c]
<1>0. p \in Processes /\ solver \in [Calls -> Processes]
  BY DEF Typed
<1>1. CASE TakeProgram(c)
  <2>1. solver' \in [Calls -> Processes]
    BY <1>0, <1>1, ProcessUpdated, SolversUpdated DEF TakeProgram
  <2> QED BY <1>1, <2>1 DEF TakeProgram, Typed
<1>2. CASE HeirEnds(c)
  <2>1. solver' \in [Calls -> Processes]
    BY <1>0, <1>2, ProcessUpdated, SolversUpdated DEF HeirEnds
  <2> QED BY <1>2, <2>1 DEF HeirEnds, Typed
<1>3. ASSUME NEW s \in Streams, Emit(c, s) PROVE Typed'
  <2>1. p.left \in [Streams -> Seq(Pieces)] /\ pipe[c][s] \in Seq(Pieces) /\ p.left[s] # <<>>
    BY <1>3 DEF Emit, Typed, Processes
  <2>2. Tail(p.left[s]) \in Seq(Pieces) /\ Append(pipe[c][s], Head(p.left[s])) \in Seq(Pieces)
    BY <2>1, Moved
  <2>3. [p.left EXCEPT ![s] = Tail(@)] \in [Streams -> Seq(Pieces)]
    BY <2>1, <2>2
  <2>4. [p EXCEPT !.left = [p.left EXCEPT ![s] = Tail(@)]] \in Processes
    BY <1>0, <2>3, ProcessUpdated
  <2>5. solver' = [solver EXCEPT ![c] = [p EXCEPT !.left = [p.left EXCEPT ![s] = Tail(@)]]]
    BY <1>3 DEF Emit
  <2>6. solver' \in [Calls -> Processes]
    BY <1>0, <2>4, <2>5, SolversUpdated
  <2>7. pipe' \in [Calls -> [Streams -> Seq(Pieces)]]
    BY <1>3, <2>2 DEF Emit, Typed
  <2> QED BY <1>3, <2>6, <2>7 DEF Emit, Typed
<1>4. ASSUME NEW where \in {"group", "session"}, Fork(c, where) PROVE Typed'
  <2>1. where \in {"none", "group", "session"}
    OBVIOUS
  <2>2. solver' \in [Calls -> Processes]
    BY <1>0, <1>4, <2>1, ProcessUpdated, SolversUpdated DEF Fork
  <2> QED BY <1>4, <2>2 DEF Fork, Typed
<1>5. ASSUME NEW rc \in {"zero", "other", "abort"}, Exit(c, rc) PROVE Typed'
  <2>1. rc \in Codes
    BY DEF Codes
  <2>2. [p EXCEPT !.state = "ended", !.rc = rc] \in Processes
    BY <1>0, <2>1, ProcessUpdated
  <2>3. solver' = [solver EXCEPT ![c] = [p EXCEPT !.state = "ended", !.rc = rc]]
    BY <1>5 DEF Exit
  <2>4. solver' \in [Calls -> Processes]
    BY <1>0, <2>2, <2>3, SolversUpdated
  <2> QED BY <1>5, <2>4 DEF Exit, Typed
<1> QED BY <1>1, <1>2, <1>3, <1>4, <1>5 DEF External

\* What is kept of a block is its beginning, and finds room.
LEMMA PartIsPrefix ==
    ASSUME NEW block \in Seq(Pieces), NEW room \in Int
    PROVE  /\ Part(block, room) \in Seq(Pieces)
           /\ Len(Part(block, room)) = 0 \/ Len(Part(block, room)) <= room
           /\ Len(Part(block, room)) <= Len(block)
           /\ \E rest \in Seq(Pieces) : Part(block, room) \o rest = block
           /\ ~Over(block, room) => Part(block, room) = block
<1>1. Len(block) \in Nat /\ <<>> \in Seq(Pieces) /\ Len(<<>>) = 0
  BY LenProperties, EmptySeq
<1>2. CASE Len(block) <= room
  <2>1. Part(block, room) = block
    BY <1>2 DEF Part
  <2>2. \E rest \in Seq(Pieces) : block \o rest = block
    <3>1. block \o <<>> = block
      BY ConcatEmptySeq
    <3> QED BY <1>1, <3>1
  <2>3. Len(block) <= Len(block)
    BY <1>1
  <2> QED BY <1>2, <2>1, <2>2, <2>3
<1>3. CASE ~(Len(block) <= room)
  <2>1. Over(block, room)
    BY <1>1, <1>3 DEF Over
  <2>2. CASE room > 0
    <3>1. Part(block, room) = SubSeq(block, 1, room)
      BY <1>3, <2>2 DEF Part
    <3>2. room \in 0..Len(block)
      BY <1>1, <1>3, <2>2
    <3>3. /\ SubSeq(block, 1, room) \in Seq(Pieces)
          /\ SubSeq(block, room + 1, Len(block)) \in Seq(Pieces)
          /\ SubSeq(block, 1, room) \o SubSeq(block, room + 1, Len(block)) = block
          /\ Len(SubSeq(block, 1, room)) = room
      BY <3>2, Cut
    <3>4. Len(SubSeq(block, 1, room)) <= room /\ Len(SubSeq(block, 1, room)) <= Len(block)
      BY <1>1, <3>2, <3>3
    <3> QED BY <2>1, <3>1, <3>3, <3>4
  <2>3. CASE ~(room > 0)
    <3>1. Part(block, room) = <<>>
      BY <1>3, <2>3 DEF Part
    <3>2. <<>> \o block = block
      BY ConcatEmptySeq
    <3> QED BY <1>1, <2>1, <3>1, <3>2
  <2> QED BY <2>2, <2>3
<1> QED BY <1>2, <1>3

\* A thread that starts, stops or goes on.
LEMMA ThreadTyped ==
    ASSUME NEW at \in Threading
    PROVE  Thread(at) \in Readers
BY EmptySeq DEF Thread, Readers

LEMMA ThreadUpdated ==
    ASSUME NEW r \in Readers, NEW at \in Threading, NEW room \in Int
    PROVE  [r EXCEPT !.at = at] \in Readers /\ [r EXCEPT !.at = at, !.room = room] \in Readers
BY DEF Readers

\* What a thread does.
LEMMA TypedThreads ==
    ASSUME Typed, NEW c \in Calls, Threads(c)
    PROVE  Typed'
<1>0. reader \in [Calls -> [Streams -> Readers]] /\ kept \in [Calls -> [Streams -> Seq(Pieces)]]
  BY DEF Typed
<1>1. CASE FeedFails(c)
  BY <1>1 DEF FeedFails, Typed
<1>2. ASSUME NEW s \in Streams, Read(c, s) PROVE Typed'
  <2> DEFINE there == pipe[c][s]
             n == IF Len(there) >= Block THEN Block ELSE Len(there)
             r == IF n = 0 THEN Thread("done")
                  ELSE [at |-> "keep", block |-> SubSeq(there, 1, n), room |-> 0]
  <2>1. there \in Seq(Pieces) /\ Len(there) \in Nat
    BY LenProperties DEF Typed
  <2>2. n \in 0..Len(there)
    BY <2>1, BlockType
  <2>3. SubSeq(there, 1, n) \in Seq(Pieces) /\ SubSeq(there, n + 1, Len(there)) \in Seq(Pieces)
    <3> HIDE DEF there, n
    <3> QED BY <2>1, <2>2, Cut
  <2>4. /\ reader' = [reader EXCEPT ![c][s] = r]
        /\ pipe' = [pipe EXCEPT ![c][s] = SubSeq(there, n + 1, Len(there))]
        /\ UNCHANGED <<solver, script, kept, overflow, feeder, caller, objects, graph>>
    BY <1>2 DEF Read, Typed
  <2>5. r \in Readers
    <3> HIDE DEF there, n
    <3> QED BY <2>3, ThreadTyped DEF Threading, Readers
  <2> HIDE DEF r, there, n
  <2>6. reader' \in [Calls -> [Streams -> Readers]]
    BY <1>0, <2>4, <2>5
  <2>7. pipe' \in [Calls -> [Streams -> Seq(Pieces)]]
    BY <2>3, <2>4 DEF Typed
  <2> QED BY <2>4, <2>6, <2>7 DEF Typed
<1>3. ASSUME NEW s \in Streams, Measure(c, s) PROVE Typed'
  <2> DEFINE r == [reader[c][s] EXCEPT !.at = "extend", !.room = Room(c, s)]
  <2>1. Room(c, s) \in Int
    BY <1>0, LimitType, LenProperties DEF Room
  <2>2. r \in Readers
    <3>1. reader[c][s] \in Readers /\ "extend" \in Threading
      BY <1>0 DEF Threading
    <3> QED BY <2>1, <3>1, ThreadUpdated
  <2>3. reader' = [reader EXCEPT ![c][s] = r]
    BY <1>3 DEF Measure
  <2> HIDE DEF r
  <2>4. reader' \in [Calls -> [Streams -> Readers]]
    BY <1>0, <2>2, <2>3
  <2> QED BY <1>3, <2>4 DEF Measure, Typed
<1>4. ASSUME NEW s \in Streams, Keep(c, s) PROVE Typed'
  <2> DEFINE block == reader[c][s].block
             room  == reader[c][s].room
             at == IF Over(block, room) THEN "over"
                   ELSE IF s \in caller[c].open THEN "read" ELSE "done"
  <2>1. /\ reader' = [reader EXCEPT ![c][s] = Thread(at)]
        /\ kept' = [kept EXCEPT ![c][s] = @ \o Part(block, room)]
        /\ UNCHANGED <<solver, script, pipe, overflow, feeder, caller, objects, graph>>
    BY <1>4 DEF Keep
  <2>2. block \in Seq(Pieces) /\ room \in Int
    BY <1>0 DEF Readers
  <2>3. at \in Threading
    BY DEF Threading
  <2> HIDE DEF at, block, room
  <2>4. reader' \in [Calls -> [Streams -> Readers]]
    BY <1>0, <2>1, <2>3, ThreadTyped
  <2>5. Part(block, room) \in Seq(Pieces) /\ kept[c][s] \in Seq(Pieces)
    BY <1>0, <2>2, PartIsPrefix
  <2>6. kept[c][s] \o Part(block, room) \in Seq(Pieces)
    BY <2>5, ConcatProperties
  <2>7. kept' \in [Calls -> [Streams -> Seq(Pieces)]]
    BY <1>0, <2>1, <2>6
  <2> QED BY <2>1, <2>4, <2>7 DEF Typed
<1>5. ASSUME NEW s \in Streams, Overflow(c, s) PROVE Typed'
  <2>1. [reader[c][s] EXCEPT !.at = "done"] \in Readers
    <3>1. reader[c][s] \in Readers /\ "done" \in Threading /\ 0 \in Int
      BY <1>0 DEF Threading
    <3> QED BY <3>1, ThreadUpdated
  <2>2. reader' = [reader EXCEPT ![c][s] = [reader[c][s] EXCEPT !.at = "done"]]
    BY <1>5 DEF Overflow
  <2>3. reader' \in [Calls -> [Streams -> Readers]]
    BY <1>0, <2>1, <2>2
  <2>4. solver' \in [Calls -> Processes]
    BY <1>5, TypedKilled DEF Overflow, KillsGroup, Typed
  <2> QED BY <1>5, <2>3, <2>4 DEF Overflow, Typed
<1> QED BY <1>1, <1>2, <1>3, <1>4, <1>5 DEF Threads

\* A caller is one whatever of it changes.
LEMMA CallerUpdated ==
    ASSUME NEW k \in Callers, NEW pc \in Places
    PROVE  /\ [k EXCEPT !.pc = pc] \in Callers
           /\ \A rc \in Findings : [k EXCEPT !.pc = pc, !.rc = rc] \in Callers
           /\ \A open \in SUBSET (Streams \cup {"stdin"}) :
                 /\ [k EXCEPT !.pc = pc, !.open = open] \in Callers
                 /\ [k EXCEPT !.open = open, !.pc = pc] \in Callers
           /\ \A rc \in Findings, room \in Int :
                 [k EXCEPT !.pc = pc, !.rc = rc, !.room = room] \in Callers
           /\ \A temp \in {"none", "part", "whole"} : [k EXCEPT !.temp = temp] \in Callers
           /\ \A todo \in Seq(Events) :
                 /\ [k EXCEPT !.todo = todo, !.pc = pc] \in Callers
                 /\ \A seen \in [Streams -> Seq(Pieces)] :
                       [k EXCEPT !.seen = seen, !.todo = todo, !.pc = pc] \in Callers
BY DEF Callers

LEMMA CallersUpdated ==
    ASSUME caller \in [Calls -> Callers], NEW c \in Calls, NEW k \in Callers
    PROVE  [caller EXCEPT ![c] = k] \in [Calls -> Callers]
OBVIOUS

LEMMA CallersGo ==
    ASSUME caller \in [Calls -> Callers], NEW c \in Calls, NEW pc \in Places
    PROVE  /\ Goes(c, pc) => caller' \in [Calls -> Callers]
           /\ \A rc \in Findings : Finds(c, pc, rc) => caller' \in [Calls -> Callers]
<1>1. caller[c] \in Callers
  OBVIOUS
<1>2. Goes(c, pc) => caller' \in [Calls -> Callers]
  <2>1. [caller[c] EXCEPT !.pc = pc] \in Callers
    BY <1>1, CallerUpdated
  <2> QED BY <2>1, CallersUpdated DEF Goes
<1>3. ASSUME NEW rc \in Findings, Finds(c, pc, rc) PROVE caller' \in [Calls -> Callers]
  <2>1. [caller[c] EXCEPT !.pc = pc, !.rc = rc] \in Callers
    BY <1>1, CallerUpdated
  <2>2. caller' = [caller EXCEPT ![c] = [caller[c] EXCEPT !.pc = pc, !.rc = rc]]
    BY <1>3 DEF Finds
  <2> QED BY <2>1, <2>2, CallersUpdated
<1> QED BY <1>2, <1>3

\* Who publishes or appends has something to append.
Due(c) == caller[c].pc \in {"publish", "append"} => caller[c].todo # <<>>

LEMMA EventsOfTyped ==
    ASSUME NEW judgement
    PROVE  EventsOf(judgement) \in Seq(Events)
<1>1. /\ <<>> \in Seq(Events)
      /\ <<"note">> \in Seq(Events)
      /\ <<"model", "edge", "note">> \in Seq(Events)
  BY EmptySeq DEF Events
<1>2. CASE judgement = "answered"
  BY <1>1, <1>2 DEF EventsOf
<1>3. CASE judgement = "aborted"
  BY <1>1, <1>3 DEF EventsOf
<1>4. CASE judgement \notin {"answered", "aborted"}
  BY <1>1, <1>4 DEF EventsOf
<1> QED BY <1>2, <1>3, <1>4

\* What the caller does.
LEMMA TypedCaller ==
    ASSUME Typed, NEW c \in Calls, Due(c), Launch(c) \/ Caller(c) \/ Crash(c)
    PROVE  Typed'
<1> DEFINE k == caller[c]
<1>0. k \in Callers /\ caller \in [Calls -> Callers] /\ solver[c] \in Processes
  BY DEF Typed
<1>1. CASE Launch(c)
  <2>1. [solver[c] EXCEPT !.state = "running"] \in Processes
    BY <1>0, ProcessUpdated
  <2>2. solver' \in [Calls -> Processes]
    BY <1>1, <2>1 DEF Launch, Typed
  <2>3. [k EXCEPT !.pc = "wait", !.open = Streams \cup {"stdin"}] \in Callers
    BY <1>0, CallerUpdated DEF Places
  <2>4. caller' \in [Calls -> Callers]
    BY <1>0, <1>1, <2>3, CallersUpdated DEF Launch
  <2>5. reader' \in [Calls -> [Streams -> Readers]]
    BY <1>1, ThreadTyped DEF Launch, Both, Typed, Threading
  <2> QED BY <1>1, <2>2, <2>4, <2>5 DEF Launch, Typed
<1>2. CASE Waited(c)
  <2>1. "join" \in Places /\ solver[c].rc \in Findings
    BY <1>0 DEF Places, Processes, Findings
  <2>2. caller' \in [Calls -> Callers]
    BY <1>0, <1>2, <2>1, CallersGo DEF Waited
  <2> QED BY <1>2, <2>2 DEF Waited, Typed
<1>3. CASE TimeOut(c)
  <2>1. "kill" \in Places /\ "timeout" \in Findings
    BY DEF Places, Findings
  <2>2. caller' \in [Calls -> Callers]
    BY <1>0, <1>3, <2>1, CallersGo DEF TimeOut
  <2> QED BY <1>3, <2>2 DEF TimeOut, Typed
<1>4. CASE Kill(c)
  <2>1. caller' \in [Calls -> Callers]
    BY <1>0, <1>4, CallersGo DEF Kill, Places
  <2>2. solver' \in [Calls -> Processes]
    BY <1>4, TypedKilled DEF Kill, KillsGroup, Typed
  <2> QED BY <1>4, <2>1, <2>2 DEF Kill, Typed
<1>5. CASE Reap(c)
  <2>1. caller' \in [Calls -> Callers]
    BY <1>0, <1>5, CallersGo DEF Reap, Places
  <2> QED BY <1>5, <2>1 DEF Reap, Typed
<1>6. CASE Join(c)
  <2>1. caller' \in [Calls -> Callers]
    BY <1>0, <1>6, CallersGo DEF Join, Places
  <2> QED BY <1>6, <2>1 DEF Join, Typed
<1>7. ASSUME NEW s \in Streams \cup {"stdin"}, Close(c, s) PROVE Typed'
  <2> DEFINE pc == IF s = "stderr" THEN "tally" ELSE k.pc
             open == k.open \ {s}
  <2>1. pc \in Places /\ open \in SUBSET (Streams \cup {"stdin"})
    BY <1>0 DEF Places, Callers
  <2>2. caller' = [caller EXCEPT ![c] = [k EXCEPT !.open = open, !.pc = pc]]
    BY <1>7 DEF Close
  <2> HIDE DEF pc, open
  <2>3. [k EXCEPT !.open = open, !.pc = pc] \in Callers
    BY <1>0, <2>1, CallerUpdated
  <2>4. caller' \in [Calls -> Callers]
    BY <1>0, <2>2, <2>3, CallersUpdated
  <2> QED BY <1>7, <2>4 DEF Close, Typed
<1>8. CASE Tally(c)
  <2>1. "judge" \in Places /\ "note" \in Places /\ "limit" \in Findings
    BY DEF Places, Findings
  <2>2. CASE overflow[c]
    <3>1. Room(c, "stderr") \in Int
      BY LimitType, LenProperties DEF Room, Typed, Streams
    <3>2. caller' = [caller EXCEPT ![c] = [k EXCEPT !.pc = "note", !.rc = "limit",
                                                    !.room = Room(c, "stderr")]]
      BY <1>8, <2>2 DEF Tally
    <3>3. [k EXCEPT !.pc = "note", !.rc = "limit", !.room = Room(c, "stderr")] \in Callers
      BY <1>0, <2>1, <3>1, CallerUpdated
    <3>4. caller' \in [Calls -> Callers]
      BY <1>0, <3>2, <3>3, CallersUpdated
    <3> QED BY <1>8, <3>4 DEF Tally, Typed
  <2>3. CASE ~overflow[c]
    <3>1. caller' \in [Calls -> Callers]
      BY <1>0, <1>8, <2>1, <2>3, CallersGo DEF Tally
    <3> QED BY <1>8, <3>1 DEF Tally, Typed
  <2> QED BY <2>2, <2>3
<1>9. CASE Judge(c)
  <2> DEFINE todo == EventsOf(Judgement(k.rc, kept[c]))
             pc == IF todo = <<>> THEN "returned" ELSE "publish"
  <2>1. todo \in Seq(Events) /\ kept[c] \in [Streams -> Seq(Pieces)]
    BY EventsOfTyped DEF Typed
  <2>2. pc \in Places
    BY DEF Places
  <2>3. caller' = [caller EXCEPT ![c] = [k EXCEPT !.seen = kept[c], !.todo = todo, !.pc = pc]]
    BY <1>9 DEF Judge
  <2> HIDE DEF pc, todo
  <2>4. [k EXCEPT !.seen = kept[c], !.todo = todo, !.pc = pc] \in Callers
    BY <1>0, <2>1, <2>2, CallerUpdated
  <2>5. caller' \in [Calls -> Callers]
    BY <1>0, <2>3, <2>4, CallersUpdated
  <2> QED BY <1>9, <2>5 DEF Judge, Typed
<1>10. CASE WriteObject(c)
  <2> DEFINE temp == IF k.temp = "none" THEN "part" ELSE "whole"
  <2>1. temp \in {"none", "part", "whole"} /\ "publish" \in Places
    BY DEF Places
  <2>2. caller' = [caller EXCEPT ![c] = [k EXCEPT !.temp = temp]]
    BY <1>10 DEF WriteObject
  <2> HIDE DEF temp
  <2>3. [k EXCEPT !.temp = temp] \in Callers
    BY <1>0, <2>1, CallerUpdated
  <2>4. caller' \in [Calls -> Callers]
    BY <1>0, <2>2, <2>3, CallersUpdated
  <2> QED BY <1>10, <2>4 DEF WriteObject, Typed
<1>11. CASE Link(c)
  <2>1. caller' \in [Calls -> Callers]
    BY <1>0, <1>11, CallersGo DEF Link, Places
  <2>2. [call |-> c, whole |-> k.temp = "whole"] \in [call : Calls, whole : BOOLEAN]
    OBVIOUS
  <2>3. objects' \subseteq [call : Calls, whole : BOOLEAN]
    BY <1>11, <2>2 DEF Link, Typed
  <2> QED BY <1>11, <2>1, <2>3 DEF Link, Typed
<1>12. CASE Record(c)
  <2> DEFINE pc == IF Len(k.todo) = 1 THEN "returned" ELSE k.pc
  <2>1. pc \in Places /\ k.todo \in Seq(Events)
    BY <1>0 DEF Places, Callers
  <2>2. caller' = [caller EXCEPT ![c] = [k EXCEPT !.todo = Tail(k.todo), !.pc = pc]]
    BY <1>12 DEF Record
  <2>3. k.todo # <<>>
    BY <1>12 DEF Record, At, Due
  <2>4. Head(k.todo) \in Events /\ Tail(k.todo) \in Seq(Events)
    BY <2>1, <2>3, HeadTailProperties
  <2>5. [call |-> c, ev |-> Head(k.todo)] \in [call : Calls, ev : Events]
    BY <2>4
  <2>6. graph' \in Seq([call : Calls, ev : Events])
    BY <1>12, <2>5, AppendProperties DEF Record, Typed
  <2> HIDE DEF pc
  <2>7. [k EXCEPT !.todo = Tail(k.todo), !.pc = pc] \in Callers
    BY <1>0, <2>1, <2>4, CallerUpdated
  <2>8. caller' \in [Calls -> Callers]
    BY <1>0, <2>2, <2>7, CallersUpdated
  <2> QED BY <1>12, <2>6, <2>8 DEF Record, Typed
<1>13. CASE NotAppended(c)
  <2>1. caller' \in [Calls -> Callers]
    BY <1>0, <1>13, CallersGo DEF NotAppended, Places
  <2> QED BY <1>13, <2>1 DEF NotAppended, Typed
<1>14. CASE Crash(c)
  <2>1. caller' \in [Calls -> Callers]
    BY <1>0, <1>14, CallersGo DEF Crash, Places
  <2>2. reader' \in [Calls -> [Streams -> Readers]]
    BY <1>14, ThreadTyped DEF Crash, Both, Typed, Threading
  <2> QED BY <1>14, <2>1, <2>2 DEF Crash, Typed
<1>15. CASE Note(c)
  <2>1. caller' \in [Calls -> Callers]
    BY <1>0, <1>15, CallersGo DEF Note, Places
  <2>2. Part(Diagnostic, k.room) \in Seq(Pieces)
    BY <1>0, NoteType, PartIsPrefix DEF Callers
  <2>3. kept[c]["stderr"] \in Seq(Pieces) /\ "stderr" \in Streams
    BY DEF Typed, Streams
  <2>4. kept[c]["stderr"] \o Part(Diagnostic, k.room) \in Seq(Pieces)
    BY <2>2, <2>3, ConcatProperties
  <2>5. kept' \in [Calls -> [Streams -> Seq(Pieces)]]
    BY <1>15, <2>3, <2>4 DEF Note, Typed
  <2> QED BY <1>15, <2>1, <2>5 DEF Note, Typed
<1>16. CASE KillAgain(c)
  <2>1. [solver[c] EXCEPT !.state = "ended", !.rc = "signal"] \in Processes
    BY <1>0, ProcessUpdated DEF Codes
  <2>2. solver' \in [Calls -> Processes]
    BY <1>16, <2>1, SolversUpdated DEF KillAgain, Typed
  <2> QED BY <1>16, <2>2 DEF KillAgain, Typed
<1> QED BY <1>1, <1>2, <1>3, <1>4, <1>5, <1>6, <1>7, <1>8, <1>9, <1>10, <1>11, <1>12, <1>13, <1>14,
           <1>15, <1>16 DEF Caller

(***************************************************************************)
(* The invariant                                                           *)
(***************************************************************************)
Steps(c) == External(c) \/ Threads(c) \/ Launch(c) \/ Caller(c) \/ Crash(c)

\* Before it is launched a call has no process and no threads.
Unstarted(c) ==
    At(c, "idle") => /\ solver[c].state = "none" /\ solver[c].rc = "none"
                     /\ \A s \in Streams : reader[c][s] = Thread("done")

\* A code 0 is that of a solver that has ended by itself.
Settled(c) ==
    /\ solver[c].rc = "zero" => solver[c].state = "ended"
    /\ caller[c].rc = "zero" => solver[c].rc = "zero"

\* Only its thread writes to the buffer of a stream.
Own(c, s) == s = "stdout" \/ ~overflow[c]

\* As long as a thread reads, what it kept, has, and has yet to read is what the
\* program prints; what it kept is always the beginning of it.
Flows(c, s) ==
    /\ reader[c][s].at = "read" => reader[c][s].block = <<>>
    /\ Own(c, s) =>
          /\ reader[c][s].at \in {"read", "keep", "extend"} \/ At(c, "idle") =>
                script[c][s] = kept[c][s] \o (reader[c][s].block \o (pipe[c][s] \o solver[c].left[s]))
          /\ \E rest \in Seq(Pieces) : script[c][s] = kept[c][s] \o rest

\* The caller may have added its own words.
Late == {"judge", "publish", "append", "returned", "dead"}

Bound(c, s) == IF s = "stderr" /\ caller[c].pc \in Late THEN Limit + Len(Diagnostic) ELSE Limit

\* What is in a buffer, what a thread will add, and what it is to find.
Counts(c, s) ==
    /\ Len(kept[c][s]) <= Bound(c, s)
    /\ reader[c][s].at = "extend" =>
          /\ reader[c][s].room <= Bound(c, s) - Len(kept[c][s])
          /\ Own(c, s) => reader[c][s].room = Limit - Len(kept[c][s])
    /\ reader[c][s].at = "over" /\ ~overflow[c] => Printed(c, s) > Limit
    /\ reader[c][s].at = "done" /\ s \in caller[c].open /\ ~overflow[c] /\ caller[c].pc \notin Ended
       => ~Running(c) /\ Len(kept[c][s]) = Printed(c, s)

\* A call is over the limit for a reason, and says so only then.
Overflown(c) ==
    /\ overflow[c] => \E s \in Streams : Printed(c, s) > Limit
    /\ At(c, "note") => overflow[c]

\* A model that is written, or is to be, comes from a run that was read whole.
Good(c) == caller[c].rc = "zero" /\ caller[c].seen["stdout"] = script[c]["stdout"]

HasModel(c) == \E i \in DOMAIN caller[c].todo : caller[c].todo[i] = "model"

Early == {"idle", "wait", "kill", "reap", "join", "close", "tally", "note", "judge"}

Judged(c) ==
    /\ caller[c].pc \in Early => ~Answered(c)
    /\ caller[c].pc \in {"publish", "append"} /\ HasModel(c) => Good(c)
    /\ Answered(c) => Good(c)

Published(c) == At(c, "append") => [call |-> c, whole |-> TRUE] \in objects

Inv ==
    /\ Typed
    /\ \A c \in Calls : /\ Unstarted(c) /\ Settled(c) /\ Due(c) /\ Judged(c) /\ Published(c) /\ Overflown(c)
                        /\ \A s \in Streams : Flows(c, s) /\ Counts(c, s)
    /\ RecordedIsPublished

\* A graph with a line more.
LEMMA LineMore ==
    ASSUME NEW T, NEW g \in Seq(T), NEW e \in T
    PROVE  Range(Append(g, e)) = Range(g) \cup {e}
<1>1. /\ Len(Append(g, e)) = Len(g) + 1 /\ Len(g) \in Nat
      /\ DOMAIN g = 1..Len(g) /\ DOMAIN Append(g, e) = 1..Len(g) + 1
      /\ \A i \in 1..Len(g) : Append(g, e)[i] = g[i]
      /\ Append(g, e)[Len(g) + 1] = e
  BY AppendProperties, LenProperties
<1> QED BY <1>1 DEF Range

\* What a call does to the graph and to the published executions.
LEMMA Writes ==
    ASSUME Inv, NEW c \in Calls, Steps(c)
    PROVE  /\ objects \subseteq objects'
           /\ \/ graph' = graph
              \/ /\ Record(c)
                 /\ Range(graph') = Range(graph) \cup {[call |-> c, ev |-> Head(caller[c].todo)]}
<1>1. CASE Record(c)
  <2>1. caller[c].todo \in Seq(Events) /\ caller[c].todo # <<>>
    BY <1>1 DEF Inv, Typed, Callers, Due, Record, At
  <2>2. [call |-> c, ev |-> Head(caller[c].todo)] \in [call : Calls, ev : Events]
    BY <2>1, HeadTailProperties
  <2> DEFINE T == [call : Calls, ev : Events]
             e == [call |-> c, ev |-> Head(caller[c].todo)]
  <2>3. graph \in Seq(T) /\ e \in T /\ graph' = Append(graph, e) /\ objects' = objects
    BY <1>1, <2>2 DEF Record, Inv, Typed
  <2>4. Range(graph') = Range(graph) \cup {e}
    <3> HIDE DEF T, e
    <3> QED BY <2>3, LineMore
  <2> QED BY <1>1, <2>3, <2>4
<1>2. CASE ~Record(c)
  <2>1. CASE External(c)
    BY <2>1 DEF External, TakeProgram, HeirEnds, Emit, Fork, Exit
  <2>2. CASE Threads(c)
    BY <2>2 DEF Threads, FeedFails, Read, Measure, Keep, Overflow
  <2>3. CASE Launch(c) \/ Crash(c)
    BY <2>3 DEF Launch, Crash
  <2>4. CASE Caller(c)
    BY <1>2, <2>4 DEF Caller, Waited, TimeOut, Kill, KillAgain, Reap, Join, Close, Tally, Note, Judge, WriteObject,
                      Link, NotAppended
  <2> QED BY <2>1, <2>2, <2>3, <2>4 DEF Steps
<1> QED BY <1>1, <1>2

\* A step of one call leaves the others alone.
LEMMA OthersStay ==
    ASSUME Inv, NEW c \in Calls, NEW d \in Calls, d # c, Steps(d)
    PROVE  /\ UNCHANGED <<solver[c], script[c], pipe[c], reader[c], kept[c], overflow[c],
                      caller[c]>>
           /\ Answered(c)' <=> Answered(c)
<1>1. CASE External(d)
  BY <1>1 DEF External, TakeProgram, HeirEnds, Emit, Fork, Exit, Inv, Typed, Answered
<1>2. CASE Threads(d)
  BY <1>2 DEF Threads, FeedFails, Read, Measure, Keep, Overflow, Killed, KillsGroup,
              Inv, Typed, Answered
<1>3. CASE Launch(d) \/ Crash(d)
  BY <1>3 DEF Launch, Crash, Goes, Inv, Typed, Answered
<1>4. CASE Record(d)
  <2>1. UNCHANGED <<solver[c], script[c], pipe[c], reader[c], kept[c], overflow[c],
                      caller[c]>>
    BY <1>4 DEF Record, Inv, Typed
  <2>2. \/ graph' = graph
        \/ Range(graph') = Range(graph) \cup {[call |-> d, ev |-> Head(caller[d].todo)]}
    BY Writes
  <2>3. [call |-> c, ev |-> "model"] # [call |-> d, ev |-> Head(caller[d].todo)]
    OBVIOUS
  <2> QED BY <2>1, <2>2, <2>3 DEF Answered
<1>5. CASE Caller(d) /\ ~Record(d)
  BY <1>5 DEF Caller, Waited, TimeOut, Kill, KillAgain, Killed, KillsGroup, Reap, Join, Close, Tally, Note, Judge, WriteObject,
              Link, NotAppended, Goes, Finds, Inv, Typed, Answered
<1> QED BY <1>1, <1>2, <1>3, <1>4, <1>5 DEF Steps

(***************************************************************************)
(* What a step does to the process and to the caller                       *)
(***************************************************************************)
Stays(c) == caller'[c].seen = caller[c].seen /\ caller'[c].todo = caller[c].todo

LEMMA SolverMoves ==
    ASSUME Inv, NEW c \in Calls, Steps(c)
    PROVE  \/ solver'[c].state = solver[c].state /\ solver'[c].rc = solver[c].rc
           \/ Launch(c) /\ solver'[c].state = "running" /\ solver'[c].rc = solver[c].rc
           \/ Running(c) /\ solver'[c].state = "ended"
<1>0. solver \in [Calls -> Processes] /\ solver[c] \in Processes
  BY DEF Inv, Typed
<1>1. ASSUME solver' = Killed(c) \/ solver' = solver
      PROVE  \/ solver'[c].state = solver[c].state /\ solver'[c].rc = solver[c].rc
             \/ Running(c) /\ solver'[c].state = "ended"
  BY <1>0, <1>1 DEF Killed, Processes
<1>2. CASE External(c)
  <2>1. CASE TakeProgram(c)
    BY <1>0, <2>1 DEF TakeProgram, Processes
  <2>2. CASE HeirEnds(c)
    BY <1>0, <2>2 DEF HeirEnds, Processes
  <2>3. ASSUME NEW s \in Streams, Emit(c, s)
        PROVE  solver'[c].state = solver[c].state /\ solver'[c].rc = solver[c].rc
    BY <1>0, <2>3 DEF Emit, Processes
  <2>4. ASSUME NEW where, Fork(c, where)
        PROVE  solver'[c].state = solver[c].state /\ solver'[c].rc = solver[c].rc
    BY <1>0, <2>4 DEF Fork, Processes
  <2>5. ASSUME NEW rc, Exit(c, rc) PROVE Running(c) /\ solver'[c].state = "ended"
    BY <1>0, <2>5 DEF Exit, Processes
  <2> QED BY <1>2, <2>1, <2>2, <2>3, <2>4, <2>5 DEF External
<1>3. CASE Threads(c)
  <2>1. solver' = Killed(c) \/ solver' = solver
    BY <1>3 DEF Threads, FeedFails, Read, Measure, Keep, Overflow, KillsGroup
  <2> QED BY <1>1, <2>1
<1>4. CASE Launch(c)
  BY <1>0, <1>4 DEF Launch, Processes
<1>5. CASE Crash(c)
  BY <1>5 DEF Crash
<1>6. CASE KillAgain(c)
  BY <1>0, <1>6 DEF KillAgain, Processes
<1>7. CASE Caller(c) /\ ~KillAgain(c)
  <2>1. solver' = Killed(c) \/ solver' = solver
    BY <1>7 DEF Caller, Waited, TimeOut, Kill, KillsGroup, Reap, Join, Close, Tally, Note, Judge,
                WriteObject, Link, Record, NotAppended
  <2> QED BY <1>1, <2>1
<1> QED BY <1>2, <1>3, <1>4, <1>5, <1>6, <1>7 DEF Steps

LEMMA CallerMoves ==
    ASSUME Inv, NEW c \in Calls, Steps(c)
    PROVE  \/ caller'[c].pc = caller[c].pc /\ caller'[c].rc = caller[c].rc /\ Stays(c)
           \/ /\ caller[c].pc \in Early /\ caller'[c].pc \in Early \ {"idle"}
              /\ caller'[c].rc \in {caller[c].rc, "timeout", "limit"} /\ Stays(c)
           \/ /\ At(c, "wait") /\ ~Running(c) /\ caller'[c].pc = "join"
              /\ caller'[c].rc = solver[c].rc /\ Stays(c)
           \/ /\ ~At(c, "idle") /\ caller'[c].pc \in {"returned", "dead"}
              /\ caller'[c].rc = caller[c].rc /\ Stays(c)
           \/ /\ Link(c) /\ caller'[c].pc = "append" /\ caller'[c].rc = caller[c].rc /\ Stays(c)
           \/ /\ Judge(c) /\ caller'[c].rc = caller[c].rc /\ caller'[c].seen = kept[c]
              /\ caller'[c].todo = EventsOf(Judgement(caller[c].rc, kept[c]))
              /\ caller'[c].pc = IF caller'[c].todo = <<>> THEN "returned" ELSE "publish"
           \/ /\ Record(c) /\ caller'[c].rc = caller[c].rc /\ caller'[c].seen = caller[c].seen
              /\ caller'[c].todo = Tail(caller[c].todo)
              /\ caller'[c].pc = IF Len(caller[c].todo) = 1 THEN "returned" ELSE "append"
<1>0. caller \in [Calls -> Callers] /\ caller[c] \in Callers
  BY DEF Inv, Typed
<1>1. CASE External(c) \/ Threads(c)
  <2>1. caller' = caller
    BY <1>1 DEF External, TakeProgram, HeirEnds, Emit, Fork, Exit, Threads, FeedFails, Read, Measure, Keep, Overflow
  <2> QED BY <2>1 DEF Stays
<1>2. ASSUME NEW pc, Goes(c, pc)
      PROVE  caller'[c].pc = pc /\ caller'[c].rc = caller[c].rc /\ Stays(c)
  BY <1>0, <1>2 DEF Goes, Stays, Callers
<1>3. ASSUME NEW pc, NEW rc, Finds(c, pc, rc)
      PROVE  caller'[c].pc = pc /\ caller'[c].rc = rc /\ Stays(c)
  BY <1>0, <1>3 DEF Finds, Stays, Callers
<1>4. CASE Launch(c)
  BY <1>0, <1>4 DEF Launch, Stays, Callers, Early, At
<1>5. CASE Crash(c)
  BY <1>2, <1>5 DEF Crash, Ended, At
<1>6. CASE Waited(c)
  BY <1>3, <1>6 DEF Waited
<1>7. CASE TimeOut(c)
  BY <1>3, <1>7 DEF TimeOut, Early, At
<1>8. CASE Kill(c) \/ Reap(c) \/ Join(c)
  BY <1>2, <1>8 DEF Kill, Reap, Join, Early, At
<1>9. ASSUME NEW s \in Streams \cup {"stdin"}, Close(c, s)
      PROVE  \/ caller'[c].pc = caller[c].pc /\ caller'[c].rc = caller[c].rc /\ Stays(c)
             \/ /\ caller[c].pc \in Early /\ caller'[c].pc \in Early \ {"idle"}
                /\ caller'[c].rc \in {caller[c].rc, "timeout", "limit"} /\ Stays(c)
  BY <1>0, <1>9 DEF Close, Stays, Callers, Early, At
<1>10. CASE Tally(c)
  <2>1. CASE overflow[c]
    <3>1. /\ caller'[c].pc = "note" /\ caller'[c].rc = "limit" /\ Stays(c)
      BY <1>0, <1>10, <2>1 DEF Tally, Stays, Callers
    <3> QED BY <1>10, <3>1 DEF Tally, Early, At
  <2>2. CASE ~overflow[c]
    BY <1>2, <1>10, <2>2 DEF Tally, Early, At
  <2> QED BY <2>1, <2>2
<1>11. CASE Judge(c)
  <2> DEFINE todo == EventsOf(Judgement(caller[c].rc, kept[c]))
  <2>1. caller' = [caller EXCEPT ![c].seen = kept[c], ![c].todo = todo,
                                 ![c].pc = IF todo = <<>> THEN "returned" ELSE "publish"]
    BY <1>11 DEF Judge
  <2> HIDE DEF todo
  <2>2. /\ caller'[c].rc = caller[c].rc /\ caller'[c].seen = kept[c] /\ caller'[c].todo = todo
        /\ caller'[c].pc = IF todo = <<>> THEN "returned" ELSE "publish"
    BY <1>0, <2>1 DEF Callers
  <2> QED BY <1>11, <2>2 DEF todo
<1>12. CASE WriteObject(c)
  BY <1>0, <1>12 DEF WriteObject, Stays, Callers
<1>13. CASE Link(c)
  BY <1>2, <1>13 DEF Link
<1>14. CASE Record(c)
  <2>1. /\ caller'[c].rc = caller[c].rc /\ caller'[c].seen = caller[c].seen
        /\ caller'[c].todo = Tail(caller[c].todo)
        /\ caller'[c].pc = IF Len(caller[c].todo) = 1 THEN "returned" ELSE "append"
    BY <1>0, <1>14 DEF Record, At, Callers
  <2> QED BY <1>14, <2>1
<1>15. CASE NotAppended(c)
  BY <1>2, <1>15 DEF NotAppended, At
<1>16. CASE KillAgain(c)
  BY <1>16 DEF KillAgain, Stays
<1>17. CASE Note(c)
  BY <1>2, <1>17 DEF Note, Early, At
<1> QED BY <1>1, <1>4, <1>5, <1>6, <1>7, <1>8, <1>9, <1>10, <1>11, <1>12, <1>13, <1>14, <1>15,
           <1>16, <1>17 DEF Steps, Caller

(***************************************************************************)
(* The invariant is kept for the call that takes a step                    *)
(***************************************************************************)
LEMMA SettledStep ==
    ASSUME Inv, NEW c \in Calls, Steps(c)
    PROVE  Settled(c)'
<1>1. /\ solver[c].rc = "zero" => solver[c].state = "ended"
      /\ caller[c].rc = "zero" => solver[c].rc = "zero"
      /\ At(c, "idle") => solver[c].rc = "none"
      /\ Running(c) <=> solver[c].state = "running"
      /\ Launch(c) => At(c, "idle")
  BY DEF Inv, Settled, Unstarted, Running, Launch
<1>2. solver'[c].rc = "zero" => solver'[c].state = "ended"
  BY <1>1, SolverMoves
<1>3. solver[c].rc = "zero" => solver'[c].rc = "zero"
  BY <1>1, SolverMoves
<1>4. \/ caller'[c].rc \in {caller[c].rc, "timeout", "limit"}
      \/ caller'[c].rc = solver[c].rc
  BY CallerMoves
<1>5. caller'[c].rc = "zero" => solver'[c].rc = "zero"
  BY <1>1, <1>3, <1>4
<1> QED BY <1>2, <1>5 DEF Settled

LEMMA UnstartedStep ==
    ASSUME Inv, NEW c \in Calls, Steps(c), At(c, "idle")'
    PROVE  At(c, "idle") /\ Unstarted(c)'
<1>1. caller'[c].pc = "idle" /\ caller \in [Calls -> Callers]
  BY DEF At, Inv, Typed
<1>2. ~Launch(c)
  <2> SUFFICES ASSUME Launch(c) PROVE FALSE
    OBVIOUS
  <2> QED BY <1>1 DEF Launch, Callers
<1>3. caller[c].pc = "idle"
  BY <1>1, CallerMoves DEF At
<1>4. /\ solver[c].state = "none" /\ solver[c].rc = "none"
      /\ \A s \in Streams : reader[c][s] = Thread("done")
  BY <1>3 DEF Inv, Unstarted, At
<1>5. ~Caller(c) /\ ~Crash(c)
  BY <1>3 DEF Caller, Crash, Waited, TimeOut, Kill, KillAgain, Reap, Join, Close, Tally, Note, Judge, WriteObject,
              Link, Record, NotAppended, At, Ended
<1>6. solver'[c].state = "none" /\ solver'[c].rc = "none"
  BY <1>2, <1>4, SolverMoves DEF Running
<1>7. reader' = reader
  <2>1. CASE External(c)
    BY <2>1 DEF External, TakeProgram, HeirEnds, Emit, Fork, Exit
  <2>2. CASE Threads(c)
    <3>1. \A s \in Streams : reader[c][s].at = "done"
      BY <1>4 DEF Thread
    <3> QED BY <2>2, <3>1 DEF Threads, FeedFails, Read, Measure, Keep, Overflow
  <2> QED BY <1>2, <1>5, <2>1, <2>2 DEF Steps
<1> QED BY <1>3, <1>4, <1>6, <1>7 DEF Unstarted, At

LEMMA PublishedStep ==
    ASSUME Inv, NEW c \in Calls, Steps(c)
    PROVE  Published(c)'
<1>1. Published(c) /\ objects \subseteq objects'
  BY Writes DEF Inv
<1>2. CASE Link(c)
  <2>1. [call |-> c, whole |-> TRUE] \in objects'
    BY <1>2 DEF Link
  <2> QED BY <2>1 DEF Published
<1>3. CASE ~Link(c)
  <2>1. caller'[c].pc = "append" => caller[c].pc = "append"
    BY <1>3, CallerMoves DEF Early, Record, At
  <2> QED BY <1>1, <2>1 DEF Published, At
<1> QED BY <1>2, <1>3

LEMMA DueStep ==
    ASSUME Inv, NEW c \in Calls, Steps(c)
    PROVE  Due(c)'
<1>1. caller[c].todo \in Seq(Events) /\ Due(c)
  BY DEF Inv, Typed, Callers
<1>2. CASE Record(c) /\ caller'[c].todo = Tail(caller[c].todo)
           /\ caller'[c].pc = IF Len(caller[c].todo) = 1 THEN "returned" ELSE "append"
  <2>1. caller[c].todo # <<>>
    BY <1>1, <1>2 DEF Due, Record, At
  <2>2. Len(Tail(caller[c].todo)) = Len(caller[c].todo) - 1
    BY <1>1, <2>1, HeadTailProperties
  <2>3. Tail(caller[c].todo) = <<>> => Len(caller[c].todo) = 1
    <3>1. Len(caller[c].todo) \in Nat
      BY <1>1, LenProperties
    <3> SUFFICES ASSUME Tail(caller[c].todo) = <<>> PROVE Len(caller[c].todo) = 1
      OBVIOUS
    <3>2. Len(Tail(caller[c].todo)) = 0
      BY EmptySeq
    <3> QED BY <2>2, <3>1, <3>2
  <2> QED BY <1>2, <2>3 DEF Due
<1>3. CASE caller'[c].pc = IF caller'[c].todo = <<>> THEN "returned" ELSE "publish"
  BY <1>3 DEF Due
<1>4. CASE caller'[c].todo = caller[c].todo /\ (Link(c) \/ caller'[c].pc = caller[c].pc)
  BY <1>1, <1>4 DEF Due, Link, At
<1>5. CASE caller'[c].pc \in Early \cup {"returned", "dead"}
  BY <1>5 DEF Due, Early
<1> QED
  <2>1. "join" \in Early
    BY DEF Early
  <2> QED BY <1>2, <1>3, <1>4, <1>5, <2>1, CallerMoves DEF Stays

LEMMA RecordedStep ==
    ASSUME Inv, NEW c \in Calls, Steps(c)
    PROVE  RecordedIsPublished'
<1> DEFINE In(g, o) == \A e \in Range(g) : [call |-> e.call, whole |-> TRUE] \in o
<1>1. RecordedIsPublished => In(graph, objects)
  BY DEF RecordedIsPublished, Range
<1>2. In(graph', objects') => RecordedIsPublished'
  BY DEF RecordedIsPublished, Range
<1>3. RecordedIsPublished /\ Published(c) /\ objects \subseteq objects'
  BY Writes DEF Inv
<1>4. CASE graph' = graph
  BY <1>1, <1>2, <1>3, <1>4
<1>5. CASE /\ Record(c)
           /\ Range(graph') = Range(graph) \cup {[call |-> c, ev |-> Head(caller[c].todo)]}
  <2> DEFINE e == [call |-> c, ev |-> Head(caller[c].todo)]
  <2>1. [call |-> c, whole |-> TRUE] \in objects /\ e.call = c
    BY <1>3, <1>5 DEF Record, Published
  <2>2. Range(graph') = Range(graph) \cup {e}
    BY <1>5
  <2> HIDE DEF e
  <2>3. In(graph', objects')
    BY <1>1, <1>3, <2>1, <2>2
  <2> QED BY <1>2, <2>3
<1> QED BY <1>4, <1>5, Writes

LEMMA ScriptStays ==
    ASSUME NEW c \in Calls, Steps(c)
    PROVE  script' = script
<1>1. CASE External(c) \/ Threads(c)
  BY <1>1 DEF External, TakeProgram, HeirEnds, Emit, Fork, Exit, Threads, FeedFails, Read, Measure, Keep, Overflow
<1>2. CASE Launch(c) \/ Crash(c)
  BY <1>2 DEF Launch, Crash
<1>3. CASE Caller(c)
  BY <1>3 DEF Caller, Waited, TimeOut, Kill, KillAgain, Reap, Join, Close, Tally, Note, Judge, WriteObject,
              Link, Record, NotAppended
<1> QED BY <1>1, <1>2, <1>3 DEF Steps

\* Only what ends with the code 0 and is read whole becomes a model.
LEMMA JudgedWhole ==
    ASSUME Inv, NEW c \in Calls, NEW i \in DOMAIN EventsOf(Judgement(caller[c].rc, kept[c])),
           EventsOf(Judgement(caller[c].rc, kept[c]))[i] = "model"
    PROVE  caller[c].rc = "zero" /\ kept[c]["stdout"] = script[c]["stdout"]
<1> DEFINE j == Judgement(caller[c].rc, kept[c])
<1>1. j = "answered"
  <2> HIDE DEF j
  <2> SUFFICES ASSUME j # "answered" PROVE FALSE
    OBVIOUS
  <2>1. EventsOf(j) = <<"note">> \/ EventsOf(j) = <<>>
    BY DEF EventsOf
  <2>2. i \in DOMAIN EventsOf(j) /\ EventsOf(j)[i] = "model"
    BY DEF j
  <2> QED BY <2>1, <2>2
<1>2. caller[c].rc = "zero" /\ Complete(kept[c]["stdout"])
  BY <1>1 DEF Judgement
<1>3. PICK rest \in Seq(Pieces) : script[c]["stdout"] = kept[c]["stdout"] \o rest
  BY DEF Inv, Flows, Own, Streams
<1>4. kept[c]["stdout"] \in Seq(Pieces) /\ script[c] \in Scripts
  BY DEF Inv, Typed, Streams
<1>5. EndsOnce(script[c]["stdout"])
  BY <1>4, ScriptsType
<1>6. kept[c]["stdout"] = kept[c]["stdout"] \o rest
  BY <1>2, <1>3, <1>4, <1>5, CompleteIsAll
<1> QED BY <1>2, <1>3, <1>6

LEMMA JudgedStep ==
    ASSUME Inv, NEW c \in Calls, Steps(c)
    PROVE  Judged(c)'
<1>0. /\ Judged(c) /\ Due(c) /\ caller[c].todo \in Seq(Events) /\ script' = script
  BY ScriptStays DEF Inv, Typed, Callers
<1>1. ASSUME Good(c), caller[c].pc \notin Early PROVE Good(c)'
  <2>1. caller'[c].rc = caller[c].rc /\ caller'[c].seen = caller[c].seen
    BY <1>1, CallerMoves DEF Early, Judge, At, Stays
  <2> QED BY <1>0, <1>1, <2>1 DEF Good
<1>2. Answered(c)' => Answered(c) \/ (Record(c) /\ Head(caller[c].todo) = "model")
  <2>1. CASE graph' = graph
    BY <2>1 DEF Answered
  <2>2. CASE /\ Record(c)
             /\ Range(graph') = Range(graph) \cup {[call |-> c, ev |-> Head(caller[c].todo)]}
    BY <2>2 DEF Answered
  <2> QED BY <2>1, <2>2, Writes
<1>3. ASSUME Record(c)
      PROVE  /\ caller[c].pc = "append" /\ caller[c].pc \notin Early
             /\ Head(caller[c].todo) = "model" => HasModel(c)
             /\ caller'[c].todo = Tail(caller[c].todo) /\ HasModel(c)' => HasModel(c)
  <2>1. caller[c].pc = "append" /\ caller[c].pc \notin Early
    BY <1>3 DEF Record, At, Early
  <2>2. caller[c].todo # <<>>
    BY <1>0, <2>1 DEF Due
  <2> DEFINE t == caller[c].todo
  <2>3. t \in Seq(Events) /\ Len(t) \in Nat /\ DOMAIN t = 1..Len(t) /\ Len(t) # 0
    BY <1>0, <2>2, LenProperties, EmptySeq
  <2>4. /\ Head(t) = t[1] /\ DOMAIN Tail(t) = 1..Len(t) - 1
        /\ \A i \in 1..Len(t) - 1 : Tail(t)[i] = t[i + 1]
    BY <2>2, <2>3, HeadTailProperties, LenProperties
  <2> HIDE DEF t
  <2>5. 1 \in DOMAIN t /\ \A i \in DOMAIN Tail(t) : i + 1 \in DOMAIN t /\ Tail(t)[i] = t[i + 1]
    BY <2>3, <2>4
  <2> QED BY <2>1, <2>4, <2>5 DEF t, HasModel
<1>4. caller'[c].pc \in Early => ~Answered(c)'
  <2> SUFFICES ASSUME caller'[c].pc \in Early PROVE ~Answered(c)'
    OBVIOUS
  <2>1. caller[c].pc \in Early
    <3>1. "returned" \notin Early /\ "dead" \notin Early /\ "append" \notin Early
          /\ "publish" \notin Early /\ "wait" \in Early
      BY DEF Early
    <3> QED BY <3>1, CallerMoves DEF At
  <2> QED BY <1>0, <1>2, <1>3, <2>1 DEF Judged
<1>5. caller'[c].pc \in {"publish", "append"} /\ HasModel(c)' => Good(c)'
  <2> SUFFICES ASSUME caller'[c].pc \in {"publish", "append"}, HasModel(c)' PROVE Good(c)'
    OBVIOUS
  <2>1. CASE /\ caller'[c].rc = caller[c].rc /\ caller'[c].seen = kept[c]
             /\ caller'[c].todo = EventsOf(Judgement(caller[c].rc, kept[c]))
    <3>1. caller[c].rc = "zero" /\ kept[c]["stdout"] = script[c]["stdout"]
      BY <2>1, JudgedWhole DEF HasModel
    <3> QED BY <1>0, <2>1, <3>1 DEF Good
  <2>2. CASE Record(c) /\ caller'[c].todo = Tail(caller[c].todo)
    BY <1>0, <1>1, <1>3, <2>2 DEF Judged
  <2>3. CASE caller'[c].todo = caller[c].todo /\ caller[c].pc \in {"publish", "append"}
    <3>1. HasModel(c) /\ caller[c].pc \notin Early
      BY <2>3 DEF HasModel, Early
    <3> QED BY <1>0, <1>1, <2>3, <3>1 DEF Judged
  <2> QED BY <2>1, <2>2, <2>3, CallerMoves DEF Early, Link, At, Stays
<1>6. Answered(c)' => Good(c)'
  <2>1. CASE Answered(c)
    BY <1>0, <1>1, <2>1 DEF Judged
  <2>2. CASE Record(c) /\ Head(caller[c].todo) = "model"
    BY <1>0, <1>1, <1>3, <2>2 DEF Judged
  <2> QED BY <1>2, <2>1, <2>2
<1> QED BY <1>4, <1>5, <1>6 DEF Judged

LEMMA Joined ==
    ASSUME NEW r \in Seq(Pieces), NEW s \in Seq(Pieces), NEW t \in Seq(Pieces)
    PROVE  (r \o s) \o t = r \o (s \o t)
BY ConcatAssociative

\* A thread leaves the other stream alone.
LEMMA OtherStream ==
    ASSUME Inv, NEW c \in Calls, NEW s \in Streams, NEW t \in Streams, t # s,
           Read(c, t) \/ Measure(c, t) \/ Keep(c, t) \/ Overflow(c, t)
    PROVE  kept'[c][s] = kept[c][s] /\ reader'[c][s] = reader[c][s] /\ pipe'[c][s] = pipe[c][s]
<1>0. /\ reader \in [Calls -> [Streams -> Readers]] /\ kept \in [Calls -> [Streams -> Seq(Pieces)]]
      /\ pipe \in [Calls -> [Streams -> Seq(Pieces)]]
  BY DEF Inv, Typed
<1>1. CASE Read(c, t)
  BY <1>0, <1>1 DEF Read
<1>2. CASE Measure(c, t)
  <2> DEFINE r == [reader[c][t] EXCEPT !.at = "extend", !.room = Room(c, t)]
  <2>1. reader' = [reader EXCEPT ![c][t] = r] /\ kept' = kept /\ pipe' = pipe
    BY <1>2 DEF Measure
  <2> HIDE DEF r
  <2> QED BY <1>0, <2>1
<1>3. CASE Keep(c, t)
  <2> DEFINE part == Part(reader[c][t].block, reader[c][t].room)
             at   == IF Over(reader[c][t].block, reader[c][t].room) THEN "over"
                     ELSE IF t \in caller[c].open THEN "read" ELSE "done"
  <2>1. /\ reader' = [reader EXCEPT ![c][t] = Thread(at)] /\ pipe' = pipe
        /\ kept' = [kept EXCEPT ![c][t] = @ \o part]
    BY <1>3 DEF Keep
  <2> HIDE DEF part, at
  <2> QED BY <1>0, <2>1
<1>4. CASE Overflow(c, t)
  <2> DEFINE r == [reader[c][t] EXCEPT !.at = "done"]
  <2>1. reader' = [reader EXCEPT ![c][t] = r] /\ kept' = kept /\ pipe' = pipe
    BY <1>4 DEF Overflow
  <2> HIDE DEF r
  <2> QED BY <1>0, <2>1
<1> QED BY <1>1, <1>2, <1>3, <1>4

\* The threads and pipes of a call, when a step of it touches none of a stream's.
LEMMA FlowsStill ==
    ASSUME NEW c \in Calls, NEW s \in Streams, Flows(c, s),
           caller'[c].pc = "idle" => caller[c].pc = "idle", overflow[c] => overflow'[c],
           script' = script, kept'[c][s] = kept[c][s], pipe'[c][s] = pipe[c][s],
           solver'[c].left[s] = solver[c].left[s], reader'[c][s] = reader[c][s]
    PROVE  Flows(c, s)'
BY DEF Flows, Own, At

\* And when its thread stops.
LEMMA FlowsNoMore ==
    ASSUME NEW c \in Calls, NEW s \in Streams, Flows(c, s), caller'[c].pc # "idle",
           overflow[c] => overflow'[c], script' = script, kept'[c][s] = kept[c][s], reader'[c][s].at \in {"over", "done"}
    PROVE  Flows(c, s)'
BY DEF Flows, Own, At

LEMMA FlowsEmit ==
    ASSUME Inv, NEW c \in Calls, NEW s \in Streams, Emit(c, s)
    PROVE  Flows(c, s)'
<1> DEFINE pip  == pipe[c][s]
           left == solver[c].left[s]
<1>1. pip \in Seq(Pieces) /\ left \in Seq(Pieces) /\ left # <<>> /\ Flows(c, s)
  BY DEF Inv, Typed, Processes, Emit
<1>2. Append(pip, Head(left)) \o Tail(left) = pip \o left
  BY <1>1, Moved
<1>3. solver \in [Calls -> Processes] /\ pipe \in [Calls -> [Streams -> Seq(Pieces)]]
  BY DEF Inv, Typed
<1>4. /\ pipe'[c][s] = Append(pip, Head(left)) /\ solver'[c].left[s] = Tail(left)
      /\ UNCHANGED <<script, kept, overflow, reader, caller>>
  BY <1>3 DEF Emit, Processes
<1>5. pipe'[c][s] \o solver'[c].left[s] = pipe[c][s] \o solver[c].left[s]
  BY <1>2, <1>4
<1> HIDE DEF pip, left
<1> QED BY <1>1, <1>4, <1>5 DEF Flows, Own, At

LEMMA FlowsRead ==
    ASSUME Inv, NEW c \in Calls, NEW s \in Streams, Read(c, s)
    PROVE  Flows(c, s)'
<1> DEFINE pip  == pipe[c][s]
           left == solver[c].left[s]
           n    == IF Len(pip) >= Block THEN Block ELSE Len(pip)
<1>1. /\ pip \in Seq(Pieces) /\ left \in Seq(Pieces) /\ Flows(c, s) /\ Unstarted(c)
      /\ reader \in [Calls -> [Streams -> Readers]]
      /\ pipe \in [Calls -> [Streams -> Seq(Pieces)]]
  BY DEF Inv, Typed, Processes
<1>2. n \in 0..Len(pip)
  BY <1>1, BlockType, LenProperties
<1>3. /\ UNCHANGED <<script, kept, overflow, solver, caller>>
      /\ reader'[c][s] = IF n = 0 THEN Thread("done")
                         ELSE [at |-> "keep", block |-> SubSeq(pip, 1, n), room |-> 0]
      /\ pipe'[c][s] = SubSeq(pip, n + 1, Len(pip))
  BY <1>1 DEF Read
<1>4. reader[c][s].at = "read" /\ ~At(c, "idle")
  BY <1>1 DEF Read, Unstarted, Thread
<1>5. CASE n = 0
  <2>1. reader'[c][s].at = "done"
    BY <1>3, <1>5 DEF Thread
  <2> QED BY <1>1, <1>3, <1>4, <2>1, FlowsNoMore DEF At
<1>6. CASE n # 0
  <2> HIDE DEF pip, left, n
  <2> DEFINE some == SubSeq(pip, 1, n)
             more == SubSeq(pip, n + 1, Len(pip))
  <2>1. some \in Seq(Pieces) /\ more \in Seq(Pieces) /\ some \o more = pip
    BY <1>1, <1>2, Cut
  <2>2. some \o (more \o left) = pip \o left
    <3> HIDE DEF some, more
    <3> QED BY <1>1, <2>1, Joined
  <2>3. <<>> \o (pip \o left) = pip \o left
    <3>1. pip \o left \in Seq(Pieces)
      BY <1>1, ConcatProperties
    <3> QED BY <3>1, ConcatEmptySeq
  <2>4. /\ reader[c][s].block = <<>>
        /\ Own(c, s) => script[c][s] = kept[c][s] \o (reader[c][s].block \o (pip \o left))
    BY <1>1, <1>4 DEF Flows, pip, left
  <2>5. Own(c, s) => script[c][s] = kept[c][s] \o (some \o (more \o left))
    BY <2>2, <2>3, <2>4
  <2>6. /\ reader'[c][s].at = "keep" /\ reader'[c][s].block = some /\ pipe'[c][s] = more
        /\ solver'[c].left[s] = left
    <3>1. reader'[c][s] = [at |-> "keep", block |-> some, room |-> 0]
      BY <1>3, <1>6 DEF some
    <3>2. pipe'[c][s] = more
      BY <1>3 DEF more
    <3>3. solver'[c].left[s] = left
      BY <1>3 DEF left
    <3> HIDE DEF some, more
    <3> QED BY <3>1, <3>2, <3>3
  <2> HIDE DEF some, more
  <2> QED BY <1>1, <1>3, <2>5, <2>6 DEF Flows, Own
<1> QED BY <1>5, <1>6

LEMMA FlowsMeasure ==
    ASSUME Inv, NEW c \in Calls, NEW s \in Streams, Measure(c, s)
    PROVE  Flows(c, s)'
<1>1. Flows(c, s) /\ reader \in [Calls -> [Streams -> Readers]]
  BY DEF Inv, Typed
<1>2. /\ UNCHANGED <<solver, script, pipe, kept, overflow, caller>>
      /\ reader[c][s].at = "keep"
      /\ reader'[c][s].at = "extend" /\ reader'[c][s].block = reader[c][s].block
  BY <1>1 DEF Measure, Readers
<1> QED BY <1>1, <1>2 DEF Flows, Own, At

LEMMA FlowsKeep ==
    ASSUME Inv, NEW c \in Calls, NEW s \in Streams, Keep(c, s)
    PROVE  Flows(c, s)'
<1> DEFINE block == reader[c][s].block
           room  == reader[c][s].room
           part  == Part(block, room)
           more  == pipe[c][s] \o solver[c].left[s]
           at    == IF Over(block, room) THEN "over"
                    ELSE IF s \in caller[c].open THEN "read" ELSE "done"
<1>1. /\ kept[c][s] \in Seq(Pieces) /\ block \in Seq(Pieces) /\ room \in Int
      /\ reader \in [Calls -> [Streams -> Readers]]
      /\ kept \in [Calls -> [Streams -> Seq(Pieces)]] /\ Unstarted(c) /\ Flows(c, s)
      /\ pipe[c][s] \in Seq(Pieces) /\ solver[c].left[s] \in Seq(Pieces)
  BY DEF Inv, Typed, Processes, Readers
<1>2. more \in Seq(Pieces)
  BY <1>1, ConcatProperties
<1>3. /\ part \in Seq(Pieces) /\ \E rest \in Seq(Pieces) : part \o rest = block
      /\ ~Over(block, room) => part = block
  <2> HIDE DEF block, room
  <2> QED BY <1>1, PartIsPrefix
<1>4. PICK rest \in Seq(Pieces) : part \o rest = block
  BY <1>3
<1>5. reader[c][s].at = "extend" /\ ~At(c, "idle")
  BY <1>1 DEF Keep, Unstarted, Thread
<1>6. Own(c, s) => script[c][s] = kept[c][s] \o (block \o more)
  BY <1>1, <1>5 DEF Flows
<1>7. /\ UNCHANGED <<script, solver, pipe, overflow, caller>>
      /\ kept'[c][s] = kept[c][s] \o part /\ reader'[c][s] = Thread(at)
  BY <1>1 DEF Keep
<1>8. reader'[c][s].block = <<>> /\ reader'[c][s].at = at /\ (Own(c, s)' <=> Own(c, s))
  BY <1>7 DEF Thread, Own
<1> HIDE DEF part, block, room, more
<1>9. Own(c, s) => script[c][s] = (kept[c][s] \o part) \o (rest \o more)
  <2>1. block \o more = part \o (rest \o more)
    <3>1. part \in Seq(Pieces)
      BY <1>3
    <3>2. (part \o rest) \o more = part \o (rest \o more)
      BY <1>2, <3>1, Joined
    <3> QED BY <1>4, <3>2
  <2>2. rest \o more \in Seq(Pieces)
    BY <1>2, ConcatProperties
  <2>3. (kept[c][s] \o part) \o (rest \o more) = kept[c][s] \o (part \o (rest \o more))
    <3>1. kept[c][s] \in Seq(Pieces) /\ part \in Seq(Pieces)
      BY <1>1, <1>3
    <3> QED BY <2>2, <3>1, Joined
  <2> QED BY <1>6, <2>1, <2>3
<1>10. Own(c, s) => \E left \in Seq(Pieces) : script'[c][s] = kept'[c][s] \o left
  <2>1. rest \o more \in Seq(Pieces)
    BY <1>2, ConcatProperties
  <2> QED BY <1>7, <1>9, <2>1
<1>11. CASE Over(block, room)
  <2>1. reader'[c][s].at = "over"
    BY <1>8, <1>11
  <2> QED BY <1>5, <1>7, <1>8, <1>10, <2>1 DEF Flows, At
<1>12. CASE ~Over(block, room)
  <2>1. part = block
    BY <1>3, <1>12
  <2>2. Own(c, s) => script[c][s] = (kept[c][s] \o part) \o more
    <3>1. kept[c][s] \in Seq(Pieces) /\ part \in Seq(Pieces)
      BY <1>1, <1>3
    <3>2. (kept[c][s] \o part) \o more = kept[c][s] \o (part \o more)
      BY <1>2, <3>1, Joined
    <3>3. Own(c, s) => script[c][s] = kept[c][s] \o (part \o more)
      BY <1>6, <2>1
    <3> QED BY <3>2, <3>3
  <2>3. <<>> \o more = more
    BY <1>2, ConcatEmptySeq
  <2>4. Own(c, s) => script'[c][s] =
           kept'[c][s] \o (reader'[c][s].block \o (pipe'[c][s] \o solver'[c].left[s]))
    BY <1>7, <1>8, <2>2, <2>3 DEF more
  <2> HIDE DEF at
  <2> QED BY <1>5, <1>7, <1>8, <1>10, <2>4 DEF Flows, At
<1> QED BY <1>11, <1>12

LEMMA FlowsLaunch ==
    ASSUME Inv, NEW c \in Calls, NEW s \in Streams, Launch(c)
    PROVE  Flows(c, s)'
<1>1. /\ At(c, "idle") /\ reader[c][s].block = <<>> /\ Flows(c, s)
      /\ reader \in [Calls -> [Streams -> Readers]]
      /\ solver \in [Calls -> Processes]
  BY DEF Launch, Inv, Typed, Unstarted, Thread
<1>2. /\ script' = script /\ pipe' = pipe /\ kept' = kept /\ overflow' = overflow
      /\ reader'[c][s].at = "read" /\ reader'[c][s].block = <<>>
      /\ solver'[c].left[s] = solver[c].left[s]
  BY <1>1 DEF Launch, Both, Thread, Processes
<1>3. Own(c, s) => script[c][s] = kept[c][s] \o (<<>> \o (pipe[c][s] \o solver[c].left[s]))
  BY <1>1 DEF Flows
<1>4. Own(c, s) => script'[c][s] =
         kept'[c][s] \o (reader'[c][s].block \o (pipe'[c][s] \o solver'[c].left[s]))
  BY <1>2, <1>3
<1>5. Own(c, s) => \E rest \in Seq(Pieces) : script'[c][s] = kept'[c][s] \o rest
  BY <1>1, <1>2 DEF Flows
<1> QED BY <1>2, <1>4, <1>5 DEF Flows, Own

LEMMA FlowsStep ==
    ASSUME Inv, NEW c \in Calls, Steps(c), NEW s \in Streams
    PROVE  Flows(c, s)'
<1>0. /\ Flows(c, s) /\ Unstarted(c) /\ script' = script
      /\ caller'[c].pc = "idle" => caller[c].pc = "idle"
      /\ reader \in [Calls -> [Streams -> Readers]]
      /\ kept \in [Calls -> [Streams -> Seq(Pieces)]] /\ pipe \in [Calls -> [Streams -> Seq(Pieces)]]
      /\ solver \in [Calls -> Processes] /\ solver[c].left \in [Streams -> Seq(Pieces)]
      /\ overflow \in [Calls -> BOOLEAN] /\ Overflown(c)
  BY ScriptStays, UnstartedStep DEF Inv, Typed, Processes, At
<1>1. Killed(c)[c].left = solver[c].left
  BY <1>0 DEF Killed, Processes
<1>2. CASE External(c)
  <2>1. ASSUME NEW t \in Streams, Emit(c, t) PROVE Flows(c, s)'
    <3>1. CASE t = s
      BY <2>1, <3>1, FlowsEmit
    <3>2. CASE t # s
      <4>1. /\ kept' = kept /\ overflow' = overflow /\ reader' = reader /\ pipe'[c][s] = pipe[c][s]
            /\ solver'[c].left[s] = solver[c].left[s]
        BY <1>0, <2>1, <3>2 DEF Emit, Processes
      <4> QED BY <1>0, <4>1, FlowsStill
    <3> QED BY <3>1, <3>2
  <2>2. ASSUME \A t \in Streams : ~Emit(c, t) PROVE Flows(c, s)'
    <3>1. /\ kept' = kept /\ overflow' = overflow /\ reader' = reader /\ pipe' = pipe
      BY <1>2, <2>2 DEF External, TakeProgram, HeirEnds, Fork, Exit
    <3>2. solver'[c].left = solver[c].left
      BY <1>0, <1>2, <2>2 DEF External, TakeProgram, HeirEnds, Fork, Exit, Processes
    <3> QED BY <1>0, <3>1, <3>2, FlowsStill
  <2> QED BY <2>1, <2>2
<1>3. CASE Threads(c)
  <2>1. CASE FeedFails(c)
    BY <1>0, <2>1, FlowsStill DEF FeedFails
  <2>2. ASSUME NEW t \in Streams, t # s, Read(c, t) \/ Measure(c, t) \/ Keep(c, t) \/ Overflow(c, t)
        PROVE  Flows(c, s)'
    <3>1. kept'[c][s] = kept[c][s] /\ reader'[c][s] = reader[c][s] /\ pipe'[c][s] = pipe[c][s]
      BY <2>2, OtherStream
    <3>2. solver'[c].left = solver[c].left
      BY <1>1, <2>2 DEF Read, Measure, Keep, Overflow, KillsGroup
    <3>3. overflow[c] => overflow'[c]
      BY <1>0, <2>2 DEF Read, Measure, Keep, Overflow
    <3> QED BY <1>0, <3>1, <3>2, <3>3, FlowsStill
  <2>3. CASE Overflow(c, s)
    <3>1. /\ caller'[c].pc # "idle" /\ kept' = kept /\ reader'[c][s].at = "done" /\ overflow'[c]
      BY <1>0, <2>3 DEF Overflow, Unstarted, Thread, At, Readers
    <3> QED BY <1>0, <3>1, FlowsNoMore
  <2> QED BY <1>3, <2>1, <2>2, <2>3, FlowsRead, FlowsMeasure, FlowsKeep DEF Threads
<1>4. CASE Launch(c)
  BY <1>4, FlowsLaunch
<1>5. CASE Crash(c)
  <2>1. /\ caller'[c].pc # "idle" /\ kept' = kept /\ reader'[c][s].at = "done"
        /\ overflow' = overflow
    BY <1>0, <1>5 DEF Crash, Both, Thread, At, Ended
  <2> QED BY <1>0, <2>1, FlowsNoMore
<1>6. CASE Caller(c)
  <2>1. /\ reader' = reader /\ pipe' = pipe /\ overflow' = overflow
    BY <1>6 DEF Caller, Waited, TimeOut, Kill, KillAgain, Reap, Join, Close, Tally, Note, Judge,
                WriteObject, Link, Record, NotAppended
  <2>2. solver'[c].left = solver[c].left
    BY <1>0, <1>1, <1>6 DEF Caller, Waited, TimeOut, Kill, KillsGroup, KillAgain, Reap, Join, Close,
                Tally, Note, Judge, WriteObject, Link, Record, NotAppended, Processes
  <2>3. CASE kept'[c][s] = kept[c][s]
    BY <1>0, <2>1, <2>2, <2>3, FlowsStill
  <2>4. CASE Note(c) /\ s = "stderr"
    <3>1. ~Own(c, s)' /\ reader' = reader
      BY <1>0, <2>1, <2>4 DEF Own, Overflown, Note
    <3> QED BY <1>0, <3>1 DEF Flows
  <2>5. kept'[c][s] = kept[c][s] \/ (Note(c) /\ s = "stderr")
    BY <1>0, <1>6 DEF Caller, Waited, TimeOut, Kill, KillAgain, Reap, Join, Close, Tally, Note,
                Judge, WriteObject, Link, Record, NotAppended
  <2> QED BY <2>3, <2>4, <2>5
<1> QED BY <1>2, <1>3, <1>4, <1>5, <1>6 DEF Steps

(***************************************************************************)
(* What is counted                                                         *)
(***************************************************************************)

\* What does not fit is more, and what fits still does with the bound moved on.
LEMMA Sums ==
    ASSUME NEW k \in Nat, NEW b \in Nat, NEW p \in Nat, NEW l \in Nat, NEW room \in Int
    PROVE  /\ room = l - k /\ b > room => k + b + p > l
           /\ room <= l - k /\ p <= b => room <= (l + b) - (k + p)
OBVIOUS

\* What is printed is kept, held by the thread, or in the pipe.
LEMMA Whereabouts ==
    ASSUME Inv, NEW c \in Calls, NEW s \in Streams, Own(c, s),
           reader[c][s].at \in {"read", "keep", "extend"}
    PROVE  Printed(c, s) = Len(kept[c][s]) + Len(reader[c][s].block) + Len(pipe[c][s])
<1>1. script[c][s] = kept[c][s] \o (reader[c][s].block \o (pipe[c][s] \o solver[c].left[s]))
  BY DEF Inv, Flows
<1>2. /\ kept[c][s] \in Seq(Pieces) /\ reader[c][s].block \in Seq(Pieces)
      /\ pipe[c][s] \in Seq(Pieces) /\ solver[c].left[s] \in Seq(Pieces)
  BY DEF Inv, Typed, Processes, Readers
<1> DEFINE k == kept[c][s]
           b == reader[c][s].block
           p == pipe[c][s]
           l == solver[c].left[s]
<1> HIDE DEF k, b, p, l
<1>3. p \o l \in Seq(Pieces) /\ Len(p \o l) = Len(p) + Len(l)
  BY <1>2, ConcatProperties DEF p, l
<1>4. b \o (p \o l) \in Seq(Pieces) /\ Len(b \o (p \o l)) = Len(b) + Len(p \o l)
  BY <1>2, <1>3, ConcatProperties DEF b
<1>5. Len(k \o (b \o (p \o l))) = Len(k) + Len(b \o (p \o l))
  BY <1>2, <1>4, ConcatProperties DEF k
<1>6. Len(script[c][s]) = Len(k) + (Len(b) + (Len(p) + Len(l)))
  BY <1>1, <1>3, <1>4, <1>5 DEF k, b, p, l
<1>7. Len(k) \in Nat /\ Len(b) \in Nat /\ Len(p) \in Nat /\ Len(l) \in Nat
  BY <1>2, LenProperties DEF k, b, p, l
<1>8. Len(script[c][s]) - Len(l) = Len(k) + Len(b) + Len(p)
  BY <1>6, <1>7
<1> QED BY <1>8 DEF Printed, k, b, p, l

LEMMA LengthsTyped ==
    ASSUME Typed, NEW c \in Calls, NEW s \in Streams
    PROVE  /\ Len(kept[c][s]) \in Nat /\ Len(pipe[c][s]) \in Nat
           /\ Len(reader[c][s].block) \in Nat /\ reader[c][s].room \in Int
           /\ Limit \in Nat /\ Len(Diagnostic) \in Nat
           /\ Bound(c, s) \in Nat /\ Limit <= Bound(c, s) /\ Printed(c, s) \in Int
<1>1. /\ kept[c][s] \in Seq(Pieces) /\ reader[c][s].block \in Seq(Pieces)
      /\ pipe[c][s] \in Seq(Pieces) /\ solver[c].left[s] \in Seq(Pieces)
      /\ script[c] \in Scripts /\ reader[c][s].room \in Int
  BY DEF Typed, Processes, Readers
<1>2. script[c][s] \in Seq(Pieces)
  BY <1>1, ScriptsType
<1>3. Len(Diagnostic) \in Nat /\ Limit \in Nat
  BY NoteType, LimitType, LenProperties
<1>4. Bound(c, s) \in Nat /\ Limit <= Bound(c, s)
  BY <1>3 DEF Bound
<1>5. Printed(c, s) \in Int
  BY <1>1, <1>2, LenProperties DEF Printed
<1> QED BY <1>1, <1>3, <1>4, <1>5, LenProperties

\* What a solver printed stays printed, and one that has ended prints no more.
LEMMA PrintedGrows ==
    ASSUME Inv, NEW c \in Calls, Steps(c), NEW s \in Streams
    PROVE  /\ Printed(c, s)' >= Printed(c, s)
           /\ ~Running(c) => Printed(c, s)' = Printed(c, s)
<1>0. /\ script' = script /\ solver \in [Calls -> Processes] /\ solver[c] \in Processes
      /\ solver[c].left \in [Streams -> Seq(Pieces)] /\ Printed(c, s) \in Int
  BY ScriptStays, LengthsTyped DEF Inv, Typed, Processes
<1>1. Killed(c)[c].left = solver[c].left
  BY <1>0 DEF Killed, Processes
<1>2. CASE solver'[c].left = solver[c].left
  <2>1. Printed(c, s)' = Printed(c, s)
    BY <1>0, <1>2 DEF Printed
  <2> QED BY <1>0, <2>1
<1>3. ASSUME NEW t \in Streams, Emit(c, t)
      PROVE  Printed(c, s)' >= Printed(c, s) /\ Running(c)
  <2>1. Running(c) /\ solver[c].left[t] # <<>> /\ solver[c].left[t] \in Seq(Pieces)
    BY <1>0, <1>3 DEF Emit
  <2>2. Len(Tail(solver[c].left[t])) = Len(solver[c].left[t]) - 1
    BY <2>1, HeadTailProperties
  <2>3. solver'[c].left = [solver[c].left EXCEPT ![t] = Tail(@)]
    BY <1>0, <1>3 DEF Emit, Processes
  <2>4. solver'[c].left[s] = IF s = t THEN Tail(solver[c].left[t]) ELSE solver[c].left[s]
    BY <1>0, <2>3
  <2>5. Len(solver[c].left[s]) \in Nat /\ Len(solver'[c].left[s]) <= Len(solver[c].left[s])
    BY <1>0, <2>2, <2>4, LenProperties
  <2>6. Len(script[c][s]) \in Nat
    BY ScriptsType, LenProperties DEF Inv, Typed
  <2>7. Len(solver'[c].left[s]) \in Nat
    BY <1>0, <2>1, <2>4, HeadTailProperties, LenProperties
  <2> QED BY <1>0, <2>1, <2>5, <2>6, <2>7 DEF Printed
<1>4. CASE External(c) /\ \A t \in Streams : ~Emit(c, t)
  <2>1. solver'[c].left = solver[c].left
    BY <1>0, <1>4 DEF External, TakeProgram, HeirEnds, Fork, Exit, Processes
  <2> QED BY <1>2, <2>1
<1>5. CASE Threads(c)
  <2>1. solver'[c].left = solver[c].left
    BY <1>1, <1>5 DEF Threads, FeedFails, Read, Measure, Keep, Overflow, KillsGroup
  <2> QED BY <1>2, <2>1
<1>6. CASE Launch(c) \/ Crash(c)
  <2>1. solver'[c].left = solver[c].left
    BY <1>0, <1>6 DEF Launch, Crash, Processes
  <2> QED BY <1>2, <2>1
<1>7. CASE Caller(c)
  <2>1. solver'[c].left = solver[c].left
    BY <1>0, <1>1, <1>7 DEF Caller, Waited, TimeOut, Kill, KillsGroup, KillAgain, Reap, Join, Close,
                Tally, Note, Judge, WriteObject, Link, Record, NotAppended, Processes
  <2> QED BY <1>2, <2>1
<1> QED BY <1>3, <1>4, <1>5, <1>6, <1>7 DEF Steps

\* A caller goes forward.
LEMMA Forward ==
    ASSUME Inv, NEW c \in Calls, Steps(c), ~Launch(c)
    PROVE  /\ caller[c].pc \in Late => caller'[c].pc \in Late
           /\ caller[c].pc \in Ended => caller'[c].pc \in Ended
           /\ caller'[c].open \subseteq caller[c].open
           /\ overflow[c] => overflow'[c]
           /\ ~Running(c) => ~Running(c)'
<1>0. caller \in [Calls -> Callers] /\ caller[c] \in Callers /\ overflow \in [Calls -> BOOLEAN]
  BY DEF Inv, Typed
<1>1. ~Running(c) => ~Running(c)'
  BY SolverMoves DEF Running
<1>2. CASE External(c) \/ Threads(c)
  <2>1. caller' = caller /\ (overflow[c] => overflow'[c])
    BY <1>0, <1>2 DEF External, TakeProgram, HeirEnds, Emit, Fork, Exit, Threads, FeedFails, Read,
                      Measure, Keep, Overflow
  <2> QED BY <1>1, <2>1
<1>3. CASE Crash(c)
  <2>1. caller'[c].pc = "dead" /\ caller'[c].open = caller[c].open /\ overflow' = overflow
    BY <1>0, <1>3 DEF Crash, Goes, Callers
  <2> QED BY <1>1, <2>1 DEF Late, Ended
<1>4. CASE Caller(c)
  <2>1. overflow' = overflow
    BY <1>4 DEF Caller, Waited, TimeOut, Kill, KillAgain, Reap, Join, Close, Tally, Note, Judge,
                WriteObject, Link, Record, NotAppended
  <2>2. caller[c].pc \notin Ended
    BY <1>4 DEF Caller, Waited, TimeOut, Kill, KillAgain, Reap, Join, Close, Tally, Note, Judge,
                WriteObject, Link, Record, NotAppended, At, Ended
  <2>3. CASE caller[c].pc \notin Late
    <3>1. caller'[c].open \subseteq caller[c].open
      <4>1. CASE Tally(c)
        <5>1. CASE overflow[c]
          <6> DEFINE room == Room(c, "stderr")
          <6>1. caller' = [caller EXCEPT ![c].pc = "note", ![c].rc = "limit", ![c].room = room]
            BY <4>1, <5>1 DEF Tally
          <6> HIDE DEF room
          <6> QED BY <1>0, <6>1 DEF Callers
        <5>2. CASE ~overflow[c]
          BY <1>0, <4>1, <5>2 DEF Tally, Goes, Callers
        <5> QED BY <5>1, <5>2
      <4>2. CASE \E s \in Streams \cup {"stdin"} : Close(c, s)
        BY <1>0, <4>2 DEF Close, Callers
      <4>3. CASE Waited(c) \/ TimeOut(c)
        BY <1>0, <4>3 DEF Waited, TimeOut, Finds, Callers
      <4>4. CASE Kill(c) \/ KillAgain(c) \/ Reap(c) \/ Join(c) \/ Note(c)
        BY <1>0, <4>4 DEF Kill, KillAgain, Reap, Join, Note, Goes, Callers
      <4>5. ~Judge(c) /\ ~WriteObject(c) /\ ~Link(c) /\ ~Record(c) /\ ~NotAppended(c)
        BY <2>3 DEF Judge, WriteObject, Link, Record, NotAppended, At, Late
      <4> QED BY <1>4, <4>1, <4>2, <4>3, <4>4, <4>5 DEF Caller
    <3> QED BY <1>1, <2>1, <2>2, <2>3, <3>1
  <2>4. CASE caller[c].pc \in Late
    <3>1. Judge(c) \/ WriteObject(c) \/ Link(c) \/ Record(c) \/ NotAppended(c)
      BY <1>4, <2>4 DEF Caller, Waited, TimeOut, Kill, KillAgain, Reap, Join, Close, Tally, Note,
                        At, Late
    <3>2. CASE Judge(c)
      <4> DEFINE todo == EventsOf(Judgement(caller[c].rc, kept[c]))
      <4>1. caller' = [caller EXCEPT ![c].seen = kept[c], ![c].todo = todo,
                                     ![c].pc = IF todo = <<>> THEN "returned" ELSE "publish"]
        BY <3>2 DEF Judge
      <4> HIDE DEF todo
      <4>2. caller'[c].open = caller[c].open /\ caller'[c].pc \in {"returned", "publish"}
        BY <1>0, <4>1 DEF Callers
      <4> QED BY <1>1, <2>1, <2>2, <4>2 DEF Late
    <3>3. CASE WriteObject(c) \/ Link(c) \/ Record(c) \/ NotAppended(c)
      <4>1. /\ caller'[c].open = caller[c].open
            /\ caller'[c].pc \in {caller[c].pc, "append", "returned"}
        BY <1>0, <3>3 DEF WriteObject, Link, Record, NotAppended, Goes, Callers
      <4> QED BY <1>1, <2>1, <2>2, <2>4, <4>1 DEF Late
    <3> QED BY <3>1, <3>2, <3>3
  <2> QED BY <2>3, <2>4
<1> QED BY <1>2, <1>3, <1>4 DEF Steps

\* A stream that is left alone.
LEMMA CountsStill ==
    ASSUME Inv, NEW c \in Calls, Steps(c), ~Launch(c), NEW s \in Streams,
           kept'[c][s] = kept[c][s], reader'[c][s] = reader[c][s]
    PROVE  Counts(c, s)'
<1> DEFINE b  == Bound(c, s)
           b2 == Bound(c, s)'
           p  == Printed(c, s)
           p2 == Printed(c, s)'
<1>1. /\ Len(kept[c][s]) \in Nat /\ reader[c][s].room \in Int /\ Limit \in Nat
      /\ b \in Nat /\ p \in Int /\ Len(Diagnostic) \in Nat
  BY LengthsTyped DEF Inv
<1>2. Counts(c, s)
  BY DEF Inv
<1>3. /\ caller[c].pc \in Late => caller'[c].pc \in Late
      /\ caller[c].pc \in Ended => caller'[c].pc \in Ended
      /\ caller'[c].open \subseteq caller[c].open
      /\ overflow[c] => overflow'[c]
      /\ ~Running(c) => ~Running(c)'
  BY Forward
<1>4. b2 \in Nat /\ b <= b2
  BY <1>1, <1>3 DEF Bound
<1>5. p2 >= p /\ (~Running(c) => p2 = p)
  BY PrintedGrows
<1>6. p2 \in Int
  <2>1. Typed'
    BY TypedExternal, TypedThreads, TypedCaller DEF Inv, Steps
  <2>2. /\ script'[c] \in Scripts /\ solver'[c] \in Processes
    BY <2>1 DEF Typed
  <2>3. script'[c][s] \in Seq(Pieces) /\ solver'[c].left[s] \in Seq(Pieces)
    BY <2>2, ScriptsType DEF Processes
  <2> QED BY <2>3, LenProperties DEF Printed
<1> HIDE DEF b, b2, p, p2
<1>7. Len(kept[c][s]) <= b2
  BY <1>1, <1>2, <1>4 DEF Counts, b
<1>8. /\ reader[c][s].at = "extend" => reader[c][s].room <= b2 - Len(kept[c][s])
      /\ reader[c][s].at = "extend" /\ Own(c, s)' => reader[c][s].room = Limit - Len(kept[c][s])
  <2>1. Own(c, s)' => Own(c, s)
    BY <1>3 DEF Own
  <2>2. reader[c][s].at = "extend" => reader[c][s].room <= b - Len(kept[c][s])
    BY <1>2 DEF Counts, b
  <2>3. reader[c][s].at = "extend" => reader[c][s].room <= b2 - Len(kept[c][s])
    BY <1>1, <1>4, <2>2
  <2> QED BY <1>2, <2>1, <2>3 DEF Counts
<1>9. reader[c][s].at = "over" /\ ~overflow'[c] => p2 > Limit
  BY <1>1, <1>2, <1>3, <1>5, <1>6 DEF Counts, p
<1>10. reader[c][s].at = "done" /\ s \in caller'[c].open /\ ~overflow'[c] /\ caller'[c].pc \notin Ended
       => ~Running(c)' /\ Len(kept[c][s]) = p2
  BY <1>2, <1>3, <1>5 DEF Counts, p
<1> QED BY <1>7, <1>8, <1>9, <1>10 DEF Counts, b2, p2

LEMMA CountsRead ==
    ASSUME Inv, NEW c \in Calls, NEW s \in Streams, Read(c, s)
    PROVE  Counts(c, s)'
<1> DEFINE pip == pipe[c][s]
           n   == IF Len(pip) >= Block THEN Block ELSE Len(pip)
<1>1. /\ Len(kept[c][s]) \in Nat /\ Len(pip) \in Nat /\ Counts(c, s) /\ Flows(c, s)
      /\ reader \in [Calls -> [Streams -> Readers]] /\ Block \in Nat \ {0}
  BY LengthsTyped, BlockType DEF Inv, Typed
<1>2. /\ reader[c][s].at = "read" /\ (Len(pip) >= Block \/ ~Held(c))
      /\ reader'[c][s] = IF n = 0 THEN Thread("done")
                          ELSE [at |-> "keep", block |-> SubSeq(pip, 1, n), room |-> 0]
      /\ UNCHANGED <<solver, script, kept, overflow, caller>>
  BY <1>1 DEF Read
<1>3. Bound(c, s)' = Bound(c, s) /\ Printed(c, s)' = Printed(c, s)
  BY <1>2 DEF Bound, Printed
<1>4. CASE n = 0
  <2>1. reader'[c][s].at = "done"
    BY <1>2, <1>4 DEF Thread
  <2>2. Len(pip) = 0 /\ ~Running(c)
    BY <1>1, <1>2, <1>4 DEF Held
  <2>3. ~overflow[c] => Len(kept[c][s]) = Printed(c, s)
    <3>1. reader[c][s].block = <<>>
      BY <1>1, <1>2 DEF Flows
    <3>2. ~overflow[c] => Printed(c, s) = Len(kept[c][s]) + Len(<<>>) + Len(pip)
      BY <1>2, <3>1, Whereabouts DEF Own
    <3>3. Len(<<>>) = 0
      OBVIOUS
    <3> HIDE DEF pip
    <3> QED BY <1>1, <2>2, <3>2, <3>3
  <2>4. ~Running(c)'
    BY <1>2, <2>2 DEF Running
  <2> QED BY <1>1, <1>2, <1>3, <2>1, <2>3, <2>4 DEF Counts
<1>5. CASE n # 0
  <2>1. reader'[c][s].at = "keep"
    BY <1>2, <1>5
  <2> QED BY <1>1, <1>2, <1>3, <2>1 DEF Counts
<1> QED BY <1>4, <1>5

LEMMA CountsMeasure ==
    ASSUME Inv, NEW c \in Calls, NEW s \in Streams, Measure(c, s)
    PROVE  Counts(c, s)'
<1>1. /\ Len(kept[c][s]) \in Nat /\ Limit \in Nat /\ Counts(c, s)
      /\ Bound(c, s) \in Nat /\ Limit <= Bound(c, s)
      /\ reader \in [Calls -> [Streams -> Readers]]
  BY LengthsTyped DEF Inv, Typed
<1>2. /\ reader'[c][s].at = "extend" /\ reader'[c][s].room = Limit - Len(kept[c][s])
      /\ UNCHANGED <<solver, script, kept, overflow, caller>>
  BY <1>1 DEF Measure, Room, Readers
<1>3. Bound(c, s)' = Bound(c, s)
  BY <1>2 DEF Bound
<1>4. Limit - Len(kept[c][s]) <= Bound(c, s) - Len(kept[c][s])
  BY <1>1
<1> QED BY <1>1, <1>2, <1>3, <1>4 DEF Counts

LEMMA CountsKeep ==
    ASSUME Inv, NEW c \in Calls, NEW s \in Streams, Keep(c, s)
    PROVE  Counts(c, s)'
<1> DEFINE block == reader[c][s].block
           room  == reader[c][s].room
           part  == Part(block, room)
           at    == IF Over(block, room) THEN "over"
                    ELSE IF s \in caller[c].open THEN "read" ELSE "done"
<1>1. /\ kept[c][s] \in Seq(Pieces) /\ block \in Seq(Pieces) /\ room \in Int
      /\ reader \in [Calls -> [Streams -> Readers]]
      /\ kept \in [Calls -> [Streams -> Seq(Pieces)]] /\ Counts(c, s)
      /\ Len(kept[c][s]) \in Nat /\ Len(block) \in Nat /\ Len(pipe[c][s]) \in Nat
      /\ Bound(c, s) \in Nat /\ Limit \in Nat /\ Printed(c, s) \in Int
  BY LengthsTyped DEF Inv, Typed, Readers
<1>2. part \in Seq(Pieces) /\ (Len(part) = 0 \/ Len(part) <= room) /\ Len(part) \in Nat
  <2>1. part \in Seq(Pieces) /\ (Len(part) = 0 \/ Len(part) <= room)
    <3> HIDE DEF block, room
    <3> QED BY <1>1, PartIsPrefix
  <2> QED BY <2>1, LenProperties
<1>3. /\ reader[c][s].at = "extend" /\ reader'[c][s] = Thread(at)
      /\ kept'[c][s] = kept[c][s] \o part
      /\ UNCHANGED <<solver, script, overflow, caller>>
  BY <1>1 DEF Keep
<1>4. reader'[c][s].at = at
  BY <1>3 DEF Thread
<1>5. Bound(c, s)' = Bound(c, s) /\ Printed(c, s)' = Printed(c, s)
  BY <1>3 DEF Bound, Printed
<1> HIDE DEF block, room, part
<1>6. Len(kept'[c][s]) = Len(kept[c][s]) + Len(part)
  BY <1>1, <1>2, <1>3, ConcatProperties
<1>7. room <= Bound(c, s) - Len(kept[c][s]) /\ (Own(c, s) => room = Limit - Len(kept[c][s]))
  BY <1>1, <1>3 DEF Counts, room
<1>8. Len(kept[c][s]) <= Bound(c, s)
  BY <1>1 DEF Counts
<1>9. Len(kept'[c][s]) <= Bound(c, s)'
  BY <1>1, <1>2, <1>5, <1>6, <1>7, <1>8
<1>10. Over(block, room) /\ ~overflow[c] => Printed(c, s) > Limit
  <2> SUFFICES ASSUME Over(block, room), ~overflow[c] PROVE Printed(c, s) > Limit
    OBVIOUS
  <2>1. Own(c, s) /\ Len(block) > room
    BY DEF Own, Over
  <2>2. Printed(c, s) = Len(kept[c][s]) + Len(block) + Len(pipe[c][s])
    BY <1>3, <2>1, Whereabouts DEF block
  <2>3. /\ Len(kept[c][s]) \in Nat /\ Len(block) \in Nat /\ Len(pipe[c][s]) \in Nat
        /\ Limit \in Nat /\ room \in Int
    BY <1>1 DEF block
  <2>4. room = Limit - Len(kept[c][s]) /\ Len(block) > room
    BY <1>7, <2>1
  <2>5. Len(kept[c][s]) + Len(block) + Len(pipe[c][s]) > Limit
    BY <2>3, <2>4, Sums
  <2> QED BY <2>2, <2>5
<1>11. reader'[c][s].at = "done" => s \notin caller[c].open
  BY <1>4
<1>12. reader'[c][s].at = "over" => Over(block, room)
  BY <1>4
<1>13. reader'[c][s].at # "extend"
  BY <1>4
<1> QED BY <1>3, <1>5, <1>9, <1>10, <1>11, <1>12, <1>13 DEF Counts

\* A thread that stops because there is too much, or because it is killed.
LEMMA CountsStop ==
    ASSUME Inv, NEW c \in Calls, Steps(c), NEW s \in Streams, ~Launch(c), kept' = kept,
           reader'[c][s].at = "done", overflow'[c] \/ caller'[c].pc \in Ended
    PROVE  Counts(c, s)'
<1>1. /\ Len(kept[c][s]) \in Nat /\ Limit \in Nat /\ Len(Diagnostic) \in Nat /\ Counts(c, s)
  BY LengthsTyped DEF Inv
<1>2. caller[c].pc \in Late => caller'[c].pc \in Late
  BY Forward
<1>3. Bound(c, s) \in Nat /\ Bound(c, s)' \in Nat /\ Bound(c, s) <= Bound(c, s)'
  BY <1>1, <1>2 DEF Bound
<1>4. Len(kept'[c][s]) <= Bound(c, s)'
  BY <1>1, <1>3 DEF Counts
<1> QED BY <1>4 DEF Counts

LEMMA CountsNote ==
    ASSUME Inv, NEW c \in Calls, Note(c)
    PROVE  Counts(c, "stderr")'
<1> DEFINE s    == "stderr"
           part == Part(Diagnostic, caller[c].room)
<1>0. s \in Streams
  BY DEF Streams
<1>1. /\ Len(kept[c][s]) \in Nat /\ Limit \in Nat /\ Len(Diagnostic) \in Nat /\ Counts(c, s)
      /\ reader[c][s].room \in Int /\ kept[c][s] \in Seq(Pieces)
      /\ kept \in [Calls -> [Streams -> Seq(Pieces)]]
      /\ caller \in [Calls -> Callers] /\ caller[c].room \in Int /\ Overflown(c)
  <2>1. Typed /\ Counts(c, s) /\ Overflown(c)
    BY <1>0 DEF Inv
  <2>2. /\ Len(kept[c][s]) \in Nat /\ Limit \in Nat /\ Len(Diagnostic) \in Nat
        /\ reader[c][s].room \in Int
    BY <1>0, <2>1, LengthsTyped
  <2>3. kept[c][s] \in Seq(Pieces) /\ kept \in [Calls -> [Streams -> Seq(Pieces)]]
    BY <1>0, <2>1 DEF Typed
  <2>4. caller \in [Calls -> Callers] /\ caller[c].room \in Int
    BY <2>1 DEF Typed, Callers
  <2> QED BY <2>1, <2>2, <2>3, <2>4
<1>2. part \in Seq(Pieces) /\ Len(part) <= Len(Diagnostic) /\ Len(part) \in Nat
  <2>1. part \in Seq(Pieces) /\ Len(part) <= Len(Diagnostic)
    BY <1>1, NoteType, PartIsPrefix
  <2> QED BY <2>1, LenProperties
<1>3. /\ At(c, "note") /\ overflow[c] /\ overflow' = overflow /\ reader' = reader
      /\ kept'[c][s] = kept[c][s] \o part
      /\ caller'[c].pc = "judge" /\ UNCHANGED <<solver, script>>
  BY <1>0, <1>1 DEF Note, Goes, Overflown, Callers
<1> HIDE DEF part
<1>4. Len(kept'[c][s]) = Len(kept[c][s]) + Len(part)
  BY <1>1, <1>2, <1>3, ConcatProperties
<1>5. Bound(c, s) = Limit /\ Bound(c, s)' = Limit + Len(Diagnostic)
  BY <1>3 DEF Bound, At, Late
<1>6. Len(kept[c][s]) <= Limit
  BY <1>1, <1>5 DEF Counts
<1>7. reader[c][s].at = "extend" => reader[c][s].room <= Limit - Len(kept[c][s])
  BY <1>1, <1>5 DEF Counts
<1>8. Len(kept'[c][s]) <= Limit + Len(Diagnostic)
  BY <1>1, <1>2, <1>4, <1>6
<1>9. ASSUME reader[c][s].at = "extend"
      PROVE  reader[c][s].room <= (Limit + Len(Diagnostic)) - Len(kept'[c][s])
  <2>1. /\ Len(kept[c][s]) \in Nat /\ Limit \in Nat /\ Len(Diagnostic) \in Nat
        /\ reader[c][s].room \in Int /\ Len(part) \in Nat /\ Len(part) <= Len(Diagnostic)
    BY <1>1, <1>2
  <2>2. reader[c][s].room <= Limit - Len(kept[c][s])
    BY <1>7, <1>9
  <2>3. reader[c][s].room <= (Limit + Len(Diagnostic)) - (Len(kept[c][s]) + Len(part))
    BY <2>1, <2>2, Sums
  <2> QED BY <1>4, <2>3
<1>10. ~Own(c, s)' /\ overflow'[c] /\ reader' = reader
  BY <1>3 DEF Own
<1> HIDE DEF s
<1>11. Counts(c, s)'
  BY <1>5, <1>8, <1>9, <1>10 DEF Counts
<1> QED BY <1>11 DEF s

LEMMA CountsStep ==
    ASSUME Inv, NEW c \in Calls, Steps(c), NEW s \in Streams
    PROVE  Counts(c, s)'
<1>0. /\ reader \in [Calls -> [Streams -> Readers]] /\ kept \in [Calls -> [Streams -> Seq(Pieces)]]
      /\ Unstarted(c) /\ overflow \in [Calls -> BOOLEAN]
  BY DEF Inv, Typed
<1>1. CASE Launch(c)
  <2>1. /\ kept' = kept /\ reader'[c][s].at = "read" /\ caller[c].pc = "idle"
    BY <1>0, <1>1 DEF Launch, Both, Thread, At
  <2>2. Len(kept[c][s]) <= Bound(c, s) /\ Bound(c, s) = Limit /\ Limit \in Nat
        /\ Len(Diagnostic) \in Nat /\ Len(kept[c][s]) \in Nat
    BY <2>1, LengthsTyped DEF Inv, Counts, Bound, Late
  <2>3. Bound(c, s)' \in Nat /\ Limit <= Bound(c, s)'
    BY <2>2 DEF Bound
  <2>4. Len(kept'[c][s]) <= Bound(c, s)'
    BY <2>1, <2>2, <2>3
  <2> QED BY <2>1, <2>4 DEF Counts
<1>2. CASE ~Launch(c) /\ External(c)
  <2>1. kept' = kept /\ reader' = reader
    BY <1>2 DEF External, TakeProgram, HeirEnds, Emit, Fork, Exit
  <2> QED BY <1>2, <2>1, CountsStill
<1>3. CASE ~Launch(c) /\ Threads(c)
  <2>1. CASE FeedFails(c)
    BY <1>3, <2>1, CountsStill DEF FeedFails
  <2>2. ASSUME NEW t \in Streams, t # s, Read(c, t) \/ Measure(c, t) \/ Keep(c, t) \/ Overflow(c, t)
        PROVE  Counts(c, s)'
    <3>1. kept'[c][s] = kept[c][s] /\ reader'[c][s] = reader[c][s]
      BY <2>2, OtherStream
    <3> QED BY <1>3, <3>1, CountsStill
  <2>3. CASE Overflow(c, s)
    <3>1. kept' = kept /\ reader'[c][s].at = "done" /\ overflow'[c]
      BY <1>0, <2>3 DEF Overflow, Readers
    <3> QED BY <1>3, <3>1, CountsStop
  <2> QED BY <1>3, <2>1, <2>2, <2>3, CountsRead, CountsMeasure, CountsKeep DEF Threads
<1>4. CASE ~Launch(c) /\ Crash(c)
  <2>1. kept' = kept /\ reader'[c][s].at = "done"
    BY <1>0, <1>4 DEF Crash, Both, Thread
  <2>2. caller'[c].pc \in Ended
    BY <1>4 DEF Crash, Goes, Ended, Inv, Typed, Callers
  <2> QED BY <1>4, <2>1, <2>2, CountsStop
<1>5. CASE ~Launch(c) /\ Caller(c)
  <2>1. reader' = reader /\ (kept' = kept \/ Note(c))
    BY <1>5 DEF Caller, Waited, TimeOut, Kill, KillAgain, Reap, Join, Close, Tally, Judge,
                WriteObject, Link, Record, NotAppended, Note
  <2>2. CASE kept'[c][s] = kept[c][s]
    BY <1>5, <2>1, <2>2, CountsStill
  <2>3. CASE Note(c) /\ s # "stderr"
    <3>1. kept'[c][s] = kept[c][s]
      BY <1>0, <2>3 DEF Note
    <3> QED BY <2>2, <3>1
  <2>4. CASE Note(c) /\ s = "stderr"
    BY <2>4, CountsNote
  <2> QED BY <2>1, <2>2, <2>3, <2>4
<1> QED BY <1>1, <1>2, <1>3, <1>4, <1>5 DEF Steps

LEMMA OverflownStep ==
    ASSUME Inv, NEW c \in Calls, Steps(c)
    PROVE  Overflown(c)'
<1>0. Overflown(c) /\ overflow \in [Calls -> BOOLEAN] /\ Limit \in Nat
      /\ caller \in [Calls -> Callers] /\ caller[c] \in Callers
  BY LimitType DEF Inv, Typed
<1>1. \A s \in Streams : Printed(c, s) > Limit => Printed(c, s)' > Limit
  <2> TAKE s \in Streams
  <2>1. Printed(c, s)' >= Printed(c, s) /\ Printed(c, s) \in Int
    BY PrintedGrows, LengthsTyped DEF Inv
  <2>2. Typed'
    BY TypedExternal, TypedThreads, TypedCaller DEF Inv, Steps
  <2>3. script'[c] \in Scripts /\ solver'[c] \in Processes
    BY <2>2 DEF Typed
  <2>4. script'[c][s] \in Seq(Pieces) /\ solver'[c].left[s] \in Seq(Pieces)
    BY <2>3, ScriptsType DEF Processes
  <2>5. Printed(c, s)' \in Int
    BY <2>4, LenProperties DEF Printed
  <2> QED BY <1>0, <2>1, <2>5
<1>2. ASSUME overflow'[c] PROVE \E s \in Streams : Printed(c, s)' > Limit
  <2>1. CASE overflow[c]
    BY <1>0, <1>1, <2>1 DEF Overflown
  <2>2. ASSUME NEW s \in Streams, Overflow(c, s), ~overflow[c]
        PROVE  \E t \in Streams : Printed(c, t)' > Limit
    <3>1. Printed(c, s) > Limit
      BY <2>2 DEF Inv, Counts, Overflow
    <3> QED BY <1>1, <3>1
  <2>3. overflow' = overflow \/ \E s \in Streams : Overflow(c, s)
    BY DEF Steps, External, TakeProgram, HeirEnds, Emit, Fork, Exit, Threads, FeedFails, Read,
           Measure, Keep, Launch, Crash, Caller, Waited, TimeOut, Kill, KillAgain, Reap, Join, Close,
           Tally, Note, Judge, WriteObject, Link, Record, NotAppended
  <2> QED BY <1>2, <2>1, <2>2, <2>3
<1>3. caller'[c].pc = "note" => overflow'[c]
  <2>1. CASE Tally(c)
    BY <1>0, <2>1 DEF Tally, Goes, Callers
  <2>2. CASE ~Tally(c)
    <3>1. caller'[c].pc = "note" => caller[c].pc = "note"
      <4>1. CASE External(c) \/ Threads(c)
        BY <4>1 DEF External, TakeProgram, HeirEnds, Emit, Fork, Exit, Threads, FeedFails, Read,
                    Measure, Keep, Overflow
      <4>2. CASE Launch(c) \/ Crash(c)
        BY <1>0, <4>2 DEF Launch, Crash, Goes, Callers
      <4>3. CASE Judge(c)
        <5> DEFINE todo == EventsOf(Judgement(caller[c].rc, kept[c]))
        <5>1. caller' = [caller EXCEPT ![c].seen = kept[c], ![c].todo = todo,
                                       ![c].pc = IF todo = <<>> THEN "returned" ELSE "publish"]
          BY <4>3 DEF Judge
        <5> HIDE DEF todo
        <5> QED BY <1>0, <5>1 DEF Callers
      <4>4. CASE Record(c) \/ WriteObject(c)
        BY <1>0, <4>4 DEF Record, WriteObject, Callers
      <4>5. CASE Waited(c) \/ TimeOut(c)
        BY <1>0, <4>5 DEF Waited, TimeOut, Finds, Callers
      <4>6. CASE Kill(c) \/ KillAgain(c) \/ Reap(c) \/ Join(c) \/ Note(c) \/ Link(c) \/ NotAppended(c)
        BY <1>0, <4>6 DEF Kill, KillAgain, Reap, Join, Note, Link, NotAppended, Goes, Callers
      <4>7. CASE \E s \in Streams \cup {"stdin"} : Close(c, s)
        BY <1>0, <4>7 DEF Close, Callers
      <4> QED BY <2>2, <4>1, <4>2, <4>3, <4>4, <4>5, <4>6, <4>7 DEF Steps, Caller
    <3>2. overflow[c] => overflow'[c]
      <4>1. Launch(c) => overflow' = overflow
        BY DEF Launch
      <4> QED BY <4>1, Forward
    <3> QED BY <1>0, <3>1, <3>2 DEF Overflown, At
  <2> QED BY <2>1, <2>2
<1> QED BY <1>2, <1>3 DEF Overflown, At

(***************************************************************************)
(* The theorems                                                            *)
(***************************************************************************)
LEMMA InvInit == Init => Inv
<1> SUFFICES ASSUME Init PROVE Inv
  OBVIOUS
<1>1. Typed
  BY TypedInit
<1>2. RecordedIsPublished /\ Range(graph) = {}
  BY DEF Init, RecordedIsPublished, Range
<1>3. ASSUME NEW c \in Calls
      PROVE  Unstarted(c) /\ Settled(c) /\ Due(c) /\ Judged(c) /\ Published(c) /\ Overflown(c)
  <2>1. Unstarted(c) /\ Settled(c)
    BY DEF Init, Unstarted, Settled, Both
  <2>2. Due(c) /\ Published(c)
    BY DEF Init, Due, Published, At
  <2>3. Overflown(c)
    BY DEF Init, Overflown, At
  <2>4. Judged(c)
    BY <1>2 DEF Init, Judged, Answered
  <2> QED BY <2>1, <2>2, <2>3, <2>4
<1>4. ASSUME NEW c \in Calls, NEW s \in Streams PROVE Flows(c, s) /\ Counts(c, s)
  <2>1. script[c][s] \in Seq(Pieces)
    BY ScriptsType DEF Init
  <2>2. <<>> \o script[c][s] = script[c][s]
    BY <2>1, ConcatEmptySeq
  <2>3. /\ kept[c][s] = <<>> /\ pipe[c][s] = <<>> /\ solver[c].left[s] = script[c][s]
        /\ reader[c][s] = Thread("done") /\ caller[c].pc = "idle"
    BY DEF Init, Nothing, Both
  <2>4. reader[c][s].at = "done" /\ reader[c][s].block = <<>>
    BY <2>3 DEF Thread
  <2>5. Flows(c, s)
    BY <2>1, <2>2, <2>3, <2>4 DEF Flows
  <2>6. Len(kept[c][s]) <= Bound(c, s)
    BY <2>3, LimitType, EmptySeq DEF Bound, Late
  <2> QED BY <2>3, <2>4, <2>5, <2>6 DEF Counts, Ended
<1> QED BY <1>1, <1>2, <1>3, <1>4 DEF Inv

LEMMA InvNext == Inv /\ [Next]_vars => Inv'
<1> SUFFICES ASSUME Inv, [Next]_vars PROVE Inv'
  OBVIOUS
<1>1. ASSUME NEW d \in Calls, Steps(d) PROVE Inv'
  <2>1. Typed'
    <3>1. Typed /\ Due(d)
      BY DEF Inv
    <3> QED BY <1>1, <3>1, TypedExternal, TypedThreads, TypedCaller DEF Steps
  <2>2. RecordedIsPublished'
    BY <1>1, RecordedStep
  <2>3. ASSUME NEW c \in Calls
        PROVE  /\ (Unstarted(c) /\ Settled(c) /\ Due(c) /\ Judged(c) /\ Published(c) /\ Overflown(c))'
               /\ \A s \in Streams : Flows(c, s)' /\ Counts(c, s)'
    <3>1. CASE c = d
      <4>1. Unstarted(c)'
        BY <1>1, <3>1, UnstartedStep DEF Unstarted
      <4> QED BY <1>1, <3>1, <4>1, SettledStep, DueStep, JudgedStep, PublishedStep,
                 FlowsStep, CountsStep, OverflownStep
    <3>2. CASE c # d
      <4>1. /\ UNCHANGED <<solver[c], script[c], pipe[c], reader[c], kept[c], overflow[c],
                      caller[c]>>
            /\ Answered(c)' <=> Answered(c)
            /\ objects \subseteq objects'
        BY <1>1, <3>2, OthersStay, Writes
      <4>2. /\ Unstarted(c) /\ Settled(c) /\ Due(c) /\ Judged(c) /\ Published(c) /\ Overflown(c)
            /\ \A s \in Streams : Flows(c, s) /\ Counts(c, s)
        BY DEF Inv
      <4>3. (Unstarted(c) /\ Settled(c) /\ Due(c))'
        BY <4>1, <4>2 DEF Unstarted, Settled, Due, At
      <4>4. (Judged(c) /\ Published(c))'
        <5>1. (Good(c)' <=> Good(c)) /\ (HasModel(c)' <=> HasModel(c))
          BY <4>1 DEF Good, HasModel
        <5>2. Judged(c)'
          BY <4>1, <4>2, <5>1 DEF Judged
        <5>3. Published(c)'
          BY <4>1, <4>2 DEF Published, At
        <5> QED BY <5>2, <5>3
      <4>5. \A s \in Streams : Flows(c, s)'
        BY <4>1, <4>2 DEF Flows, Own, At
      <4>6. Overflown(c)'
        BY <4>1, <4>2 DEF Overflown, Printed, At
      <4>7. \A s \in Streams : Counts(c, s)'
        BY <4>1, <4>2 DEF Counts, Bound, Own, Printed, Running
      <4> QED BY <4>3, <4>4, <4>5, <4>6, <4>7
    <3> QED BY <3>1, <3>2
  <2> QED BY <2>1, <2>2, <2>3 DEF Inv
<1>2. CASE UNCHANGED vars
  <2>1. Typed' /\ RecordedIsPublished'
    BY <1>2 DEF vars, Inv, Typed, RecordedIsPublished
  <2>2. ASSUME NEW c \in Calls
        PROVE  /\ (Unstarted(c) /\ Settled(c) /\ Due(c) /\ Judged(c) /\ Published(c) /\ Overflown(c))'
               /\ \A s \in Streams : Flows(c, s)' /\ Counts(c, s)'
    <3>1. (Unstarted(c) /\ Settled(c) /\ Due(c))'
      BY <1>2 DEF vars, Inv, Unstarted, Settled, Due, At
    <3>2. (Judged(c) /\ Published(c))'
      BY <1>2 DEF vars, Inv, Judged, Published, Good, HasModel, Answered, At
    <3>3. \A s \in Streams : Flows(c, s)'
      BY <1>2 DEF vars, Inv, Flows, Own, At
    <3>4. Overflown(c)'
      BY <1>2 DEF vars, Inv, Overflown, Printed, At
    <3>5. \A s \in Streams : Counts(c, s)'
      BY <1>2 DEF vars, Inv, Counts, Bound, Own, Printed, Running
    <3> QED BY <3>1, <3>2, <3>3, <3>4, <3>5
  <2> QED BY <2>1, <2>2 DEF Inv
<1> QED BY <1>1, <1>2 DEF Next, Steps

LEMMA InvHolds == Spec => []Inv
BY InvInit, InvNext, PTL DEF Spec

\* The output limit is neither passed, except by the line that the caller adds to
\* the errors, nor hit too early, and of a call that is not over it nothing is lost.
THEOREM LimitsAreExact == Spec => []LimitIsExact
<1>1. ASSUME Inv PROVE LimitIsExact
  <2> SUFFICES ASSUME NEW c \in Calls
               PROVE  /\ overflow[c] => \E s \in Streams : Printed(c, s) > Limit
                      /\ Len(kept[c]["stdout"]) <= Limit
                      /\ Len(kept[c]["stderr"]) <= Limit + Len(Diagnostic)
                      /\ \A s \in caller[c].open \cap Streams :
                            reader[c][s].at = "done" /\ ~overflow[c] /\ caller[c].pc \notin Ended
                            => Len(kept[c][s]) = Printed(c, s)
    BY DEF LimitIsExact
  <2>1. Overflown(c) /\ (\A s \in Streams : Counts(c, s)) /\ "stdout" \in Streams /\ "stderr" \in Streams
    BY <1>1 DEF Inv, Streams
  <2>2. Len(kept[c]["stdout"]) <= Limit
    BY <2>1 DEF Counts, Bound
  <2>3. Len(kept[c]["stderr"]) <= Bound(c, "stderr")
    BY <2>1 DEF Counts
  <2>4. Len(kept[c]["stderr"]) <= Limit + Len(Diagnostic)
    <3>1. Len(kept[c]["stderr"]) \in Nat /\ Limit \in Nat /\ Len(Diagnostic) \in Nat
      BY <1>1, <2>1, LengthsTyped DEF Inv
    <3> QED BY <2>3, <3>1 DEF Bound
  <2> QED BY <2>1, <2>2, <2>4 DEF Overflown, Counts
<1> QED BY <1>1, InvHolds, PTL

\* Whatever the graph says of an execution, the execution is published whole.
THEOREM PublishesFirst == Spec => []RecordedIsPublished
<1>1. Inv => RecordedIsPublished
  BY DEF Inv
<1> QED BY <1>1, InvHolds, PTL

\* A model comes from a run that ended by itself, in time, with the code 0, and
\* whose every printed line was read.
THEOREM AnswersAreWhole == Spec => []AnswerIsWhole
<1>1. ASSUME Inv PROVE AnswerIsWhole
  <2> SUFFICES ASSUME NEW c \in Calls, Answered(c)
               PROVE  /\ caller[c].seen["stdout"] = script[c]["stdout"]
                      /\ solver[c].rc = "zero" /\ caller[c].rc = "zero"
    BY DEF AnswerIsWhole
  <2>1. Good(c) /\ Settled(c)
    BY <1>1 DEF Inv, Judged
  <2> QED BY <2>1 DEF Good, Settled
<1> QED BY <1>1, InvHolds, PTL
=============================================================================
