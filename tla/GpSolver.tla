------------------------------ MODULE GpSolver ------------------------------
(***************************************************************************)
(* A call of the external solver (cas.run_cas), on a POSIX system.  The    *)
(* caller starts the solver in a process group of its own, a thread feeds  *)
(* it the program, a thread for each of its two output streams keeps what  *)
(* it prints up to a limit, and the caller waits for it to end, for so     *)
(* long.  What the program printed is read for an answer, the execution is *)
(* published beside the graph, and the graph gets its events.              *)
(*                                                                         *)
(* The solver prints what its program makes it print, or less, and may     *)
(* leave a descendant behind that has inherited its pipes.  A stream is    *)
(* read in blocks, and a read returns less than a block only when nobody   *)
(* holds the pipe's other end any more.  A caller may be killed.           *)
(***************************************************************************)
EXTENDS Integers, SequencesExt

CONSTANTS
    Calls,
    Scripts,   \* what programs print: per stream a sequence of Pieces
    Block,     \* how many pieces make a block
    Limit,     \* how many pieces of a stream are kept
    Diagnostic \* what the caller adds to the errors when a stream had more

Streams == {"stdout", "stderr"}

\* The identity of the binary, the values asked for, a report of an error, the
\* last line of the program, which bears a nonce of the call, and the reason that
\* the caller gives.
Pieces == {"identity", "values", "error", "end", "reason"}

\* A program prints its last line last, and so only once.
EndsOnce(stdout) == \A i \in DOMAIN stdout : stdout[i] = "end" <=> i = Len(stdout)

ASSUME BlockType   == Block \in Nat \ {0}
ASSUME LimitType   == Limit \in Nat
ASSUME NoteType    == Diagnostic \in Seq(Pieces)
ASSUME ScriptsType == \A script \in Scripts : /\ script \in [Streams -> Seq(Pieces)]
                                             /\ EndsOnce(script["stdout"])

VARIABLES
    solver,   \* per call, its process [state, rc, fed, left, heir]: left is what
              \* it has yet to print, heir says if a descendant has the pipes
    script,   \* per call, what its program prints
    pipe,     \* per call and stream, what is printed and not read
    reader,   \* per call and stream, its thread [at, block, room]
    kept,     \* per call and stream, the buffer of what is kept of it
    overflow, \* per call, whether a thread found more than is kept
    feeder,   \* per call, the thread that writes the program
    caller,   \* per call, [pc, rc, open, room, seen, todo, temp]
    objects,  \* the published executions: [call, whole]
    graph     \* the events of graph.jsonl: [call, ev]

vars == <<solver, script, pipe, reader, kept, overflow, feeder, caller, objects, graph>>

Nothing == [s \in Streams |-> <<>>]

\* A thread, and both of a call.
Thread(at)  == [at |-> at, block |-> <<>>, room |-> 0]
Both(at)   == [s \in Streams |-> Thread(at)]

Init ==
    /\ script \in [Calls -> Scripts]
    /\ solver = [c \in Calls |-> [state |-> "none", rc |-> "none", fed |-> FALSE,
                                  left |-> script[c], heir |-> "none"]]
    /\ pipe = [c \in Calls |-> Nothing]
    /\ reader = [c \in Calls |-> Both("done")]
    /\ kept = [c \in Calls |-> Nothing]
    /\ overflow = [c \in Calls |-> FALSE]
    /\ feeder = [c \in Calls |-> "done"]
    /\ caller = [c \in Calls |-> [pc |-> "idle", rc |-> "none", open |-> {}, room |-> 0,
                                  seen |-> Nothing, todo |-> <<>>, temp |-> "none"]]
    /\ objects = {}
    /\ graph = <<>>

Running(c) == solver[c].state = "running"

\* Somebody has the other ends of the pipes.
Held(c) == Running(c) \/ solver[c].heir # "none"

-----------------------------------------------------------------------------
(***************************************************************************)
(* The solver, and what it leaves behind                                   *)
(***************************************************************************)

\* It reads its program, which lets the feeding thread end.
TakeProgram(c) ==
    /\ Running(c) /\ ~solver[c].fed
    /\ solver' = [solver EXCEPT ![c].fed = TRUE]
    /\ feeder' = [feeder EXCEPT ![c] = "done"]
    /\ UNCHANGED <<script, pipe, reader, kept, overflow, caller, objects, graph>>

Emit(c, s) ==
    /\ Running(c) /\ solver[c].fed /\ solver[c].left[s] # <<>>
    /\ solver' = [solver EXCEPT ![c].left[s] = Tail(@)]
    /\ pipe' = [pipe EXCEPT ![c][s] = Append(@, Head(solver[c].left[s]))]
    /\ UNCHANGED <<script, reader, kept, overflow, feeder, caller, objects, graph>>

\* It starts a process, in its group or in a session of its own.
Fork(c, where) ==
    /\ Running(c) /\ solver[c].heir = "none"
    /\ solver' = [solver EXCEPT ![c].heir = where]
    /\ UNCHANGED <<script, pipe, reader, kept, overflow, feeder, caller, objects, graph>>

\* It ends, done or not, with the code 0, another one, or one that a wrapper
\* gives to a solver that was killed.
Exit(c, rc) ==
    /\ Running(c)
    /\ solver' = [solver EXCEPT ![c].state = "ended", ![c].rc = rc]
    /\ UNCHANGED <<script, pipe, reader, kept, overflow, feeder, caller, objects, graph>>

HeirEnds(c) ==
    /\ solver[c].heir # "none"
    /\ solver' = [solver EXCEPT ![c].heir = "none"]
    /\ UNCHANGED <<script, pipe, reader, kept, overflow, feeder, caller, objects, graph>>

\* Its group is killed, unless the solver itself has ended.
Killed(c) ==
    IF ~Running(c) THEN solver
    ELSE [solver EXCEPT ![c].state = "ended", ![c].rc = "signal",
                        ![c].heir = IF @ = "group" THEN "none" ELSE @]

\* That is tried: what the system answers is not looked at.
KillsGroup(c) == solver' = Killed(c) \/ solver' = solver

-----------------------------------------------------------------------------
(***************************************************************************)
(* The threads                                                             *)
(***************************************************************************)

\* Nobody is left to read the program.
FeedFails(c) ==
    /\ feeder[c] = "writing" /\ ~Held(c)
    /\ feeder' = [feeder EXCEPT ![c] = "done"]
    /\ UNCHANGED <<solver, script, pipe, reader, kept, overflow, caller, objects, graph>>

\* A whole block, or what there is when the pipe has no writer any more.
Read(c, s) ==
    /\ reader[c][s].at = "read"
    /\ Len(pipe[c][s]) >= Block \/ ~Held(c)
    /\ LET n == IF Len(pipe[c][s]) >= Block THEN Block ELSE Len(pipe[c][s])
       IN  /\ reader' = [reader EXCEPT ![c][s] =
                            IF n = 0 THEN Thread("done")
                            ELSE [at |-> "keep", block |-> SubSeq(pipe[c][s], 1, n), room |-> 0]]
           /\ pipe' = [pipe EXCEPT ![c][s] = SubSeq(@, n + 1, Len(@))]
    /\ UNCHANGED <<solver, script, kept, overflow, feeder, caller, objects, graph>>

Room(c, s) == Limit - Len(kept[c][s])

\* What of a block finds room.
Part(block, room) ==
    IF Len(block) <= room THEN block
    ELSE IF room > 0 THEN SubSeq(block, 1, room) ELSE <<>>

\* Mutant: a block that just fits is too much.
OverIfFull(block, room) == Len(block) >= room

Over(block, room) == Len(block) > room

\* A thread looks at the room that is left, and then keeps what of its block
\* finds that much; the caller may write to the same buffer in between.
Measure(c, s) ==
    /\ reader[c][s].at = "keep"
    /\ reader' = [reader EXCEPT ![c][s].at = "extend", ![c][s].room = Room(c, s)]
    /\ UNCHANGED <<solver, script, pipe, kept, overflow, feeder, caller, objects, graph>>

\* A thread that found too much reads no more; one whose pipe was closed fails
\* at its next read.
Keep(c, s) ==
    /\ reader[c][s].at = "extend"
    /\ LET block == reader[c][s].block
           room  == reader[c][s].room
       IN  /\ kept' = [kept EXCEPT ![c][s] = @ \o Part(block, room)]
           /\ reader' = [reader EXCEPT ![c][s] =
                            Thread(IF Over(block, room) THEN "over"
                                   ELSE IF s \in caller[c].open THEN "read" ELSE "done")]
    /\ UNCHANGED <<solver, script, pipe, overflow, feeder, caller, objects, graph>>

Overflow(c, s) ==
    /\ reader[c][s].at = "over"
    /\ reader' = [reader EXCEPT ![c][s].at = "done"]
    /\ overflow' = [overflow EXCEPT ![c] = TRUE]
    /\ IF overflow[c] THEN UNCHANGED solver ELSE KillsGroup(c)
    /\ UNCHANGED <<script, pipe, kept, feeder, caller, objects, graph>>

-----------------------------------------------------------------------------
(***************************************************************************)
(* The caller                                                              *)
(***************************************************************************)
At(c, pc) == caller[c].pc = pc

\* The caller goes on, and finds what its call came to.
Goes(c, pc) == caller' = [caller EXCEPT ![c].pc = pc]
Finds(c, pc, rc) == caller' = [caller EXCEPT ![c].pc = pc, ![c].rc = rc]

Launch(c) ==
    /\ At(c, "idle")
    /\ solver' = [solver EXCEPT ![c].state = "running"]
    /\ reader' = [reader EXCEPT ![c] = Both("read")]
    /\ feeder' = [feeder EXCEPT ![c] = "writing"]
    /\ caller' = [caller EXCEPT ![c].pc = "wait", ![c].open = Streams \cup {"stdin"}]
    /\ UNCHANGED <<script, pipe, kept, overflow, objects, graph>>

Waited(c) ==
    /\ At(c, "wait") /\ ~Running(c)
    /\ Finds(c, "join", solver[c].rc)
    /\ UNCHANGED <<solver, script, pipe, reader, kept, overflow, feeder, objects, graph>>

\* The time is up; by the time the caller kills the group it may have ended.
TimeOut(c) ==
    /\ At(c, "wait") /\ Running(c)
    /\ Finds(c, "kill", "timeout")
    /\ UNCHANGED <<solver, script, pipe, reader, kept, overflow, feeder, objects, graph>>

Kill(c) ==
    /\ At(c, "kill")
    /\ KillsGroup(c)
    /\ Goes(c, "reap")
    /\ UNCHANGED <<script, pipe, reader, kept, overflow, feeder, objects, graph>>

\* Mutant: ten seconds later the caller goes on.
GivesUp(c) ==
    /\ At(c, "reap") /\ Running(c)
    /\ Goes(c, "join")
    /\ UNCHANGED <<solver, script, pipe, reader, kept, overflow, feeder, objects, graph>>

\* It runs ten seconds later: the process is killed, and not what it started.
KillAgain(c) ==
    /\ At(c, "reap") /\ Running(c)
    /\ solver' = [solver EXCEPT ![c].state = "ended", ![c].rc = "signal"]
    /\ UNCHANGED <<script, pipe, reader, kept, overflow, feeder, caller, objects, graph>>

Reap(c) ==
    /\ At(c, "reap") /\ ~Running(c)
    /\ Goes(c, "join")
    /\ UNCHANGED <<solver, script, pipe, reader, kept, overflow, feeder, objects, graph>>

\* The threads are waited for, ten seconds each, whether they are done or not.
Join(c) ==
    /\ At(c, "join")
    /\ Goes(c, "close")
    /\ UNCHANGED <<solver, script, pipe, reader, kept, overflow, feeder, objects, graph>>

\* A pipe cannot be closed while a thread is at work on it.
Busy(c, s) == IF s = "stdin" THEN feeder[c] = "writing" ELSE reader[c][s].at = "read"

Close(c, s) ==
    /\ At(c, "close") /\ s \in caller[c].open
    /\ s = "stdout" => "stdin" \notin caller[c].open
    /\ s = "stderr" => "stdout" \notin caller[c].open
    /\ ~Busy(c, s)
    /\ caller' = [caller EXCEPT ![c].open = @ \ {s},
                                ![c].pc = IF s = "stderr" THEN "tally" ELSE @]
    /\ UNCHANGED <<solver, script, pipe, reader, kept, overflow, feeder, objects, graph>>

Tally(c) ==
    /\ At(c, "tally")
    /\ IF overflow[c]
       THEN caller' = [caller EXCEPT ![c].pc = "note", ![c].rc = "limit",
                                     ![c].room = Room(c, "stderr")]
       ELSE Goes(c, "judge")
    /\ UNCHANGED <<solver, script, pipe, reader, kept, overflow, feeder, objects, graph>>

\* The reason goes where the solver's own errors are, if there was room for it.
Note(c) ==
    /\ At(c, "note")
    /\ kept' = [kept EXCEPT ![c]["stderr"] = @ \o Part(Diagnostic, caller[c].room)]
    /\ Goes(c, "judge")
    /\ UNCHANGED <<solver, script, pipe, reader, overflow, feeder, objects, graph>>

Aborts == {"timeout", "limit", "abort"}

\* Mutant: values are read wherever the transcript ends.
CompleteIfValues(stdout) == Contains(stdout, "values")

\* The values are there and the last line of the program is, once and last.
Complete(stdout) ==
    /\ Contains(stdout, "values")
    /\ {i \in DOMAIN stdout : stdout[i] = "end"} = {Len(stdout)}

\* What becomes of a call.  What bears no identity is no run of the solver; an
\* unfinished run is noted; an error, a failure or a partial answer is refused.
Judgement(rc, seen) ==
    IF seen["stdout"] = <<>> \/ Head(seen["stdout"]) # "identity" THEN "refused"
    ELSE IF rc \in Aborts THEN "aborted"
    ELSE IF \E s \in Streams : Contains(seen[s], "error") THEN "refused"
    ELSE IF rc # "zero" THEN "refused"
    ELSE IF Complete(seen["stdout"]) THEN "answered" ELSE "refused"

\* A model, the edge it came by, and a note of the execution; or a note alone.
EventsOf(judgement) ==
    CASE judgement = "answered" -> <<"model", "edge", "note">>
      [] judgement = "aborted"  -> <<"note">>
      [] OTHER                  -> <<>>

\* What the threads have kept by now is read.
Judge(c) ==
    /\ At(c, "judge")
    /\ LET events == EventsOf(Judgement(caller[c].rc, kept[c]))
       IN  caller' = [caller EXCEPT ![c].seen = kept[c], ![c].todo = events,
                                    ![c].pc = IF events = <<>> THEN "returned" ELSE "publish"]
    /\ UNCHANGED <<solver, script, pipe, reader, kept, overflow, feeder, objects, graph>>

\* The execution is written to a file of another name, forced out, and then
\* linked to its own.
WriteObject(c) ==
    /\ At(c, "publish") /\ caller[c].temp # "whole"
    /\ caller' = [caller EXCEPT ![c].temp = IF @ = "none" THEN "part" ELSE "whole"]
    /\ UNCHANGED <<solver, script, pipe, reader, kept, overflow, feeder, objects, graph>>

\* Mutant: the execution is published when its events are written.
LinkLater(c) ==
    /\ At(c, "publish") /\ caller[c].temp = "whole"
    /\ Goes(c, "append")
    /\ UNCHANGED <<solver, script, pipe, reader, kept, overflow, feeder, objects, graph>>

Link(c) ==
    /\ At(c, "publish") /\ caller[c].temp = "whole"
    /\ objects' = objects \cup {[call |-> c, whole |-> caller[c].temp = "whole"]}
    /\ Goes(c, "append")
    /\ UNCHANGED <<solver, script, pipe, reader, kept, overflow, feeder, graph>>

\* The events go to the graph line by line.
Record(c) ==
    /\ At(c, "append")
    /\ graph' = Append(graph, [call |-> c, ev |-> Head(caller[c].todo)])
    /\ caller' = [caller EXCEPT ![c].todo = Tail(@),
                                ![c].pc = IF Len(caller[c].todo) = 1 THEN "returned" ELSE @]
    /\ UNCHANGED <<solver, script, pipe, reader, kept, overflow, feeder, objects>>

\* The graph does not fold with them.
NotAppended(c) ==
    /\ At(c, "append") /\ \A i \in DOMAIN graph : graph[i].call # c
    /\ Goes(c, "returned")
    /\ UNCHANGED <<solver, script, pipe, reader, kept, overflow, feeder, objects, graph>>

Ended == {"idle", "returned", "dead"}

\* A caller is killed, and its threads with it.
Crash(c) ==
    /\ caller[c].pc \notin Ended
    /\ reader' = [reader EXCEPT ![c] = Both("done")]
    /\ feeder' = [feeder EXCEPT ![c] = "done"]
    /\ Goes(c, "dead")
    /\ UNCHANGED <<solver, script, pipe, kept, overflow, objects, graph>>

-----------------------------------------------------------------------------
External(c) ==
    \/ TakeProgram(c) \/ HeirEnds(c)
    \/ \E s \in Streams : Emit(c, s)
    \/ \E where \in {"group", "session"} : Fork(c, where)
    \/ \E rc \in {"zero", "other", "abort"} : Exit(c, rc)

Threads(c) ==
    \/ FeedFails(c)
    \/ \E s \in Streams : Read(c, s) \/ Measure(c, s) \/ Keep(c, s) \/ Overflow(c, s)

Caller(c) ==
    \/ Waited(c) \/ TimeOut(c) \/ Kill(c) \/ KillAgain(c) \/ Reap(c) \/ Join(c)
    \/ \E s \in Streams \cup {"stdin"} : Close(c, s)
    \/ Tally(c) \/ Note(c) \/ Judge(c) \/ WriteObject(c) \/ Link(c) \/ Record(c) \/ NotAppended(c)

Next == \E c \in Calls : External(c) \/ Threads(c) \/ Launch(c) \/ Caller(c) \/ Crash(c)

\* Threads that can run do, and the caller's; its clock goes on.  Of the solver
\* and of what it leaves behind nothing is asked.
Fairness ==
    \A c \in Calls :
        /\ WF_vars(FeedFails(c))
        /\ \A s \in Streams : /\ WF_vars(Read(c, s)) /\ WF_vars(Measure(c, s))
                               /\ WF_vars(Keep(c, s)) /\ WF_vars(Overflow(c, s))
        /\ WF_vars(Caller(c))

Spec == Init /\ [][Next]_vars /\ Fairness

-----------------------------------------------------------------------------
(***************************************************************************)
(* Properties                                                              *)
(***************************************************************************)
Answered(c) == [call |-> c, ev |-> "model"] \in Range(graph)

\* A model enters the graph only from a run that ended with the code 0 within
\* its time and whose every printed line was read, however threads, timeouts,
\* kills and descendants interleave.
AnswerIsWhole ==
    \A c \in Calls :
        Answered(c) => /\ caller[c].seen["stdout"] = script[c]["stdout"]
                       /\ solver[c].rc = "zero"
                       /\ caller[c].rc = "zero"

\* Whatever the graph says of an execution, the execution is published whole,
\* also when the caller is killed between two of its steps.
RecordedIsPublished == \A i \in DOMAIN graph : [call |-> graph[i].call, whole |-> TRUE] \in objects

\* How much of a stream the solver printed so far.
Printed(c, s) == Len(script[c][s]) - Len(solver[c].left[s])

\* The limit is neither passed nor hit too early: a call is over it only if the
\* solver printed more than that, the buffers hold no more (but for the caller's
\* own words, for which a thread that is late leaves no room), and of a call that
\* is not over it nothing is lost before the end of a stream is seen.
LimitIsExact ==
    \A c \in Calls :
        /\ overflow[c] => \E s \in Streams : Printed(c, s) > Limit
        /\ Len(kept[c]["stdout"]) <= Limit
        /\ Len(kept[c]["stderr"]) <= Limit + Len(Diagnostic)
        /\ \A s \in caller[c].open \cap Streams :
              reader[c][s].at = "done" /\ ~overflow[c] /\ caller[c].pc \notin Ended
              => Len(kept[c][s]) = Printed(c, s)

\* A call ends unless a descendant of its solver keeps the pipes open for good:
\* the solver itself may hang, flood its pipes or die.
CallsReturn ==
    \A c \in Calls : <>[](solver[c].heir = "none") => (At(c, "wait") ~> caller[c].pc \in Ended)
=============================================================================
