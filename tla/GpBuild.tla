------------------------------ MODULE GpBuild -------------------------------
(***************************************************************************)
(* Which checker a gp command runs (tools/gp.py, stale, lake_build and     *)
(* run_profile).  A runner is an executable built from the Lean sources,   *)
(* with a stamp beside it that names the sources it was built from.  The   *)
(* first fold of a command rebuilds the runner when the stamp does not     *)
(* name the sources as they are; its later folds do not look again.        *)
(*                                                                         *)
(* A number stands for the contents of the source files, which is what     *)
(* tree_identity hashes; times of modification play no part.  gp_ledger    *)
(* and gp_ledger3 are alike, each with a stamp of its own: this is one.    *)
(* No lock is taken around a build, and none is assumed of lake: builds    *)
(* overlap.                                                                *)
(***************************************************************************)
EXTENDS Naturals

CONSTANTS
    Procs,      \* the gp commands and hand builds that may run at one time
    Reverts,    \* whether an edit may bring earlier contents back
    ByHand,     \* whether the user builds by hand
    MayCrash,   \* whether a command may be killed
    MaxEdits    \* bound: how many contents the sources ever have

ASSUME FlagsType == {Reverts, ByHand, MayCrash} \subseteq BOOLEAN /\ MaxEdits \in Nat

VARIABLES
    sources,    \* the contents of the source files
    newest,     \* how many new contents there have been
    exe,        \* the contents the executable was built from, {} while there is none
    latest,     \* history: the newest contents an executable was ever built from
    stamp,      \* the identity in the stamp file, {} while there is none
    proc        \* per command, where it is and what it knows

vars == <<sources, newest, exe, latest, stamp, proc>>

Idle == [pc |-> "idle"]

At(p, pc) == proc[p].pc = pc

Started(pc) == [pc |-> pc, since |-> {sources}, identity |-> {}, built |-> {}]

\* The newer of two contents.
Newer(s, t) == IF s = {} \/ \E a \in s, b \in t : a < b THEN t ELSE s

\* No runner, no stamp, or a stamp of other sources.
Stale == exe = {} \/ stamp # {sources}

-----------------------------------------------------------------------------
Init ==
    /\ sources = 0 /\ newest = 0
    /\ exe = {} /\ latest = {} /\ stamp = {}
    /\ proc = [p \in Procs |-> Idle]

\* What a running command saw the sources be since it checked the stamp.
Seeing(s) ==
    [p \in Procs |-> IF At(p, "idle") THEN Idle ELSE [proc[p] EXCEPT !.since = @ \cup {s}]]

\* The user edits the sources, or checks other ones out.
Edit ==
    \E s \in 0..MaxEdits \ {sources} :
        /\ s = newest + 1 \/ (Reverts /\ s <= newest)
        /\ sources' = s
        /\ newest' = IF s > newest THEN s ELSE newest
        /\ proc' = Seeing(s)
        /\ UNCHANGED <<exe, latest, stamp>>

\* The user runs `lake build` by hand, as the refusals of gp advise: no identity
\* is taken, and none stamped.
UserBuild(p) ==
    /\ ByHand
    /\ At(p, "idle")
    /\ proc' = [proc EXCEPT ![p] = Started("lake")]
    /\ UNCHANGED <<sources, newest, exe, latest, stamp>>

\* The first fold of a command.  A rebuild hashes the sources anew.
Check(p) ==
    /\ At(p, "idle")
    /\ proc' = [proc EXCEPT ![p] = Started(IF Stale THEN "identify" ELSE "run")]
    /\ UNCHANGED <<sources, newest, exe, latest, stamp>>

Identify(p) ==
    /\ At(p, "identify")
    /\ proc' = [proc EXCEPT ![p].pc = "lake", ![p].identity = {sources}]
    /\ UNCHANGED <<sources, newest, exe, latest, stamp>>

\* lake reads the sources at some time, and puts the executable in place later.
Compile(p) ==
    /\ At(p, "lake")
    /\ proc' = [proc EXCEPT ![p].pc = "link", ![p].built = {sources}]
    /\ UNCHANGED <<sources, newest, exe, latest, stamp>>

Link(p) ==
    /\ At(p, "link")
    /\ exe' = proc[p].built
    /\ latest' = Newer(latest, proc[p].built)
    /\ proc' = [proc EXCEPT ![p] =
                    IF proc[p].identity = {} THEN Idle ELSE [proc[p] EXCEPT !.pc = "stamp"]]
    /\ UNCHANGED <<sources, newest, stamp>>

\* The build fails, or there is no toolchain: the command refuses.
Fail(p) ==
    /\ At(p, "lake") \/ At(p, "link")
    /\ proc' = [proc EXCEPT ![p] = Idle]
    /\ UNCHANGED <<sources, newest, exe, latest, stamp>>

\* Mutant: the sources are hashed after the build.
StampAfterBuild(p) ==
    /\ At(p, "stamp")
    /\ stamp' = {sources}
    /\ proc' = [proc EXCEPT ![p].pc = "run"]
    /\ UNCHANGED <<sources, newest, exe, latest>>

\* The stamp carries the identity computed before the build.
Stamp(p) ==
    /\ At(p, "stamp")
    /\ stamp' = proc[p].identity
    /\ proc' = [proc EXCEPT ![p].pc = "run"]
    /\ UNCHANGED <<sources, newest, exe, latest>>

\* The command has folded as often as it wanted.
Finish(p) ==
    /\ At(p, "run")
    /\ proc' = [proc EXCEPT ![p] = Idle]
    /\ UNCHANGED <<sources, newest, exe, latest, stamp>>

Crash(p) ==
    /\ MayCrash
    /\ ~At(p, "idle")
    /\ proc' = [proc EXCEPT ![p] = Idle]
    /\ UNCHANGED <<sources, newest, exe, latest, stamp>>

Next ==
    \/ Edit
    \/ \E p \in Procs :
        \/ UserBuild(p) \/ Check(p) \/ Identify(p) \/ Compile(p) \/ Link(p) \/ Fail(p)
        \/ Stamp(p) \/ Finish(p) \/ Crash(p)

Spec == Init /\ [][Next]_vars

-----------------------------------------------------------------------------
(***************************************************************************)
(* Properties                                                              *)
(***************************************************************************)
\* "Never run a stale checker": the executable a command folds with was built
\* from the sources as they were when the command checked, or as they have
\* been since.
Current(p) == \E s \in proc[p].since : exe = {s}

RunsCurrentChecker == \A p \in Procs : At(p, "run") => Current(p)

\* A command folds with a stale checker only while a build that ended late has
\* an executable in place that is older than one before it: no edit during a
\* build, no kill, no hand build and no stamp of another command does it.
StaleOnlyIfOvertaken == \A p \in Procs : At(p, "run") /\ exe = latest => Current(p)
=============================================================================
