--------------------------- MODULE GpBuildProofs ----------------------------
(***************************************************************************)
(* Proof that a command runs a stale checker only while a build that ended *)
(* late has its executable in place, for any number of commands and hand   *)
(* builds that overlap, of edits and of kills, as long as edits never      *)
(* bring earlier contents back.                                            *)
(***************************************************************************)
EXTENDS GpBuild, TLAPS

-----------------------------------------------------------------------------
(***************************************************************************)
(* The inductive invariant.  Contents only get newer, and what was ever    *)
(* built only gets newer: the newest contents built are at least as new as *)
(* the stamp and as what any command at work will stamp.  Nothing is said  *)
(* of the executable itself, which a late build may replace by an older.   *)
(***************************************************************************)
Work == [pc : {"identify", "lake", "link", "stamp", "run"},
         since : SUBSET Nat, identity : SUBSET Nat, built : SUBSET Nat]

Files ==
    /\ newest \in Nat /\ sources = newest
    /\ latest = {} \/ \E e \in 0..newest : latest = {e}
    /\ stamp = {} \/ \E s \in 0..newest, e \in 0..newest : s <= e /\ stamp = {s} /\ latest = {e}

\* A command has seen every contents from some time up to the newest.
Sees(p) ==
    /\ newest \in proc[p].since
    /\ \A s \in proc[p].since : s <= newest /\ s..newest \subseteq proc[p].since

\* What a command in the middle of its work may rely on.
Knows(p) ==
    /\ Sees(p)
    /\ proc[p].pc \in {"lake", "link", "stamp"} =>
          proc[p].identity = {} \/ \E i \in proc[p].since : proc[p].identity = {i}
    /\ proc[p].pc = "link" =>
          \E b \in proc[p].since : proc[p].built = {b} /\ \A i \in proc[p].identity : i <= b
    /\ proc[p].pc = "stamp" =>
          /\ proc[p].identity # {}
          /\ \E e \in Nat : latest = {e} /\ \A i \in proc[p].identity : i <= e
    /\ proc[p].pc = "run" => \E e \in proc[p].since : latest = {e}

IInv ==
    /\ Files
    /\ proc \in [Procs -> {Idle} \cup Work]
    /\ \A p \in Procs : proc[p] # Idle => Knows(p)

\* The working states are told apart from Idle by their pc.
LEMMA WorkIsNotIdle ==
    ASSUME NEW r \in {Idle} \cup Work
    PROVE  (r = Idle <=> r.pc = "idle") /\ (r # Idle => r \in Work)
BY DEF Idle, Work

\* Seeing one more contents changes nothing else that a command knows.
Seen(r, n) == [r EXCEPT !.since = @ \cup {n}]

LEMMA SeenOneMore ==
    ASSUME NEW r \in Work, NEW n \in Nat
    PROVE  /\ Seen(r, n) \in Work /\ Seen(r, n).pc = r.pc
           /\ Seen(r, n).since = r.since \cup {n}
           /\ Seen(r, n).identity = r.identity /\ Seen(r, n).built = r.built
<1>1. r.since \cup {n} \in SUBSET Nat
  BY DEF Work
<1> QED BY <1>1 DEF Work, Seen

\* An edit: every command at work sees the new contents too.
LEMMA EditPreserves ==
    ASSUME IInv, ~Reverts, Edit
    PROVE  IInv'
<1>1. /\ newest' = newest + 1 /\ sources' = newest' /\ newest \in Nat
      /\ latest' = latest /\ stamp' = stamp /\ proc' = Seeing(newest')
  <2>1. PICK s \in 0..MaxEdits : /\ s = newest + 1 /\ sources' = s /\ proc' = Seeing(s)
                                 /\ newest' = IF s > newest THEN s ELSE newest
                                 /\ UNCHANGED <<exe, latest, stamp>>
    BY DEF Edit
  <2> QED BY <2>1 DEF IInv, Files
<1>2. Files'
  BY <1>1 DEF IInv, Files
<1>3. ASSUME NEW p \in Procs
      PROVE  /\ proc[p] = Idle => proc'[p] = Idle
             /\ proc[p] # Idle => /\ proc[p] \in Work
                                  /\ proc'[p] = Seen(proc[p], newest')
  BY <1>1, <1>3, WorkIsNotIdle DEF Seeing, Seen, At, IInv
<1>4. ASSUME NEW p \in Procs, proc[p] # Idle
      PROVE  /\ proc'[p] \in Work /\ proc'[p].pc = proc[p].pc
             /\ proc'[p].since = proc[p].since \cup {newest'}
             /\ proc'[p].identity = proc[p].identity /\ proc'[p].built = proc[p].built
  <2>1. newest' \in Nat
    BY <1>1
  <2> QED BY <1>3, <1>4, <2>1, SeenOneMore
<1>5. proc' \in [Procs -> {Idle} \cup Work]
  BY <1>1, <1>3, <1>4 DEF Seeing
<1>6. ASSUME NEW p \in Procs, proc'[p] # Idle
      PROVE  Knows(p)'
  <2>1. proc[p] # Idle /\ Knows(p)
    BY <1>3, <1>6 DEF IInv
  <2>2. Sees(p)'
    <3>1. proc'[p].since = proc[p].since \cup {newest'} /\ newest' = newest + 1 /\ newest \in Nat
      BY <1>1, <1>4, <2>1
    <3>2. /\ newest \in proc[p].since
          /\ \A s \in proc[p].since : s \in Nat /\ s <= newest /\ s..newest \subseteq proc[p].since
      BY <1>3, <2>1 DEF Knows, Sees, Work
    <3>3. ASSUME NEW s \in proc'[p].since
          PROVE  s <= newest' /\ s..newest' \subseteq proc'[p].since
      <4>1. CASE s = newest'
        BY <3>1, <4>1
      <4>2. CASE s \in proc[p].since
        <5>1. s \in Nat /\ s..newest' = s..newest \cup {newest'}
          BY <3>1, <3>2, <4>2
        <5> QED BY <3>1, <3>2, <4>2, <5>1
      <4> QED BY <3>1, <3>3, <4>1, <4>2
    <3> QED BY <3>1, <3>3 DEF Sees
  <2> QED BY <1>1, <1>4, <2>1, <2>2 DEF Knows
<1> QED BY <1>2, <1>5, <1>6 DEF IInv

\* A step of one command p that changes nothing the others rely on.
LEMMA LocalStep ==
    ASSUME IInv, UNCHANGED <<sources, newest, latest, stamp>>,
           NEW p \in Procs, NEW r \in {Idle} \cup Work, proc' = [proc EXCEPT ![p] = r],
           r # Idle => Knows(p)'
    PROVE  IInv'
<1>1. Files'
  BY DEF IInv, Files
<1>2. proc' \in [Procs -> {Idle} \cup Work] /\ \A q \in Procs : q # p => proc'[q] = proc[q]
  BY DEF IInv
<1>3. \A q \in Procs : proc'[q] # Idle => Knows(q)'
  BY <1>2 DEF IInv, Knows, Sees
<1> QED BY <1>1, <1>2, <1>3 DEF IInv

\* A command that stops at whatever point leaves nothing behind.
LEMMA StopPreserves ==
    ASSUME IInv, UNCHANGED <<sources, newest, latest, stamp>>,
           NEW p \in Procs, proc' = [proc EXCEPT ![p] = Idle]
    PROVE  IInv'
BY LocalStep DEF Idle

\* A command that starts to check, or a hand build, knows the sources.
LEMMA StartPreserves ==
    ASSUME IInv, UNCHANGED <<sources, newest, latest, stamp>>,
           NEW p \in Procs, NEW pc \in {"identify", "lake", "run"}, proc' = [proc EXCEPT ![p] = Started(pc)],
           pc = "run" => latest = {newest}
    PROVE  IInv'
<1> DEFINE r == Started(pc)
<1>1. /\ r \in Work /\ r.pc = pc /\ r.since = {newest} /\ r.identity = {}
      /\ newest \in Nat
  BY DEF Work, IInv, Files, Started
<1>2. proc'[p] = r
  BY DEF IInv
<1>3. Knows(p)'
  BY <1>1, <1>2 DEF Knows, Sees
<1> QED BY <1>1, <1>3, LocalStep

\* When newer contents have been built than ever before, every other command
\* may still rely on what it did.
LEMMA NewerBuilt ==
    ASSUME IInv, UNCHANGED <<sources, newest, stamp>>,
           NEW b \in 0..newest, latest' = {b}, \A e \in latest : e <= b,
           NEW q \in Procs, proc[q] # Idle, proc'[q] = proc[q]
    PROVE  Knows(q)'
<1>1. Knows(q) /\ Sees(q)'
  BY DEF IInv, Knows, Sees
<1>2. CASE proc[q].pc = "stamp"
  <2>1. PICK e \in Nat : latest = {e} /\ \A i \in proc[q].identity : i <= e
    BY <1>1, <1>2 DEF Knows
  <2>2. PICK i \in proc[q].since : proc[q].identity = {i}
    BY <1>1, <1>2 DEF Knows
  <2>3. i \in Nat
    BY <2>2, WorkIsNotIdle DEF IInv, Work
  <2>4. i <= b
    BY <2>1, <2>2, <2>3
  <2> QED BY <1>1, <1>2, <2>2, <2>4 DEF Knows, IInv, Files
<1>3. CASE proc[q].pc = "run"
  <2>1. PICK e \in proc[q].since : latest = {e}
    BY <1>1, <1>3 DEF Knows
  <2>2. e \in Nat /\ newest \in Nat
    BY <2>1, WorkIsNotIdle DEF IInv, Work, Files
  <2>3. b \in proc[q].since
    BY <1>1, <2>1, <2>2 DEF Knows, Sees
  <2> QED BY <1>1, <1>3, <2>3 DEF Knows
<1>4. CASE proc[q].pc \in {"identify", "lake", "link"}
  BY <1>1, <1>4 DEF Knows
<1>5. proc[q].pc \in {"identify", "lake", "link", "stamp", "run"}
  BY WorkIsNotIdle DEF IInv, Work
<1> QED BY <1>2, <1>3, <1>4, <1>5

\* A build puts its executable in place, however late, and goes on to stamp it
\* or, built by hand, does not.
LEMMA LinkPreserves ==
    ASSUME IInv, NEW p \in Procs, Link(p)
    PROVE  IInv'
<1>1. /\ proc[p] \in Work /\ Knows(p) /\ proc[p].pc = "link"
      /\ newest \in Nat /\ UNCHANGED <<sources, newest, stamp>>
  BY WorkIsNotIdle DEF Link, At, IInv, Files, Idle
<1>2. PICK b \in proc[p].since : proc[p].built = {b} /\ \A i \in proc[p].identity : i <= b
  BY <1>1 DEF Knows
<1>3. b \in 0..newest
  BY <1>1, <1>2 DEF Knows, Sees, Work
<1>4. PICK e \in 0..newest : latest' = {e} /\ b <= e /\ (\A a \in latest : a <= e)
  <2>1. latest' = Newer(latest, {b})
    BY <1>2 DEF Link
  <2>2. CASE latest = {}
    BY <1>3, <2>1, <2>2 DEF Newer
  <2>3. ASSUME NEW a \in 0..newest, latest = {a} PROVE \E e \in 0..newest : latest' = {e} /\ b <= e /\ a <= e
    <3>1. CASE a < b
      BY <1>3, <2>1, <2>3, <3>1 DEF Newer
    <3>2. CASE ~(a < b)
      BY <1>3, <2>1, <2>3, <3>2 DEF Newer
    <3> QED BY <3>1, <3>2
  <2> QED BY <2>2, <2>3 DEF IInv, Files
<1>5. \A q \in Procs : q # p /\ proc[q] # Idle => Knows(q)'
  <2>1. \A q \in Procs : q # p => proc'[q] = proc[q]
    BY DEF Link, IInv
  <2> QED BY <1>1, <1>4, <2>1, NewerBuilt
<1>6. Files'
  BY <1>1, <1>4 DEF IInv, Files
<1>7. CASE proc[p].identity = {}
  <2>1. proc' = [proc EXCEPT ![p] = Idle]
    BY <1>7 DEF Link
  <2> QED BY <1>5, <1>6, <2>1 DEF IInv
<1>8. CASE proc[p].identity # {}
  <2> DEFINE r == [proc[p] EXCEPT !.pc = "stamp"]
  <2>1. proc' = [proc EXCEPT ![p] = r]
    BY <1>8 DEF Link
  <2>2. r \in Work /\ r.pc = "stamp" /\ r.since = proc[p].since /\ r.identity = proc[p].identity
    BY <1>1 DEF Work
  <2>3. proc'[p] = r
    BY <2>1 DEF IInv
  <2>4. \A i \in r.identity : i \in Nat /\ i <= e
    BY <1>1, <1>2, <1>3, <1>4, <2>2 DEF Work
  <2> HIDE DEF r
  <2>5. Knows(p)'
    BY <1>1, <1>4, <1>8, <2>2, <2>3, <2>4 DEF Knows, Sees
  <2> QED BY <1>5, <1>6, <2>1, <2>2, <2>5 DEF IInv
<1> QED BY <1>7, <1>8

-----------------------------------------------------------------------------
LEMMA IInvNext ==
    ASSUME ~Reverts, IInv, [Next]_vars
    PROVE  IInv'
<1>1. CASE Edit
  BY <1>1, EditPreserves
<1>2. ASSUME NEW p \in Procs, UserBuild(p) PROVE IInv'
  BY <1>2, StartPreserves DEF UserBuild
<1>3. ASSUME NEW p \in Procs, Check(p) PROVE IInv'
  <2>1. ~Stale => latest = {newest}
    BY DEF Stale, IInv, Files
  <2> QED BY <1>3, <2>1, StartPreserves DEF Check
<1>4. ASSUME NEW p \in Procs, Identify(p) PROVE IInv'
  <2> DEFINE r == [proc[p] EXCEPT !.pc = "lake", !.identity = {sources}]
  <2>1. proc[p] \in Work /\ Knows(p) /\ newest \in Nat /\ sources = newest
    BY <1>4, WorkIsNotIdle DEF Identify, At, IInv, Files, Idle
  <2>2. r \in Work /\ r.pc = "lake" /\ r.identity = {newest} /\ r.since = proc[p].since
    BY <2>1 DEF Work
  <2>3. /\ proc'[p] = r /\ proc' = [proc EXCEPT ![p] = r]
        /\ UNCHANGED <<sources, newest, latest, stamp>>
    BY <1>4 DEF Identify, IInv
  <2>4. Knows(p)'
    BY <2>1, <2>2, <2>3 DEF Knows, Sees
  <2> QED BY <2>2, <2>3, <2>4, LocalStep
<1>5. ASSUME NEW p \in Procs, Compile(p) PROVE IInv'
  <2> DEFINE r == [proc[p] EXCEPT !.pc = "link", !.built = {sources}]
  <2>1. proc[p] \in Work /\ Knows(p) /\ newest \in Nat /\ sources = newest
    BY <1>5, WorkIsNotIdle DEF Compile, At, IInv, Files, Idle
  <2>2. /\ r \in Work /\ r.pc = "link" /\ r.built = {newest}
        /\ r.identity = proc[p].identity /\ r.since = proc[p].since
    BY <2>1 DEF Work
  <2>3. /\ proc'[p] = r /\ proc' = [proc EXCEPT ![p] = r]
        /\ UNCHANGED <<sources, newest, latest, stamp>>
    BY <1>5 DEF Compile, IInv
  <2>4. (\A i \in proc[p].since : i <= newest) /\ newest \in proc[p].since
    BY <2>1 DEF Knows, Sees
  <2>5. proc[p].identity = {} \/ \E i \in proc[p].since : proc[p].identity = {i}
    BY <1>5, <2>1 DEF Compile, At, Knows
  <2>6. Knows(p)'
    BY <2>1, <2>2, <2>3, <2>4, <2>5 DEF Knows, Sees
  <2> QED BY <2>2, <2>3, <2>6, LocalStep
<1>6. ASSUME NEW p \in Procs, Link(p) PROVE IInv'
  BY <1>6, LinkPreserves
<1>7. ASSUME NEW p \in Procs, Stamp(p) PROVE IInv'
  <2>1. proc[p] \in Work /\ Knows(p) /\ newest \in Nat /\ proc[p].pc = "stamp"
    BY <1>7, WorkIsNotIdle DEF Stamp, At, IInv, Files, Idle
  <2>2. PICK e \in Nat : latest = {e} /\ \A i \in proc[p].identity : i <= e
    BY <2>1 DEF Knows
  <2>3. PICK i \in proc[p].since : proc[p].identity = {i}
    BY <2>1 DEF Knows
  <2>4. i \in Nat /\ i <= e /\ e <= newest
    BY <2>1, <2>2, <2>3 DEF Work, IInv, Files
  <2>5. e \in proc[p].since
    BY <2>1, <2>3, <2>4 DEF Knows, Sees
  <2>6. stamp' = {i} /\ UNCHANGED <<sources, newest, latest>>
    BY <1>7, <2>3 DEF Stamp
  <2>7. /\ proc'[p] = [proc[p] EXCEPT !.pc = "run"]
        /\ \A q \in Procs : q # p => proc'[q] = proc[q]
    BY <1>7 DEF Stamp, IInv
  <2>8. /\ proc'[p] \in Work /\ proc'[p].pc = "run" /\ proc'[p].since = proc[p].since
    BY <2>1, <2>7 DEF Work
  <2>9. Knows(p)'
    BY <2>1, <2>2, <2>5, <2>6, <2>8 DEF Knows, Sees
  <2>10. \A q \in Procs : q # p /\ proc[q] # Idle => Knows(q)'
    BY <2>6, <2>7 DEF IInv, Knows, Sees
  <2>11. Files'
    BY <2>2, <2>4, <2>6 DEF IInv, Files
  <2>12. proc' \in [Procs -> {Idle} \cup Work]
    BY <1>7, <2>7, <2>8 DEF Stamp, IInv
  <2> QED BY <2>7, <2>9, <2>10, <2>11, <2>12 DEF IInv
<1>8. ASSUME NEW p \in Procs, Fail(p) \/ Finish(p) \/ Crash(p) PROVE IInv'
  BY <1>8, StopPreserves DEF Fail, Finish, Crash
<1>9. CASE UNCHANGED vars
  BY <1>9 DEF vars, IInv, Files, Knows, Sees
<1> QED BY <1>1, <1>2, <1>3, <1>4, <1>5, <1>6, <1>7, <1>8, <1>9 DEF Next

\* Builds may overlap and end in any order: a command folds with an executable
\* of the sources it looked at, or of newer ones, unless one that is older than
\* an executable before it stands there.
THEOREM CheckerIsCurrent ==
    ASSUME ~Reverts
    PROVE  Spec => []StaleOnlyIfOvertaken
<1>1. Init => IInv
  BY DEF Init, IInv, Files, Idle, At
<1>2. IInv /\ [Next]_vars => IInv'
  BY IInvNext
<1>3. IInv => StaleOnlyIfOvertaken
  BY DEF IInv, Knows, StaleOnlyIfOvertaken, Current, At, Idle
<1> QED BY <1>1, <1>2, <1>3, PTL DEF Spec
=============================================================================
