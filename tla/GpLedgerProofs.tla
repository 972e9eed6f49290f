--------------------------- MODULE GpLedgerProofs ---------------------------
(***************************************************************************)
(* What holds of every campaign, with any claims, receipts, branches and   *)
(* processes, any number of commands, and crashes wherever they fall.      *)
(***************************************************************************)
EXTENDS GpLedger, GpRecordsProofs

(***************************************************************************)
(* The fold and the withdrawals                                            *)
(***************************************************************************)

\* Nothing whose accepted support leads to a withdrawn claim is held.  The
\* offered claims that rest on none are closed under the fold's step, and what
\* is held is in every closed set.
LEMMA HeldRestsOnNothingWithdrawn ==
    ASSUME NEW recs
    PROVE  Held(recs) \cap RestsOnWithdrawn(recs) = {}
<1> DEFINE sup   == Supports(recs)
           rules == {e \in Offer(recs, NoTrial) : Stands(recs, e)}
           offer == {e.key : e \in rules}
           keys  == Withdrawn(recs) \cup DOMAIN sup
           lost  == RestsOnWithdrawn(recs)
           good  == offer \ lost
           rests == {<<k, PremisesOf[sup[k]]>> : k \in DOMAIN sup}
           Grown(T) == /\ Withdrawn(recs) \subseteq T
                       /\ \A e \in rests : e[2] \cap T # {} => e[1] \in T
<1>1. \A e \in Offer(recs, NoTrial) : e.key \in DOMAIN sup /\ e.receipt = sup[e.key]
  BY DEF Offer, NoTrial
<1>2. lost = {k \in keys : \A T \in SUBSET keys : Grown(T) => k \in T}
  BY DEF RestsOnWithdrawn
<1>3. ASSUME NEW e \in rules, PremisesOf[e.receipt] \subseteq good
      PROVE  e.key \in good
  <2>1. SUFFICES ASSUME e.key \in lost PROVE FALSE
    OBVIOUS
  <2> DEFINE rest == lost \ {e.key}
  <2>2. e.key \notin Withdrawn(recs) /\ e.key \in DOMAIN sup /\ PremisesOf[sup[e.key]] \cap lost = {}
    BY <1>1, <1>3 DEF Stands
  <2> HIDE DEF sup, offer, rules, lost, keys
  <2>3. Withdrawn(recs) \subseteq rest
    BY <1>2, <2>2 DEF keys
  <2>4. ASSUME NEW j \in DOMAIN sup, PremisesOf[sup[j]] \cap rest # {} PROVE j \in rest
    <3>1. ASSUME NEW T \in SUBSET keys, Grown(T) PROVE j \in T
      <4>1. rest \subseteq T
        BY <1>2, <3>1
      <4>2. <<j, PremisesOf[sup[j]]>> \in rests
        OBVIOUS
      <4> QED BY <2>4, <3>1, <4>1, <4>2
    <3>2. j \in lost
      BY <1>2, <3>1 DEF keys
    <3> QED BY <2>2, <2>4, <3>2
  <2>5. rest \in SUBSET keys /\ Grown(rest)
    BY <1>2, <2>3, <2>4
  <2> QED BY <1>2, <2>1, <2>5
<1>4. Held(recs) \subseteq good
  BY <1>3 DEF Held, HeldWith
<1> QED BY <1>4

\* In every state of every campaign, on every branch.
THEOREM WithdrawalReaches == Spec => []NothingHeldRestsOnWithdrawn
<1>1. NothingHeldRestsOnWithdrawn
  BY HeldRestsOnNothingWithdrawn DEF NothingHeldRestsOnWithdrawn
<1> QED BY <1>1, PTL

(***************************************************************************)
(* Receipts                                                                *)
(***************************************************************************)

LEMMA SeqOfItsContents ==
    ASSUME NEW S, NEW s \in Seq(S)
    PROVE  s \in Seq(Contents(s))
<1>1. Len(s) \in Nat /\ s \in [1..Len(s) -> S] /\ DOMAIN s = 1..Len(s)
  BY LenProperties
<1>2. s \in [1..Len(s) -> Contents(s)]
  BY <1>1 DEF Contents
<1> QED BY <1>1, <1>2, SeqDef

LEMMA AppendRecord ==
    ASSUME NEW s, s \in Seq(Contents(s)), NEW rec
    PROVE  /\ Append(s, rec) \in Seq(Contents(Append(s, rec)))
           /\ ReceiptsIn(Append(s, rec)) \subseteq ReceiptsIn(s) \cup ReceiptsIn(<<rec>>)
<1> DEFINE S == Contents(s) \cup {rec}
<1>1. s \in Seq(S)
  BY SeqMonotonic
<1>2. /\ Append(s, rec) \in Seq(S)
      /\ Len(s) \in Nat
      /\ DOMAIN s = 1..Len(s)
      /\ DOMAIN Append(s, rec) = 1..(Len(s) + 1)
      /\ \A i \in 1..Len(s) : Append(s, rec)[i] = s[i]
      /\ Append(s, rec)[Len(s) + 1] = rec
  BY <1>1, AppendProperties, LenProperties
<1>3. Append(s, rec) \in Seq(Contents(Append(s, rec)))
  BY <1>2, SeqOfItsContents
<1>4. ASSUME NEW i \in At(Append(s, rec), "support")
      PROVE  Append(s, rec)[i].receipt \in ReceiptsIn(s) \cup ReceiptsIn(<<rec>>)
  <2>1. CASE i = Len(s) + 1
    <3>1. Append(s, rec)[i] = rec /\ rec.op = "support"
      BY <1>2, <1>4, <2>1 DEF At
    <3>2. 1 \in DOMAIN <<rec>> /\ <<rec>>[1] = rec
      OBVIOUS
    <3>3. 1 \in At(<<rec>>, "support")
      BY <3>1, <3>2 DEF At
    <3> QED BY <3>1, <3>2, <3>3 DEF ReceiptsIn
  <2>2. CASE i \in 1..Len(s)
    <3>1. Append(s, rec)[i] = s[i] /\ i \in At(s, "support")
      BY <1>2, <1>4, <2>2 DEF At
    <3> QED BY <3>1 DEF ReceiptsIn
  <2>3. i = Len(s) + 1 \/ i \in 1..Len(s)
    BY <1>2, <1>4 DEF At
  <2> QED BY <2>1, <2>2, <2>3
<1> QED BY <1>3, <1>4 DEF ReceiptsIn

\* Each branch is a sequence of records beside its receipt files, and each
\* process works on some branch.
Custody ==
    /\ ledger = [b \in Branches |-> ledger[b]]
    /\ files = [b \in Branches |-> files[b]]
    /\ \A b \in Branches : /\ ledger[b] \in Seq(Contents(ledger[b]))
                          /\ ReceiptsIn(ledger[b]) \subseteq files[b]
    /\ proc = [p \in Procs |-> proc[p]]
    /\ \A p \in Procs : proc[p] # Idle => proc[p].branch \in Branches

LEMMA CustodyInit == Init => Custody
<1> SUFFICES ASSUME Init PROVE Custody
  OBVIOUS
<1>1. PICK start \in Starts : StartFrom(start)
  BY DEF Init
<1>2. start.recs \in Seq(Contents(start.recs))
  BY StartsType, SeqOfItsContents
<1> QED BY <1>1, <1>2 DEF Init, StartFrom, Custody

LEMMA CustodyStart ==
    ASSUME Custody, NEW p \in Procs, NEW b \in Branches, NEW cmd, NEW todo, NEW retry,
           Start(p, b, cmd, todo, retry)
    PROVE  Custody'
BY DEF Custody, Start

\* The receipt of a support is in its branch before the support is appended,
\* and a receipt file is never removed.
LEMMA CustodyWrite ==
    ASSUME Custody, NEW p \in Procs, Write(p)
    PROVE  Custody'
<1> DEFINE b   == proc[p].branch
           rec == NextRecord(p)
<1>1. p \in Procs /\ proc[p] # Idle /\ b \in Branches
  BY DEF Write, Working, Custody
<1>2. ledger' = [ledger EXCEPT ![b] = Append(@, rec)] /\ files' = files
  BY DEF Write
<1>3. ReceiptsIn(<<rec>>) \subseteq files[b]
  <2>1. CASE Head(proc[p].todo).op = "merging"
    <3>1. rec.op = "merge"
      BY <2>1 DEF NextRecord
    <3> QED BY <3>1 DEF ReceiptsIn, At
  <2>2. CASE Head(proc[p].todo).op # "merging"
    <3>1. rec = Head(proc[p].todo)
      BY <2>2 DEF NextRecord
    <3> QED BY <3>1 DEF Write, Needed
  <2> QED BY <2>1, <2>2
<1>4. /\ Append(ledger[b], rec) \in Seq(Contents(Append(ledger[b], rec)))
      /\ ReceiptsIn(Append(ledger[b], rec)) \subseteq files[b]
  BY <1>1, <1>3, AppendRecord DEF Custody
<1>5. \A c \in Branches : /\ ledger'[c] \in Seq(Contents(ledger'[c]))
                         /\ ReceiptsIn(ledger'[c]) \subseteq files'[c]
  BY <1>1, <1>2, <1>4 DEF Custody
<1>6. /\ ledger' = [c \in Branches |-> ledger'[c]]
      /\ files' = [c \in Branches |-> files'[c]]
  BY <1>1, <1>2 DEF Custody
<1>7. After(p) # Idle => After(p).branch = b
  BY DEF After
<1>8. /\ proc' = [q \in Procs |-> proc'[q]]
      /\ \A q \in Procs : proc'[q] # Idle => proc'[q].branch \in Branches
  BY <1>1, <1>7 DEF Custody, Write
<1> QED BY <1>5, <1>6, <1>8 DEF Custody

LEMMA CustodyNext == Custody /\ [Next]_vars => Custody'
<1> SUFFICES ASSUME Custody, [Next]_vars PROVE Custody'
  OBVIOUS
<1>1. CASE UNCHANGED vars
  BY <1>1 DEF vars, Custody
<1>2. ASSUME NEW b \in Branches, NEW s \in Statements, Edit(b, s) PROVE Custody'
  BY <1>2 DEF Edit, Custody
<1>3. ASSUME NEW p \in Procs, NEW b \in Branches, InitLedger(p, b) PROVE Custody'
  BY <1>3, CustodyStart DEF InitLedger
<1>4. ASSUME NEW p \in Procs, NEW b \in Branches, Restate(p, b) PROVE Custody'
  BY <1>4, CustodyStart DEF Restate
<1>5. ASSUME NEW p \in Procs, NEW b \in Branches, BeginMerge(p, b) PROVE Custody'
  BY <1>5, CustodyStart DEF BeginMerge
<1>6. ASSUME NEW p \in Procs, NEW b \in Branches, NEW k \in Keys, Claim(p, b, k) PROVE Custody'
  BY <1>6, CustodyStart DEF Claim
<1>7. ASSUME NEW p \in Procs, NEW b \in Branches, NEW e \in Offers, Submit(p, b, e) PROVE Custody'
  BY <1>7, CustodyStart DEF Submit
<1>8. ASSUME NEW p \in Procs, NEW b \in Branches, NEW batch \in Batches, Batch(p, b, batch)
      PROVE  Custody'
  BY <1>8, CustodyStart DEF Batch
<1>9. ASSUME NEW p \in Procs, NEW b \in Branches, NEW k \in Keys, NEW cascade \in BOOLEAN,
             WithdrawClaim(p, b, k, cascade)
      PROVE  Custody'
  BY <1>9, CustodyStart DEF WithdrawClaim
<1>10. ASSUME NEW p \in Procs, NEW other \in Branches, PlanMerge(p, other) PROVE Custody'
  <2>1. proc[p] # Idle
    BY <1>10 DEF PlanMerge, Idle
  <2>2. proc'[p] # Idle => proc'[p].branch = proc[p].branch
    BY <1>10 DEF PlanMerge, Custody
  <2> QED BY <1>10, <2>1, <2>2 DEF PlanMerge, Custody
<1>11. ASSUME NEW p \in Procs, SubmitNext(p) PROVE Custody'
  <2> DEFINE rec  == Verdict(proc[p].seen, Head(proc[p].retry))
             rest == [proc[p] EXCEPT !.todo = <<rec>>, !.retry = Tail(@),
                                     !.rounds = IF proc[p].cmd = "submit" /\ rec.op = "refused"
                                                THEN 0 ELSE @]
  <2>1. proc' = [proc EXCEPT ![p] = rest] /\ UNCHANGED <<ledger, files>> /\ proc[p] # Idle
    BY <1>11 DEF SubmitNext
  <2>2. rest.branch = proc[p].branch
    OBVIOUS
  <2> QED BY <2>1, <2>2 DEF Custody
<1>12. ASSUME NEW p \in Procs, NEW r \in Receipts, Store(p, r) PROVE Custody'
  BY <1>12 DEF Store, Working, Custody
<1>13. ASSUME NEW p \in Procs, Write(p) PROVE Custody'
  BY <1>13, CustodyWrite
<1>14. ASSUME NEW p \in Procs, Crash(p) PROVE Custody'
  BY <1>14 DEF Crash, Custody
<1>15. ASSUME NEW p \in Procs, NEW b \in Branches, FileGoal(p, b) PROVE Custody'
  BY <1>15, CustodyStart DEF FileGoal
<1>16. ASSUME NEW p \in Procs, NEW b \in Branches, NEW c \in Covers, Cover(p, b, c) PROVE Custody'
  BY <1>16, CustodyStart DEF Cover
<1>17. ASSUME NEW p \in Procs, SyncNext(p) PROVE Custody'
  <2>1. PICK e \in Worth(proc[p].seen) :
            LET rec == Verdict(proc[p].seen, e)
            IN  proc' = [proc EXCEPT ![p].todo   = <<rec>>,
                                     ![p].rounds = IF rec.op = "support" THEN @ - 1 ELSE @]
    BY <1>17 DEF SyncNext
  <2> DEFINE rec  == Verdict(proc[p].seen, e)
             rest == [proc[p] EXCEPT !.todo = <<rec>>,
                                     !.rounds = IF rec.op = "support" THEN @ - 1 ELSE @]
  <2>2. proc' = [proc EXCEPT ![p] = rest] /\ UNCHANGED <<ledger, files>> /\ proc[p] # Idle
    BY <1>17, <2>1 DEF SyncNext
  <2>3. rest.branch = proc[p].branch
    OBVIOUS
  <2> QED BY <2>2, <2>3 DEF Custody
<1> QED
  BY <1>1, <1>2, <1>3, <1>4, <1>5, <1>6, <1>7, <1>8, <1>9, <1>10, <1>11, <1>12, <1>13, <1>14,
     <1>15, <1>16, <1>17
  DEF Next

\* Every receipt a ledger cites is in its branch's directory, at every moment.
THEOREM ReceiptsStay == Spec => []ReceiptsInCustody
<1>1. Custody => ReceiptsInCustody
  BY DEF Custody, ReceiptsInCustody
<1> QED BY <1>1, CustodyInit, CustodyNext, PTL DEF Spec

(***************************************************************************)
(* Well-filed ledgers                                                      *)
(***************************************************************************)

\* What commands append: records, and the merge record yet to be made.
Entries == [key : Keys, receipt : Receipts]
Merging == [op |-> "merging"]
Lines   == Records \cup {Merging}

\* The parts of a record, by its kind.
LEMMA Parts ==
    ASSUME NEW r \in Lines
    PROVE  /\ r.op \in {"support", "refused"} => r.key \in Keys /\ r.receipt \in Receipts
           /\ r.op \in {"claim", "withdraw"} => r.key \in Keys
           /\ r.op = "init" => r.statement \in Statements
           /\ r.op = "restate" => r.old \in Statements /\ r.new \in Statements
           /\ r.op = "merging" <=> r = Merging
           /\ r.op # "merging" => r \in Records
BY DEF Lines, Records, Merging

\* The positions of the records that name a claim.
Naming(recs) == At(recs, "support") \cup At(recs, "refused") \cup At(recs, "withdraw")

\* Appending records that name claims filed before them keeps a ledger in shape.
LEMMA WellFiledAppend ==
    ASSUME NEW S, NEW s \in Seq(S), NEW t \in Seq(S), s # <<>>, WellFiled(s),
           At(t, "init") = {},
           \A i \in Naming(t) :
              t[i].key \in Claims(s) \/ \E j \in At(t, "claim") : j < i /\ t[j].key = t[i].key
    PROVE  WellFiled(s \o t)
<1>1. At(s, "init") = {1}
  BY DEF WellFiled
<1>2. At(s \o t, "init") = {1}
  <2>1. Adds(s, t, "init")
    BY ConcatKinds
  <2> QED BY <1>1, <2>1 DEF Adds
<1>3. Adds(s, t, "claim") /\ Adds(s, t, "support") /\ Adds(s, t, "refused") /\ Adds(s, t, "withdraw")
  BY ConcatKinds
<1>4. DOMAIN s = 1..Len(s) /\ DOMAIN t = 1..Len(t) /\ Len(s) \in Nat /\ Len(t) \in Nat
  BY LenProperties
<1>5. ASSUME NEW i \in Naming(s)
      PROVE  \E j \in At(s \o t, "claim") : j < i /\ (s \o t)[j].key = (s \o t)[i].key
  <2>1. PICK j \in At(s, "claim") : j < i /\ s[j].key = s[i].key
    BY DEF WellFiled, Naming
  <2>2. j \in At(s \o t, "claim") /\ (s \o t)[j] = s[j] /\ (s \o t)[i] = s[i]
    BY <1>3, <2>1 DEF Adds, Naming
  <2> QED BY <2>1, <2>2
<1>6. ASSUME NEW k \in Naming(t)
      PROVE  \E j \in At(s \o t, "claim") : j < Len(s) + k /\ (s \o t)[j].key = (s \o t)[Len(s) + k].key
  <2>1. (s \o t)[Len(s) + k] = t[k] /\ k \in 1..Len(t)
    BY <1>3, <1>4 DEF Adds, Naming, At
  <2>2. CASE t[k].key \in Claims(s)
    <3>1. PICK j \in At(s, "claim") : s[j].key = t[k].key
      BY <2>2 DEF Claims
    <3>2. j \in At(s \o t, "claim") /\ (s \o t)[j] = s[j] /\ j \in 1..Len(s)
      BY <1>3, <1>4 DEF Adds, At
    <3>3. j < Len(s) + k
      BY <1>4, <2>1, <3>2
    <3> QED BY <2>1, <3>1, <3>2, <3>3
  <2>3. CASE \E j \in At(t, "claim") : j < k /\ t[j].key = t[k].key
    <3>1. PICK j \in At(t, "claim") : j < k /\ t[j].key = t[k].key
      BY <2>3
    <3>2. Len(s) + j \in At(s \o t, "claim") /\ (s \o t)[Len(s) + j] = t[j] /\ j \in 1..Len(t)
      BY <1>3, <1>4 DEF Adds, At
    <3>3. Len(s) + j < Len(s) + k
      BY <1>4, <2>1, <3>1, <3>2
    <3> QED BY <2>1, <3>1, <3>2, <3>3
  <2> QED BY <2>2, <2>3
<1>7. \A i \in Naming(s \o t) : i \in Naming(s) \/ \E k \in Naming(t) : i = Len(s) + k
  BY <1>3 DEF Adds, Naming
<1>8. ASSUME NEW i \in Naming(s \o t)
      PROVE  \E j \in At(s \o t, "claim") : j < i /\ (s \o t)[j].key = (s \o t)[i].key
  <2>1. CASE i \in Naming(s)
    BY <1>5, <2>1
  <2>2. ASSUME NEW k \in Naming(t), i = Len(s) + k
        PROVE  \E j \in At(s \o t, "claim") : j < i /\ (s \o t)[j].key = (s \o t)[i].key
    BY <1>6, <2>2
  <2> QED BY <1>7, <2>1, <2>2
<1> QED BY <1>2, <1>8 DEF WellFiled, Naming

\* What a ledger was at an earlier moment was in shape.
LEMMA WellFiledBefore ==
    ASSUME NEW S, NEW s \in Seq(S), NEW t \in Seq(S), WellFiled(s \o t)
    PROVE  WellFiled(s)
<1>1. /\ DOMAIN s = 1..Len(s) /\ DOMAIN t = 1..Len(t) /\ Len(s) \in Nat /\ Len(t) \in Nat
      /\ DOMAIN (s \o t) = 1..(Len(s) + Len(t))
      /\ \A i \in DOMAIN s : i \in DOMAIN (s \o t) /\ (s \o t)[i] = s[i]
  BY ConcatAt
<1>2. CASE s = <<>>
  BY <1>2 DEF WellFiled, At
<1>3. CASE s # <<>>
  <2>1. 1 \in DOMAIN s
    BY <1>1, <1>3, EmptySeq
  <2>2. s \o t # <<>>
    BY <1>1, <2>1
  <2>3. At(s \o t, "init") = {1}
    BY <2>2 DEF WellFiled
  <2>4. At(s, "init") = {1}
    BY <1>1, <2>1, <2>3 DEF At
  <2>5. ASSUME NEW i \in Naming(s)
        PROVE  \E j \in At(s, "claim") : j < i /\ s[j].key = s[i].key
    <3>1. i \in Naming(s \o t) /\ (s \o t)[i] = s[i] /\ i \in 1..Len(s)
      BY <1>1 DEF Naming, At
    <3>2. PICK j \in At(s \o t, "claim") : j < i /\ (s \o t)[j].key = (s \o t)[i].key
      BY <3>1 DEF WellFiled, Naming
    <3>3. j \in 1..Len(s)
      BY <1>1, <3>1, <3>2 DEF At
    <3>4. (s \o t)[j] = s[j] /\ j \in At(s, "claim")
      BY <1>1, <3>2, <3>3 DEF At
    <3> QED BY <3>1, <3>2, <3>4
  <2> QED BY <2>4, <2>5 DEF WellFiled, Naming
<1> QED BY <1>2, <1>3

\* A label conflict does not go away.
LEMMA ConflictStays ==
    ASSUME NEW S, NEW s \in Seq(S), NEW t \in Seq(S), LabelConflict(s)
    PROVE  LabelConflict(s \o t)
<1>1. Claims(s) \subseteq Claims(s \o t)
  BY ConcatSays
<1> QED BY <1>1 DEF LabelConflict

(***************************************************************************)
(* What a command is to append                                             *)
(***************************************************************************)

WellFormed(recs) == recs # <<>> /\ WellFiled(recs) /\ ~LabelConflict(recs)

Due(c) == c.seen \o c.todo

\* A running command: what it has yet to append leaves the ledger it knows in
\* shape, after every record and whichever way its receipts are decided.
Fields == {"cmd", "branch", "seen", "todo", "retry", "rounds"}

Sound(c) ==
    /\ Fields \subseteq DOMAIN c
    /\ c.branch \in Branches
    /\ c.seen \in Seq(Records) /\ c.todo \in Seq(Lines)
    /\ c.retry \in Seq(Entries) /\ c.rounds \in Nat
    /\ \A i \in DOMAIN c.todo :
          c.todo[i] = Merging => i = Len(c.todo) /\ c.cmd = "merge" /\ c.other \in Branches
    /\ c.cmd = "merge" => c.rounds = 0 /\ c.retry = <<>>
    /\ WellFormed(Due(c))
    /\ \A i \in DOMAIN c.retry : c.retry[i].key \in Claims(Due(c))

\* What it starts with.
Fits(recs, todo, retry) ==
    /\ todo \in Seq(Records) /\ retry \in Seq(Entries)
    /\ WellFormed(recs \o todo)
    /\ \A i \in DOMAIN retry : retry[i].key \in Claims(recs \o todo)

\* A claim is filed when neither it nor its label is.
LEMMA FilingFits ==
    ASSUME NEW recs \in Seq(Records), WellFormed(recs), NEW todo \in Seq(Records),
           \A i \in DOMAIN todo : /\ todo[i].op = "claim"
                                 /\ LabelOf[todo[i].key] \notin LabelsTaken(recs),
           \A i, j \in DOMAIN todo :
              LabelOf[todo[i].key] = LabelOf[todo[j].key] => todo[i].key = todo[j].key
    PROVE  WellFormed(recs \o todo)
<1>1. recs \o todo # <<>>
  BY ConcatEqualIffEmpty DEF WellFormed
<1>2. WellFiled(recs \o todo)
  <2>1. At(todo, "init") = {} /\ Naming(todo) = {}
    BY DEF At, Naming
  <2> QED BY <2>1, WellFiledAppend DEF WellFormed
<1>3. ASSUME NEW k \in Claims(recs \o todo), NEW l \in Claims(recs \o todo),
             LabelOf[k] = LabelOf[l]
      PROVE  k = l
  <2>1. Claims(recs \o todo) = Claims(recs) \cup Claims(todo)
    BY ConcatSays
  <2>2. \A m \in Claims(todo) : /\ LabelOf[m] \notin LabelsTaken(recs)
                                /\ \E i \in DOMAIN todo : todo[i].key = m
    BY DEF Claims, At
  <2>3. \A m \in Claims(recs) : LabelOf[m] \in LabelsTaken(recs)
    BY DEF LabelsTaken
  <2>4. k \in Claims(recs) /\ l \in Claims(recs) => k = l
    BY <1>3 DEF WellFormed, LabelConflict
  <2>5. k \in Claims(todo) /\ l \in Claims(todo) => k = l
    BY <1>3, <2>2
  <2> QED BY <1>3, <2>1, <2>2, <2>3, <2>4, <2>5
<1> QED BY <1>1, <1>2, <1>3 DEF WellFormed, LabelConflict

LEMMA RecordsLines == \A s \in Seq(Records) : s \in Seq(Lines)
BY SeqMonotonic DEF Lines

\* The goal's claims are filed when they are missing, and then none is.
LEMMA GoalFits ==
    ASSUME NEW recs \in Seq(Records), WellFormed(recs)
    PROVE  /\ GoalRecords(recs) \in Seq(Records)
           /\ Filed(recs) \in Seq(Records)
           /\ WellFormed(Filed(recs))
           /\ Claims(Filed(recs)) = Claims(recs) \cup Range(GoalClaims)
           /\ \A i \in DOMAIN GoalRecords(recs) : GoalRecords(recs)[i].op = "claim"
<1> DEFINE missing == Only(GoalClaims, Keys \ Claims(recs))
           goal == GoalRecords(recs)
<1>1. missing \in Seq(Keys) /\ Contents(missing) = Contents(GoalClaims) \cap (Keys \ Claims(recs))
  BY GoalsType, OnlyContents
<1>2. goal = [i \in DOMAIN missing |-> ClaimRecord(missing[i])]
  BY DEF GoalRecords
<1> HIDE DEF missing, goal
<1>3. DOMAIN missing = 1..Len(missing) /\ Len(missing) \in Nat /\ \A i \in DOMAIN missing : missing[i] \in Keys
  BY <1>1, LenProperties, ElementOfSeq
<1>4. \A i \in DOMAIN missing : ClaimRecord(missing[i]) \in Records
  BY <1>3 DEF ClaimRecord, Records
<1>5. goal \in Seq(Records)
  <2>1. goal \in [1..Len(missing) -> Records]
    BY <1>2, <1>3, <1>4
  <2> QED BY <1>3, <2>1, SeqDef
<1>6. Range(GoalClaims) \subseteq Keys /\ Contents(GoalClaims) = Range(GoalClaims)
  BY GoalsType, RangeOfSeq DEF Contents, Range
<1>7. DOMAIN goal = DOMAIN missing /\ \A i \in DOMAIN goal : goal[i].op = "claim" /\ goal[i].key = missing[i]
  BY <1>2 DEF ClaimRecord
<1>8. Claims(goal) = Range(GoalClaims) \ Claims(recs)
  <2>1. Claims(goal) = Contents(missing)
    BY <1>7 DEF Claims, At, Contents
  <2> QED BY <1>1, <1>6, <2>1
<1>9. Claims(recs \o goal) = Claims(recs) \cup Range(GoalClaims)
  BY <1>5, <1>8, ConcatSays
<1>10. WellFormed(recs \o goal)
  <2>1. \A i \in DOMAIN goal : goal[i].key \in Keys \ Claims(recs) /\ goal[i].key \in Range(GoalClaims)
    BY <1>1, <1>6, <1>7 DEF Contents
  <2>2. \A k \in Range(GoalClaims), l \in Keys : LabelOf[l] = LabelOf[k] => l = k
    BY GoalsType DEF Range
  <2>3. Claims(recs) \subseteq Keys
    <3>1. \A i \in At(recs, "claim") : recs[i] \in Records /\ recs[i].op = "claim"
      BY LenProperties, ElementOfSeq DEF At
    <3> QED BY <3>1, Parts DEF Claims, Lines
  <2>4. \A i \in DOMAIN goal : LabelOf[goal[i].key] \notin LabelsTaken(recs)
    BY <2>1, <2>2, <2>3 DEF LabelsTaken
  <2>5. \A i, j \in DOMAIN goal : LabelOf[goal[i].key] = LabelOf[goal[j].key] => goal[i].key = goal[j].key
    BY <2>1, <2>2
  <2> QED BY <1>5, <1>7, <2>4, <2>5, FilingFits
<1>11. recs \o goal \in Seq(Records)
  BY <1>5, ConcatProperties
<1> QED BY <1>5, <1>7, <1>9, <1>10, <1>11 DEF Filed, goal

\* Records that name filed claims may be appended.
LEMMA NamingFits ==
    ASSUME NEW S, NEW recs \in Seq(S), WellFormed(recs), NEW todo \in Seq(S),
           \A i \in DOMAIN todo : /\ todo[i].op \in {"support", "refused", "withdraw"}
                                 /\ todo[i].key \in Claims(recs)
    PROVE  WellFormed(recs \o todo) /\ Claims(recs \o todo) = Claims(recs)
<1>1. recs \o todo # <<>>
  BY ConcatEqualIffEmpty DEF WellFormed
<1>2. WellFiled(recs \o todo)
  <2>1. At(todo, "init") = {} /\ \A i \in Naming(todo) : todo[i].key \in Claims(recs)
    BY DEF At, Naming
  <2> QED BY <2>1, WellFiledAppend DEF WellFormed
<1>3. Claims(recs \o todo) = Claims(recs)
  <2>1. Claims(todo) = {}
    BY DEF Claims, At
  <2> QED BY <2>1, ConcatSays
<1> QED BY <1>1, <1>2, <1>3 DEF WellFormed, LabelConflict

\* Either way a receipt is decided, a record of it is made.
LEMMA VerdictRecords ==
    ASSUME NEW e \in Entries, NEW recs
    PROVE  /\ Verdict(recs, e) \in {Support(e), Refused(e)}
           /\ Support(e) \in Records /\ Refused(e) \in Records
           /\ Support(e).op = "support" /\ Support(e).key = e.key
           /\ Refused(e).op = "refused" /\ Refused(e).key = e.key
BY DEF Verdict, Entries, Records, Support, Refused

\* A ledger's records are made by commands, and its claims are claims.
LEMMA ClaimsKeys ==
    ASSUME NEW recs \in Seq(Records)
    PROVE  Claims(recs) \subseteq Keys
<1>1. \A i \in At(recs, "claim") : recs[i] \in Records /\ recs[i].op = "claim"
  BY LenProperties, ElementOfSeq DEF At
<1> QED BY <1>1, Parts DEF Claims, Lines

\* A supported claim is filed.
LEMMA SupportsFiled ==
    ASSUME NEW S, NEW recs \in Seq(S), WellFiled(recs)
    PROVE  DOMAIN Supports(recs) \subseteq Claims(recs)
<1>1. \A i \in At(recs, "support") : recs[i].key \in Claims(recs)
  BY DEF WellFiled, Claims
<1>2. SupportsLatest(recs)
  BY SupportsAre
<1> QED BY <1>1, <1>2 DEF SupportsLatest

LEMMA SupportRecords ==
    ASSUME NEW recs \in Seq(Records), NEW k \in DOMAIN Supports(recs)
    PROVE  /\ k \in Keys /\ Supports(recs)[k] \in Receipts
           /\ Support([key |-> k, receipt |-> Supports(recs)[k]]) \in Contents(recs)
<1>1. SupportsLatest(recs)
  BY SupportsAre
<1>2. PICK i : IsLatest(recs, k, i)
  BY <1>1 DEF SupportsLatest
<1>3. recs[i] \in Records /\ recs[i].op = "support" /\ recs[i].key = k /\ i \in DOMAIN recs
  BY <1>2, LenProperties, ElementOfSeq DEF IsLatest, At
<1>4. Supports(recs)[k] = recs[i].receipt
  BY <1>1, <1>2 DEF SupportsLatest
<1>5. recs[i] = Support([key |-> k, receipt |-> recs[i].receipt]) /\ k \in Keys /\ recs[i].receipt \in Receipts
  BY <1>3 DEF Records, Support
<1> QED BY <1>3, <1>4, <1>5 DEF Contents

\* The records a batch makes of the receipts its folds decided.
Recorded(first, kept) ==
    [i \in DOMAIN first |-> IF first[i] \in kept THEN Support(first[i]) ELSE Refused(first[i])]

\* What a batch records and tries again names claims its ledger has.
LEMMA BatchFits ==
    ASSUME NEW recs \in Seq(Records), WellFormed(recs), NEW batch \in Seq(Entries)
    PROVE  LET plan == BatchPlan(recs, batch)
           IN  /\ plan.todo \in Seq(Records) /\ plan.retry \in Seq(Entries)
               /\ \A i \in DOMAIN plan.todo : /\ plan.todo[i].op \in {"support", "refused"}
                                             /\ plan.todo[i].key \in Claims(recs)
               /\ \A i \in DOMAIN plan.retry : plan.retry[i].key \in Claims(recs)
<1> DEFINE prepared == Only(batch, {e \in ToSet(batch) : e.key \in Submittable(recs)})
           plan == BatchPlan(recs, batch)
           Known(es) == es \in Seq(Entries) /\ \A i \in DOMAIN es : es[i].key \in Claims(recs)
<1>1. ASSUME NEW es \in Seq(Entries), \A e \in Contents(es) : e.key \in Claims(recs), NEW T
      PROVE  Known(Only(es, T))
  <2>1. Only(es, T) \in Seq(Entries) /\ Contents(Only(es, T)) = Contents(es) \cap T
    BY OnlyContents
  <2>2. \A i \in DOMAIN Only(es, T) : Only(es, T)[i] \in Contents(Only(es, T))
    BY DEF Contents
  <2> QED BY <1>1, <2>1, <2>2
<1>2. prepared \in Seq(Entries) /\ Contents(prepared) = Contents(batch) \cap {e \in ToSet(batch) : e.key \in Submittable(recs)}
  BY OnlyContents
<1>3. \A e \in Contents(prepared) : e.key \in Claims(recs)
  BY <1>2 DEF Submittable
<1>4. Known(prepared)
  BY <1>2, <1>3 DEF Contents
<1> HIDE DEF prepared
<1>5. ASSUME NEW first, Known(first), NEW kept
      PROVE  /\ Recorded(first, kept) \in Seq(Records)
             /\ \A i \in DOMAIN Recorded(first, kept) :
                   /\ Recorded(first, kept)[i].op \in {"support", "refused"}
                   /\ Recorded(first, kept)[i].key \in Claims(recs)
  <2> DEFINE todo == Recorded(first, kept)
  <2>1. DOMAIN first = 1..Len(first) /\ Len(first) \in Nat /\ \A i \in DOMAIN first : first[i] \in Entries
    BY <1>5, LenProperties, ElementOfSeq
  <2>2. /\ DOMAIN todo = DOMAIN first
        /\ \A i \in DOMAIN first : todo[i] \in {Support(first[i]), Refused(first[i])}
    BY DEF Recorded
  <2>3. \A i \in DOMAIN first : /\ todo[i] \in Records
                               /\ todo[i].op \in {"support", "refused"}
                               /\ todo[i].key = first[i].key
    <3>1. ASSUME NEW i \in DOMAIN first
          PROVE  /\ Support(first[i]) \in Records /\ Refused(first[i]) \in Records
                 /\ Support(first[i]).op = "support" /\ Support(first[i]).key = first[i].key
                 /\ Refused(first[i]).op = "refused" /\ Refused(first[i]).key = first[i].key
      BY <2>1, VerdictRecords
    <3> HIDE DEF todo
    <3> QED BY <2>2, <3>1
  <2>4. todo \in [1..Len(first) -> Records]
    BY <2>1, <2>3 DEF Recorded
  <2>5. todo \in Seq(Records)
    BY <2>1, <2>4, SeqDef
  <2> QED BY <1>5, <2>2, <2>3, <2>5
<1>6. CASE \E e \in ToSet(prepared) : e.receipt \in Broken
  <2>1. plan = [todo |-> <<>>, retry |-> prepared]
    BY <1>6 DEF BatchPlan, prepared
  <2>2. <<>> \in Seq(Records) /\ DOMAIN <<>> = {}
    BY EmptySeq
  <2> QED BY <1>4, <2>1, <2>2
<1>7. CASE ~ \E e \in ToSet(prepared) : e.receipt \in Broken
  <2>1. \E held, kept :
            plan = [todo  |-> Recorded(Only(prepared, ToSet(prepared) \ (held \ kept)), kept),
                    retry |-> Only(prepared, held \ kept)]
    BY <1>7 DEF BatchPlan, prepared, Recorded
  <2>2. PICK held, kept :
            plan = [todo  |-> Recorded(Only(prepared, ToSet(prepared) \ (held \ kept)), kept),
                    retry |-> Only(prepared, held \ kept)]
    BY <2>1
  <2> DEFINE first == Only(prepared, ToSet(prepared) \ (held \ kept))
             again == Only(prepared, held \ kept)
  <2>3. Known(first) /\ Known(again)
    BY <1>1, <1>2, <1>3
  <2>4. plan.todo = Recorded(first, kept) /\ plan.retry = again
    BY <2>2
  <2> HIDE DEF plan, first, again
  <2> QED BY <1>5, <2>3, <2>4 DEF plan
<1> QED BY <1>6, <1>7

(***************************************************************************)
(* Merges                                                                  *)
(***************************************************************************)

\* The parts of a merge plan: the records of theirs that ours lacks, the
\* support that wins where the two differ, those that the merged order would
\* bury, and the records that file them again.
Fresh(ours, theirs) == Only(theirs, Contents(theirs) \ Contents(ours))

Both(ours, theirs) == DOMAIN Supports(ours) \cap DOMAIN Supports(theirs)

Citing(recs, k) == Support([key |-> k, receipt |-> Supports(recs)[k]])

Stay(ours, theirs) == {k \in Both(ours, theirs) : Citing(theirs, k) \in Contents(ours)}

Give(ours, theirs) ==
    {k \in Both(ours, theirs) \ Stay(ours, theirs) : Citing(ours, k) \in Contents(theirs)}

Chosen(ours, theirs) ==
    [k \in Stay(ours, theirs) \cup Give(ours, theirs) |->
        IF k \in Stay(ours, theirs) THEN Supports(ours)[k] ELSE Supports(theirs)[k]]

Buried(ours, theirs) ==
    {k \in DOMAIN Chosen(ours, theirs) :
        Supports(ours \o Fresh(ours, theirs))[k] # Chosen(ours, theirs)[k]}

Refiled(ours, theirs) ==
    {Support([key |-> k, receipt |-> Chosen(ours, theirs)[k]]) : k \in Buried(ours, theirs)}

LEMMA MergePlanParts ==
    ASSUME NEW ours, NEW theirs
    PROVE  /\ MergePlan(ours, theirs).new = Fresh(ours, theirs) \o SetToSeq(Refiled(ours, theirs))
           /\ MergePlan(ours, theirs).split = Both(ours, theirs) \ DOMAIN Chosen(ours, theirs)
BY DEF MergePlan, Fresh, Both, Citing, Stay, Give, Chosen, Buried, Refiled

LEMMA ChosenIs ==
    ASSUME NEW ours \in Seq(Records), NEW theirs \in Seq(Records), NEW k \in DOMAIN Chosen(ours, theirs)
    PROVE  /\ k \in Both(ours, theirs) /\ k \in Keys
           /\ Chosen(ours, theirs)[k] \in {Supports(ours)[k], Supports(theirs)[k]}
           /\ Chosen(ours, theirs)[k] \in Receipts
<1>1. k \in Both(ours, theirs)
  BY DEF Chosen, Stay, Give
<1>2. Chosen(ours, theirs)[k] \in {Supports(ours)[k], Supports(theirs)[k]}
  BY DEF Chosen
<1>3. k \in Keys /\ Supports(ours)[k] \in Receipts /\ Supports(theirs)[k] \in Receipts
  BY <1>1, SupportRecords DEF Both
<1> QED BY <1>1, <1>2, <1>3

\* The supports filed again: one for each buried claim, the chosen one.
LEMMA RefiledIs ==
    ASSUME NEW ours \in Seq(Records), NEW theirs \in Seq(Records)
    PROVE  LET again == SetToSeq(Refiled(ours, theirs))
           IN  /\ again \in Seq(Records)
               /\ \A i \in DOMAIN again : /\ again[i].op = "support"
                                         /\ again[i].key \in Buried(ours, theirs)
                                         /\ again[i].receipt = Chosen(ours, theirs)[again[i].key]
               /\ \A k \in Buried(ours, theirs) : \E i \in DOMAIN again : again[i].key = k
<1> DEFINE buried == Buried(ours, theirs)
           chosen == Chosen(ours, theirs)
           rec == [k \in buried |-> Support([key |-> k, receipt |-> chosen[k]])]
           refiled == Refiled(ours, theirs)
           again == SetToSeq(refiled)
<1>1. IsFiniteSet(buried) /\ buried \in SUBSET DOMAIN chosen
  <2>1. buried \subseteq DOMAIN Supports(ours)
    BY ChosenIs DEF Buried, Both
  <2> QED BY <2>1, SupportsFinite, FS_Subset DEF Buried
<1>2. refiled = {rec[k] : k \in buried}
  BY DEF Refiled
<1>3. IsFiniteSet(refiled)
  <2>1. rec \in Surjection(buried, refiled)
    BY <1>2 DEF Surjection
  <2> HIDE DEF rec, buried, refiled
  <2> QED BY <1>1, <2>1, FS_Surjection
<1>4. again \in Seq(refiled) /\ Contents(again) = refiled
  <2> HIDE DEF refiled
  <2> QED BY <1>3, SetToSeqOfFinite
<1>5. \A k \in buried : rec[k].op = "support" /\ rec[k].key = k /\ rec[k].receipt = chosen[k]
  BY DEF Support
<1>6. \A k \in buried : rec[k] \in Records
  <2>1. \A k \in buried : k \in Keys /\ chosen[k] \in Receipts
    BY <1>1, ChosenIs
  <2> HIDE DEF buried, chosen
  <2> QED BY <2>1 DEF Support, Records
<1> HIDE DEF rec, refiled, again, buried, chosen
<1>7. again \in Seq(Records)
  <2>1. refiled \subseteq Records
    BY <1>2, <1>6
  <2> QED BY <1>4, <2>1, SeqMonotonic
<1>8. \A i \in DOMAIN again : \E k \in buried : again[i] = rec[k]
  BY <1>2, <1>4 DEF Contents
<1>9. \A k \in buried : \E i \in DOMAIN again : again[i] = rec[k]
  BY <1>2, <1>4 DEF Contents
<1>10. \A i \in DOMAIN again : /\ again[i].op = "support" /\ again[i].key \in buried
                              /\ again[i].receipt = chosen[again[i].key]
  BY <1>5, <1>8
<1>11. \A k \in buried : \E i \in DOMAIN again : again[i].key = k
  BY <1>5, <1>9
<1> QED BY <1>7, <1>10, <1>11 DEF again, refiled, buried, chosen

\* A merged ledger is in shape: its records name claims that came before.
LEMMA MergeFits ==
    ASSUME NEW ours \in Seq(Records), NEW theirs \in Seq(Records),
           WellFormed(ours), WellFiled(theirs), Mergeable(ours, theirs)
    PROVE  LET new == MergePlan(ours, theirs).new
           IN  new \in Seq(Records) /\ WellFormed(ours \o new)
<1> DEFINE pick  == Fresh(ours, theirs)
           again == SetToSeq(Refiled(ours, theirs))
           new   == MergePlan(ours, theirs).new
           T     == Contents(theirs) \ Contents(ours)
           merged == ours \o pick
<1>1. /\ pick \in Seq(Records) /\ again \in Seq(Records) /\ new \in Seq(Records)
      /\ new = pick \o again
      /\ Contents(pick) = Contents(theirs) \cap T
  <2>1. pick \in Seq(Records) /\ Contents(pick) = Contents(theirs) \cap T
    <3> HIDE DEF T
    <3> QED BY OnlyContents DEF Fresh, T
  <2>2. again \in Seq(Records)
    BY RefiledIs
  <2>3. new = pick \o again
    BY MergePlanParts
  <2> HIDE DEF pick, again, new
  <2> QED BY <2>1, <2>2, <2>3, ConcatProperties
<1>2. PICK at : Picks(pick, theirs, T, at)
  BY OnlyKeeps DEF Fresh
<1>3. ours # <<>> /\ theirs # <<>> /\ theirs[1] = ours[1] /\ ~LabelConflict(ours \o new)
  BY DEF Mergeable, WellFormed
<1> HIDE DEF pick, again, new
<1>4. At(pick, "init") = {}
  <2>1. SUFFICES ASSUME NEW i \in At(pick, "init") PROVE FALSE
    OBVIOUS
  <2>2. i \in DOMAIN pick /\ pick[i].op = "init" /\ pick[i] \notin Contents(ours)
    BY <1>2, <2>1 DEF Picks, At
  <2>3. at[i] \in At(theirs, "init") /\ pick[i] = theirs[at[i]]
    BY <1>2, <2>2 DEF Picks, At
  <2>4. at[i] = 1
    BY <1>3, <2>3 DEF WellFiled
  <2>5. 1 \in DOMAIN ours
    BY <1>3, LenProperties, EmptySeq
  <2> QED BY <1>3, <2>2, <2>3, <2>4, <2>5 DEF Contents
<1>5. ASSUME NEW i \in Naming(pick)
      PROVE  \/ pick[i].key \in Claims(ours)
             \/ \E j \in At(pick, "claim") : j < i /\ pick[j].key = pick[i].key
  <2>1. i \in DOMAIN pick /\ at[i] \in Naming(theirs) /\ pick[i] = theirs[at[i]]
    BY <1>2 DEF Picks, Naming, At
  <2>2. PICK j \in At(theirs, "claim") : j < at[i] /\ theirs[j].key = pick[i].key
    BY <2>1 DEF WellFiled, Naming
  <2>3. CASE theirs[j] \in Contents(ours)
    <3>1. PICK m \in DOMAIN ours : ours[m] = theirs[j]
      BY <2>3 DEF Contents
    <3>2. m \in At(ours, "claim") /\ ours[m].key = pick[i].key
      BY <2>2, <3>1 DEF At
    <3> QED BY <3>2 DEF Claims
  <2>4. CASE theirs[j] \notin Contents(ours)
    <3>1. j \in DOMAIN theirs /\ theirs[j] \in T
      BY <2>4 DEF At, Contents
    <3>2. PICK n \in DOMAIN pick : at[n] = j
      BY <1>2, <3>1 DEF Picks
    <3>3. pick[n] = theirs[j] /\ n \in At(pick, "claim") /\ pick[n].key = pick[i].key
      BY <1>2, <2>2, <3>2 DEF Picks, At
    <3>4. n < i
      <4>1. DOMAIN pick = 1..Len(pick) /\ DOMAIN theirs = 1..Len(theirs)
        BY <1>1, LenProperties
      <4>2. at[n] \in Int /\ at[i] \in Int /\ n \in Int /\ i \in Int
        BY <1>2, <2>1, <3>2, <4>1 DEF Picks
      <4>3. ~(i < n) /\ i # n
        BY <1>2, <2>1, <2>2, <3>2, <4>2 DEF Picks
      <4> QED BY <4>2, <4>3
    <3> QED BY <3>3, <3>4
  <2> QED BY <2>3, <2>4
<1>6. WellFiled(merged) /\ merged # <<>> /\ merged \in Seq(Records)
  <2>1. WellFiled(merged)
    BY <1>1, <1>3, <1>4, <1>5, WellFiledAppend DEF WellFormed
  <2>2. merged # <<>>
    BY <1>1, <1>3, ConcatEqualIffEmpty
  <2>3. merged \in Seq(Records)
    BY <1>1, ConcatProperties
  <2> QED BY <2>1, <2>2, <2>3
<1>7. WellFiled(merged \o again)
  <2>1. \A i \in DOMAIN again : again[i].op = "support" /\ again[i].key \in Claims(ours)
    <3>1. Buried(ours, theirs) \subseteq Claims(ours)
      <4>1. \A k \in Buried(ours, theirs) : k \in DOMAIN Supports(ours)
        BY ChosenIs DEF Buried, Both
      <4> QED BY <4>1, SupportsFiled DEF WellFormed
    <3> QED BY <3>1, RefiledIs DEF again
  <2>2. Claims(ours) \subseteq Claims(merged)
    BY <1>1, ConcatSays
  <2>3. At(again, "init") = {} /\ \A i \in Naming(again) : again[i].key \in Claims(merged)
    BY <2>1, <2>2 DEF At, Naming
  <2> HIDE DEF merged
  <2> QED BY <1>1, <1>6, <2>3, WellFiledAppend
<1>8. merged \o again = ours \o new
  BY <1>1, ConcatTwice
<1>9. ours \o new # <<>>
  BY <1>1, <1>3, ConcatEqualIffEmpty
<1>10. WellFormed(ours \o new)
  BY <1>3, <1>7, <1>8, <1>9 DEF WellFormed
<1> QED BY <1>1, <1>10 DEF new

(***************************************************************************)
(* Each step of a command                                                  *)
(***************************************************************************)

\* The command after its next record, which is written as rec.
Wrote(c, rec) == [c EXCEPT !.todo = Tail(@), !.seen = Append(@, rec)]

LEMMA SoundWrite ==
    ASSUME NEW c, Sound(c), c.todo # <<>>, NEW rec,
           IF Head(c.todo).op = "merging" THEN rec \in Records /\ rec.op = "merge"
                                          ELSE rec = Head(c.todo)
    PROVE  /\ Sound(Wrote(c, rec))
           /\ Append(c.seen, rec) \in Seq(Records)
           /\ WellFormed(Append(c.seen, rec))
<1> DEFINE seen == c.seen
           todo == c.todo
           head == Head(todo)
           d    == Wrote(c, rec)
<1>1. /\ seen \in Seq(Records) /\ seen \in Seq(Lines) /\ todo \in Seq(Lines) /\ head \in Lines
      /\ Tail(todo) \in Seq(Lines) /\ Len(Tail(todo)) = Len(todo) - 1 /\ Len(todo) \in Nat \ {0}
      /\ \A i \in 1..Len(Tail(todo)) : Tail(todo)[i] = todo[i + 1]
      /\ todo[1] = head /\ DOMAIN todo = 1..Len(todo) /\ DOMAIN Tail(todo) = 1..Len(Tail(todo))
      /\ todo # <<>> /\ head = Head(todo)
  BY RecordsLines, HeadTailProperties, EmptySeq, LenProperties DEF Sound
<1>2. /\ d.cmd = c.cmd /\ d.branch = c.branch /\ d.retry = c.retry
      /\ d.rounds = c.rounds /\ d.other = c.other
      /\ d.todo = Tail(todo) /\ d.seen = Append(seen, rec)
      /\ Fields \subseteq DOMAIN d
  BY DEF Wrote, Sound, Fields
<1>9. IF head.op = "merging" THEN rec \in Records /\ rec.op = "merge" ELSE rec = head
  OBVIOUS
<1>10. \A i \in DOMAIN todo : todo[i] = Merging => i = Len(todo) /\ c.cmd = "merge" /\ c.other \in Branches
  BY DEF Sound
<1> HIDE DEF seen, todo, head, d
<1>3. rec \in Records
  BY <1>1, <1>9, Parts
<1>4. Append(seen, rec) \in Seq(Records)
  BY <1>1, <1>3, AppendProperties
<1>5. WellFormed(Append(seen, rec)) /\ WellFormed(Append(seen, rec) \o Tail(todo))
        /\ Claims(Append(seen, rec) \o Tail(todo)) = Claims(seen \o todo)
  <2>1. CASE head.op # "merging"
    <3>1. rec = head /\ Append(seen, rec) \o Tail(todo) = seen \o todo
      BY <1>1, <1>9, <2>1, TakeNext
    <3>2. WellFormed(seen \o todo)
      BY DEF Sound, Due, seen, todo
    <3>3. Append(seen, rec) \in Seq(Lines) /\ Append(seen, rec) # <<>>
      <4>1. Append(seen, rec) # <<>>
        BY <1>1, <1>3, AppendProperties
      <4> QED BY <1>4, <4>1, RecordsLines
    <3>4. WellFiled(Append(seen, rec)) /\ ~LabelConflict(Append(seen, rec))
      <4> DEFINE now == Append(seen, rec)
      <4>1. WellFiled(now \o Tail(todo)) /\ ~LabelConflict(now \o Tail(todo)) /\ now \in Seq(Lines)
        BY <3>1, <3>2, <3>3 DEF WellFormed
      <4> HIDE DEF now
      <4>2. WellFiled(now) /\ ~LabelConflict(now)
        BY <1>1, <4>1, WellFiledBefore, ConflictStays
      <4> QED BY <4>2 DEF now
    <3> QED BY <3>1, <3>2, <3>3, <3>4 DEF WellFormed
  <2>2. CASE head.op = "merging"
    <3>1. head = Merging /\ todo = <<Merging>> /\ Tail(todo) = <<>>
      <4>1. head = Merging
        BY <1>1, <2>2, Parts
      <4>2. Len(todo) = 1
        <5>1. 1 \in DOMAIN todo /\ todo[1] = Merging
          BY <1>1, <4>1
        <5> QED BY <1>10, <5>1
      <4>3. Tail(todo) = <<>>
        <5>1. Len(Tail(todo)) = 0
          BY <1>1, <4>2
        <5> QED BY <1>1, <5>1, EmptySeq
      <4>4. todo = <<head>> \o Tail(todo)
        BY <1>1, TakeNext DEF head, todo
      <4>5. <<head>> \in Seq(Lines)
        BY <1>1
      <4> QED BY <4>1, <4>3, <4>4, <4>5, ConcatEmptySeq
    <3>2. WellFormed(seen \o <<Merging>>)
      BY <3>1 DEF Sound, Due, seen, todo
    <3>3. <<Merging>> \in Seq(Lines) /\ <<rec>> \in Seq(Lines) /\ rec.op = "merge"
      BY <1>3, <1>9, <2>2 DEF Lines
    <3>4. Claims(<<Merging>>) = {} /\ Claims(<<rec>>) = {} /\ At(<<rec>>, "init") = {} /\ Naming(<<rec>>) = {}
      BY <3>3 DEF Claims, At, Naming, Merging
    <3>5. seen # <<>>
      <4>1. SUFFICES ASSUME seen = <<>> PROVE FALSE
        OBVIOUS
      <4>2. seen \o <<Merging>> = <<Merging>>
        BY <3>3, <4>1, ConcatEmptySeq
      <4>3. WellFiled(<<Merging>>)
        BY <3>2, <4>2 DEF WellFormed
      <4> QED BY <4>3 DEF WellFiled, At, Merging
    <3>6. WellFiled(seen) /\ ~LabelConflict(seen)
      BY <1>1, <3>2, <3>3, WellFiledBefore, ConflictStays DEF WellFormed
    <3>7. WellFiled(seen \o <<rec>>)
      BY <1>1, <3>3, <3>4, <3>5, <3>6, WellFiledAppend
    <3>8. Append(seen, rec) = seen \o <<rec>> /\ Append(seen, rec) \in Seq(Lines) /\ Append(seen, rec) # <<>>
      BY <1>1, <1>3, <1>4, AppendIsConcat, AppendProperties, RecordsLines DEF Lines
    <3>9. Claims(seen \o <<rec>>) = Claims(seen) /\ Claims(seen \o <<Merging>>) = Claims(seen)
      <4>1. rec \in Lines /\ Merging \in Lines /\ rec.op # "claim" /\ Merging.op # "claim"
        BY <1>3, <3>3 DEF Lines, Merging
      <4> HIDE DEF Merging
      <4> QED BY <1>1, <4>1, OtherClaimsNothing
    <3>10. Append(seen, rec) \o Tail(todo) = Append(seen, rec)
      BY <3>1, <3>8, ConcatEmptySeq
    <3>11. WellFormed(Append(seen, rec))
      BY <3>6, <3>7, <3>8, <3>9 DEF WellFormed, LabelConflict
    <3> QED BY <3>1, <3>8, <3>9, <3>10, <3>11
  <2> QED BY <2>1, <2>2
<1>6. Due(d) = Append(seen, rec) \o Tail(todo)
  BY <1>2 DEF Due
<1>7. \A i \in DOMAIN d.todo :
          d.todo[i] = Merging => i = Len(d.todo) /\ d.cmd = "merge" /\ d.other \in Branches
  <2>2. ASSUME NEW i \in DOMAIN Tail(todo), Tail(todo)[i] = Merging
        PROVE  i = Len(Tail(todo)) /\ c.cmd = "merge" /\ c.other \in Branches
    <3>1. i + 1 \in DOMAIN todo /\ todo[i + 1] = Merging /\ i \in Nat
      BY <1>1, <2>2
    <3>2. i + 1 = Len(todo) /\ c.cmd = "merge" /\ c.other \in Branches
      BY <1>10, <3>1
    <3>3. Len(todo) - 1 = i
      BY <3>1, <3>2
    <3> QED BY <1>1, <3>2, <3>3
  <2> QED BY <1>2, <2>2
<1>8. Sound(d)
  BY <1>1, <1>2, <1>4, <1>5, <1>6, <1>7 DEF Sound, Due, seen, todo
<1> QED BY <1>4, <1>5, <1>8 DEF d, seen

\* The command with one more receipt decided.
LEMMA SoundDecide ==
    ASSUME NEW c, Sound(c), c.todo = <<>>, c.cmd # "merge", NEW e \in Entries, e.key \in Claims(c.seen),
           NEW rec \in {Support(e), Refused(e)}, NEW d, Fields \subseteq DOMAIN d,
           d.cmd = c.cmd, d.branch = c.branch, d.seen = c.seen, d.todo = <<rec>>,
           d.retry \in Seq(Entries), Contents(d.retry) \subseteq Contents(c.retry), d.rounds \in Nat
    PROVE  Sound(d)
<1>1. rec \in Records /\ rec.op \in {"support", "refused"} /\ rec.key = e.key
  BY VerdictRecords
<1>2. c.seen \in Seq(Records) /\ c.seen \o <<>> = c.seen
  BY ConcatEmptySeq DEF Sound
<1>3. Due(c) = c.seen /\ WellFormed(c.seen)
  BY <1>2 DEF Due, Sound
<1>4. <<rec>> \in Seq(Records) /\ <<rec>> \in Seq(Lines)
  <2>1. <<rec>> \in Seq(Records)
    BY <1>1
  <2> QED BY <2>1, RecordsLines
<1>5. WellFormed(c.seen \o <<rec>>) /\ Claims(c.seen \o <<rec>>) = Claims(c.seen)
  <2>1. \A i \in DOMAIN <<rec>> : <<rec>>[i] = rec
    OBVIOUS
  <2>2. \A i \in DOMAIN <<rec>> : /\ <<rec>>[i].op \in {"support", "refused", "withdraw"}
                                  /\ <<rec>>[i].key \in Claims(c.seen)
    BY <1>1, <2>1
  <2> QED BY <1>2, <1>3, <1>4, <2>2, NamingFits
<1>6. Due(d) = c.seen \o <<rec>>
  BY DEF Due
<1>7. \A i \in DOMAIN d.retry : d.retry[i].key \in Claims(c.seen)
  BY <1>3 DEF Sound, Contents
<1>8. rec # Merging
  BY <1>1 DEF Merging
<1> QED BY <1>2, <1>4, <1>5, <1>6, <1>7, <1>8 DEF Sound

(***************************************************************************)
(* Every state is orderly, if no two commands are at work on one branch    *)
(***************************************************************************)

\* The ledger has no lock: that only one command at a time works on a branch
\* is up to the users.
Alone ==
    \A p, q \in Procs :
        p # q /\ proc[p] # Idle /\ proc[q] # Idle => proc[p].branch # proc[q].branch

\* Every ledger is in shape, and every running command knows the one it works
\* on and leaves it in shape.
Orderly ==
    /\ Custody /\ TypeOK /\ LabelsNameOneClaim
    /\ \A p \in Procs : proc[p] # Idle => Sound(proc[p]) /\ proc[p].seen = ledger[proc[p].branch]

LEMMA BoundIs ==
    ASSUME NEW recs \in Seq(Records), recs # <<>>, WellFiled(recs)
    PROVE  BoundStatement(recs) \in Statements
<1> DEFINE binding == At(recs, "init") \cup At(recs, "restate")
<1>1. Len(recs) \in Nat /\ DOMAIN recs = 1..Len(recs) /\ \A i \in DOMAIN recs : recs[i] \in Records
  BY LenProperties, ElementOfSeq
<1>2. binding \in SUBSET (1..Len(recs)) /\ binding # {}
  BY <1>1 DEF WellFiled, At
<1>3. LastOf(binding) \in binding
  <2> HIDE DEF binding
  <2> QED BY <1>1, <1>2, HasLast
<1>4. recs[LastOf(binding)] \in Records /\ recs[LastOf(binding)].op \in {"init", "restate"}
  BY <1>1, <1>3 DEF At
<1>5. recs[LastOf(binding)] \in Lines
  BY <1>4 DEF Lines
<1> QED BY <1>4, <1>5, Parts DEF BoundStatement

LEMMA OrderlyInit == Init => Orderly
<1> SUFFICES ASSUME Init PROVE Orderly
  OBVIOUS
<1>1. PICK start \in Starts : StartFrom(start)
  BY DEF Init
<1>2. /\ start.recs \in Seq(Records) /\ start.keys \in SUBSET Keys
      /\ start.statements \in SUBSET Statements /\ start.commands \in Nat
      /\ WellFiled(start.recs) /\ ~LabelConflict(start.recs)
  BY StartsType, StartsFiled
<1>3. ReceiptsIn(start.recs) \subseteq Receipts
  <2>1. \A i \in At(start.recs, "support") : start.recs[i] \in Lines /\ start.recs[i].op = "support"
    BY <1>2, LenProperties, ElementOfSeq DEF At, Lines
  <2> QED BY <2>1, Parts DEF ReceiptsIn
<1>4. (IF start.recs = <<>> THEN Draft ELSE BoundStatement(start.recs)) \in Statements
  BY <1>2, DraftType, BoundIs
<1>5. TypeOK
  BY <1>1, <1>2, <1>3, <1>4 DEF TypeOK, StartFrom, Init
<1>6. LabelsNameOneClaim
  BY <1>1, <1>2 DEF LabelsNameOneClaim, StartFrom
<1>7. \A p \in Procs : proc[p] = Idle
  BY DEF Init
<1> QED BY <1>5, <1>6, <1>7, CustodyInit DEF Orderly

\* A command that starts with what fits its ledger is sound.
LEMMA OrderlyStart ==
    ASSUME Orderly, NEW p \in Procs, NEW b \in Branches, NEW cmd, NEW todo, NEW retry,
           Start(p, b, cmd, todo, retry), Fits(ledger[b], todo, retry),
           cmd = "merge" => retry = <<>>
    PROVE  Orderly'
<1> DEFINE c == [cmd |-> cmd, branch |-> b, seen |-> ledger[b],
                 todo |-> todo, retry |-> retry, rounds |-> IF cmd \in Syncing THEN Rounds ELSE 0]
<1>1. /\ proc' = [proc EXCEPT ![p] = c] /\ UNCHANGED <<ledger, files, statement>>
      /\ allowed.commands > 0 /\ allowed' = [allowed EXCEPT !.commands = @ - 1]
  BY DEF Start, Spend
<1>2. /\ Custody /\ TypeOK /\ LabelsNameOneClaim
      /\ \A q \in Procs : proc[q] # Idle => Sound(proc[q]) /\ proc[q].seen = ledger[proc[q].branch]
      /\ ledger[b] \in Seq(Records) /\ statement[b] \in Statements
  BY DEF Orderly, TypeOK
<1>3. c.rounds \in Nat /\ (cmd = "merge" => c.rounds = 0)
  BY RoundsType DEF Syncing
<1>4. todo \in Seq(Records) /\ todo \in Seq(Lines) /\ \A i \in DOMAIN todo : todo[i] # Merging
  <2>1. todo \in Seq(Records)
    BY DEF Fits
  <2>2. \A i \in DOMAIN todo : todo[i] \in Records
    BY <2>1, LenProperties, ElementOfSeq
  <2>3. Merging \notin Records
    BY DEF Merging, Records
  <2> QED BY <2>1, <2>2, <2>3, RecordsLines
<1>5. Sound(c)
  <2>1. Due(c) = ledger[b] \o todo
    BY DEF Due
  <2>2. Fields \subseteq DOMAIN c
    BY DEF Fields
  <2> QED BY <1>2, <1>3, <1>4, <2>1, <2>2 DEF Sound, Fits
<1>6. c.branch = b /\ c.seen = ledger[b]
  OBVIOUS
<1> HIDE DEF c
<1>7. Custody'
  BY <1>2, CustodyStart
<1>8. TypeOK'
  <2>1. allowed' \in [keys : SUBSET Keys, statements : SUBSET Statements, commands : Nat]
    <3>1. allowed \in [keys : SUBSET Keys, statements : SUBSET Statements, commands : Nat]
      BY <1>2 DEF TypeOK
    <3>2. allowed.commands - 1 \in Nat
      BY <1>1, <3>1
    <3> QED BY <1>1, <3>1, <3>2
  <2>2. \A q \in Procs : proc'[q] = Idle \/ proc'[q].branch \in Branches
    BY <1>1, <1>2, <1>6 DEF TypeOK, Custody
  <2> QED BY <1>1, <1>2, <2>1, <2>2 DEF TypeOK
<1>9. LabelsNameOneClaim'
  BY <1>1, <1>2 DEF LabelsNameOneClaim
<1>10. \A q \in Procs : proc'[q] # Idle => Sound(proc'[q]) /\ proc'[q].seen = ledger'[proc'[q].branch]
  BY <1>1, <1>2, <1>5, <1>6 DEF Custody
<1> QED BY <1>7, <1>8, <1>9, <1>10 DEF Orderly

\* A step of a command that leaves the ledgers alone.
LEMMA OrderlyStep ==
    ASSUME Orderly, NEW p \in Procs, proc[p] # Idle, NEW c,
           proc' = [proc EXCEPT ![p] = c], UNCHANGED <<ledger, files, statement, allowed>>,
           c # Idle => Sound(c) /\ c.branch = proc[p].branch /\ c.seen = proc[p].seen
    PROVE  Orderly'
<1>1. Custody /\ TypeOK /\ LabelsNameOneClaim
  BY DEF Orderly
<1>2. \A q \in Procs : proc'[q] # Idle => Sound(proc'[q]) /\ proc'[q].seen = ledger'[proc'[q].branch]
  BY <1>1 DEF Orderly, Custody
<1>3. Custody'
  BY <1>1 DEF Custody
<1>4. \A q \in Procs : proc'[q] = Idle \/ proc'[q].branch \in Branches
  BY <1>1 DEF TypeOK, Custody
<1>5. TypeOK' /\ LabelsNameOneClaim'
  BY <1>1, <1>4 DEF TypeOK, LabelsNameOneClaim
<1> QED BY <1>2, <1>3, <1>5 DEF Orderly

\* A branch whose ledger is started has an orderly one.
LEMMA OrderlyLedger ==
    ASSUME Orderly, NEW b \in Branches
    PROVE  /\ ledger[b] \in Seq(Records) /\ statement[b] \in Statements
           /\ ledger[b] # <<>> => WellFormed(ledger[b])
           /\ WellFiled(ledger[b])
BY DEF Orderly, TypeOK, LabelsNameOneClaim, WellFormed

LEMMA NothingToRetry == <<>> \in Seq(Entries) /\ <<>> \in Seq(Records) /\ DOMAIN <<>> = {}
BY EmptySeq

LEMMA OrderlyInitLedger ==
    ASSUME Orderly, NEW p \in Procs, NEW b \in Branches, InitLedger(p, b)
    PROVE  Orderly'
<1> DEFINE rec  == [op |-> "init", statement |-> statement[b]]
           none == <<>>
           goal == GoalRecords(none)
           first == <<rec>>
<1>1. ledger[b] = none /\ Start(p, b, "init", first \o goal, <<>>)
  BY DEF InitLedger
<1>2. rec \in Records /\ first \in Seq(Records) /\ first # <<>>
  <2>1. statement[b] \in Statements
    BY OrderlyLedger
  <2>2. rec \in Records
    BY <2>1 DEF Records
  <2> QED BY <2>2
<1>3. At(first, "init") = {1} /\ Claims(first) = {} /\ Naming(first) = {}
  BY DEF At, Claims, Naming
<1>4. WellFormed(first)
  BY <1>2, <1>3 DEF WellFormed, WellFiled, LabelConflict, Naming
<1>5. GoalRecords(first) = goal
  <2>1. Claims(none) = {}
    BY DEF Claims, At
  <2>2. Claims(first) = Claims(none)
    BY <1>3, <2>1
  <2> HIDE DEF first, none
  <2> QED BY <2>2 DEF GoalRecords, goal
<1> HIDE DEF first, goal
<1>6. goal \in Seq(Records) /\ WellFormed(first \o goal) /\ first \o goal \in Seq(Records)
  BY <1>2, <1>4, <1>5, GoalFits DEF Filed
<1>7. ledger[b] \o (first \o goal) = first \o goal
  BY <1>1, <1>6, ConcatEmptySeq
<1>8. Fits(ledger[b], first \o goal, <<>>)
  BY <1>6, <1>7, NothingToRetry DEF Fits
<1> QED BY <1>1, <1>8, OrderlyStart

LEMMA OrderlyRestate ==
    ASSUME Orderly, NEW p \in Procs, NEW b \in Branches, Restate(p, b)
    PROVE  Orderly'
<1> DEFINE recs == ledger[b]
           rec  == [op |-> "restate", old |-> BoundStatement(recs), new |-> statement[b]]
           todo == <<rec>>
<1>1. recs # <<>> /\ Start(p, b, "restate", todo, <<>>)
  BY DEF Restate
<1>2. recs \in Seq(Records) /\ WellFormed(recs) /\ statement[b] \in Statements
  BY <1>1, OrderlyLedger
<1>3. BoundStatement(recs) \in Statements
  BY <1>2, BoundIs DEF WellFormed
<1>4. rec \in Records
  BY <1>2, <1>3 DEF Records
<1>5. todo \in Seq(Records) /\ At(todo, "init") = {} /\ Naming(todo) = {} /\ rec.op # "claim"
  BY <1>4 DEF At, Naming
<1>6. WellFormed(recs \o todo)
  <2>1. Claims(recs \o todo) = Claims(recs)
    <3> HIDE DEF rec, recs
    <3> QED BY <1>2, <1>4, <1>5, OtherClaimsNothing
  <2> HIDE DEF todo, recs
  <2>2. WellFiled(recs \o todo)
    BY <1>2, <1>5, WellFiledAppend DEF WellFormed
  <2>3. recs \o todo # <<>>
    BY <1>2, <1>5, ConcatEqualIffEmpty DEF WellFormed
  <2> QED BY <1>2, <2>1, <2>2, <2>3 DEF WellFormed, LabelConflict
<1>7. Fits(ledger[b], todo, <<>>)
  <2> HIDE DEF todo
  <2> QED BY <1>5, <1>6, NothingToRetry DEF Fits
<1> HIDE DEF todo
<1> QED BY <1>1, <1>7, OrderlyStart

LEMMA OrderlyBeginMerge ==
    ASSUME Orderly, NEW p \in Procs, NEW b \in Branches, BeginMerge(p, b)
    PROVE  Orderly'
<1>1. WellFormed(ledger[b]) /\ ledger[b] \in Seq(Records) /\ Start(p, b, "merge", <<>>, <<>>)
  BY OrderlyLedger DEF BeginMerge, Bound
<1>2. ledger[b] \o <<>> = ledger[b]
  BY <1>1, ConcatEmptySeq
<1>3. Fits(ledger[b], <<>>, <<>>)
  BY <1>1, <1>2, NothingToRetry DEF Fits
<1> QED BY <1>1, <1>3, OrderlyStart

\* What a command that files something adds to the ledger with the goal's claims.
LEMMA FilingStart ==
    ASSUME Orderly, NEW b \in Branches, ledger[b] # <<>>
    PROVE  /\ Filed(ledger[b]) \in Seq(Records) /\ WellFormed(Filed(ledger[b]))
           /\ GoalRecords(ledger[b]) \in Seq(Records)
           /\ Claims(Filed(ledger[b])) = Claims(ledger[b]) \cup Range(GoalClaims)
           /\ \A more \in Seq(Records), retry \in Seq(Entries) :
                 /\ WellFormed(Filed(ledger[b]) \o more)
                 /\ \A i \in DOMAIN retry : retry[i].key \in Claims(Filed(ledger[b]) \o more)
                 => Fits(ledger[b], GoalRecords(ledger[b]) \o more, retry)
<1> DEFINE recs == ledger[b]
           goal == GoalRecords(recs)
<1>1. recs \in Seq(Records) /\ WellFormed(recs)
  BY OrderlyLedger
<1>2. /\ Filed(recs) \in Seq(Records) /\ WellFormed(Filed(recs)) /\ goal \in Seq(Records)
      /\ Claims(Filed(recs)) = Claims(recs) \cup Range(GoalClaims)
  <2> HIDE DEF recs
  <2> QED BY <1>1, GoalFits
<1>3. ASSUME NEW more \in Seq(Records), NEW retry \in Seq(Entries),
             WellFormed(Filed(recs) \o more),
             \A i \in DOMAIN retry : retry[i].key \in Claims(Filed(recs) \o more)
      PROVE  Fits(recs, goal \o more, retry)
  <2>1. Filed(recs) \o more = recs \o (goal \o more) /\ goal \o more \in Seq(Records)
    <3> HIDE DEF recs, goal
    <3>1. (recs \o goal) \o more = recs \o (goal \o more)
      BY <1>1, <1>2, ConcatAssociative
    <3>2. goal \o more \in Seq(Records)
      BY <1>2, ConcatProperties
    <3> QED BY <3>1, <3>2 DEF Filed, goal
  <2> HIDE DEF recs, goal
  <2> QED BY <1>3, <2>1 DEF Fits
<1> QED BY <1>2, <1>3

LEMMA OrderlyFileGoal ==
    ASSUME Orderly, NEW p \in Procs, NEW b \in Branches, FileGoal(p, b)
    PROVE  Orderly'
<1> DEFINE goal == GoalRecords(ledger[b])
           filed == Filed(ledger[b])
<1>1. ledger[b] # <<>> /\ Start(p, b, "claim", goal, <<>>)
  BY DEF FileGoal, Bound
<1>2. goal \in Seq(Records) /\ filed \in Seq(Records) /\ WellFormed(filed)
  BY <1>1, FilingStart
<1>3. ledger[b] \o goal = filed
  BY DEF Filed
<1>4. Fits(ledger[b], goal, <<>>)
  BY <1>2, <1>3, NothingToRetry DEF Fits
<1> HIDE DEF goal
<1> QED BY <1>1, <1>4, OrderlyStart

\* A claim filed as the goal's realization is offered for claims of the goal's.
LEMMA RealizedIs ==
    ASSUME NEW k
    PROVE  RealizedBy(k) \in Seq(Entries) /\ \A i \in DOMAIN RealizedBy(k) : RealizedBy(k)[i].key \in Range(GoalClaims)
<1> DEFINE S == {e \in Proposals : e.key \notin Spines /\ PremisesOf[e.receipt] = {k}}
<1>1. IsFiniteSet(S)
  BY ProposalsType, FS_Subset
<1>2. \A e \in S : e.key \in Range(GoalClaims)
  BY ProposalsType
<1>3. S \subseteq Entries
  <2>1. Range(GoalClaims) \subseteq Keys
    BY GoalsType, RangeOfSeq
  <2>2. Spines \subseteq Keys
    BY CoversType DEF Spines
  <2> QED BY <2>1, <2>2, ProposalsType DEF Entries
<1>4. RealizedBy(k) = SetToSeq(S)
  BY DEF RealizedBy
<1> HIDE DEF S
<1>5. RealizedBy(k) \in Seq(S) /\ Contents(RealizedBy(k)) = S
  BY <1>1, <1>4, SetToSeqOfFinite
<1>6. RealizedBy(k) \in Seq(Entries)
  BY <1>3, <1>5, SeqMonotonic
<1> QED BY <1>2, <1>5, <1>6 DEF Contents

LEMMA OrderlyClaim ==
    ASSUME Orderly, NEW p \in Procs, NEW b \in Branches, NEW k \in Keys, Claim(p, b, k)
    PROVE  Orderly'
<1> DEFINE goal == GoalRecords(ledger[b])
           filed == Filed(ledger[b])
           rec == ClaimRecord(k)
           more == <<rec>>
           retry == RealizedBy(k)
<1>1. /\ ledger[b] # <<>> /\ Start(p, b, "claim", Append(goal, rec), retry)
      /\ LabelOf[k] \notin LabelsTaken(filed)
  BY DEF Claim, Bound
<1>2. /\ goal \in Seq(Records) /\ filed \in Seq(Records) /\ WellFormed(filed)
      /\ Range(GoalClaims) \subseteq Claims(filed)
  BY <1>1, FilingStart
<1>3. rec \in Records /\ rec.op = "claim" /\ rec.key = k
  BY DEF ClaimRecord, Records
<1>4. more \in Seq(Records) /\ \A i \in DOMAIN more : more[i] = rec
  BY <1>3
<1>5. Append(goal, rec) = goal \o more
  <2> HIDE DEF goal, rec
  <2> QED BY <1>2, <1>3, AppendIsConcat
<1> HIDE DEF goal, filed, rec, more, retry
<1>6. WellFormed(filed \o more)
  BY <1>1, <1>2, <1>3, <1>4, FilingFits
<1>7. Claims(filed) \subseteq Claims(filed \o more)
  BY <1>2, <1>4, ConcatSays
<1>8. retry \in Seq(Entries) /\ \A i \in DOMAIN retry : retry[i].key \in Claims(filed \o more)
  BY <1>2, <1>7, RealizedIs DEF retry
<1>9. Fits(ledger[b], goal \o more, retry)
  BY <1>1, <1>4, <1>6, <1>8, FilingStart DEF goal, filed
<1> QED BY <1>1, <1>5, <1>9, OrderlyStart

LEMMA OrderlyCover ==
    ASSUME Orderly, NEW p \in Procs, NEW b \in Branches, NEW c \in Covers, Cover(p, b, c)
    PROVE  Orderly'
<1> DEFINE goal == GoalRecords(ledger[b])
           filed == Filed(ledger[b])
           more == <<ClaimRecord(c.cover), ClaimRecord(c.spine)>>
           retry == c.retry
<1>1. /\ ledger[b] # <<>> /\ Start(p, b, "cover", goal \o more, retry)
      /\ LabelOf[c.cover] \notin LabelsTaken(filed) /\ LabelOf[c.spine] \notin LabelsTaken(filed)
  BY DEF Cover, Bound
<1>2. goal \in Seq(Records) /\ filed \in Seq(Records) /\ WellFormed(filed)
  BY <1>1, FilingStart
<1>3. /\ c.cover \in Keys /\ c.spine \in Keys /\ LabelOf[c.cover] # LabelOf[c.spine]
      /\ retry \in Seq([key : {c.cover}, receipt : Receipts])
  BY CoversType
<1>4. ClaimRecord(c.cover) \in Records /\ ClaimRecord(c.spine) \in Records
  BY <1>3 DEF ClaimRecord, Records
<1>5. /\ more \in Seq(Records) /\ 1 \in DOMAIN more
      /\ \A i \in DOMAIN more : more[i] \in {ClaimRecord(c.cover), ClaimRecord(c.spine)}
      /\ more[1] = ClaimRecord(c.cover)
  BY <1>4
<1> HIDE DEF goal, filed, more
<1>6. \A i \in DOMAIN more : more[i].op = "claim" /\ more[i].key \in {c.cover, c.spine}
  BY <1>5 DEF ClaimRecord
<1>7. WellFormed(filed \o more)
  <2>1. /\ \A i \in DOMAIN more : more[i].op = "claim" /\ LabelOf[more[i].key] \notin LabelsTaken(filed)
        /\ \A i, j \in DOMAIN more : LabelOf[more[i].key] = LabelOf[more[j].key] => more[i].key = more[j].key
    BY <1>1, <1>3, <1>6
  <2> QED BY <1>2, <1>5, <2>1, FilingFits
<1>8. c.cover \in Claims(filed \o more)
  <2>1. c.cover \in Claims(more)
    BY <1>5, <1>6 DEF Claims, At, ClaimRecord
  <2> QED BY <1>2, <1>5, <2>1, ConcatSays
<1>9. retry \in Seq(Entries) /\ \A i \in DOMAIN retry : retry[i].key \in Claims(filed \o more)
  <2>1. [key : {c.cover}, receipt : Receipts] \subseteq Entries
    BY <1>3 DEF Entries
  <2>2. retry \in Seq(Entries)
    BY <1>3, <2>1, SeqMonotonic
  <2>3. \A i \in DOMAIN retry : retry[i] \in [key : {c.cover}, receipt : Receipts]
    BY <1>3, LenProperties, ElementOfSeq
  <2> QED BY <1>8, <2>2, <2>3
<1> HIDE DEF retry
<1>10. Fits(ledger[b], goal \o more, retry)
  BY <1>1, <1>5, <1>7, <1>9, FilingStart DEF goal, filed
<1> QED BY <1>1, <1>10, OrderlyStart

LEMMA OrderlySubmit ==
    ASSUME Orderly, NEW p \in Procs, NEW b \in Branches, NEW e \in Offers, Submit(p, b, e)
    PROVE  Orderly'
<1> DEFINE goal == GoalRecords(ledger[b])
           filed == Filed(ledger[b])
           retry == <<e>>
<1>1. /\ ledger[b] # <<>> /\ Start(p, b, "submit", goal, retry)
      /\ e.key \in Claims(filed)
  BY DEF Submit, Bound, Submittable
<1>2. goal \in Seq(Records) /\ filed \in Seq(Records) /\ WellFormed(filed)
  BY <1>1, FilingStart
<1>3. e \in Entries
  BY OffersType DEF Entries
<1>4. retry \in Seq(Entries) /\ \A i \in DOMAIN retry : retry[i].key \in Claims(filed)
  BY <1>1, <1>3
<1>5. ledger[b] \o goal = filed
  BY DEF Filed
<1>6. Fits(ledger[b], goal, retry)
  <2> HIDE DEF retry
  <2> QED BY <1>2, <1>4, <1>5 DEF Fits
<1> HIDE DEF goal, retry
<1> QED BY <1>1, <1>6, OrderlyStart

LEMMA OrderlyBatch ==
    ASSUME Orderly, NEW p \in Procs, NEW b \in Branches, NEW batch \in Batches, Batch(p, b, batch)
    PROVE  Orderly'
<1> DEFINE goal == GoalRecords(ledger[b])
           filed == Filed(ledger[b])
           plan == BatchPlan(filed, batch)
<1>1. ledger[b] # <<>> /\ Start(p, b, "submit-batch", goal \o plan.todo, plan.retry)
  BY DEF Batch, Bound
<1>2. goal \in Seq(Records) /\ filed \in Seq(Records) /\ WellFormed(filed)
  BY <1>1, FilingStart
<1>3. batch \in Seq(Entries)
  BY BatchesType DEF Entries
<1>4. /\ plan.todo \in Seq(Records) /\ plan.retry \in Seq(Entries)
      /\ \A i \in DOMAIN plan.todo : /\ plan.todo[i].op \in {"support", "refused"}
                                    /\ plan.todo[i].key \in Claims(filed)
      /\ \A i \in DOMAIN plan.retry : plan.retry[i].key \in Claims(filed)
  <2> HIDE DEF filed
  <2> QED BY <1>2, <1>3, BatchFits
<1> DEFINE todo == plan.todo
           retry == plan.retry
<1> HIDE DEF goal, filed, plan
<1>5. WellFormed(filed \o todo) /\ Claims(filed \o todo) = Claims(filed)
  <2>1. \A i \in DOMAIN todo : todo[i].op \in {"support", "refused", "withdraw"} /\ todo[i].key \in Claims(filed)
    BY <1>4
  <2>2. todo \in Seq(Records)
    BY <1>4
  <2> HIDE DEF todo
  <2> QED BY <1>2, <2>1, <2>2, NamingFits
<1>6. todo \in Seq(Records) /\ retry \in Seq(Entries) /\ \A i \in DOMAIN retry : retry[i].key \in Claims(filed \o todo)
  BY <1>4, <1>5
<1>7. Start(p, b, "submit-batch", goal \o todo, retry)
  BY <1>1
<1> HIDE DEF todo, retry
<1>8. Fits(ledger[b], goal \o todo, retry)
  BY <1>1, <1>5, <1>6, FilingStart DEF goal, filed
<1> QED BY <1>7, <1>8, OrderlyStart

LEMMA OrderlyWithdraw ==
    ASSUME Orderly, NEW p \in Procs, NEW b \in Branches, NEW k \in Keys, NEW cascade \in BOOLEAN,
           WithdrawClaim(p, b, k, cascade)
    PROVE  Orderly'
<1> DEFINE recs == ledger[b]
           rec == Withdraw(k)
           todo == <<rec>>
           cmd == IF cascade THEN "withdraw --cascade" ELSE "withdraw"
<1>1. recs # <<>> /\ k \in Claims(recs) /\ Start(p, b, cmd, todo, <<>>) /\ cmd # "merge"
  BY DEF WithdrawClaim, Bound, Submittable
<1>2. recs \in Seq(Records) /\ WellFormed(recs)
  BY <1>1, OrderlyLedger
<1>3. rec \in Records /\ rec.op = "withdraw" /\ rec.key = k
  BY DEF Withdraw, Records
<1>4. todo \in Seq(Records) /\ \A i \in DOMAIN todo : todo[i] = rec
  BY <1>3
<1>5. recs = ledger[b]
  OBVIOUS
<1> HIDE DEF recs, todo, rec, cmd
<1>6. WellFormed(recs \o todo)
  <2>1. \A i \in DOMAIN todo : todo[i].op \in {"support", "refused", "withdraw"} /\ todo[i].key \in Claims(recs)
    BY <1>1, <1>3, <1>4
  <2> QED BY <1>2, <1>4, <2>1, NamingFits
<1>7. Fits(ledger[b], todo, <<>>)
  BY <1>4, <1>5, <1>6, NothingToRetry DEF Fits
<1> QED BY <1>1, <1>7, OrderlyStart

\* The record of a merge is yet to be made when the others are appended.
LEMMA MergeDue ==
    ASSUME NEW ours \in Seq(Records), NEW theirs \in Seq(Records),
           WellFormed(ours), WellFiled(theirs), Mergeable(ours, theirs)
    PROVE  LET todo == MergedRecords(MergePlan(ours, theirs).new)
           IN  /\ todo \in Seq(Lines) /\ WellFormed(ours \o todo)
               /\ \A i \in DOMAIN todo : todo[i] = Merging => i = Len(todo)
<1> DEFINE new == MergePlan(ours, theirs).new
           todo == MergedRecords(new)
           merged == ours \o new
           last == <<Merging>>
<1>1. new \in Seq(Records) /\ WellFormed(merged)
  BY MergeFits
<1>2. merged \in Seq(Lines) /\ new \in Seq(Lines) /\ ours \in Seq(Lines)
  <2> HIDE DEF new
  <2>1. merged \in Seq(Records)
    BY <1>1, ConcatProperties
  <2> QED BY <1>1, <2>1, RecordsLines
<1>3. Merging \in Lines /\ last \in Seq(Lines) /\ Merging.op = "merging"
  BY DEF Lines, Merging
<1> HIDE DEF new
<1>4. /\ todo \in Seq(Lines) /\ Len(todo) = Len(new) + 1 /\ Len(new) \in Nat
      /\ \A i \in 1..Len(new) : todo[i] = new[i]
      /\ todo = new \o last
      /\ DOMAIN todo = 1..Len(todo)
  <2> HIDE DEF Merging
  <2>1. todo = Append(new, Merging)
    BY DEF MergedRecords, Merging
  <2>2. /\ Append(new, Merging) \in Seq(Lines) /\ Len(Append(new, Merging)) = Len(new) + 1
        /\ \A i \in 1..Len(new) : Append(new, Merging)[i] = new[i]
        /\ Append(new, Merging) = new \o last
    BY <1>2, <1>3, AppendProperties, AppendIsConcat
  <2> HIDE DEF todo, last
  <2> QED BY <1>2, <2>1, <2>2, LenProperties
<1>5. \A i \in DOMAIN todo : todo[i] = Merging => i = Len(todo)
  <2>1. \A i \in 1..Len(new) : new[i] \in Records
    BY <1>1, ElementOfSeq
  <2>2. Merging \notin Records
    BY DEF Records, Merging
  <2> HIDE DEF todo, Merging
  <2> QED BY <1>4, <2>1, <2>2
<1>6. ours \o todo = merged \o last
  <2> HIDE DEF last, todo
  <2> QED BY <1>2, <1>3, <1>4, ConcatTwice
<1>7. WellFormed(merged \o last)
  <2>1. At(last, "init") = {} /\ Naming(last) = {}
    BY <1>3 DEF At, Naming
  <2>2. Claims(merged \o last) = Claims(merged)
    <3> HIDE DEF merged, Merging
    <3> QED BY <1>2, <1>3, OtherClaimsNothing
  <2> HIDE DEF merged, last
  <2>3. WellFiled(merged \o last)
    BY <1>1, <1>2, <1>3, <2>1, WellFiledAppend DEF WellFormed
  <2>4. merged \o last # <<>>
    BY <1>1, <1>2, <1>3, ConcatEqualIffEmpty DEF WellFormed
  <2> QED BY <1>1, <2>2, <2>3, <2>4 DEF WellFormed, LabelConflict
<1> QED BY <1>4, <1>5, <1>6, <1>7 DEF new

LEMMA OrderlyPlanMerge ==
    ASSUME Orderly, NEW p \in Procs, NEW other \in Branches, PlanMerge(p, other)
    PROVE  Orderly'
<1> DEFINE ours == proc[p].seen
           theirs == ledger[other]
           new == MergePlan(ours, theirs).new
           todo == MergedRecords(new)
           c == [cmd |-> "merge", branch |-> proc[p].branch, seen |-> ours,
                 todo |-> todo, retry |-> <<>>, rounds |-> 0,
                 other |-> other, ours |-> ours, theirs |-> theirs]
<1>1. proc[p] # Idle /\ proc[p].todo = <<>> /\ UNCHANGED <<ledger, files, statement, allowed>>
  BY DEF PlanMerge, Idle
<1>2. Sound(proc[p]) /\ Custody
  BY <1>1 DEF Orderly
<1>3. CASE Readable(other) /\ Mergeable(ours, theirs)
  <2>1. proc' = [proc EXCEPT ![p] = c]
    BY <1>3 DEF PlanMerge, Custody
  <2>2. ours \in Seq(Records) /\ theirs \in Seq(Records) /\ WellFiled(theirs)
    BY <1>2, OrderlyLedger DEF Sound
  <2>3. WellFormed(ours)
    <3>1. Due(proc[p]) = ours
      BY <1>1, <2>2, ConcatEmptySeq DEF Due
    <3> QED BY <1>2, <3>1 DEF Sound
  <2>4. /\ todo \in Seq(Lines) /\ WellFormed(ours \o todo)
        /\ \A i \in DOMAIN todo : todo[i] = Merging => i = Len(todo)
    <3> HIDE DEF ours, theirs
    <3> QED BY <1>3, <2>2, <2>3, MergeDue
  <2>5. Sound(c) /\ c.branch = proc[p].branch /\ c.seen = proc[p].seen
    <3> HIDE DEF new, theirs, todo
    <3>1. Due(c) = ours \o todo
      BY DEF Due
    <3>2. Fields \subseteq DOMAIN c
      BY DEF Fields
    <3>3. proc[p].branch \in Branches
      BY <1>2 DEF Sound
    <3> QED BY <2>2, <2>4, <3>1, <3>2, <3>3, NothingToRetry DEF Sound
  <2> HIDE DEF c
  <2> QED BY <1>1, <2>1, <2>5, OrderlyStep
<1>4. CASE ~(Readable(other) /\ Mergeable(ours, theirs))
  <2>1. proc' = [proc EXCEPT ![p] = Idle]
    BY <1>4 DEF PlanMerge
  <2> QED BY <1>1, <2>1, OrderlyStep
<1> QED BY <1>3, <1>4

LEMMA OrderlySubmitNext ==
    ASSUME Orderly, NEW p \in Procs, SubmitNext(p)
    PROVE  Orderly'
<1> DEFINE c == proc[p]
           e == Head(c.retry)
           rec == Verdict(c.seen, e)
           d == [c EXCEPT !.todo = <<rec>>, !.retry = Tail(@),
                          !.rounds = IF c.cmd = "submit" /\ rec.op = "refused" THEN 0 ELSE @]
<1>1. /\ c # Idle /\ c.todo = <<>> /\ c.retry # <<>>
      /\ proc' = [proc EXCEPT ![p] = d] /\ UNCHANGED <<ledger, files, statement, allowed>>
  BY DEF SubmitNext
<1>2. Sound(c)
  BY <1>1 DEF Orderly
<1>3. /\ c.retry \in Seq(Entries) /\ c.cmd # "merge" /\ c.rounds \in Nat /\ Fields \subseteq DOMAIN c
      /\ c.seen \in Seq(Records)
  BY <1>1, <1>2 DEF Sound
<1>4. /\ e \in Entries /\ Tail(c.retry) \in Seq(Entries) /\ e = c.retry[1] /\ 1 \in DOMAIN c.retry
      /\ Contents(Tail(c.retry)) \subseteq Contents(c.retry)
  <2> DEFINE retry == c.retry
  <2>1. /\ e \in Entries /\ Tail(retry) \in Seq(Entries) /\ Len(Tail(retry)) = Len(retry) - 1
        /\ \A i \in 1..Len(Tail(retry)) : Tail(retry)[i] = retry[i + 1]
        /\ Len(retry) \in Nat \ {0} /\ DOMAIN retry = 1..Len(retry)
        /\ DOMAIN Tail(retry) = 1..Len(Tail(retry))
    BY <1>1, <1>3, HeadTailProperties, LenProperties, EmptySeq
  <2> HIDE DEF retry
  <2>2. \A i \in DOMAIN Tail(retry) : i + 1 \in DOMAIN retry /\ Tail(retry)[i] = retry[i + 1]
    BY <2>1
  <2>3. Contents(Tail(retry)) \subseteq Contents(retry)
    BY <2>2 DEF Contents
  <2> QED BY <2>1, <2>3 DEF retry
<1>5. e.key \in Claims(c.seen)
  <2>1. Due(c) = c.seen
    BY <1>1, <1>3, ConcatEmptySeq DEF Due
  <2> QED BY <1>2, <1>4, <2>1 DEF Sound
<1>6. rec \in {Support(e), Refused(e)}
  BY <1>4, VerdictRecords
<1> HIDE DEF rec, e
<1>7. /\ Fields \subseteq DOMAIN d
      /\ d.cmd = c.cmd /\ d.branch = c.branch /\ d.seen = c.seen /\ d.todo = <<rec>>
      /\ d.retry = Tail(c.retry) /\ d.rounds \in Nat
  BY <1>3 DEF Fields
<1> HIDE DEF d
<1>8. Sound(d)
  BY <1>1, <1>2, <1>3, <1>4, <1>5, <1>6, <1>7, SoundDecide
<1> QED BY <1>1, <1>7, <1>8, OrderlyStep

LEMMA WorthIs ==
    ASSUME NEW recs, NEW e \in Worth(recs)
    PROVE  e \in Entries /\ e \in Proposals /\ e.key \in Claims(recs)
<1>1. e \in Proposals /\ e.key \in Claims(recs)
  BY DEF Worth, Proposed
<1>2. Range(GoalClaims) \subseteq Keys /\ Spines \subseteq Keys
  BY GoalsType, RangeOfSeq, CoversType DEF Spines
<1> QED BY <1>1, <1>2, ProposalsType DEF Entries

LEMMA OrderlySyncNext ==
    ASSUME Orderly, NEW p \in Procs, SyncNext(p)
    PROVE  Orderly'
<1> DEFINE c == proc[p]
<1>1. PICK e \in Worth(c.seen) :
            LET rec == Verdict(c.seen, e)
            IN  proc' = [proc EXCEPT ![p].todo   = <<rec>>,
                                     ![p].rounds = IF rec.op = "support" THEN @ - 1 ELSE @]
  BY DEF SyncNext
<1> DEFINE rec == Verdict(c.seen, e)
           d == [c EXCEPT !.todo = <<rec>>, !.rounds = IF rec.op = "support" THEN @ - 1 ELSE @]
<1>2. /\ c # Idle /\ c.todo = <<>> /\ c.rounds > 0
      /\ proc' = [proc EXCEPT ![p] = d] /\ UNCHANGED <<ledger, files, statement, allowed>>
  BY <1>1 DEF SyncNext
<1>3. Sound(c)
  BY <1>2 DEF Orderly
<1>4. c.retry \in Seq(Entries) /\ c.cmd # "merge" /\ c.rounds \in Nat /\ Fields \subseteq DOMAIN c
  BY <1>2, <1>3 DEF Sound
<1>5. e \in Entries /\ e.key \in Claims(c.seen)
  BY <1>1, WorthIs
<1>6. rec \in {Support(e), Refused(e)}
  BY <1>5, VerdictRecords
<1> HIDE DEF rec
<1>7. /\ Fields \subseteq DOMAIN d
      /\ d.cmd = c.cmd /\ d.branch = c.branch /\ d.seen = c.seen /\ d.todo = <<rec>>
      /\ d.retry = c.retry /\ d.rounds \in Nat
  BY <1>2, <1>4 DEF Fields
<1> HIDE DEF d
<1>8. Sound(d)
  BY <1>2, <1>3, <1>4, <1>5, <1>6, <1>7, SoundDecide
<1> QED BY <1>2, <1>7, <1>8, OrderlyStep

LEMMA OrderlyStore ==
    ASSUME Orderly, NEW p \in Procs, NEW r \in Receipts, Store(p, r)
    PROVE  Orderly'
<1>1. Custody'
  BY DEF Store, Working, Custody, Orderly
<1>2. TypeOK'
  BY DEF Store, Orderly, TypeOK
<1> QED BY <1>1, <1>2 DEF Orderly, Store, LabelsNameOneClaim

\* The next record is appended to the ledger the command knows.
LEMMA OrderlyWrite ==
    ASSUME Orderly, Alone, NEW p \in Procs, Write(p)
    PROVE  Orderly'
<1> DEFINE c == proc[p]
           b == c.branch
           rec == NextRecord(p)
           d == Wrote(c, rec)
           after == After(p)
<1>1. /\ c # Idle /\ c.todo # <<>> /\ UNCHANGED <<files, statement, allowed>>
      /\ ledger' = [ledger EXCEPT ![b] = Append(@, rec)]
      /\ proc' = [proc EXCEPT ![p] = after]
      /\ after \in {Idle, d}
  BY DEF Write, Working, After, Wrote
<1>2. /\ Custody /\ TypeOK /\ LabelsNameOneClaim /\ Sound(c) /\ c.seen = ledger[b] /\ b \in Branches
      /\ \A q \in Procs : proc[q] # Idle => Sound(proc[q]) /\ proc[q].seen = ledger[proc[q].branch]
  BY <1>1 DEF Orderly, Sound
<1>3. IF Head(c.todo).op = "merging" THEN rec \in Records /\ rec.op = "merge" ELSE rec = Head(c.todo)
  <2>1. CASE Head(c.todo).op = "merging"
    <3>1. Head(c.todo) \in Lines /\ 1 \in DOMAIN c.todo /\ Head(c.todo) = c.todo[1]
      BY <1>1, <1>2, HeadTailProperties, EmptySeq, LenProperties DEF Sound
    <3>2. c.other \in Branches
      BY <1>2, <2>1, <3>1, Parts DEF Sound
    <3>3. Len(ledger[c.other]) \in Nat
      BY <1>2, <3>2, LenProperties DEF TypeOK
    <3>4. rec = [op |-> "merge", from |-> c.other, upTo |-> Len(ledger[c.other])]
      BY <2>1 DEF NextRecord
    <3> HIDE DEF rec
    <3>5. rec \in Records /\ rec.op = "merge"
      BY <3>2, <3>3, <3>4 DEF Records
    <3> QED BY <2>1, <3>5
  <2>2. CASE Head(c.todo).op # "merging"
    BY <2>2 DEF NextRecord
  <2> QED BY <2>1, <2>2
<1> HIDE DEF rec, after
<1>4. /\ Sound(d) /\ Append(c.seen, rec) \in Seq(Records) /\ WellFormed(Append(c.seen, rec))
  BY <1>1, <1>2, <1>3, SoundWrite
<1>5. d.branch = b /\ d.seen = Append(c.seen, rec)
  BY <1>2 DEF Wrote, Sound, Fields
<1> HIDE DEF d
<1>6. ledger' = [ledger EXCEPT ![b] = Append(c.seen, rec)] /\ ledger'[b] = Append(c.seen, rec)
  BY <1>1, <1>2 DEF TypeOK
<1>7. TypeOK'
  <2>1. ledger' \in [Branches -> Seq(Records)] /\ \A x \in Branches : WellFiled(ledger'[x])
    BY <1>2, <1>4, <1>6 DEF TypeOK, WellFormed
  <2>2. \A q \in Procs : proc'[q] = Idle \/ proc'[q].branch \in Branches
    BY <1>1, <1>2, <1>5 DEF TypeOK, Custody
  <2> QED BY <1>1, <1>2, <2>1, <2>2 DEF TypeOK
<1>8. LabelsNameOneClaim'
  BY <1>2, <1>4, <1>6 DEF LabelsNameOneClaim, WellFormed, TypeOK
<1>9. Custody'
  BY <1>2, CustodyWrite
<1>10. ASSUME NEW q \in Procs, proc'[q] # Idle
       PROVE  Sound(proc'[q]) /\ proc'[q].seen = ledger'[proc'[q].branch]
  <2>1. CASE q = p
    <3>1. proc'[q] = d
      BY <1>1, <1>2, <1>10, <2>1 DEF Custody
    <3> QED BY <1>4, <1>5, <1>6, <3>1
  <2>2. CASE q # p
    <3>1. proc'[q] = proc[q] /\ proc[q].branch # b
      BY <1>1, <1>2, <1>10, <2>2 DEF Custody, Alone
    <3>2. Sound(proc[q]) /\ proc[q].seen = ledger[proc[q].branch] /\ proc[q].branch \in Branches
      BY <1>2, <1>10, <3>1 DEF Sound
    <3> QED BY <1>6, <1>2, <3>1, <3>2 DEF TypeOK
  <2> QED BY <2>1, <2>2
<1> QED BY <1>7, <1>8, <1>9, <1>10 DEF Orderly

LEMMA OrderlyNext == Orderly /\ Alone /\ [Next]_vars => Orderly'
<1> SUFFICES ASSUME Orderly, Alone, [Next]_vars PROVE Orderly'
  OBVIOUS
<1>1. CASE UNCHANGED vars
  BY <1>1 DEF vars, Orderly, Custody, TypeOK, LabelsNameOneClaim
<1>2. ASSUME NEW b \in Branches, NEW s \in Statements, Edit(b, s) PROVE Orderly'
  <2>1. TypeOK'
    <3>1. allowed \in [keys : SUBSET Keys, statements : SUBSET Statements, commands : Nat]
      BY DEF Orderly, TypeOK
    <3>2. allowed.commands - 1 \in Nat
      BY <1>2, <3>1 DEF Edit, Spend
    <3>3. allowed' \in [keys : SUBSET Keys, statements : SUBSET Statements, commands : Nat]
      BY <1>2, <3>1, <3>2 DEF Edit, Spend
    <3> QED BY <1>2, <3>3 DEF Edit, Orderly, TypeOK
  <2> QED BY <1>2, <2>1 DEF Edit, Orderly, Custody, LabelsNameOneClaim
<1>3. ASSUME NEW p \in Procs, Crash(p) PROVE Orderly'
  BY <1>3, OrderlyStep DEF Crash
<1>4. ASSUME NEW p \in Procs, NEW b \in Branches,
             \/ InitLedger(p, b) \/ Restate(p, b) \/ BeginMerge(p, b) \/ FileGoal(p, b)
             \/ \E k \in Keys : Claim(p, b, k)
             \/ \E c \in Covers : Cover(p, b, c)
             \/ \E e \in Offers : Submit(p, b, e)
             \/ \E batch \in Batches : Batch(p, b, batch)
             \/ \E k \in Keys, cascade \in BOOLEAN : WithdrawClaim(p, b, k, cascade)
      PROVE  Orderly'
  BY <1>4, OrderlyInitLedger, OrderlyRestate, OrderlyBeginMerge, OrderlyFileGoal, OrderlyClaim,
     OrderlyCover, OrderlySubmit, OrderlyBatch, OrderlyWithdraw
<1>5. ASSUME NEW p \in Procs,
             \/ SubmitNext(p) \/ SyncNext(p) \/ Write(p)
             \/ \E other \in Branches : PlanMerge(p, other)
             \/ \E r \in Receipts : Store(p, r)
      PROVE  Orderly'
  BY <1>5, OrderlySubmitNext, OrderlySyncNext, OrderlyWrite, OrderlyPlanMerge, OrderlyStore
<1> QED BY <1>1, <1>2, <1>3, <1>4, <1>5 DEF Next

\* Ledgers, files and commands have the shape every reader counts on, on every
\* branch that one command at a time works on.
THEOREM LedgersAreFiled == Spec /\ []Alone => []TypeOK
<1>1. Orderly => TypeOK
  BY DEF Orderly
<1> QED BY <1>1, OrderlyInit, OrderlyNext, PTL DEF Spec

\* One label names one claim on such a branch, however branches are merged.
THEOREM LabelsName == Spec /\ []Alone => []LabelsNameOneClaim
<1>1. Orderly => LabelsNameOneClaim
  BY DEF Orderly
<1> QED BY <1>1, OrderlyInit, OrderlyNext, PTL DEF Spec

(***************************************************************************)
(* What a merge sets out to do                                             *)
(***************************************************************************)

\* A merge has a plan, and carries it out record by record.
Joined(c) ==
    c.cmd = "merge" /\ c.todo # <<>> =>
        /\ {"ours", "theirs"} \subseteq DOMAIN c
        /\ c.ours \in Seq(Records) /\ c.theirs \in Seq(Records)
        /\ MergePlan(c.ours, c.theirs).split = {}
        /\ MergePlan(c.ours, c.theirs).new \in Seq(Records)
        /\ Due(c) = c.ours \o MergedRecords(MergePlan(c.ours, c.theirs).new)

Intent == Orderly /\ \A p \in Procs : proc[p] # Idle => Joined(proc[p])

\* The support filed again for a buried claim is the chosen one.
LEMMA RefiledSupports ==
    ASSUME NEW ours \in Seq(Records), NEW theirs \in Seq(Records)
    PROVE  LET again == SetToSeq(Refiled(ours, theirs))
           IN  /\ DOMAIN Supports(again) = Buried(ours, theirs)
               /\ \A k \in Buried(ours, theirs) : Supports(again)[k] = Chosen(ours, theirs)[k]
<1> DEFINE again == SetToSeq(Refiled(ours, theirs))
           buried == Buried(ours, theirs)
           chosen == Chosen(ours, theirs)
<1>1. /\ again \in Seq(Records)
      /\ \A i \in DOMAIN again : /\ again[i].op = "support" /\ again[i].key \in buried
                                /\ again[i].receipt = chosen[again[i].key]
      /\ \A k \in buried : \E i \in DOMAIN again : again[i].key = k
  BY RefiledIs
<1> HIDE DEF again, buried, chosen
<1>2. SupportsLatest(again)
  BY <1>1, SupportsAre
<1>3. At(again, "support") = DOMAIN again
  BY <1>1 DEF At
<1>4. DOMAIN Supports(again) = buried
  BY <1>1, <1>2, <1>3 DEF SupportsLatest
<1>5. ASSUME NEW k \in buried PROVE Supports(again)[k] = chosen[k]
  <2>1. PICK i : IsLatest(again, k, i)
    BY <1>2, <1>4 DEF SupportsLatest
  <2>2. i \in DOMAIN again /\ again[i].key = k
    BY <1>3, <2>1 DEF IsLatest
  <2>3. Supports(again)[k] = again[i].receipt
    BY <1>2, <2>1 DEF SupportsLatest
  <2> QED BY <1>1, <2>2, <2>3
<1> QED BY <1>4, <1>5 DEF again, buried, chosen

\* What a plan merges has every record of both ledgers, and the support of one
\* of them wherever both have one.
LEMMA PlanJoins ==
    ASSUME NEW ours \in Seq(Records), NEW theirs \in Seq(Records),
           MergePlan(ours, theirs).split = {}
    PROVE  LET merged == ours \o MergePlan(ours, theirs).new
           IN  /\ Contents(ours) \cup Contents(theirs) \subseteq Contents(merged)
               /\ \A k \in Both(ours, theirs) :
                     Supports(merged)[k] \in {Supports(ours)[k], Supports(theirs)[k]}
<1> DEFINE pick  == Fresh(ours, theirs)
           again == SetToSeq(Refiled(ours, theirs))
           new   == MergePlan(ours, theirs).new
           T     == Contents(theirs) \ Contents(ours)
           first == ours \o pick
           merged == ours \o new
           chosen == Chosen(ours, theirs)
<1>1. pick \in Seq(Records) /\ Contents(pick) = T
  <2>1. pick \in Seq(Records) /\ Contents(pick) = Contents(theirs) \cap T
    <3> HIDE DEF T
    <3> QED BY OnlyContents DEF Fresh, T
  <2> QED BY <2>1
<1>2. again \in Seq(Records) /\ new = pick \o again
  BY RefiledIs, MergePlanParts
<1>3. /\ DOMAIN Supports(again) = Buried(ours, theirs)
      /\ \A k \in Buried(ours, theirs) : Supports(again)[k] = chosen[k]
  BY RefiledSupports
<1>4. Both(ours, theirs) \subseteq DOMAIN chosen
  BY MergePlanParts
<1> HIDE DEF pick, again, new
<1>5. first \in Seq(Records) /\ merged = first \o again
  <2>1. (ours \o pick) \o again = ours \o new
    BY <1>1, <1>2, ConcatTwice
  <2> QED BY <1>1, <2>1, ConcatProperties
<1>6. Contents(ours) \cup Contents(theirs) \subseteq Contents(merged)
  <2>1. Contents(first) = Contents(ours) \cup Contents(pick)
    BY <1>1, ConcatSays
  <2> HIDE DEF first
  <2>2. Contents(first \o again) = Contents(first) \cup Contents(again)
    BY <1>2, <1>5, ConcatSays
  <2> HIDE DEF merged
  <2> QED BY <1>1, <1>5, <2>1, <2>2
<1>7. ASSUME NEW k \in Both(ours, theirs)
      PROVE  Supports(merged)[k] = chosen[k]
  <2>1. k \in DOMAIN chosen /\ k \in DOMAIN Supports(ours)
    BY <1>4 DEF Both
  <2>2. k \in DOMAIN Supports(first)
    <3>1. Supersedes(first, ours, pick)
      BY <1>1, ConcatSupports
    <3> HIDE DEF first
    <3> QED BY <2>1, <3>1 DEF Supersedes
  <2>3. k \notin Buried(ours, theirs) => Supports(first)[k] = chosen[k]
    BY <2>1 DEF Buried, first, pick
  <2> HIDE DEF first, merged, chosen
  <2>4. /\ k \in DOMAIN Supports(again) => Supports(merged)[k] = Supports(again)[k]
        /\ k \notin DOMAIN Supports(again) => Supports(merged)[k] = Supports(first)[k]
    <3>1. Supersedes(merged, first, again)
      BY <1>2, <1>5, ConcatSupports
    <3> QED BY <2>2, <3>1 DEF Supersedes
  <2> QED BY <1>3, <2>3, <2>4
<1>8. \A k \in Both(ours, theirs) : chosen[k] \in {Supports(ours)[k], Supports(theirs)[k]}
  BY <1>4, ChosenIs
<1> QED BY <1>6, <1>7, <1>8 DEF new

\* A command that starts, or takes a step that leaves the ledgers alone.
LEMMA IntentSet ==
    ASSUME Intent, Orderly', NEW p \in Procs, NEW c, proc' = [proc EXCEPT ![p] = c],
           c # Idle => Joined(c)
    PROVE  Intent'
<1>1. proc = [q \in Procs |-> proc[q]]
  BY DEF Intent, Orderly, Custody
<1>2. proc'[p] = c /\ \A q \in Procs : q # p => proc'[q] = proc[q]
  BY <1>1
<1>3. ASSUME NEW q \in Procs, proc'[q] # Idle PROVE Joined(proc'[q])
  BY <1>2, <1>3 DEF Intent
<1> QED BY <1>3 DEF Intent

LEMMA IntentStart ==
    ASSUME Intent, Orderly', NEW p \in Procs, NEW b \in Branches, NEW cmd, NEW todo, NEW retry,
           Start(p, b, cmd, todo, retry),
           cmd = "merge" => todo = <<>>
    PROVE  Intent'
<1> DEFINE c == [cmd |-> cmd, branch |-> b, seen |-> ledger[b],
                 todo |-> todo, retry |-> retry, rounds |-> IF cmd \in Syncing THEN Rounds ELSE 0]
<1>1. proc' = [proc EXCEPT ![p] = c]
  BY DEF Start
<1>2. Joined(c)
  BY DEF Joined
<1> HIDE DEF c
<1> QED BY <1>1, <1>2, IntentSet

\* Each record leaves the rest of the plan.
LEMMA IntentWrite ==
    ASSUME Intent, Orderly', NEW p \in Procs, Write(p)
    PROVE  Intent'
<1> DEFINE c == proc[p]
           rec == NextRecord(p)
           d == Wrote(c, rec)
           after == After(p)
<1>1. /\ c # Idle /\ c.todo # <<>> /\ proc' = [proc EXCEPT ![p] = after] /\ after \in {Idle, d}
      /\ after = IF Ended(d) THEN Idle ELSE d
  BY DEF Write, Working, After, Wrote
<1>2. Sound(c) /\ Joined(c)
  BY <1>1 DEF Intent, Orderly
<1>3. Head(c.todo).op # "merging" => rec = Head(c.todo)
  BY DEF NextRecord
<1>4. /\ d.cmd = c.cmd /\ d.retry = c.retry /\ d.rounds = c.rounds
      /\ d.todo = Tail(c.todo) /\ d.seen = Append(c.seen, rec)
      /\ {"ours", "theirs"} \subseteq DOMAIN c =>
            /\ {"ours", "theirs"} \subseteq DOMAIN d
            /\ d.ours = c.ours /\ d.theirs = c.theirs
  BY <1>2 DEF Wrote, Sound, Fields
<1>5. /\ c.seen \in Seq(Lines) /\ c.todo \in Seq(Lines) /\ Head(c.todo) \in Lines
      /\ Head(c.todo) = c.todo[1] /\ 1 \in DOMAIN c.todo
  BY <1>1, <1>2, RecordsLines, HeadTailProperties, EmptySeq, LenProperties DEF Sound
<1>7. ASSUME c.cmd = "merge", Tail(c.todo) # <<>>
      PROVE  Head(c.todo).op # "merging" /\ Due(d) = Due(c)
  <2>1. Len(c.todo) # 1
    <3>1. Len(Tail(c.todo)) # 0 /\ Len(Tail(c.todo)) = Len(c.todo) - 1
      BY <1>1, <1>5, <1>7, HeadTailProperties, EmptySeq
    <3> QED BY <3>1
  <2>2. Head(c.todo).op # "merging"
    BY <1>2, <1>5, <2>1, Parts DEF Sound
  <2>3. Append(c.seen, Head(c.todo)) \o Tail(c.todo) = c.seen \o c.todo
    <3> DEFINE seen == c.seen
               todo == c.todo
    <3>1. seen \in Seq(Lines) /\ todo \in Seq(Lines) /\ todo # <<>>
      BY <1>1, <1>5
    <3> HIDE DEF seen, todo
    <3>2. Append(seen, Head(todo)) \o Tail(todo) = seen \o todo
      BY <3>1, TakeNext
    <3> QED BY <3>2 DEF seen, todo
  <2> QED BY <1>3, <1>4, <2>2, <2>3 DEF Due
<1> HIDE DEF rec, d, after
<1>8. after # Idle => Joined(after)
  BY <1>1, <1>2, <1>4, <1>7 DEF Joined
<1> QED BY <1>1, <1>8, IntentSet

LEMMA IntentPlan ==
    ASSUME Intent, Orderly', NEW p \in Procs, NEW other \in Branches, PlanMerge(p, other)
    PROVE  Intent'
<1> DEFINE ours == proc[p].seen
           theirs == ledger[other]
           plan == MergePlan(ours, theirs)
           todo == MergedRecords(plan.new)
           c == [cmd |-> "merge", branch |-> proc[p].branch, seen |-> ours,
                 todo |-> todo, retry |-> <<>>, rounds |-> 0,
                 other |-> other, ours |-> ours, theirs |-> theirs]
<1>1. CASE Readable(other) /\ Mergeable(ours, theirs)
  <2>1. proc' = [proc EXCEPT ![p] = c] /\ proc[p] # Idle /\ proc[p].todo = <<>>
    BY <1>1 DEF PlanMerge, Idle, Intent, Orderly, Custody
  <2>2. Sound(proc[p]) /\ ours \in Seq(Records) /\ theirs \in Seq(Records) /\ WellFiled(theirs)
    BY <2>1, OrderlyLedger DEF Intent, Orderly, Sound
  <2>3. WellFormed(ours)
    <3>1. Due(proc[p]) = ours
      BY <2>1, <2>2, ConcatEmptySeq DEF Due
    <3> QED BY <2>2, <3>1 DEF Sound
  <2>4. plan.split = {} /\ plan.new \in Seq(Records)
    <3>1. plan.split = {}
      BY <1>1 DEF Mergeable
    <3> HIDE DEF ours, theirs
    <3> QED BY <1>1, <2>2, <2>3, <3>1, MergeFits
  <2>5. Joined(c)
    <3>1. /\ c.ours = ours /\ c.theirs = theirs /\ Due(c) = ours \o todo
          /\ {"ours", "theirs"} \subseteq DOMAIN c
      BY DEF Due
    <3> HIDE DEF c, ours, theirs
    <3> QED BY <2>2, <2>4, <3>1 DEF Joined
  <2> HIDE DEF c
  <2> QED BY <2>1, <2>5, IntentSet
<1>2. CASE ~(Readable(other) /\ Mergeable(ours, theirs))
  <2>1. proc' = [proc EXCEPT ![p] = Idle]
    BY <1>2 DEF PlanMerge
  <2> QED BY <2>1, IntentSet
<1> QED BY <1>1, <1>2

\* A merge submits no receipts.
LEMMA IntentDecide ==
    ASSUME Intent, Orderly', NEW p \in Procs, SubmitNext(p) \/ SyncNext(p)
    PROVE  Intent'
<1> DEFINE c == proc[p]
<1>1. c # Idle /\ c.todo = <<>> /\ (c.retry # <<>> \/ c.rounds > 0)
  BY DEF SubmitNext, SyncNext
<1>2. Sound(c)
  BY <1>1 DEF Intent, Orderly
<1>3. c.cmd # "merge"
  BY <1>1, <1>2 DEF Sound
<1>5. \E todo, retry, rounds :
         proc' = [proc EXCEPT ![p] = [c EXCEPT !.todo = todo, !.retry = retry, !.rounds = rounds]]
  <2>1. CASE SubmitNext(p)
    BY <2>1 DEF SubmitNext
  <2>2. CASE SyncNext(p)
    <3>1. PICK e \in Worth(c.seen) :
              LET rec == Verdict(c.seen, e)
              IN  proc' = [proc EXCEPT ![p].todo   = <<rec>>,
                                       ![p].rounds = IF rec.op = "support" THEN @ - 1 ELSE @]
      BY <2>2 DEF SyncNext
    <3> DEFINE rec == Verdict(c.seen, e)
               todo == <<rec>>
               rounds == IF rec.op = "support" THEN c.rounds - 1 ELSE c.rounds
    <3>2. proc' = [proc EXCEPT ![p] = [c EXCEPT !.todo = todo, !.rounds = rounds]]
      BY <3>1
    <3>3. "retry" \in DOMAIN c
      BY <1>2 DEF Sound, Fields
    <3>4. [c EXCEPT !.todo = todo, !.rounds = rounds]
            = [c EXCEPT !.todo = todo, !.retry = c.retry, !.rounds = rounds]
      BY <3>3
    <3> QED BY <3>2, <3>4
  <2> QED BY <2>1, <2>2
<1>6. PICK todo, retry, rounds :
         proc' = [proc EXCEPT ![p] = [c EXCEPT !.todo = todo, !.retry = retry, !.rounds = rounds]]
  BY <1>5
<1> DEFINE d == [c EXCEPT !.todo = todo, !.retry = retry, !.rounds = rounds]
<1>7. d.cmd = c.cmd
  BY <1>2 DEF Sound, Fields
<1> HIDE DEF d
<1>8. Joined(d)
  BY <1>3, <1>7 DEF Joined
<1> QED BY <1>6, <1>8, IntentSet DEF d

LEMMA IntentNext == Intent /\ Alone /\ [Next]_vars => Intent'
<1> SUFFICES ASSUME Intent, Alone, [Next]_vars PROVE Intent'
  OBVIOUS
<1>0. Orderly'
  BY OrderlyNext DEF Intent
<1>1. ASSUME UNCHANGED proc PROVE Intent'
  BY <1>0, <1>1 DEF Intent
<1>2. CASE UNCHANGED vars
  BY <1>1, <1>2 DEF vars
<1>3. ASSUME NEW b \in Branches, NEW s \in Statements, Edit(b, s) PROVE Intent'
  BY <1>1, <1>3 DEF Edit
<1>4. ASSUME NEW p \in Procs, NEW r \in Receipts, Store(p, r) PROVE Intent'
  BY <1>1, <1>4 DEF Store
<1>5. ASSUME NEW p \in Procs, Crash(p) PROVE Intent'
  BY <1>0, <1>5, IntentSet DEF Crash
<1>6. ASSUME NEW p \in Procs, NEW b \in Branches, InitLedger(p, b) PROVE Intent'
  BY <1>0, <1>6, IntentStart DEF InitLedger
<1>7. ASSUME NEW p \in Procs, NEW b \in Branches, Restate(p, b) PROVE Intent'
  BY <1>0, <1>7, IntentStart DEF Restate
<1>8. ASSUME NEW p \in Procs, NEW b \in Branches, BeginMerge(p, b) PROVE Intent'
  BY <1>0, <1>8, IntentStart DEF BeginMerge
<1>9. ASSUME NEW p \in Procs, NEW b \in Branches, FileGoal(p, b) PROVE Intent'
  BY <1>0, <1>9, IntentStart DEF FileGoal
<1>10. ASSUME NEW p \in Procs, NEW b \in Branches, NEW k \in Keys, Claim(p, b, k) PROVE Intent'
  BY <1>0, <1>10, IntentStart DEF Claim
<1>11. ASSUME NEW p \in Procs, NEW b \in Branches, NEW c \in Covers, Cover(p, b, c) PROVE Intent'
  BY <1>0, <1>11, IntentStart DEF Cover
<1>12. ASSUME NEW p \in Procs, NEW b \in Branches, NEW e \in Offers, Submit(p, b, e) PROVE Intent'
  BY <1>0, <1>12, IntentStart DEF Submit
<1>13. ASSUME NEW p \in Procs, NEW b \in Branches, NEW batch \in Batches, Batch(p, b, batch)
       PROVE  Intent'
  <2>1. PICK todo, retry : Start(p, b, "submit-batch", todo, retry)
    BY <1>13 DEF Batch
  <2> QED BY <1>0, <2>1, IntentStart
<1>14. ASSUME NEW p \in Procs, NEW b \in Branches, NEW k \in Keys, NEW cascade \in BOOLEAN,
              WithdrawClaim(p, b, k, cascade)
       PROVE  Intent'
  <2>1. PICK cmd \in {"withdraw", "withdraw --cascade"} : Start(p, b, cmd, <<Withdraw(k)>>, <<>>)
    BY <1>14 DEF WithdrawClaim
  <2> QED BY <1>0, <2>1, IntentStart
<1>15. ASSUME NEW p \in Procs, NEW other \in Branches, PlanMerge(p, other) PROVE Intent'
  BY <1>0, <1>15, IntentPlan
<1>16. ASSUME NEW p \in Procs, SubmitNext(p) \/ SyncNext(p) PROVE Intent'
  BY <1>0, <1>16, IntentDecide
<1>17. ASSUME NEW p \in Procs, Write(p) PROVE Intent'
  BY <1>0, <1>17, IntentWrite
<1> QED
  BY <1>2, <1>3, <1>4, <1>5, <1>6, <1>7, <1>8, <1>9, <1>10, <1>11, <1>12, <1>13, <1>14, <1>15,
     <1>16, <1>17
  DEF Next

LEMMA IntentInit == Init => Intent
BY OrderlyInit DEF Init, Intent

\* Ledgers change when a command writes.
LEMMA WritersChange ==
    ASSUME [Next]_vars, ledger' # ledger
    PROVE  \E q \in Procs : Write(q)
<1>1. ASSUME NEW x \in Branches, NEW s \in Statements, Edit(x, s) PROVE FALSE
  BY <1>1 DEF Edit
<1>2. ASSUME NEW q \in Procs, NEW x \in Branches,
             \/ InitLedger(q, x) \/ Restate(q, x) \/ BeginMerge(q, x) \/ FileGoal(q, x)
             \/ \E k \in Keys : Claim(q, x, k)
             \/ \E e \in Covers : Cover(q, x, e)
             \/ \E e \in Offers : Submit(q, x, e)
             \/ \E batch \in Batches : Batch(q, x, batch)
             \/ \E k \in Keys, cascade \in BOOLEAN : WithdrawClaim(q, x, k, cascade)
      PROVE  FALSE
  BY <1>2
  DEF InitLedger, Restate, BeginMerge, FileGoal, Claim, Cover, Submit, Batch, WithdrawClaim, Start
<1>3. ASSUME NEW q \in Procs,
             \/ SubmitNext(q) \/ SyncNext(q) \/ Crash(q)
             \/ \E other \in Branches : PlanMerge(q, other)
             \/ \E r \in Receipts : Store(q, r)
      PROVE  FALSE
  BY <1>3 DEF SubmitNext, SyncNext, Crash, PlanMerge, Store
<1>4. Next
  BY DEF vars
<1> QED BY <1>1, <1>2, <1>3, <1>4 DEF Next

\* The ledger a command works on is changed by its own records only.
LEMMA LedgerSteps ==
    ASSUME Orderly, Alone, [Next]_vars, ledger' # ledger, NEW p \in Procs, proc[p] # Idle
    PROVE  /\ proc[p].seen = ledger[proc[p].branch] /\ proc[p].branch \in Branches
           /\ \/ ledger'[proc[p].branch] = ledger[proc[p].branch]
              \/ /\ Write(p)
                 /\ ledger'[proc[p].branch] = Append(ledger[proc[p].branch], NextRecord(p))
<1> DEFINE b == proc[p].branch
<1>1. PICK q \in Procs : Write(q)
  BY WritersChange
<1>2. /\ proc[p].seen = ledger[b] /\ b \in Branches
      /\ ledger = [x \in Branches |-> ledger[x]]
  BY DEF Orderly, Custody
<1>3. ledger' = [ledger EXCEPT ![proc[q].branch] = Append(@, NextRecord(q))] /\ proc[q] # Idle
  BY <1>1 DEF Write, Working
<1>4. CASE q = p
  BY <1>1, <1>2, <1>3, <1>4
<1>5. CASE q # p
  <2>1. proc[q].branch # b
    BY <1>3, <1>5 DEF Alone
  <2>2. ledger'[b] = ledger[b]
    BY <1>2, <1>3, <2>1
  <2> QED BY <1>2, <2>2
<1> QED BY <1>4, <1>5

\* A ledger and one record more is the other ledger and the same record more.
LEMMA AppendCancels ==
    ASSUME NEW S, NEW s \in Seq(S), NEW t \in Seq(S), NEW r \in S, Append(s, r) = Append(t, r)
    PROVE  s = t
<1>1. /\ Len(Append(s, r)) = Len(s) + 1 /\ Len(Append(t, r)) = Len(t) + 1
      /\ Len(s) \in Nat /\ Len(t) \in Nat
      /\ \A i \in 1..Len(s) : Append(s, r)[i] = s[i]
      /\ \A i \in 1..Len(t) : Append(t, r)[i] = t[i]
  BY AppendProperties, LenProperties
<1>2. Len(s) = Len(t) /\ \A i \in 1..Len(s) : s[i] = t[i]
  BY <1>1
<1> QED BY <1>2, SeqEqual

\* The record of a merge supports nothing.
LEMMA MergeRecordSays ==
    ASSUME NEW s \in Seq(Records), NEW r \in Records, r.op = "merge"
    PROVE  /\ Contents(s) \subseteq Contents(Append(s, r))
           /\ Supports(Append(s, r)) = Supports(s)
<1> DEFINE t == <<r>>
<1>1. t \in Seq(Records) /\ At(t, "support") = {}
  BY DEF At
<1>2. Append(s, r) = s \o t
  BY AppendIsConcat
<1> HIDE DEF t
<1>3. Contents(s) \subseteq Contents(s \o t)
  BY <1>1, ConcatSays
<1>4. Supports(s \o t) = Supports(s)
  BY <1>1, ConcatUnsupported
<1> QED BY <1>2, <1>3, <1>4

\* A merge that completes has joined the two ledgers it read.
THEOREM MergesJoin == Spec /\ []Alone => MergeIsAJoin
<1> DEFINE Step ==
      \A p \in Procs :
          MergeEnds(p) =>
          LET merged == ledger'[proc[p].branch]
              so == Supports(proc[p].ours)
              st == Supports(proc[p].theirs)
          IN  /\ Contents(proc[p].ours) \cup Contents(proc[p].theirs) \subseteq Contents(merged)
              /\ \A k \in DOMAIN so \cap DOMAIN st : Supports(merged)[k] \in {so[k], st[k]}
<1>1. ASSUME Intent, Alone, [Next]_vars, NEW p \in Procs, MergeEnds(p)
      PROVE  /\ Contents(proc[p].ours) \cup Contents(proc[p].theirs)
                    \subseteq Contents(ledger'[proc[p].branch])
             /\ \A k \in Both(proc[p].ours, proc[p].theirs) :
                   Supports(ledger'[proc[p].branch])[k]
                       \in {Supports(proc[p].ours)[k], Supports(proc[p].theirs)[k]}
  <2> DEFINE c == proc[p]
             recs == ledger[c.branch]
             after == ledger'[c.branch]
             new == MergePlan(c.ours, c.theirs).new
             joined == c.ours \o new
  <2>1. c # Idle /\ c.todo # <<>> /\ Head(c.todo).op = "merging" /\ ledger' # ledger
    BY <1>1 DEF MergeEnds, Working
  <2>2. /\ Sound(c) /\ Joined(c) /\ c.seen = recs /\ c.branch \in Branches
        /\ recs \in Seq(Records) /\ after \in Seq(Records)
    <3>1. Orderly' /\ Sound(c) /\ Joined(c) /\ c.seen = recs
      BY <1>1, <2>1, OrderlyNext DEF Intent, Orderly
    <3>2. c.branch \in Branches
      BY <3>1 DEF Sound
    <3> QED BY <1>1, <3>1, <3>2 DEF Intent, Orderly, TypeOK
  <2>3. c.cmd = "merge" /\ c.todo = <<Merging>>
    <3>1. /\ c.todo \in Seq(Lines) /\ Head(c.todo) = Merging /\ c.todo[1] = Merging
          /\ 1 \in DOMAIN c.todo
      BY <2>1, <2>2, HeadTailProperties, EmptySeq, LenProperties, Parts DEF Sound
    <3>2. Len(c.todo) = 1 /\ c.cmd = "merge"
      BY <2>2, <3>1 DEF Sound
    <3>3. Tail(c.todo) = <<>> /\ c.todo = <<Merging>> \o Tail(c.todo)
      <4>1. Len(Tail(c.todo)) = 0 /\ Tail(c.todo) \in Seq(Lines)
        BY <2>1, <3>1, <3>2, HeadTailProperties
      <4> QED BY <2>1, <3>1, <4>1, TakeNext, EmptySeq
    <3>4. <<Merging>> \in Seq(Lines)
      BY DEF Lines
    <3> QED BY <3>2, <3>3, <3>4, ConcatEmptySeq
  <2>4. /\ c.ours \in Seq(Records) /\ c.theirs \in Seq(Records)
        /\ MergePlan(c.ours, c.theirs).split = {} /\ new \in Seq(Records)
        /\ Due(c) = c.ours \o MergedRecords(new)
    BY <2>1, <2>2, <2>3 DEF Joined
  <2>5. recs = joined
    <3> HIDE DEF recs, new
    <3>1. joined \in Seq(Lines) /\ recs \in Seq(Lines) /\ Merging \in Lines
      <4>1. joined \in Seq(Records)
        BY <2>4, ConcatProperties
      <4> QED BY <2>2, <4>1, RecordsLines DEF Lines
    <3>2. Due(c) = Append(recs, Merging)
      <4>1. Due(c) = recs \o <<Merging>>
        BY <2>2, <2>3 DEF Due
      <4> HIDE DEF Merging
      <4> QED BY <3>1, <4>1, AppendIsConcat
    <3>3. Due(c) = Append(joined, Merging)
      <4>1. MergedRecords(new) = new \o <<Merging>>
        <5>1. new \in Seq(Lines) /\ MergedRecords(new) = Append(new, Merging)
          BY <2>4, RecordsLines DEF MergedRecords, Merging
        <5> HIDE DEF Merging
        <5> QED BY <3>1, <5>1, AppendIsConcat
      <4>2. (c.ours \o new) \o <<Merging>> = c.ours \o MergedRecords(new)
        <5> DEFINE last == <<Merging>>
                   todo == MergedRecords(new)
                   ours == c.ours
        <5>1. ours \in Seq(Lines) /\ new \in Seq(Lines) /\ last \in Seq(Lines)
          BY <2>4, <3>1, RecordsLines
        <5>2. todo = new \o last
          BY <4>1
        <5> HIDE DEF last, todo, ours
        <5>3. (ours \o new) \o last = ours \o todo
          BY <5>1, <5>2, ConcatTwice
        <5> QED BY <5>3 DEF last, todo, ours
      <4> HIDE DEF Merging, joined
      <4>3. joined \o <<Merging>> = Append(joined, Merging)
        BY <3>1, AppendIsConcat
      <4> QED BY <2>4, <4>2, <4>3 DEF joined
    <3> HIDE DEF joined, Merging
    <3> QED BY <3>1, <3>2, <3>3, AppendCancels
  <2>6. /\ Contents(c.ours) \cup Contents(c.theirs) \subseteq Contents(recs)
        /\ \A k \in Both(c.ours, c.theirs) :
              Supports(recs)[k] \in {Supports(c.ours)[k], Supports(c.theirs)[k]}
    <3> HIDE DEF recs
    <3> QED BY <2>4, <2>5, PlanJoins
  <2>7. Contents(recs) \subseteq Contents(after) /\ Supports(after) = Supports(recs)
    <3>1. after = recs \/ (Write(p) /\ after = Append(recs, NextRecord(p)))
      BY <1>1, <2>1, LedgerSteps DEF Intent
    <3>2. NextRecord(p) = [op |-> "merge", from |-> c.other, upTo |-> Len(ledger[c.other])]
      BY <2>1 DEF NextRecord
    <3>3. NextRecord(p) \in Records /\ NextRecord(p).op = "merge"
      <4>1. c.other \in Branches
        <5>1. 1 \in DOMAIN c.todo /\ c.todo[1] = Merging
          BY <2>3
        <5> QED BY <2>2, <5>1 DEF Sound
      <4>2. Len(ledger[c.other]) \in Nat
        BY <1>1, <4>1, LenProperties DEF Intent, Orderly, TypeOK
      <4> QED BY <3>2, <4>1, <4>2 DEF Records
    <3> HIDE DEF recs, after
    <3> QED BY <2>2, <3>1, <3>3, MergeRecordSays
  <2> HIDE DEF recs, after
  <2> QED BY <2>6, <2>7 DEF after
<1>2. ASSUME Intent, Alone, [Next]_vars PROVE [Step]_vars
  <2>1. Step
    BY <1>1, <1>2 DEF Both
  <2> QED BY <2>1
<1> HIDE DEF Step
<1>3. Spec /\ []Alone => [][Step]_vars
  BY <1>2, IntentInit, IntentNext, PTL DEF Spec
<1> QED BY <1>3 DEF MergeIsAJoin, Step

(***************************************************************************)
(* Accepted claims                                                         *)
(***************************************************************************)

\* Nobody merges: a merge is known to take holds away.
Unmerged == \A p \in Procs : proc[p] # Idle => proc[p].cmd # "merge"

\* The record of a command that does not merge is the next one due.
LEMMA NextIsDue ==
    ASSUME Orderly, NEW p \in Procs, Write(p), proc[p].cmd # "merge"
    PROVE  /\ NextRecord(p) = Head(proc[p].todo) /\ NextRecord(p) \in Records
           /\ proc[p].todo \in Seq(Records) /\ Tail(proc[p].todo) \in Seq(Records)
           /\ proc[p].seen \in Seq(Records)
<1> DEFINE c == proc[p]
           todo == c.todo
<1>1. c # Idle /\ todo # <<>> /\ Sound(c) /\ c.cmd # "merge"
  BY DEF Write, Working, Orderly
<1>2. todo \in Seq(Lines) /\ \A i \in DOMAIN todo : todo[i] # Merging
  BY <1>1 DEF Sound
<1>3. c.seen \in Seq(Records)
  BY <1>1 DEF Sound
<1> HIDE DEF todo
<1>4. todo \in Seq(Records)
  <2>1. DOMAIN todo = 1..Len(todo) /\ Len(todo) \in Nat /\ \A i \in DOMAIN todo : todo[i] \in Records
    BY <1>2, LenProperties, ElementOfSeq DEF Lines
  <2>2. todo \in [1..Len(todo) -> Records]
    BY <1>2, <2>1, LenProperties
  <2> QED BY <2>1, <2>2, SeqDef
<1>5. Head(todo) \in Records /\ Tail(todo) \in Seq(Records)
  BY <1>1, <1>4, HeadTailProperties DEF todo
<1>6. NextRecord(p) = Head(todo)
  <2>1. Head(todo).op # "merging"
    BY <1>5 DEF Records
  <2> QED BY <2>1 DEF NextRecord, todo
<1> QED BY <1>3, <1>4, <1>5, <1>6 DEF todo

\* What would be held if nothing were withdrawn is stable, and in every stable set.
LEMMA GroundStable ==
    ASSUME NEW recs
    PROVE  /\ Stable(recs, Ground(recs))
           /\ \A T : Stable(recs, T) => Ground(recs) \subseteq T
<1> DEFINE sup == Supports(recs)
           keys == DOMAIN sup
<1>1. ASSUME NEW k \in keys, <<k, sup[k]>> \in Valid, PremisesOf[sup[k]] \subseteq Ground(recs)
      PROVE  k \in Ground(recs)
  <2>1. ASSUME NEW S \in SUBSET keys, Stable(recs, S) PROVE k \in S
    <3>1. Ground(recs) \subseteq S
      BY <2>1 DEF Ground
    <3> QED BY <1>1, <2>1, <3>1 DEF Stable
  <2> QED BY <2>1 DEF Ground
<1>2. ASSUME NEW T, Stable(recs, T) PROVE Ground(recs) \subseteq T
  <2>1. T \cap keys \in SUBSET keys /\ Stable(recs, T \cap keys)
    BY <1>2 DEF Stable
  <2> QED BY <2>1 DEF Ground
<1> QED BY <1>1, <1>2 DEF Stable

\* The rules by which a fold holds claims.
Rules(recs, trial) == {e \in Offer(recs, trial) : Stands(recs, e)}

\* A fold's result has every claim whose rule has its premises in it, and is in
\* every set that does.
LEMMA FoldLeast ==
    ASSUME NEW recs, NEW trial
    PROVE  /\ \A e \in Rules(recs, trial) :
                 PremisesOf[e.receipt] \subseteq HeldWith(recs, trial) => e.key \in HeldWith(recs, trial)
           /\ \A T : (\A e \in Rules(recs, trial) : PremisesOf[e.receipt] \subseteq T => e.key \in T)
                        => HeldWith(recs, trial) \subseteq T
<1> DEFINE rules == Rules(recs, trial)
           keys == {e.key : e \in rules}
           Closed(S) == \A e \in rules : PremisesOf[e.receipt] \subseteq S => e.key \in S
           held == HeldWith(recs, trial)
<1>1. held = {k \in keys : \A S \in SUBSET keys : Closed(S) => k \in S}
  BY DEF HeldWith, Rules
<1> HIDE DEF rules, held
<1>2. ASSUME NEW e \in rules, PremisesOf[e.receipt] \subseteq held PROVE e.key \in held
  <2>1. ASSUME NEW S \in SUBSET keys, Closed(S) PROVE e.key \in S
    <3>1. held \subseteq S
      BY <1>1, <2>1
    <3> QED BY <1>2, <2>1, <3>1
  <2> QED BY <1>1, <2>1
<1>3. ASSUME NEW T, Closed(T) PROVE held \subseteq T
  <2>1. T \cap keys \in SUBSET keys /\ Closed(T \cap keys)
    BY <1>3
  <2> QED BY <1>1, <2>1
<1> QED BY <1>2, <1>3 DEF rules, held

\* What rests on withdrawn claims has those, and every claim whose support cites
\* one that it has.
LEMMA RestsGrown ==
    ASSUME NEW recs
    PROVE  /\ Withdrawn(recs) \subseteq RestsOnWithdrawn(recs)
           /\ \A k \in DOMAIN Supports(recs) :
                 PremisesOf[Supports(recs)[k]] \cap RestsOnWithdrawn(recs) # {}
                    => k \in RestsOnWithdrawn(recs)
<1> DEFINE sup == Supports(recs)
           gone == Withdrawn(recs)
           keys == gone \cup DOMAIN sup
           lost == RestsOnWithdrawn(recs)
           rests == {<<k, PremisesOf[sup[k]]>> : k \in DOMAIN sup}
           Grown(T) == gone \subseteq T /\ \A e \in rests : e[2] \cap T # {} => e[1] \in T
<1>1. lost = {k \in keys : \A T \in SUBSET keys : Grown(T) => k \in T}
  BY DEF RestsOnWithdrawn
<1> HIDE DEF lost
<1>2. gone \subseteq lost
  BY <1>1
<1>3. ASSUME NEW k \in DOMAIN sup, PremisesOf[sup[k]] \cap lost # {} PROVE k \in lost
  <2>1. ASSUME NEW T \in SUBSET keys, Grown(T) PROVE k \in T
    <3>1. lost \subseteq T
      BY <1>1, <2>1
    <3>2. <<k, PremisesOf[sup[k]]>> \in rests
      OBVIOUS
    <3> QED BY <1>3, <2>1, <3>1, <3>2
  <2> QED BY <1>1, <2>1
<1> QED BY <1>2, <1>3 DEF lost

\* Where nothing but withdrawals takes a hold away, an accepted claim is held
\* or rests on a withdrawn one.
LEMMA GroundedHolds ==
    ASSUME NEW recs, Grounded(recs), DOMAIN Supports(recs) \subseteq Claims(recs)
    PROVE  DOMAIN Supports(recs) \subseteq Held(recs) \cup RestsOnWithdrawn(recs)
<1> DEFINE sup == Supports(recs)
           T == Held(recs) \cup RestsOnWithdrawn(recs)
<1>1. ASSUME NEW k \in DOMAIN sup, <<k, sup[k]>> \in Valid, PremisesOf[sup[k]] \subseteq T
      PROVE  k \in T
  <2>1. CASE k \in Withdrawn(recs) \/ PremisesOf[sup[k]] \cap RestsOnWithdrawn(recs) # {}
    BY <2>1, RestsGrown
  <2>2. CASE k \notin Withdrawn(recs) /\ PremisesOf[sup[k]] \cap RestsOnWithdrawn(recs) = {}
    <3> DEFINE e == [key |-> k, receipt |-> sup[k]]
    <3>1. e \in Rules(recs, NoTrial) /\ e.key = k /\ e.receipt = sup[k]
      BY <1>1, <2>2 DEF Rules, Offer, Stands, NoTrial
    <3>2. PremisesOf[sup[k]] \subseteq HeldWith(recs, NoTrial)
      BY <1>1, <2>2 DEF Held
    <3> HIDE DEF e, sup
    <3>3. e.key \in HeldWith(recs, NoTrial)
      BY <3>1, <3>2, FoldLeast
    <3> QED BY <3>1, <3>3 DEF Held
  <2> QED BY <2>1, <2>2
<1>2. Stable(recs, T)
  BY <1>1 DEF Stable
<1> HIDE DEF T
<1>3. Ground(recs) \subseteq T
  BY <1>2, GroundStable
<1> QED BY <1>3 DEF Grounded, T

\* Ledger now supports the claims of K as trial says and the others as recs did.
Swaps(recs, now, trial) ==
    /\ DOMAIN Supports(now) = DOMAIN Supports(recs) \cup DOMAIN trial
    /\ \A k \in DOMAIN trial : Supports(now)[k] = trial[k]
    /\ \A k \in DOMAIN Supports(recs) \ DOMAIN trial : Supports(now)[k] = Supports(recs)[k]

\* What a fold with new supports holds would be held if nothing were withdrawn
\* and they were accepted.  If it holds all of them, nothing is lost.
LEMMA SwapGrounds ==
    ASSUME NEW recs, NEW now, NEW trial, Grounded(recs), Swaps(recs, now, trial),
           DOMAIN trial \subseteq HeldWith(recs, trial)
    PROVE  Grounded(now)
<1> DEFINE G == Ground(now)
<1>1. Stable(now, G)
  BY GroundStable
<1>2. HeldWith(recs, trial) \subseteq G
  <2>1. ASSUME NEW e \in Rules(recs, trial), PremisesOf[e.receipt] \subseteq G PROVE e.key \in G
    <3>1. /\ e.key \in DOMAIN Supports(recs) \cup DOMAIN trial
          /\ e.receipt = IF e.key \in DOMAIN trial THEN trial[e.key] ELSE Supports(recs)[e.key]
          /\ <<e.key, e.receipt>> \in Valid
      BY DEF Rules, Offer, Stands
    <3>2. e.key \in DOMAIN Supports(now) /\ Supports(now)[e.key] = e.receipt
      BY <3>1 DEF Swaps
    <3> HIDE DEF G
    <3> QED BY <1>1, <2>1, <3>1, <3>2 DEF Stable
  <2> HIDE DEF G
  <2> QED BY <2>1, FoldLeast
<1>3. DOMAIN trial \subseteq G
  BY <1>2
<1> HIDE DEF G
<1>4. Stable(recs, G)
  <2>1. ASSUME NEW k \in DOMAIN Supports(recs), <<k, Supports(recs)[k]>> \in Valid,
               PremisesOf[Supports(recs)[k]] \subseteq G
        PROVE  k \in G
    <3>1. CASE k \in DOMAIN trial
      BY <1>3, <3>1
    <3>2. CASE k \notin DOMAIN trial
      <4>1. k \in DOMAIN Supports(now) /\ Supports(now)[k] = Supports(recs)[k]
        BY <3>2 DEF Swaps
      <4> QED BY <1>1, <2>1, <4>1 DEF Stable
    <3> QED BY <3>1, <3>2
  <2> QED BY <2>1 DEF Stable
<1>5. Ground(recs) \subseteq G
  BY <1>4, GroundStable
<1> QED BY <1>3, <1>5 DEF Grounded, Swaps, G

LEMMA GroundedBySupports ==
    ASSUME NEW recs, NEW now, Supports(now) = Supports(recs)
    PROVE  Grounded(recs) <=> Grounded(now)
BY DEF Grounded, Ground, Stable

\* The trial entries of distinct keys.
LEMMA TrialIs ==
    ASSUME NEW es, \A e, f \in es : e.key = f.key => e = f
    PROVE  /\ DOMAIN Trial(es) = {e.key : e \in es}
           /\ \A e \in es : Trial(es)[e.key] = e.receipt
<1>1. ASSUME NEW e \in es PROVE Trial(es)[e.key] = e.receipt
  <2> DEFINE k == e.key
             f == CHOOSE f \in es : f.key = k
  <2>1. f \in es /\ f.key = k
    OBVIOUS
  <2>2. f = e
    BY <2>1
  <2>3. Trial(es)[k] = f.receipt
    BY DEF Trial
  <2> QED BY <2>2, <2>3
<1> QED BY <1>1 DEF Trial

\* One receipt that is accepted takes no hold away.
LEMMA VerdictGrounds ==
    ASSUME NEW recs \in Seq(Records), NEW e \in Entries, Grounded(recs),
           NEW rec, rec = Verdict(recs, e), NEW now, now = recs \o <<rec>>
    PROVE  Grounded(now)
<1> DEFINE todo == <<rec>>
           trial == Trial({e})
<1>1. rec \in Records /\ rec \in {Support(e), Refused(e)} /\ e.key \in Keys /\ e.receipt \in Receipts
  BY VerdictRecords DEF Entries
<1>2. todo \in Seq(Records)
  BY <1>1
<1>3. CASE rec = Refused(e)
  <2>1. rec.op = "refused"
    BY <1>3 DEF Refused
  <2>2. At(todo, "support") = {}
    BY <2>1 DEF At
  <2> HIDE DEF todo
  <2>3. now = recs \o todo
    BY DEF todo
  <2>4. Supports(now) = Supports(recs)
    BY <1>2, <2>2, <2>3, ConcatUnsupported
  <2> QED BY <2>4, GroundedBySupports
<1>4. CASE rec = Support(e)
  <2>1. rec.op = "support" /\ rec.key = e.key /\ rec.receipt = e.receipt
    BY <1>4 DEF Support
  <2>2. e.key \in HeldWith(recs, trial)
    BY <1>4, <2>1 DEF Verdict, Support, Refused
  <2>3. DOMAIN trial = {e.key} /\ trial[e.key] = e.receipt
    <3> DEFINE one == {e}
    <3>1. \A x, y \in one : x.key = y.key => x = y
      OBVIOUS
    <3>2. {x.key : x \in one} = {e.key} /\ e \in one
      OBVIOUS
    <3> HIDE DEF one
    <3>3. DOMAIN Trial(one) = {x.key : x \in one} /\ \A x \in one : Trial(one)[x.key] = x.receipt
      BY <3>1, TrialIs
    <3> QED BY <3>2, <3>3 DEF one
  <2>4. At(todo, "support") = {1} /\ todo[1] = rec
    BY <2>1 DEF At
  <2> HIDE DEF todo, trial
  <2>5. DOMAIN Supports(todo) = {e.key} /\ Supports(todo)[e.key] = e.receipt
    <3>1. SupportsLatest(todo)
      BY <1>2, SupportsAre
    <3>2. IsLatest(todo, e.key, 1)
      BY <2>1, <2>4 DEF IsLatest
    <3> QED BY <2>1, <2>4, <3>1, <3>2 DEF SupportsLatest
  <2>6. Supersedes(now, recs, todo)
    <3>1. now = recs \o todo
      BY DEF todo
    <3> QED BY <1>2, <3>1, ConcatSupports
  <2>7. Swaps(recs, now, trial)
    BY <2>3, <2>5, <2>6 DEF Supersedes, Swaps
  <2> QED BY <2>2, <2>3, <2>7, SwapGrounds
<1> QED BY <1>1, <1>3, <1>4

(***************************************************************************)
(* A batch                                                                 *)
(***************************************************************************)

\* The entries a batch looks at, those of a set that hold with that set's
\* receipts, and what is left when dropping the others has dropped all it will.
Prepared(recs, batch) == Only(batch, {e \in ToSet(batch) : e.key \in Submittable(recs)})

HeldOf(recs, es) == {e \in es : e.key \in HeldWith(recs, Trial(es))}

Keeping(recs, prepared) ==
    CHOOSE f : f = [n \in 0..Len(prepared) |->
                        IF n = 0 THEN HeldOf(recs, ToSet(prepared)) ELSE HeldOf(recs, f[n - 1])]

Kept(recs, prepared) == Keeping(recs, prepared)[Len(prepared)]

LEMMA BatchParts ==
    ASSUME NEW recs, NEW batch
    PROVE  LET prepared == Prepared(recs, batch)
               held == HeldOf(recs, ToSet(prepared))
               kept == Kept(recs, prepared)
               first == Only(prepared, ToSet(prepared) \ (held \ kept))
           IN  BatchPlan(recs, batch) =
                  IF \E e \in ToSet(prepared) : e.receipt \in Broken
                  THEN [todo |-> <<>>, retry |-> prepared]
                  ELSE [todo |-> Recorded(first, kept), retry |-> Only(prepared, held \ kept)]
BY DEF BatchPlan, Prepared, HeldOf, Keeping, Kept, Recorded

\* As many rounds as there are entries are enough: what is kept holds with what
\* is kept, and nothing more drops.
LEMMA KeptHolds ==
    ASSUME NEW recs, NEW prepared \in Seq(Entries)
    PROVE  /\ Kept(recs, prepared) \subseteq HeldOf(recs, ToSet(prepared))
           /\ HeldOf(recs, Kept(recs, prepared)) = Kept(recs, prepared)
<1> DEFINE N == Len(prepared)
           P == ToSet(prepared)
           A == HeldOf(recs, P)
           H == [es \in SUBSET P |-> HeldOf(recs, es)]
           f == Keeping(recs, prepared)
           g == [n \in 0..(N + 1) |-> IF n = N + 1 THEN HeldOf(recs, f[N]) ELSE f[n]]
<1>1. N \in Nat /\ DOMAIN prepared = 1..N
  BY LenProperties
<1>2. IsFiniteSet(P) /\ Cardinality(P) <= N
  <2> DEFINE at == [i \in 1..N |-> prepared[i]]
  <2>1. P = {prepared[i] : i \in 1..N}
    BY <1>1 DEF ToSet
  <2>2. at \in Surjection(1..N, P)
    BY <2>1 DEF Surjection
  <2>3. IsFiniteSet(1..N) /\ Cardinality(1..N) = N
    <3> HIDE DEF N
    <3>1. /\ IsFiniteSet(1..N)
          /\ Cardinality(1..N) = IF 1 > N THEN 0 ELSE N - 1 + 1
      BY <1>1, FS_Interval
    <3> QED BY <1>1, <3>1
  <2> HIDE DEF at, N, P
  <2> QED BY <2>2, <2>3, FS_Surjection
<1>3. \A es : HeldOf(recs, es) \subseteq es
  BY DEF HeldOf
<1>4. A \in SUBSET P /\ H \in [SUBSET P -> SUBSET P] /\ \A es \in SUBSET P : H[es] = HeldOf(recs, es)
  BY <1>3
<1>5. f = [n \in 0..N |-> IF n = 0 THEN A ELSE HeldOf(recs, f[n - 1])]
  <2> HIDE DEF A, H, P
  <2>1. PICK h \in [0..N -> SUBSET P] : Iteration(A, H, N, h)
    <3> DEFINE D == SUBSET P
    <3> HIDE DEF N, D
    <3>1. N \in Nat /\ A \in D /\ H \in [D -> D]
      BY <1>1, <1>4 DEF D
    <3>2. \E h \in [0..N -> D] : Iteration(A, H, N, h)
      BY <3>1, Iterates
    <3> QED BY <3>2 DEF D
  <2>2. h = [n \in 0..N |-> IF n = 0 THEN A ELSE HeldOf(recs, h[n - 1])]
    <3>1. \A n \in 0..N : n # 0 => n - 1 \in 0..N
      BY <1>1
    <3>2. \A n \in 0..N : n # 0 => H[h[n - 1]] = HeldOf(recs, h[n - 1])
      BY <1>4, <2>1, <3>1
    <3> HIDE DEF N
    <3> QED BY <2>1, <3>2 DEF Iteration
  <2> QED BY <2>2 DEF Keeping, A, P
<1> HIDE DEF f, A, H, P, N
<1>6. f[0] = A /\ \A n \in 1..N : f[n] = HeldOf(recs, f[n - 1])
  BY <1>1, <1>5
<1>7. /\ g[0] = A /\ g[N] = f[N] /\ g[N + 1] = HeldOf(recs, f[N])
      /\ \A n \in 1..(N + 1) : g[n] = HeldOf(recs, g[n - 1])
  <2>1. \A n \in 0..N : g[n] = f[n]
    BY <1>1
  <2>2. g[N + 1] = HeldOf(recs, f[N])
    BY <1>1
  <2>3. ASSUME NEW n \in 1..(N + 1) PROVE g[n] = HeldOf(recs, g[n - 1])
    <3> HIDE DEF g
    <3>1. n - 1 \in 0..N /\ (n \in 1..N \/ n = N + 1)
      BY <1>1
    <3>2. CASE n \in 1..N
      <4>1. g[n] = f[n] /\ g[n - 1] = f[n - 1]
        BY <1>1, <2>1, <3>1, <3>2
      <4> QED BY <1>6, <3>2, <4>1
    <3>3. CASE n = N + 1
      <4>1. n - 1 = N /\ g[N] = f[N]
        BY <1>1, <2>1, <3>3
      <4> QED BY <2>2, <3>3, <4>1
    <3> QED BY <3>1, <3>2, <3>3
  <2> HIDE DEF g
  <2> QED BY <1>1, <1>6, <2>1, <2>2, <2>3
<1> HIDE DEF g
<1>8. IsFiniteSet(g[0]) /\ Cardinality(g[0]) <= N
  <2>1. IsFiniteSet(A) /\ Cardinality(A) <= Cardinality(P) /\ Cardinality(A) \in Nat /\ Cardinality(P) \in Nat
    BY <1>2, <1>4, FS_Subset, FS_CardinalityType
  <2> QED BY <1>1, <1>2, <1>7, <2>1
<1>9. \A n \in 1..(N + 1) : g[n] \subseteq g[n - 1]
  BY <1>3, <1>7
<1>10. ASSUME NEW n \in 1..N, g[n] = g[n - 1] PROVE g[n + 1] = g[n]
  <2>1. n \in 1..(N + 1) /\ n + 1 \in 1..(N + 1) /\ (n + 1) - 1 = n
    BY <1>1
  <2> QED BY <1>7, <1>10, <2>1
<1>11. g[N + 1] = g[N] /\ g[N] \subseteq g[0]
  BY <1>1, <1>8, <1>9, <1>10, Settles
<1> QED BY <1>7, <1>11 DEF Kept, A, P, N, f

\* A batch takes no hold away: what it records holds with what it records.
LEMMA BatchGrounds ==
    ASSUME NEW recs \in Seq(Records), WellFormed(recs), Grounded(recs), NEW batch \in Seq(Entries),
           \A i, j \in DOMAIN batch : batch[i].key = batch[j].key => i = j,
           NEW now, now = recs \o BatchPlan(recs, batch).todo
    PROVE  Grounded(now)
<1> DEFINE prepared == Prepared(recs, batch)
           P == ToSet(prepared)
           held == HeldOf(recs, P)
           kept == Kept(recs, prepared)
           first == Only(prepared, P \ (held \ kept))
           plan == BatchPlan(recs, batch)
           todo == plan.todo
           trial == Trial(kept)
<1>1. prepared \in Seq(Entries) /\ Contents(prepared) \subseteq Contents(batch)
  BY OnlyContents DEF Prepared
<1>2. \A e, f \in Contents(batch) : e.key = f.key => e = f
  BY DEF Contents
<1>3. P = Contents(prepared)
  BY DEF ToSet, Contents
<1>4. plan = IF \E e \in P : e.receipt \in Broken
             THEN [todo |-> <<>>, retry |-> prepared]
             ELSE [todo |-> Recorded(first, kept), retry |-> Only(prepared, held \ kept)]
  BY BatchParts
<1>5. todo \in Seq(Records)
  BY BatchFits
<1> HIDE DEF prepared
<1>6. kept \subseteq held /\ HeldOf(recs, kept) = kept
  BY <1>1, KeptHolds
<1>7. kept \subseteq P
  BY <1>6 DEF HeldOf
<1> HIDE DEF P, held, kept, plan
<1>8. DOMAIN trial = {e.key : e \in kept} /\ \A e \in kept : trial[e.key] = e.receipt
  <2>1. \A e, f \in kept : e.key = f.key => e = f
    BY <1>1, <1>2, <1>3, <1>7
  <2> QED BY <2>1, TrialIs
<1>9. DOMAIN trial \subseteq HeldWith(recs, trial)
  BY <1>6, <1>8 DEF HeldOf
<1>10. CASE \E e \in P : e.receipt \in Broken
  <2>1. todo = <<>>
    BY <1>4, <1>10
  <2>2. now = recs
    BY <2>1, ConcatEmptySeq DEF todo, plan
  <2> QED BY <2>2
<1>11. CASE ~ \E e \in P : e.receipt \in Broken
  <2>1. todo = Recorded(first, kept)
    BY <1>4, <1>11
  <2>2. first \in Seq(Entries) /\ Contents(first) = P \cap (P \ (held \ kept))
    <3> DEFINE T == P \ (held \ kept)
    <3> HIDE DEF T
    <3>1. Only(prepared, T) \in Seq(Entries) /\ Contents(Only(prepared, T)) = Contents(prepared) \cap T
      BY <1>1, OnlyContents
    <3> QED BY <1>3, <3>1 DEF T
  <2> HIDE DEF first, trial
  <2>3. /\ DOMAIN todo = DOMAIN first
        /\ \A i \in DOMAIN first :
              todo[i] = IF first[i] \in kept THEN Support(first[i]) ELSE Refused(first[i])
    BY <2>1 DEF Recorded
  <2> HIDE DEF todo
  <2>4. \A i \in At(todo, "support") :
            /\ i \in DOMAIN first /\ first[i] \in kept
            /\ todo[i].key = first[i].key /\ todo[i].receipt = first[i].receipt
    BY <2>3 DEF At, Support, Refused
  <2>5. ASSUME NEW e \in kept PROVE \E i \in At(todo, "support") : todo[i].key = e.key
    <3>1. e \in Contents(first)
      BY <1>7, <2>2
    <3>2. PICK i \in DOMAIN first : first[i] = e
      BY <3>1 DEF Contents
    <3>3. todo[i] = Support(e) /\ i \in DOMAIN todo
      BY <2>3, <3>2
    <3> QED BY <3>3 DEF At, Support
  <2>6. SupportsLatest(todo)
    BY <1>5, SupportsAre
  <2>7. DOMAIN Supports(todo) = DOMAIN trial
    <3>1. DOMAIN Supports(todo) = {todo[i].key : i \in At(todo, "support")}
      BY <2>6 DEF SupportsLatest
    <3>2. \A i \in At(todo, "support") : todo[i].key \in {e.key : e \in kept}
      BY <2>4
    <3>3. \A e \in kept : e.key \in {todo[i].key : i \in At(todo, "support")}
      BY <2>5
    <3>4. {e.key : e \in kept} = {todo[i].key : i \in At(todo, "support")}
      BY <3>2, <3>3
    <3> QED BY <1>8, <3>1, <3>4
  <2>8. ASSUME NEW k \in DOMAIN trial PROVE Supports(todo)[k] = trial[k]
    <3>1. PICK i : IsLatest(todo, k, i)
      BY <2>6, <2>7 DEF SupportsLatest
    <3>2. Supports(todo)[k] = todo[i].receipt /\ i \in At(todo, "support") /\ todo[i].key = k
      BY <2>6, <3>1 DEF SupportsLatest, IsLatest
    <3>3. first[i] \in kept /\ first[i].key = k /\ first[i].receipt = todo[i].receipt
      BY <2>4, <3>2
    <3> QED BY <1>8, <3>2, <3>3
  <2>9. Supersedes(now, recs, todo)
    BY <1>5, ConcatSupports DEF todo, plan
  <2>10. Swaps(recs, now, trial)
    BY <2>7, <2>8, <2>9 DEF Supersedes, Swaps
  <2> QED BY <1>9, <2>10, SwapGrounds DEF trial
<1> QED BY <1>10, <1>11

(***************************************************************************)
(* Accepted claims stay held                                               *)
(***************************************************************************)

\* Records that accept no receipt.
Offerless(todo) == At(todo, "support") = {}

\* A running command leaves a ledger behind where nothing but withdrawals takes
\* a hold away; and a command other than a batch never has a ledger in between
\* where something else does.
Leaves(c) ==
    /\ Grounded(Due(c))
    /\ c.cmd # "submit-batch" => Len(c.todo) = 1 \/ Offerless(c.todo)

Batching(b) ==
    \E p \in Procs : proc[p] # Idle /\ proc[p].branch = b /\ proc[p].cmd = "submit-batch"

Grounds ==
    /\ Orderly
    /\ \A b \in Branches : Grounded(ledger[b]) \/ Batching(b)
    /\ \A p \in Procs : proc[p] # Idle => Leaves(proc[p])

\* No batch is killed between two of its records.
BatchesRunOut == "submit-batch" \notin Killable

\* A step of a command that leaves the ledgers alone and ends no batch.
LEMMA GroundsSet ==
    ASSUME Grounds, Orderly', NEW p \in Procs, NEW c, proc' = [proc EXCEPT ![p] = c],
           UNCHANGED ledger, c # Idle => Leaves(c),
           proc[p] # Idle /\ proc[p].cmd = "submit-batch"
              => c # Idle /\ c.cmd = "submit-batch" /\ c.branch = proc[p].branch
    PROVE  Grounds'
<1>1. proc = [q \in Procs |-> proc[q]]
  BY DEF Grounds, Orderly, Custody
<1>2. proc'[p] = c /\ \A q \in Procs : q # p => proc'[q] = proc[q]
  BY <1>1
<1>3. ASSUME NEW q \in Procs, proc'[q] # Idle PROVE Leaves(proc'[q])
  BY <1>2, <1>3 DEF Grounds
<1>4. ASSUME NEW b \in Branches, Batching(b) PROVE Batching(b)'
  <2>1. PICK q \in Procs : proc[q] # Idle /\ proc[q].branch = b /\ proc[q].cmd = "submit-batch"
    BY <1>4 DEF Batching
  <2>2. proc'[q] # Idle /\ proc'[q].branch = b /\ proc'[q].cmd = "submit-batch"
    BY <1>2, <2>1
  <2> QED BY <2>2 DEF Batching
<1>5. \A b \in Branches : Grounded(ledger'[b]) \/ Batching(b)'
  BY <1>4 DEF Grounds
<1> QED BY <1>3, <1>5 DEF Grounds

LEMMA GroundsStart ==
    ASSUME Grounds, Orderly', Alone', NEW p \in Procs, NEW b \in Branches, NEW cmd,
           NEW todo \in Seq(Records), NEW retry, Start(p, b, cmd, todo, retry),
           Grounded(ledger[b]) => Grounded(ledger[b] \o todo),
           cmd # "submit-batch" => Offerless(todo)
    PROVE  Grounds'
<1> DEFINE c == [cmd |-> cmd, branch |-> b, seen |-> ledger[b],
                 todo |-> todo, retry |-> retry, rounds |-> IF cmd \in Syncing THEN Rounds ELSE 0]
<1>1. proc' = [proc EXCEPT ![p] = c] /\ UNCHANGED ledger /\ proc[p] = Idle
  BY DEF Start
<1>2. c # Idle /\ c.branch = b
  <2>1. "branch" \in DOMAIN c /\ "branch" \notin DOMAIN Idle
    BY DEF Idle
  <2> HIDE DEF c
  <2>2. c # Idle
    BY <2>1
  <2> QED BY <2>2 DEF c
<1>3. Due(c) = ledger[b] \o todo /\ c.cmd = cmd /\ c.todo = todo
  BY DEF Due
<1> HIDE DEF c
<1>4. proc'[p] = c /\ \A q \in Procs : q # p => proc'[q] = proc[q]
  BY <1>1 DEF Grounds, Orderly, Custody
<1>5. ~Batching(b)
  <2>1. SUFFICES ASSUME NEW q \in Procs, proc[q] # Idle, proc[q].branch = b PROVE FALSE
    BY DEF Batching
  <2>2. q # p /\ proc'[q] # Idle /\ proc'[q].branch = proc'[p].branch /\ proc'[p] # Idle
    BY <1>1, <1>2, <1>4, <2>1
  <2> QED BY <2>2 DEF Alone
<1>6. Grounded(ledger[b])
  BY <1>5 DEF Grounds
<1>7. Leaves(c)
  BY <1>3, <1>6 DEF Leaves
<1> QED BY <1>1, <1>7, GroundsSet

\* A command that starts with no receipt accepted.
LEMMA GroundsPlain ==
    ASSUME Grounds, Orderly', Alone', NEW p \in Procs, NEW b \in Branches, NEW cmd,
           NEW todo \in Seq(Records), NEW retry, Start(p, b, cmd, todo, retry), Offerless(todo)
    PROVE  Grounds'
<1> DEFINE recs == ledger[b]
           now == recs \o todo
<1>1. recs \in Seq(Records)
  BY OrderlyLedger DEF Grounds
<1> HIDE DEF recs, now
<1>2. Supports(now) = Supports(recs)
  BY <1>1, ConcatUnsupported DEF Offerless, now
<1>3. Grounded(recs) => Grounded(now)
  BY <1>2, GroundedBySupports
<1>4. Grounded(ledger[b]) => Grounded(ledger[b] \o todo)
  BY <1>3 DEF recs, now
<1> QED BY <1>4, GroundsStart

\* Records of other kinds accept no receipt.
LEMMA OfferlessParts ==
    ASSUME NEW s \in Seq(Records), NEW t \in Seq(Records),
           \A i \in DOMAIN s : s[i].op # "support", \A i \in DOMAIN t : t[i].op # "support"
    PROVE  Offerless(s \o t) /\ s \o t \in Seq(Records) /\ Offerless(t)
<1>1. Adds(s, t, "support") /\ s \o t \in Seq(Records)
  BY ConcatKinds, ConcatProperties
<1>2. At(s, "support") = {} /\ At(t, "support") = {}
  BY DEF At
<1> QED BY <1>1, <1>2 DEF Adds, Offerless

LEMMA GroundsInitLedger ==
    ASSUME Grounds, Orderly', Alone', NEW p \in Procs, NEW b \in Branches, InitLedger(p, b)
    PROVE  Grounds'
<1> DEFINE rec  == [op |-> "init", statement |-> statement[b]]
           none == <<>>
           goal == GoalRecords(none)
           first == <<rec>>
           todo == first \o goal
<1>1. Start(p, b, "init", todo, <<>>)
  BY DEF InitLedger
<1>2. rec \in Records /\ rec.op = "init"
  <2>1. statement[b] \in Statements
    BY OrderlyLedger DEF Grounds
  <2> QED BY <2>1 DEF Records
<1>3. first \in Seq(Records) /\ Claims(first) = {} /\ WellFormed(first)
      /\ \A i \in DOMAIN first : first[i].op # "support"
  <2>1. first \in Seq(Records)
    BY <1>2
  <2>2. At(first, "init") = {1} /\ Claims(first) = {} /\ Naming(first) = {}
    BY DEF At, Claims, Naming
  <2>3. \A i \in DOMAIN first : first[i] = rec
    OBVIOUS
  <2> QED BY <1>2, <2>1, <2>2, <2>3 DEF WellFormed, WellFiled, LabelConflict, Naming
<1>4. GoalRecords(first) = goal
  <2>1. Claims(none) = {}
    BY DEF Claims, At
  <2>2. Claims(first) = Claims(none)
    BY <1>3, <2>1
  <2> HIDE DEF first, none
  <2> QED BY <2>2 DEF GoalRecords, goal
<1> HIDE DEF first, goal, todo
<1>5. goal \in Seq(Records) /\ \A i \in DOMAIN goal : goal[i].op # "support"
  BY <1>3, <1>4, GoalFits
<1>6. todo \in Seq(Records) /\ Offerless(todo)
  BY <1>3, <1>5, OfferlessParts DEF todo
<1> QED BY <1>1, <1>6, GroundsPlain

LEMMA GoalOffersNothing ==
    ASSUME Orderly, NEW b \in Branches, ledger[b] # <<>>
    PROVE  /\ GoalRecords(ledger[b]) \in Seq(Records) /\ Offerless(GoalRecords(ledger[b]))
           /\ \A i \in DOMAIN GoalRecords(ledger[b]) : GoalRecords(ledger[b])[i].op # "support"
<1> DEFINE recs == ledger[b]
<1>1. recs \in Seq(Records) /\ WellFormed(recs)
  BY OrderlyLedger
<1>2. /\ GoalRecords(recs) \in Seq(Records)
      /\ \A i \in DOMAIN GoalRecords(recs) : GoalRecords(recs)[i].op = "claim"
  <2> HIDE DEF recs
  <2> QED BY <1>1, GoalFits
<1> QED BY <1>2 DEF Offerless, At

LEMMA GroundsFiling ==
    ASSUME Grounds, Orderly', Alone', NEW p \in Procs, NEW b \in Branches,
           \/ BeginMerge(p, b) \/ FileGoal(p, b) \/ Restate(p, b)
           \/ \E k \in Keys : Claim(p, b, k)
           \/ \E c \in Covers : Cover(p, b, c)
           \/ \E e \in Offers : Submit(p, b, e)
           \/ \E k \in Keys, cascade \in BOOLEAN : WithdrawClaim(p, b, k, cascade)
    PROVE  Grounds'
<1> DEFINE goal == GoalRecords(ledger[b])
<1>1. ledger[b] # <<>>
  BY DEF BeginMerge, FileGoal, Claim, Cover, Submit, Bound, Restate, WithdrawClaim
<1>2. goal \in Seq(Records) /\ Offerless(goal) /\ \A i \in DOMAIN goal : goal[i].op # "support"
  BY <1>1, GoalOffersNothing DEF Grounds
<1>3. CASE BeginMerge(p, b)
  <2>1. Start(p, b, "merge", <<>>, <<>>) /\ Offerless(<<>>) /\ <<>> \in Seq(Records)
    BY <1>3, NothingToRetry DEF BeginMerge, Offerless, At
  <2> QED BY <2>1, GroundsPlain
<1>4. CASE FileGoal(p, b)
  BY <1>2, <1>4, GroundsPlain DEF FileGoal
<1>5. ASSUME NEW k \in Keys, Claim(p, b, k) PROVE Grounds'
  <2> DEFINE rec == ClaimRecord(k)
             more == <<rec>>
  <2>1. Start(p, b, "claim", Append(goal, rec), RealizedBy(k)) /\ rec \in Records /\ rec.op = "claim"
    BY <1>5 DEF Claim, ClaimRecord, Records
  <2>2. more \in Seq(Records) /\ \A i \in DOMAIN more : more[i].op # "support"
    BY <2>1
  <2> HIDE DEF goal, rec
  <2>3. Append(goal, rec) = goal \o more
    BY <1>2, <2>1, AppendIsConcat
  <2> HIDE DEF more
  <2>4. goal \o more \in Seq(Records) /\ Offerless(goal \o more)
    BY <1>2, <2>2, OfferlessParts
  <2> QED BY <2>1, <2>3, <2>4, GroundsPlain
<1>6. ASSUME NEW c \in Covers, Cover(p, b, c) PROVE Grounds'
  <2> DEFINE more == <<ClaimRecord(c.cover), ClaimRecord(c.spine)>>
  <2>1. Start(p, b, "cover", goal \o more, c.retry)
    BY <1>6 DEF Cover
  <2>2. ClaimRecord(c.cover) \in Records /\ ClaimRecord(c.spine) \in Records
    BY CoversType DEF ClaimRecord, Records
  <2>3. more \in Seq(Records) /\ \A i \in DOMAIN more : more[i] \in {ClaimRecord(c.cover), ClaimRecord(c.spine)}
    BY <2>2
  <2> HIDE DEF more, goal
  <2>4. \A i \in DOMAIN more : more[i].op # "support"
    BY <2>3 DEF ClaimRecord
  <2>5. goal \o more \in Seq(Records) /\ Offerless(goal \o more)
    BY <1>2, <2>3, <2>4, OfferlessParts
  <2> QED BY <2>1, <2>5, GroundsPlain
<1>7. ASSUME NEW e \in Offers, Submit(p, b, e) PROVE Grounds'
  <2>1. Start(p, b, "submit", goal, <<e>>)
    BY <1>7 DEF Submit
  <2> QED BY <1>2, <2>1, GroundsPlain
<1>8. ASSUME NEW rec \in Records, rec.op # "support", NEW cmd, Start(p, b, cmd, <<rec>>, <<>>)
      PROVE  Grounds'
  <2> DEFINE todo == <<rec>>
  <2>1. todo \in Seq(Records) /\ Offerless(todo)
    BY <1>8 DEF Offerless, At
  <2> HIDE DEF todo
  <2> QED BY <1>8, <2>1, GroundsPlain DEF todo
<1>9. CASE Restate(p, b)
  <2> DEFINE rec == [op |-> "restate", old |-> BoundStatement(ledger[b]), new |-> statement[b]]
  <2>1. rec \in Records /\ rec.op # "support"
    <3>1. BoundStatement(ledger[b]) \in Statements /\ statement[b] \in Statements
      BY <1>1, OrderlyLedger, BoundIs DEF Grounds
    <3> QED BY <3>1 DEF Records
  <2> HIDE DEF rec
  <2> QED BY <1>8, <1>9, <2>1 DEF Restate, rec
<1>10. ASSUME NEW k \in Keys, NEW cascade \in BOOLEAN, WithdrawClaim(p, b, k, cascade) PROVE Grounds'
  <2>1. Withdraw(k) \in Records /\ Withdraw(k).op # "support"
    BY DEF Withdraw, Records
  <2> QED BY <1>8, <1>10, <2>1 DEF WithdrawClaim
<1> QED BY <1>3, <1>4, <1>5, <1>6, <1>7, <1>9, <1>10

\* A batch: what it records leaves nothing unheld.
LEMMA GroundsBatch ==
    ASSUME Grounds, Orderly', Alone', NEW p \in Procs, NEW b \in Branches, NEW batch \in Batches,
           Batch(p, b, batch)
    PROVE  Grounds'
<1> DEFINE recs == ledger[b]
           goal == GoalRecords(recs)
           filed == Filed(recs)
           plan == BatchPlan(filed, batch)
           more == plan.todo
           now == filed \o more
           todo == goal \o more
<1>1. recs # <<>> /\ Start(p, b, "submit-batch", todo, plan.retry)
  BY DEF Batch, Bound
<1>2. filed \in Seq(Records) /\ WellFormed(filed) /\ recs \in Seq(Records)
  BY <1>1, FilingStart, OrderlyLedger DEF Grounds
<1>3. goal \in Seq(Records) /\ Offerless(goal)
  BY <1>1, GoalOffersNothing DEF Grounds
<1>4. batch \in Seq(Entries) /\ \A i, j \in DOMAIN batch : batch[i].key = batch[j].key => i = j
  BY BatchesType, BatchesDistinct DEF Entries
<1>5. more \in Seq(Records)
  <2> HIDE DEF filed
  <2> QED BY <1>2, <1>4, BatchFits
<1>6. filed = recs \o goal
  BY DEF Filed
<1> HIDE DEF goal, filed
<1>7. Grounded(filed) => Grounded(now)
  BY <1>2, <1>4, BatchGrounds
<1> HIDE DEF recs, plan, more, now
<1>8. Grounded(recs) <=> Grounded(filed)
  <2>1. Supports(filed) = Supports(recs)
    BY <1>2, <1>3, <1>6, ConcatUnsupported DEF Offerless
  <2> QED BY <2>1, GroundedBySupports
<1>9. todo \in Seq(Records)
  BY <1>3, <1>5, ConcatProperties
<1> HIDE DEF todo
<1>10. now = recs \o todo
  BY <1>2, <1>3, <1>5, <1>6, ConcatTwice DEF now, todo
<1>11. Grounded(ledger[b]) => Grounded(ledger[b] \o todo)
  BY <1>7, <1>8, <1>10 DEF recs
<1> QED BY <1>1, <1>9, <1>11, GroundsStart

\* A receipt decided on takes no hold away.
LEMMA GroundsDecide ==
    ASSUME Grounds, Orderly', NEW p \in Procs, SubmitNext(p) \/ SyncNext(p)
    PROVE  Grounds'
<1> DEFINE c == proc[p]
<1>1. c # Idle /\ c.todo = <<>> /\ UNCHANGED ledger
  BY DEF SubmitNext, SyncNext
<1>2. Sound(c) /\ Leaves(c)
  BY <1>1 DEF Grounds, Orderly
<1>3. c.retry \in Seq(Entries) /\ c.seen \in Seq(Records) /\ Fields \subseteq DOMAIN c
  BY <1>2 DEF Sound
<1>4. Grounded(c.seen)
  <2>1. Due(c) = c.seen
    BY <1>1, <1>3, ConcatEmptySeq DEF Due
  <2> QED BY <1>2, <2>1 DEF Leaves
<1>5. ASSUME NEW e \in Entries, NEW rec, rec = Verdict(c.seen, e), NEW d, proc' = [proc EXCEPT ![p] = d],
             d # Idle, d.cmd = c.cmd, d.branch = c.branch, d.seen = c.seen, d.todo = <<rec>>
      PROVE  Grounds'
  <2> DEFINE seen == c.seen
             now == seen \o <<rec>>
  <2>1. Due(d) = now
    BY <1>5 DEF Due
  <2>2. Len(d.todo) = 1
    BY <1>5
  <2>3. seen \in Seq(Records) /\ Grounded(seen) /\ rec = Verdict(seen, e)
    BY <1>3, <1>4, <1>5
  <2> HIDE DEF seen, now
  <2>4. Grounded(now)
    BY <2>3, VerdictGrounds DEF now
  <2>5. Leaves(d)
    BY <2>1, <2>2, <2>4 DEF Leaves
  <2> QED BY <1>1, <1>5, <2>5, GroundsSet
<1>6. CASE SubmitNext(p)
  <2> DEFINE e == Head(c.retry)
             rec == Verdict(c.seen, e)
             d == [c EXCEPT !.todo = <<rec>>, !.retry = Tail(@),
                            !.rounds = IF c.cmd = "submit" /\ rec.op = "refused" THEN 0 ELSE @]
  <2>1. proc' = [proc EXCEPT ![p] = d] /\ c.retry # <<>>
    BY <1>6 DEF SubmitNext
  <2>2. e \in Entries
    BY <1>3, <2>1, HeadTailProperties
  <2> HIDE DEF rec
  <2>3. d.cmd = c.cmd /\ d.branch = c.branch /\ d.seen = c.seen /\ d.todo = <<rec>> /\ DOMAIN d = DOMAIN c
    BY <1>3 DEF Fields
  <2> HIDE DEF d, e
  <2>4. d # Idle
    BY <1>3, <2>3 DEF Fields, Idle
  <2> QED BY <1>5, <2>1, <2>2, <2>3, <2>4 DEF rec
<1>7. CASE SyncNext(p)
  <2>1. PICK e \in Worth(c.seen) :
              LET rec == Verdict(c.seen, e)
              IN  proc' = [proc EXCEPT ![p].todo   = <<rec>>,
                                       ![p].rounds = IF rec.op = "support" THEN @ - 1 ELSE @]
    BY <1>7 DEF SyncNext
  <2> DEFINE rec == Verdict(c.seen, e)
             d == [c EXCEPT !.todo = <<rec>>, !.rounds = IF rec.op = "support" THEN @ - 1 ELSE @]
  <2>2. proc' = [proc EXCEPT ![p] = d]
    BY <2>1
  <2>3. e \in Entries
    BY <2>1, WorthIs
  <2> HIDE DEF rec
  <2>4. d.cmd = c.cmd /\ d.branch = c.branch /\ d.seen = c.seen /\ d.todo = <<rec>> /\ DOMAIN d = DOMAIN c
    BY <1>3 DEF Fields
  <2> HIDE DEF d
  <2>5. d # Idle
    BY <1>3, <2>4 DEF Fields, Idle
  <2> QED BY <1>5, <2>2, <2>3, <2>4, <2>5 DEF rec
<1> QED BY <1>6, <1>7

\* The next record of a batch leaves the batch at work, and the last one leaves
\* what the batch leaves; other commands accept one receipt at a time.
LEMMA GroundsWrite ==
    ASSUME Grounds, Orderly', Alone, Unmerged, NEW p \in Procs, Write(p)
    PROVE  Grounds'
<1> DEFINE c == proc[p]
           b == c.branch
           seen == c.seen
           todo == c.todo
           rec == NextRecord(p)
           one == <<rec>>
           d == Wrote(c, rec)
           after == After(p)
           now == Append(seen, rec)
<1>1. /\ c # Idle /\ todo # <<>>
      /\ ledger' = [ledger EXCEPT ![b] = Append(@, rec)]
      /\ proc' = [proc EXCEPT ![p] = after]
      /\ after = IF Ended(d) THEN Idle ELSE d
  BY DEF Write, Working, After, Wrote
<1>2. /\ Sound(c) /\ Leaves(c) /\ seen = ledger[b] /\ b \in Branches
      /\ proc = [q \in Procs |-> proc[q]] /\ ledger = [x \in Branches |-> ledger[x]]
  BY <1>1 DEF Grounds, Orderly, Sound, Custody
<1>3. rec = Head(todo) /\ rec \in Records /\ todo \in Seq(Records) /\ Tail(todo) \in Seq(Records) /\ seen \in Seq(Records)
  BY NextIsDue DEF Grounds, Unmerged, Write, Working
<1>4. d.cmd = c.cmd /\ d.seen = now /\ d.todo = Tail(todo) /\ d.branch = b /\ d # Idle
  <2>1. d.cmd = c.cmd /\ d.seen = now /\ d.todo = Tail(todo) /\ d.branch = b /\ DOMAIN d = DOMAIN c
    BY <1>2 DEF Wrote, Sound, Fields
  <2> HIDE DEF d
  <2>2. d # Idle
    BY <1>2, <2>1 DEF Sound, Fields, Idle
  <2> QED BY <2>1, <2>2
<1>5. ledger'[b] = now /\ \A x \in Branches : x # b => ledger'[x] = ledger[x]
  BY <1>1, <1>2
<1>6. /\ Grounded(seen \o todo)
      /\ c.cmd # "submit-batch" => Len(todo) = 1 \/ Offerless(todo)
  BY <1>2 DEF Leaves, Due
<1>7. proc'[p] = after /\ \A q \in Procs : q # p => proc'[q] = proc[q]
  BY <1>1, <1>2
<1> HIDE DEF seen, todo, rec, d, after, now
<1>8. /\ now = seen \o one /\ now \in Seq(Records) /\ now \o Tail(todo) = seen \o todo
      /\ todo = one \o Tail(todo) /\ one \in Seq(Records)
  BY <1>1, <1>3, TakeNext, AppendProperties, AppendIsConcat DEF now
<1> HIDE DEF one
<1>9. Tail(todo) = <<>> => Grounded(now)
  BY <1>6, <1>8, ConcatEmptySeq
<1>10. Len(todo) = 1 => Tail(todo) = <<>>
  <2>1. Len(Tail(todo)) = Len(todo) - 1
    BY <1>1, <1>3, HeadTailProperties
  <2> DEFINE rest == Tail(todo)
  <2>2. rest \in Seq(Records) /\ Len(rest) = Len(todo) - 1
    BY <1>3, <2>1
  <2> HIDE DEF rest
  <2>3. Len(todo) = 1 => rest = <<>>
    BY <2>2, EmptySeq
  <2> QED BY <2>3 DEF rest
<1>11. Offerless(todo) => Offerless(one) /\ Offerless(Tail(todo))
  <2>1. Adds(one, Tail(todo), "support")
    BY <1>3, <1>8, ConcatKinds
  <2>2. ASSUME At(one \o Tail(todo), "support") = {}
        PROVE  At(one, "support") = {} /\ At(Tail(todo), "support") = {}
    BY <2>1, <2>2 DEF Adds
  <2> QED BY <1>8, <2>2 DEF Offerless
<1>12. Leaves(d)
  <2>1. Due(d) = seen \o todo
    BY <1>4, <1>8 DEF Due
  <2>2. Offerless(<<>>)
    BY DEF Offerless, At
  <2> QED BY <1>4, <1>6, <1>10, <1>11, <2>1, <2>2 DEF Leaves
<1>13. ASSUME NEW x \in Branches, x = b PROVE Grounded(now) \/ Batching(x)'
  <2>1. CASE c.cmd = "submit-batch" /\ after = d
    <3>1. proc'[p] # Idle /\ proc'[p].branch = x /\ proc'[p].cmd = "submit-batch"
      BY <1>4, <1>7, <1>13, <2>1
    <3> QED BY <3>1 DEF Batching
  <2>2. CASE after = Idle
    BY <1>1, <1>4, <1>9, <2>2 DEF Ended
  <2>3. CASE c.cmd # "submit-batch"
    <3>1. ~Batching(b)
      BY <1>1, <2>3 DEF Batching, Alone
    <3>2. Grounded(seen)
      BY <1>2, <3>1 DEF Grounds
    <3>3. ASSUME Offerless(todo) PROVE Grounded(now)
      <4>1. Supports(now) = Supports(seen)
        BY <1>3, <1>8, <1>11, <3>3, ConcatUnsupported DEF Offerless
      <4> QED BY <3>2, <4>1, GroundedBySupports
    <3> QED BY <1>6, <1>9, <1>10, <2>3, <3>3
  <2> QED BY <1>1, <2>1, <2>2, <2>3
<1>14. ASSUME NEW x \in Branches PROVE Grounded(ledger'[x]) \/ Batching(x)'
  <2>1. CASE x = b
    BY <1>5, <1>13, <2>1
  <2>2. CASE x # b
    <3>1. ASSUME Batching(x) PROVE Batching(x)'
      <4>1. PICK q \in Procs : proc[q] # Idle /\ proc[q].branch = x /\ proc[q].cmd = "submit-batch"
        BY <3>1 DEF Batching
      <4>2. proc'[q] = proc[q]
        BY <1>7, <2>2, <4>1
      <4> QED BY <4>1, <4>2 DEF Batching
    <3> QED BY <1>5, <2>2, <3>1 DEF Grounds
  <2> QED BY <2>1, <2>2
<1>15. ASSUME NEW q \in Procs, proc'[q] # Idle PROVE Leaves(proc'[q])
  BY <1>1, <1>7, <1>12, <1>15 DEF Grounds
<1> QED BY <1>14, <1>15 DEF Grounds

LEMMA GroundsNext ==
    Grounds /\ Alone /\ Alone' /\ Unmerged /\ BatchesRunOut /\ [Next]_vars => Grounds'
<1> SUFFICES ASSUME Grounds, Alone, Alone', Unmerged, BatchesRunOut, [Next]_vars PROVE Grounds'
  OBVIOUS
<1>0. Orderly'
  BY OrderlyNext DEF Grounds
<1>1. ASSUME UNCHANGED <<proc, ledger>> PROVE Grounds'
  BY <1>0, <1>1 DEF Grounds, Batching
<1>2. CASE UNCHANGED vars
  BY <1>1, <1>2 DEF vars
<1>3. ASSUME NEW b \in Branches, NEW s \in Statements, Edit(b, s) PROVE Grounds'
  BY <1>1, <1>3 DEF Edit
<1>4. ASSUME NEW p \in Procs, NEW r \in Receipts, Store(p, r) PROVE Grounds'
  BY <1>1, <1>4 DEF Store
<1>5. ASSUME NEW p \in Procs, Crash(p) PROVE Grounds'
  BY <1>0, <1>5, GroundsSet DEF Crash, BatchesRunOut
<1>6. ASSUME NEW p \in Procs, NEW other \in Branches, PlanMerge(p, other) PROVE Grounds'
  BY <1>6 DEF PlanMerge, Idle, Unmerged
<1>7. ASSUME NEW p \in Procs, NEW b \in Branches,
             \/ InitLedger(p, b) \/ Restate(p, b) \/ BeginMerge(p, b) \/ FileGoal(p, b)
             \/ \E k \in Keys : Claim(p, b, k)
             \/ \E c \in Covers : Cover(p, b, c)
             \/ \E e \in Offers : Submit(p, b, e)
             \/ \E batch \in Batches : Batch(p, b, batch)
             \/ \E k \in Keys, cascade \in BOOLEAN : WithdrawClaim(p, b, k, cascade)
      PROVE  Grounds'
  BY <1>0, <1>7, GroundsInitLedger, GroundsFiling, GroundsBatch
<1>8. ASSUME NEW p \in Procs, SubmitNext(p) \/ SyncNext(p) \/ Write(p) PROVE Grounds'
  BY <1>0, <1>8, GroundsDecide, GroundsWrite
<1> QED BY <1>2, <1>3, <1>4, <1>5, <1>6, <1>7, <1>8 DEF Next

LEMMA GroundsInit == Init => Grounds
<1> SUFFICES ASSUME Init PROVE Grounds
  OBVIOUS
<1>1. PICK start \in Starts : StartFrom(start)
  BY DEF Init
<1>2. \A b \in Branches : Grounded(ledger[b])
  BY <1>1, StartsFiled DEF StartFrom
<1> QED BY <1>2, OrderlyInit DEF Init, Grounds

\* A claim that was accepted stays held until it is withdrawn or something it
\* rests on is, on every branch at rest: while nobody merges, one command at a
\* time works on a branch, and no batch is killed half-way.
THEOREM AcceptedHold ==
    ASSUME BatchesRunOut
    PROVE  Spec /\ []Alone /\ []Unmerged => []AcceptedStaysHeld
<1>1. ASSUME Grounds PROVE AcceptedStaysHeld
  <2>1. SUFFICES ASSUME NEW b \in Branches, Quiet(b)
                 PROVE  DOMAIN Supports(ledger[b]) \subseteq Held(ledger[b]) \cup RestsOnWithdrawn(ledger[b])
    BY DEF AcceptedStaysHeld
  <2>2. ~Batching(b)
    BY <2>1 DEF Quiet, Batching
  <2>3. Grounded(ledger[b])
    BY <1>1, <2>2 DEF Grounds
  <2>4. DOMAIN Supports(ledger[b]) \subseteq Claims(ledger[b])
    BY <1>1, OrderlyLedger, SupportsFiled DEF Grounds
  <2> QED BY <2>3, <2>4, GroundedHolds
<1>2. Grounds => AcceptedStaysHeld
  BY <1>1
<1>3. Grounds /\ Alone /\ Alone' /\ Unmerged /\ [Next]_vars => Grounds'
  BY GroundsNext
<1> QED BY <1>2, <1>3, GroundsInit, PTL DEF Spec

-----------------------------------------------------------------------------
(***************************************************************************)
(* Holds end by withdrawals.  A command that decides one receipt at a time *)
(* appends records that accept nothing, a verdict on the ledger as it      *)
(* stands, or a withdrawal.                                                *)
(***************************************************************************)

\* A fold of a ledger that says as much, with supports swapped for others that
\* it holds, loses nothing.
LEMMA SwapKeeps ==
    ASSUME NEW recs, NEW now, NEW trial, Swaps(recs, now, trial),
           Claims(recs) \subseteq Claims(now), Withdrawn(now) = Withdrawn(recs),
           DOMAIN Supports(recs) \subseteq Claims(recs), DOMAIN trial \subseteq HeldWith(recs, trial)
    PROVE  Held(recs) \subseteq Held(now)
<1> DEFINE H == HeldWith(now, NoTrial)
<1>1. ASSUME NEW e, e.key \in Claims(recs), e.key \in DOMAIN Supports(now),
             e = [key |-> e.key, receipt |-> Supports(now)[e.key]], Stands(recs, e),
             PremisesOf[e.receipt] \subseteq H
      PROVE  e.key \in H
  <2>1. e \in Rules(now, NoTrial)
    <3>1. e \in Offer(now, NoTrial)
      BY <1>1 DEF Offer, NoTrial
    <3> QED BY <1>1, <3>1 DEF Rules, Stands
  <2> HIDE DEF H
  <2> QED BY <1>1, <2>1, FoldLeast DEF H
<1>2. HeldWith(recs, trial) \subseteq H
  <2>1. ASSUME NEW e \in Rules(recs, trial), PremisesOf[e.receipt] \subseteq H PROVE e.key \in H
    <3>1. /\ e.key \in Claims(recs) /\ e.key \in DOMAIN Supports(recs) \cup DOMAIN trial
          /\ e = [key |-> e.key, receipt |-> e.receipt] /\ Stands(recs, e)
          /\ e.receipt = IF e.key \in DOMAIN trial THEN trial[e.key] ELSE Supports(recs)[e.key]
      BY DEF Rules, Offer
    <3>2. e.key \in DOMAIN Supports(now) /\ Supports(now)[e.key] = e.receipt
      BY <3>1 DEF Swaps
    <3> HIDE DEF H
    <3> QED BY <1>1, <2>1, <3>1, <3>2
  <2> HIDE DEF H
  <2> QED BY <2>1, FoldLeast
<1>3. ASSUME NEW e \in Rules(recs, NoTrial), PremisesOf[e.receipt] \subseteq H PROVE e.key \in H
  <2>1. /\ e.key \in Claims(recs) /\ e.key \in DOMAIN Supports(recs)
        /\ e = [key |-> e.key, receipt |-> e.receipt] /\ Stands(recs, e)
        /\ e.receipt = Supports(recs)[e.key]
    BY DEF Rules, Offer, NoTrial
  <2>2. CASE e.key \in DOMAIN trial
    BY <1>2, <2>2
  <2>3. CASE e.key \notin DOMAIN trial
    <3>1. e.key \in DOMAIN Supports(now) /\ Supports(now)[e.key] = e.receipt
      BY <2>1, <2>3 DEF Swaps
    <3> HIDE DEF H
    <3> QED BY <1>1, <1>3, <2>1, <3>1
  <2> QED BY <2>2, <2>3
<1> HIDE DEF H
<1>4. HeldWith(recs, NoTrial) \subseteq H
  BY <1>3, FoldLeast
<1> QED BY <1>4 DEF H, Held

\* A withdrawal takes away what rests on it, and nothing else.
LEMMA WithdrawTakes ==
    ASSUME NEW recs, NEW now, Supports(now) = Supports(recs), Claims(now) = Claims(recs)
    PROVE  Held(recs) \ Held(now) \subseteq RestsOnWithdrawn(now)
<1> DEFINE T == HeldWith(now, NoTrial) \cup RestsOnWithdrawn(now)
<1>1. ASSUME NEW e \in Rules(recs, NoTrial), PremisesOf[e.receipt] \subseteq T PROVE e.key \in T
  <2>1. /\ e \in Offer(now, NoTrial) /\ <<e.key, e.receipt>> \in Valid
        /\ e.key \in DOMAIN Supports(now) /\ e.receipt = Supports(now)[e.key]
    BY DEF Rules, Offer, Stands, NoTrial
  <2>2. CASE e.key \in Withdrawn(now) \/ PremisesOf[e.receipt] \cap RestsOnWithdrawn(now) # {}
    BY <2>1, <2>2, RestsGrown
  <2>3. CASE e.key \notin Withdrawn(now) /\ PremisesOf[e.receipt] \cap RestsOnWithdrawn(now) = {}
    <3>1. e \in Rules(now, NoTrial)
      BY <2>1, <2>3 DEF Rules, Stands
    <3>2. PremisesOf[e.receipt] \subseteq HeldWith(now, NoTrial)
      BY <1>1, <2>3
    <3>3. e.key \in HeldWith(now, NoTrial)
      BY <3>1, <3>2, FoldLeast
    <3> QED BY <3>3
  <2> QED BY <2>2, <2>3
<1> HIDE DEF T
<1>2. HeldWith(recs, NoTrial) \subseteq T
  BY <1>1, FoldLeast
<1> QED BY <1>2 DEF T, Held

\* What a record may take away: nothing, unless it is a withdrawal.
Takes(recs, rec, cmd) ==
    LET now == Append(recs, rec)
        lost == Held(recs) \ Held(now)
    IN  lost # {} =>
            /\ rec.op = "withdraw"
            /\ lost \subseteq RestsOnWithdrawn(now)
            /\ cmd = "withdraw --cascade" \/ lost \subseteq {rec.key}

\* Records that neither accept nor withdraw take nothing away.
LEMMA InertTakes ==
    ASSUME NEW recs \in Seq(Records), NEW rec \in Records, rec.op \notin {"support", "withdraw"},
           WellFiled(recs), NEW cmd
    PROVE  Takes(recs, rec, cmd)
<1> DEFINE one == <<rec>>
           now == Append(recs, rec)
<1>1. one \in Seq(Records) /\ At(one, "support") = {} /\ At(one, "withdraw") = {}
  BY DEF At
<1>2. Withdrawn(one) = {}
  BY <1>1 DEF Withdrawn
<1> HIDE DEF one
<1>3. now = recs \o one
  BY AppendIsConcat DEF one
<1>4. Supports(now) = Supports(recs)
  BY <1>1, <1>3, ConcatUnsupported
<1>5. Claims(recs) \subseteq Claims(now) /\ Withdrawn(now) = Withdrawn(recs)
  <2>1. /\ Claims(recs \o one) = Claims(recs) \cup Claims(one)
        /\ Withdrawn(recs \o one) = Withdrawn(recs) \cup Withdrawn(one)
    BY <1>1, ConcatSays
  <2> HIDE DEF now
  <2> QED BY <1>2, <1>3, <2>1
<1>6. DOMAIN NoTrial = {}
  BY DEF NoTrial
<1>7. DOMAIN Supports(recs) \subseteq Claims(recs)
  BY SupportsFiled
<1> HIDE DEF now
<1>8. Swaps(recs, now, NoTrial)
  BY <1>4, <1>6 DEF Swaps
<1>9. Held(recs) \subseteq Held(now)
  BY <1>5, <1>6, <1>7, <1>8, SwapKeeps
<1> QED BY <1>9 DEF Takes, now

\* A withdrawal's record takes away only what rests on a withdrawn claim.
LEMMA WithdrawalTakes ==
    ASSUME NEW recs \in Seq(Records), NEW rec \in Records, rec.op = "withdraw"
    PROVE  Held(recs) \ Held(Append(recs, rec)) \subseteq RestsOnWithdrawn(Append(recs, rec))
<1> DEFINE one == <<rec>>
           now == Append(recs, rec)
<1>1. one \in Seq(Records) /\ At(one, "support") = {} /\ At(one, "claim") = {}
  BY DEF At
<1>2. Claims(one) = {}
  BY <1>1 DEF Claims
<1> HIDE DEF one
<1>3. now = recs \o one
  BY AppendIsConcat DEF one
<1>4. Supports(now) = Supports(recs)
  BY <1>1, <1>3, ConcatUnsupported
<1>5. Claims(now) = Claims(recs)
  <2>1. Claims(recs \o one) = Claims(recs) \cup Claims(one)
    BY <1>1, ConcatSays
  <2> HIDE DEF now
  <2> QED BY <1>2, <1>3, <2>1
<1> HIDE DEF now
<1>6. Held(recs) \ Held(now) \subseteq RestsOnWithdrawn(now)
  BY <1>4, <1>5, WithdrawTakes
<1> QED BY <1>6 DEF now

\* A receipt is accepted if the fold holds its claim by it: whatever held
\* without it holds with it.
LEMMA VerdictTakes ==
    ASSUME NEW recs \in Seq(Records), NEW e \in Entries, WellFiled(recs), NEW cmd
    PROVE  Takes(recs, Verdict(recs, e), cmd)
<1> DEFINE rec == Verdict(recs, e)
           trial == Trial({e})
           one == <<rec>>
           now == Append(recs, rec)
<1>1. rec \in Records /\ rec \in {Support(e), Refused(e)}
  BY VerdictRecords DEF Entries
<1>2. CASE rec = Refused(e)
  <2>1. rec.op = "refused"
    BY <1>2 DEF Refused
  <2> HIDE DEF rec
  <2> QED BY <1>1, <2>1, InertTakes DEF rec
<1>3. CASE rec = Support(e)
  <2>1. rec.op = "support" /\ rec.key = e.key /\ rec.receipt = e.receipt
    BY <1>3 DEF Support
  <2>2. e.key \in HeldWith(recs, trial)
    BY <1>3, <2>1 DEF Verdict, Support, Refused
  <2>3. DOMAIN trial = {e.key} /\ trial[e.key] = e.receipt
    <3> DEFINE es == {e}
    <3>1. \A x, y \in es : x.key = y.key => x = y
      OBVIOUS
    <3>2. {x.key : x \in es} = {e.key} /\ e \in es
      OBVIOUS
    <3> HIDE DEF es
    <3>3. DOMAIN Trial(es) = {x.key : x \in es} /\ \A x \in es : Trial(es)[x.key] = x.receipt
      BY <3>1, TrialIs
    <3> QED BY <3>2, <3>3 DEF es
  <2>4. one \in Seq(Records) /\ At(one, "support") = {1} /\ one[1] = rec /\ At(one, "withdraw") = {}
    BY <1>1, <2>1 DEF At
  <2>5. Withdrawn(one) = {}
    BY <2>4 DEF Withdrawn
  <2> HIDE DEF rec, one, trial
  <2>6. now = recs \o one
    BY <1>1, AppendIsConcat DEF one
  <2>7. DOMAIN Supports(one) = {e.key} /\ Supports(one)[e.key] = e.receipt
    <3>1. SupportsLatest(one)
      BY <2>4, SupportsAre
    <3>2. IsLatest(one, e.key, 1)
      BY <2>1, <2>4 DEF IsLatest
    <3> QED BY <2>1, <2>4, <3>1, <3>2 DEF SupportsLatest
  <2>8. Supersedes(now, recs, one)
    BY <2>4, <2>6, ConcatSupports
  <2>9. Claims(recs) \subseteq Claims(now) /\ Withdrawn(now) = Withdrawn(recs)
    <3>1. /\ Claims(recs \o one) = Claims(recs) \cup Claims(one)
          /\ Withdrawn(recs \o one) = Withdrawn(recs) \cup Withdrawn(one)
      BY <2>4, ConcatSays
    <3> HIDE DEF now
    <3> QED BY <2>5, <2>6, <3>1
  <2>10. DOMAIN Supports(recs) \subseteq Claims(recs)
    BY SupportsFiled
  <2> HIDE DEF now
  <2>11. Swaps(recs, now, trial)
    BY <2>3, <2>7, <2>8 DEF Supersedes, Swaps
  <2>12. Held(recs) \subseteq Held(now)
    BY <2>2, <2>3, <2>9, <2>10, <2>11, SwapKeeps
  <2> QED BY <2>12 DEF Takes, now, rec
<1> QED BY <1>1, <1>2, <1>3

\* What a command is about to append.
Weighed(c) ==
    c.cmd \notin {"submit-batch", "merge"} =>
        \/ \A i \in DOMAIN c.todo : c.todo[i].op \notin {"support", "withdraw"}
        \/ \E e \in Entries : c.todo = <<Verdict(c.seen, e)>>
        \/ \E k \in Keys : /\ c.todo = <<Withdraw(k)>>
                           /\ c.cmd = "withdraw --cascade" \/ LostTo(c.seen, k) = {}

Weighing == Orderly /\ \A p \in Procs : proc[p] # Idle => Weighed(proc[p])

LEMMA WeighedSet ==
    ASSUME Weighing, Orderly', NEW p \in Procs, NEW c, proc' = [proc EXCEPT ![p] = c],
           c # Idle => Weighed(c)
    PROVE  Weighing'
<1>1. proc = [q \in Procs |-> proc[q]]
  BY DEF Weighing, Orderly, Custody
<1>2. proc'[p] = c /\ \A q \in Procs : q # p => proc'[q] = proc[q]
  BY <1>1
<1>3. ASSUME NEW q \in Procs, proc'[q] # Idle PROVE Weighed(proc'[q])
  BY <1>2, <1>3 DEF Weighing
<1> QED BY <1>3 DEF Weighing

LEMMA WeighedStart ==
    ASSUME Weighing, Orderly', NEW p \in Procs, NEW b \in Branches, NEW cmd, NEW todo, NEW retry,
           Start(p, b, cmd, todo, retry),
           \/ cmd \in {"submit-batch", "merge"}
           \/ \A i \in DOMAIN todo : todo[i].op \notin {"support", "withdraw"}
           \/ \E k \in Keys : /\ todo = <<Withdraw(k)>>
                              /\ cmd = "withdraw --cascade" \/ LostTo(ledger[b], k) = {}
    PROVE  Weighing'
<1> DEFINE c == [cmd |-> cmd, branch |-> b, seen |-> ledger[b],
                 todo |-> todo, retry |-> retry, rounds |-> IF cmd \in Syncing THEN Rounds ELSE 0]
<1>1. proc' = [proc EXCEPT ![p] = c]
  BY DEF Start
<1>2. c.cmd = cmd /\ c.todo = todo /\ c.seen = ledger[b]
  OBVIOUS
<1> HIDE DEF c
<1>3. Weighed(c)
  BY <1>2 DEF Weighed
<1> QED BY <1>1, <1>3, WeighedSet

\* The records of two lists are those of their concatenation.
LEMMA KindsOfParts ==
    ASSUME NEW s \in Seq(Records), NEW t \in Seq(Records),
           \A i \in DOMAIN s : s[i].op \notin {"support", "withdraw"},
           \A i \in DOMAIN t : t[i].op \notin {"support", "withdraw"}
    PROVE  \A i \in DOMAIN (s \o t) : (s \o t)[i].op \notin {"support", "withdraw"}
<1>1. /\ \A i \in DOMAIN s : (s \o t)[i] = s[i]
      /\ \A i \in DOMAIN t : (s \o t)[Len(s) + i] = t[i]
      /\ \A i \in DOMAIN (s \o t) : i \in DOMAIN s \/ \E j \in DOMAIN t : i = Len(s) + j
  BY ConcatAt
<1> QED BY <1>1

\* Filing the goal's claims accepts and withdraws nothing.
LEMMA GoalInert ==
    ASSUME NEW recs
    PROVE  \A i \in DOMAIN GoalRecords(recs) : GoalRecords(recs)[i].op \notin {"support", "withdraw"}
BY DEF GoalRecords, ClaimRecord

LEMMA WeighedFiling ==
    ASSUME Weighing, Orderly', NEW p \in Procs, NEW b \in Branches,
           \/ InitLedger(p, b) \/ BeginMerge(p, b) \/ FileGoal(p, b) \/ Restate(p, b)
           \/ \E k \in Keys : Claim(p, b, k)
           \/ \E c \in Covers : Cover(p, b, c)
           \/ \E e \in Offers : Submit(p, b, e)
           \/ \E batch \in Batches : Batch(p, b, batch)
           \/ \E k \in Keys, cascade \in BOOLEAN : WithdrawClaim(p, b, k, cascade)
    PROVE  Weighing'
<1> DEFINE goal == GoalRecords(ledger[b])
<1>0. \A i \in DOMAIN goal : goal[i].op \notin {"support", "withdraw"}
  BY GoalInert
<1>1. ledger[b] # <<>> => goal \in Seq(Records)
  BY GoalOffersNothing DEF Weighing
<1>2. CASE InitLedger(p, b)
  <2> DEFINE rec  == [op |-> "init", statement |-> statement[b]]
             first == <<rec>>
             none == <<>>
             filed == GoalRecords(none)
             todo == first \o filed
  <2>1. Start(p, b, "init", todo, <<>>)
    BY <1>2 DEF InitLedger
  <2>2. statement[b] \in Statements
    BY OrderlyLedger DEF Weighing
  <2>3. rec \in Records /\ rec.op = "init"
    BY <2>2 DEF Records
  <2>4. first \in Seq(Records) /\ \A i \in DOMAIN first : first[i] = rec
    BY <2>3
  <2>5. Claims(first) = {} /\ WellFormed(first)
    <3>1. At(first, "init") = {1} /\ Claims(first) = {} /\ Naming(first) = {}
      BY DEF At, Claims, Naming
    <3> QED BY <2>4, <3>1 DEF WellFormed, WellFiled, LabelConflict, Naming
  <2>6. GoalRecords(first) = filed
    <3>1. Claims(none) = {}
      BY DEF Claims, At
    <3>2. Claims(first) = Claims(none)
      BY <2>5, <3>1
    <3> HIDE DEF first, none
    <3> QED BY <3>2 DEF GoalRecords, filed
  <2>7. \A i \in DOMAIN filed : filed[i].op \notin {"support", "withdraw"}
    BY GoalInert
  <2>8. \A i \in DOMAIN first : first[i].op \notin {"support", "withdraw"}
    BY <2>3, <2>4
  <2> HIDE DEF first, filed
  <2>9. filed \in Seq(Records)
    BY <2>4, <2>5, <2>6, GoalFits
  <2>10. \A i \in DOMAIN todo : todo[i].op \notin {"support", "withdraw"}
    BY <2>4, <2>7, <2>8, <2>9, KindsOfParts
  <2> HIDE DEF todo
  <2> QED BY <2>1, <2>10, WeighedStart
<1> HIDE DEF goal
<1>3. CASE BeginMerge(p, b)
  BY <1>3, WeighedStart DEF BeginMerge
<1>4. CASE FileGoal(p, b)
  BY <1>0, <1>4, WeighedStart DEF FileGoal, goal
<1>5. CASE Restate(p, b)
  <2> DEFINE todo == <<[op |-> "restate", old |-> BoundStatement(ledger[b]), new |-> statement[b]]>>
  <2>1. Start(p, b, "restate", todo, <<>>)
    BY <1>5 DEF Restate
  <2>2. \A i \in DOMAIN todo : todo[i].op = "restate"
    OBVIOUS
  <2> HIDE DEF todo
  <2> QED BY <2>1, <2>2, WeighedStart
<1>6. ASSUME NEW k \in Keys, Claim(p, b, k) PROVE Weighing'
  <2> DEFINE rec == ClaimRecord(k)
             more == <<rec>>
  <2>1. Start(p, b, "claim", Append(goal, rec), RealizedBy(k)) /\ rec \in Records /\ rec.op = "claim"
    BY <1>6 DEF Claim, ClaimRecord, Records, goal
  <2>2. goal \in Seq(Records)
    BY <1>1, <1>6 DEF Claim, Bound
  <2>3. more \in Seq(Records) /\ \A i \in DOMAIN more : more[i].op \notin {"support", "withdraw"}
    BY <2>1
  <2> HIDE DEF rec
  <2>4. Append(goal, rec) = goal \o more
    BY <2>1, <2>2, AppendIsConcat
  <2> HIDE DEF more
  <2>5. \A i \in DOMAIN (goal \o more) : (goal \o more)[i].op \notin {"support", "withdraw"}
    BY <1>0, <2>2, <2>3, KindsOfParts
  <2> QED BY <2>1, <2>4, <2>5, WeighedStart
<1>7. ASSUME NEW c \in Covers, Cover(p, b, c) PROVE Weighing'
  <2> DEFINE more == <<ClaimRecord(c.cover), ClaimRecord(c.spine)>>
  <2>1. Start(p, b, "cover", goal \o more, c.retry)
    BY <1>7 DEF Cover, goal
  <2>2. goal \in Seq(Records)
    BY <1>1, <1>7 DEF Cover, Bound
  <2>3. ClaimRecord(c.cover) \in Records /\ ClaimRecord(c.spine) \in Records
    BY CoversType DEF ClaimRecord, Records
  <2>4. more \in Seq(Records) /\ \A i \in DOMAIN more : more[i] \in {ClaimRecord(c.cover), ClaimRecord(c.spine)}
    BY <2>3
  <2> HIDE DEF more
  <2>5. \A i \in DOMAIN more : more[i].op \notin {"support", "withdraw"}
    BY <2>4 DEF ClaimRecord
  <2>6. \A i \in DOMAIN (goal \o more) : (goal \o more)[i].op \notin {"support", "withdraw"}
    BY <1>0, <2>2, <2>4, <2>5, KindsOfParts
  <2> QED BY <2>1, <2>6, WeighedStart
<1>8. ASSUME NEW e \in Offers, Submit(p, b, e) PROVE Weighing'
  <2>1. Start(p, b, "submit", goal, <<e>>)
    BY <1>8 DEF Submit, goal
  <2> QED BY <1>0, <2>1, WeighedStart
<1>9. ASSUME NEW batch \in Batches, Batch(p, b, batch) PROVE Weighing'
  <2>1. PICK todo, retry : Start(p, b, "submit-batch", todo, retry)
    BY <1>9 DEF Batch
  <2> QED BY <2>1, WeighedStart
<1>10. ASSUME NEW k \in Keys, NEW cascade \in BOOLEAN, WithdrawClaim(p, b, k, cascade) PROVE Weighing'
  <2>1. CASE cascade
    <3>1. Start(p, b, "withdraw --cascade", <<Withdraw(k)>>, <<>>)
      BY <1>10, <2>1 DEF WithdrawClaim
    <3> QED BY <3>1, WeighedStart
  <2>2. CASE ~cascade
    <3>1. Start(p, b, "withdraw", <<Withdraw(k)>>, <<>>) /\ LostTo(ledger[b], k) = {}
      BY <1>10, <2>2 DEF WithdrawClaim
    <3> QED BY <3>1, WeighedStart
  <2> QED BY <2>1, <2>2
<1> QED BY <1>2, <1>3, <1>4, <1>5, <1>6, <1>7, <1>8, <1>9, <1>10

\* A receipt that comes next is decided on the ledger as the command knows it.
LEMMA WeighedDecide ==
    ASSUME Weighing, Orderly', NEW p \in Procs, SubmitNext(p) \/ SyncNext(p)
    PROVE  Weighing'
<1> DEFINE c == proc[p]
<1>1. c # Idle
  BY DEF SubmitNext, SyncNext
<1>2. Sound(c)
  BY <1>1 DEF Weighing, Orderly
<1>3. c.retry \in Seq(Entries) /\ Fields \subseteq DOMAIN c
  BY <1>2 DEF Sound
<1>4. ASSUME NEW e \in Entries, NEW d, proc' = [proc EXCEPT ![p] = d],
             d.cmd = c.cmd, d.seen = c.seen, d.todo = <<Verdict(c.seen, e)>>
      PROVE  Weighing'
  <2>1. Weighed(d)
    BY <1>4 DEF Weighed
  <2> QED BY <1>4, <2>1, WeighedSet
<1>5. CASE SubmitNext(p)
  <2> DEFINE e == Head(c.retry)
             rec == Verdict(c.seen, e)
             d == [c EXCEPT !.todo = <<rec>>, !.retry = Tail(@),
                            !.rounds = IF c.cmd = "submit" /\ rec.op = "refused" THEN 0 ELSE @]
  <2>1. proc' = [proc EXCEPT ![p] = d] /\ c.retry # <<>>
    BY <1>5 DEF SubmitNext
  <2>2. e \in Entries
    BY <1>3, <2>1, HeadTailProperties
  <2> HIDE DEF rec
  <2>3. d.cmd = c.cmd /\ d.seen = c.seen /\ d.todo = <<rec>>
    BY <1>3 DEF Fields
  <2> HIDE DEF d, e
  <2> QED BY <1>4, <2>1, <2>2, <2>3 DEF rec
<1>6. CASE SyncNext(p)
  <2>1. PICK e \in Worth(c.seen) :
              LET rec == Verdict(c.seen, e)
              IN  proc' = [proc EXCEPT ![p].todo   = <<rec>>,
                                       ![p].rounds = IF rec.op = "support" THEN @ - 1 ELSE @]
    BY <1>6 DEF SyncNext
  <2> DEFINE rec == Verdict(c.seen, e)
             d == [c EXCEPT !.todo = <<rec>>, !.rounds = IF rec.op = "support" THEN @ - 1 ELSE @]
  <2>2. proc' = [proc EXCEPT ![p] = d]
    BY <2>1
  <2>3. e \in Entries
    BY <2>1, WorthIs
  <2> HIDE DEF rec
  <2>4. d.cmd = c.cmd /\ d.seen = c.seen /\ d.todo = <<rec>>
    BY <1>3 DEF Fields
  <2> HIDE DEF d
  <2> QED BY <1>4, <2>2, <2>3, <2>4 DEF rec
<1> QED BY <1>5, <1>6

\* A list of one record has none left when it is written.
LEMMA TailOfOne == \A x : Tail(<<x>>) = <<>> /\ Head(<<x>>) = x
OBVIOUS

\* What is left of a command's records after the first.
LEMMA WeighedWrite ==
    ASSUME Weighing, Orderly', NEW p \in Procs, Write(p)
    PROVE  Weighing'
<1> DEFINE c == proc[p]
           rec == NextRecord(p)
           d == Wrote(c, rec)
           after == After(p)
<1>1. /\ c # Idle /\ c.todo # <<>> /\ proc' = [proc EXCEPT ![p] = after] /\ after \in {Idle, d}
  BY DEF Write, Working, After, Wrote
<1>2. Sound(c) /\ Weighed(c)
  BY <1>1 DEF Weighing, Orderly
<1>3. d.cmd = c.cmd /\ d.todo = Tail(c.todo)
  BY <1>2 DEF Wrote, Sound, Fields
<1>4. ASSUME c.cmd \notin {"submit-batch", "merge"}
      PROVE  \A i \in DOMAIN Tail(c.todo) : Tail(c.todo)[i].op \notin {"support", "withdraw"}
  <2>1. c.todo \in Seq(Records)
    BY <1>4, NextIsDue DEF Weighing
  <2>2. CASE \A i \in DOMAIN c.todo : c.todo[i].op \notin {"support", "withdraw"}
    <3> DEFINE todo == c.todo
    <3>1. /\ todo \in Seq(Records) /\ todo # <<>>
          /\ \A i \in DOMAIN todo : todo[i].op \notin {"support", "withdraw"}
      BY <1>1, <2>1, <2>2
    <3> HIDE DEF todo
    <3>2. /\ Tail(todo) \in Seq(Records) /\ Len(Tail(todo)) = Len(todo) - 1 /\ Len(todo) \in Nat
          /\ \A i \in 1..Len(Tail(todo)) : Tail(todo)[i] = todo[i + 1]
      BY <3>1, HeadTailProperties, LenProperties
    <3>3. DOMAIN Tail(todo) = 1..Len(Tail(todo)) /\ DOMAIN todo = 1..Len(todo)
      BY <3>1, <3>2, LenProperties
    <3>4. \A i \in DOMAIN Tail(todo) : Tail(todo)[i].op \notin {"support", "withdraw"}
      BY <3>1, <3>2, <3>3
    <3> QED BY <3>4 DEF todo
  <2>3. ASSUME NEW x, c.todo = <<x>>
        PROVE  \A i \in DOMAIN Tail(c.todo) : Tail(c.todo)[i].op \notin {"support", "withdraw"}
    <3>1. Tail(c.todo) = <<>>
      BY <2>3, TailOfOne
    <3> QED BY <3>1
  <2> QED BY <1>2, <1>4, <2>2, <2>3 DEF Weighed
<1> HIDE DEF d, after
<1>5. Weighed(d)
  BY <1>3, <1>4 DEF Weighed
<1> QED BY <1>1, <1>5, WeighedSet

LEMMA WeighingNext == Weighing /\ Alone /\ [Next]_vars => Weighing'
<1> SUFFICES ASSUME Weighing, Alone, [Next]_vars PROVE Weighing'
  OBVIOUS
<1>0. Orderly'
  BY OrderlyNext DEF Weighing
<1>1. ASSUME UNCHANGED proc PROVE Weighing'
  BY <1>0, <1>1 DEF Weighing
<1>2. CASE UNCHANGED vars
  BY <1>1, <1>2 DEF vars
<1>3. ASSUME NEW b \in Branches, NEW s \in Statements, Edit(b, s) PROVE Weighing'
  BY <1>1, <1>3 DEF Edit
<1>4. ASSUME NEW p \in Procs, NEW r \in Receipts, Store(p, r) PROVE Weighing'
  BY <1>1, <1>4 DEF Store
<1>5. ASSUME NEW p \in Procs, Crash(p) PROVE Weighing'
  BY <1>0, <1>5, WeighedSet DEF Crash
<1>6. ASSUME NEW p \in Procs, NEW other \in Branches, PlanMerge(p, other) PROVE Weighing'
  <2>1. PICK c : proc' = [proc EXCEPT ![p] = c] /\ (c = Idle \/ c.cmd = "merge")
    <3> DEFINE ours == proc[p].seen
               theirs == ledger[other]
               c == [cmd |-> "merge", branch |-> proc[p].branch, seen |-> ours,
                     todo |-> MergedRecords(MergePlan(ours, theirs).new), retry |-> <<>>, rounds |-> 0,
                     other |-> other, ours |-> ours, theirs |-> theirs]
    <3>1. proc' = [proc EXCEPT ![p] = c] \/ proc' = [proc EXCEPT ![p] = Idle]
      BY <1>6 DEF PlanMerge
    <3>2. c.cmd = "merge"
      OBVIOUS
    <3> HIDE DEF c
    <3> QED BY <3>1, <3>2
  <2>2. c # Idle => Weighed(c)
    BY <2>1 DEF Weighed
  <2> QED BY <1>0, <2>1, <2>2, WeighedSet
<1>7. ASSUME NEW p \in Procs, NEW b \in Branches,
             \/ InitLedger(p, b) \/ BeginMerge(p, b) \/ FileGoal(p, b) \/ Restate(p, b)
             \/ \E k \in Keys : Claim(p, b, k)
             \/ \E c \in Covers : Cover(p, b, c)
             \/ \E e \in Offers : Submit(p, b, e)
             \/ \E batch \in Batches : Batch(p, b, batch)
             \/ \E k \in Keys, cascade \in BOOLEAN : WithdrawClaim(p, b, k, cascade)
      PROVE  Weighing'
  BY <1>0, <1>7, WeighedFiling
<1>8. ASSUME NEW p \in Procs, SubmitNext(p) \/ SyncNext(p) PROVE Weighing'
  BY <1>0, <1>8, WeighedDecide
<1>9. ASSUME NEW p \in Procs, Write(p) PROVE Weighing'
  BY <1>0, <1>9, WeighedWrite
<1> QED BY <1>2, <1>3, <1>4, <1>5, <1>6, <1>7, <1>8, <1>9 DEF Next

LEMMA WeighingInit == Init => Weighing
BY OrderlyInit DEF Init, Weighing

\* What a command of the kind appends takes away what it may.
LEMMA NextTakes ==
    ASSUME Weighing, NEW p \in Procs, Write(p), proc[p].cmd \notin {"submit-batch", "merge"},
           NEW recs, recs = proc[p].seen, WellFiled(recs)
    PROVE  Takes(recs, NextRecord(p), proc[p].cmd) /\ NextRecord(p) \in Records /\ recs \in Seq(Records)
<1> DEFINE c == proc[p]
           todo == c.todo
           rec == NextRecord(p)
<1>1. c # Idle /\ todo # <<>> /\ Weighed(c)
  BY DEF Weighing, Write, Working
<1>2. rec = Head(todo) /\ rec \in Records /\ todo \in Seq(Records) /\ recs \in Seq(Records)
  BY NextIsDue DEF Weighing
<1> HIDE DEF rec
<1>3. CASE \A i \in DOMAIN todo : todo[i].op \notin {"support", "withdraw"}
  <2>1. 1 \in DOMAIN todo /\ Head(todo) = todo[1]
    BY <1>1, <1>2, HeadTailProperties, LenProperties, EmptySeq
  <2>2. rec.op \notin {"support", "withdraw"}
    BY <1>2, <1>3, <2>1
  <2> QED BY <1>2, <2>2, InertTakes DEF rec
<1>4. ASSUME NEW e \in Entries, todo = <<Verdict(recs, e)>> PROVE Takes(recs, rec, c.cmd)
  <2>1. rec = Verdict(recs, e)
    BY <1>2, <1>4, TailOfOne
  <2> QED BY <1>2, <2>1, VerdictTakes
<1>5. ASSUME NEW k \in Keys, todo = <<Withdraw(k)>>,
             c.cmd = "withdraw --cascade" \/ LostTo(recs, k) = {}
      PROVE  Takes(recs, rec, c.cmd)
  <2> DEFINE now == Append(recs, rec)
  <2>1. rec = Withdraw(k)
    BY <1>2, <1>5, TailOfOne
  <2>2. rec.op = "withdraw" /\ rec.key = k
    BY <2>1 DEF Withdraw
  <2>3. Held(recs) \ Held(now) \subseteq RestsOnWithdrawn(now)
    BY <1>2, <2>2, WithdrawalTakes
  <2>4. c.cmd = "withdraw --cascade" \/ Held(recs) \ Held(now) \subseteq {k}
    BY <1>5, <2>1 DEF LostTo, now
  <2> QED BY <2>2, <2>3, <2>4 DEF Takes, now
<1> QED BY <1>1, <1>2, <1>3, <1>4, <1>5 DEF Weighed, rec

\* Holds end by withdrawals alone, on every branch one command at a time works
\* on: a superseding support, one that closes a circle of rules, or one resting
\* on a withdrawn claim is accepted only if all that was held stays so.
THEOREM HoldsEnd == Spec /\ []Alone => HoldsEndByWithdrawal
<1> DEFINE Step ==
      \A p \in Procs :
          proc[p] # Idle /\ proc[p].cmd \notin {"submit-batch", "merge"} /\ ledger' # ledger =>
          LET b == proc[p].branch
              lost == Held(ledger[b]) \ Held(ledger'[b])
          IN  lost # {} =>
                  /\ Appended(b).op = "withdraw"
                  /\ lost \subseteq RestsOnWithdrawn(ledger'[b])
                  /\ proc[p].cmd = "withdraw --cascade" \/ lost \subseteq {Appended(b).key}
<1>1. ASSUME Weighing, Alone, [Next]_vars PROVE Step
  <2> SUFFICES ASSUME NEW p \in Procs, proc[p] # Idle,
                      proc[p].cmd \notin {"submit-batch", "merge"}, ledger' # ledger,
                      Held(ledger[proc[p].branch]) \ Held(ledger'[proc[p].branch]) # {}
               PROVE  /\ Appended(proc[p].branch).op = "withdraw"
                      /\ Held(ledger[proc[p].branch]) \ Held(ledger'[proc[p].branch])
                            \subseteq RestsOnWithdrawn(ledger'[proc[p].branch])
                      /\ \/ proc[p].cmd = "withdraw --cascade"
                         \/ Held(ledger[proc[p].branch]) \ Held(ledger'[proc[p].branch])
                                \subseteq {Appended(proc[p].branch).key}
    OBVIOUS
  <2> DEFINE b == proc[p].branch
             recs == ledger[b]
             rec == NextRecord(p)
  <2>1. /\ proc[p].seen = recs /\ b \in Branches
        /\ ledger'[b] = recs \/ (Write(p) /\ ledger'[b] = Append(recs, rec))
    BY <1>1, LedgerSteps DEF Weighing
  <2>2. Write(p) /\ ledger'[b] = Append(recs, rec)
    <3>1. ledger'[b] # recs
      OBVIOUS
    <3> QED BY <2>1, <3>1
  <2>3. WellFiled(recs)
    BY <1>1, <2>1, OrderlyLedger DEF Weighing
  <2>4. Takes(recs, rec, proc[p].cmd) /\ rec \in Records /\ recs \in Seq(Records)
    BY <1>1, <2>1, <2>2, <2>3, NextTakes
  <2>5. Appended(b) = rec
    <3> HIDE DEF rec, recs
    <3>1. Append(recs, rec)[Len(Append(recs, rec))] = rec
      BY <2>4, AppendProperties
    <3> QED BY <2>2, <3>1 DEF Appended
  <2> QED BY <2>2, <2>4, <2>5 DEF Takes
<1>2. ASSUME Weighing, Alone, [Next]_vars PROVE [Step]_vars
  BY <1>1, <1>2
<1> HIDE DEF Step
<1>3. Spec /\ []Alone => [][Step]_vars
  BY <1>2, WeighingInit, WeighingNext, PTL DEF Spec
<1> QED BY <1>3 DEF HoldsEndByWithdrawal, Step


-----------------------------------------------------------------------------
(***************************************************************************)
(* The goal's rules.  A command that will offer what they need has the     *)
(* goal's claims filed by then: at the start they are in its ledger or due *)
(* to be.  So what it stops on, no support being new or no proposal worth  *)
(* a fold, says something of every claim of the goal's.                    *)
(***************************************************************************)
\* A command that will offer receipts by itself has the goal's claims filed or
\* has yet to file them.
Files(c) == c.rounds > 0 => Range(GoalClaims) \subseteq Claims(Due(c))

GoalFiled == \A p \in Procs : proc[p] # Idle => Files(proc[p])

LEMMA FilesSet ==
    ASSUME Orderly, GoalFiled, NEW p \in Procs, NEW c, proc' = [proc EXCEPT ![p] = c],
           c # Idle => Files(c)
    PROVE  GoalFiled'
<1>1. proc = [q \in Procs |-> proc[q]]
  BY DEF Orderly, Custody
<1>2. proc'[p] = c /\ \A q \in Procs : q # p => proc'[q] = proc[q]
  BY <1>1
<1>3. ASSUME NEW q \in Procs, proc'[q] # Idle PROVE Files(proc'[q])
  BY <1>2, <1>3 DEF GoalFiled
<1> QED BY <1>3 DEF GoalFiled

\* Only a command that offers receipts by itself need file the goal's claims.
LEMMA FilesStart ==
    ASSUME Orderly, GoalFiled, NEW p \in Procs, NEW b \in Branches, NEW cmd, NEW todo, NEW retry,
           Start(p, b, cmd, todo, retry),
           cmd \in Syncing => Range(GoalClaims) \subseteq Claims(ledger[b] \o todo)
    PROVE  GoalFiled'
<1> DEFINE c == [cmd |-> cmd, branch |-> b, seen |-> ledger[b],
                 todo |-> todo, retry |-> retry, rounds |-> IF cmd \in Syncing THEN Rounds ELSE 0]
<1>1. proc' = [proc EXCEPT ![p] = c]
  BY DEF Start
<1>2. Due(c) = ledger[b] \o todo /\ (c.rounds > 0 => cmd \in Syncing)
  BY DEF Due
<1> HIDE DEF c
<1>3. Files(c)
  BY <1>2 DEF Files
<1> QED BY <1>1, <1>3, FilesSet

\* The commands that do file them first.
LEMMA FilesFirst ==
    ASSUME Orderly, GoalFiled, NEW p \in Procs, NEW b \in Branches, ledger[b] # <<>>, NEW cmd,
           NEW more \in Seq(Records), NEW retry,
           Start(p, b, cmd, GoalRecords(ledger[b]) \o more, retry)
    PROVE  GoalFiled'
<1> DEFINE recs == ledger[b]
           goal == GoalRecords(recs)
           todo == goal \o more
           filed == Filed(recs)
<1>1. recs \in Seq(Records) /\ WellFormed(recs)
  BY OrderlyLedger
<1> HIDE DEF recs
<1>2. goal \in Seq(Records) /\ filed \in Seq(Records) /\ Range(GoalClaims) \subseteq Claims(filed)
  BY <1>1, GoalFits
<1>3. filed = recs \o goal
  BY DEF Filed
<1>4. Start(p, b, cmd, todo, retry)
  BY DEF recs
<1> HIDE DEF goal, filed
<1>5. filed \o more = recs \o todo
  <2>1. (recs \o goal) \o more = recs \o todo
    BY <1>1, <1>2, ConcatTwice
  <2> QED BY <1>3, <2>1
<1>6. Claims(filed) \subseteq Claims(filed \o more)
  BY <1>2, ConcatSays
<1> HIDE DEF todo
<1>7. Range(GoalClaims) \subseteq Claims(ledger[b] \o todo)
  BY <1>2, <1>5, <1>6 DEF recs
<1> QED BY <1>4, <1>7, FilesStart

LEMMA FilesSync ==
    ASSUME Orderly, GoalFiled, NEW p \in Procs, NEW b \in Branches,
           \/ \E c \in Covers : Cover(p, b, c)
           \/ \E e \in Offers : Submit(p, b, e)
           \/ \E batch \in Batches : Batch(p, b, batch)
    PROVE  GoalFiled'
<1> DEFINE goal == GoalRecords(ledger[b])
<1>1. ledger[b] # <<>>
  BY DEF Cover, Submit, Batch, Bound
<1>2. ASSUME NEW c \in Covers, Cover(p, b, c) PROVE GoalFiled'
  <2> DEFINE more == <<ClaimRecord(c.cover), ClaimRecord(c.spine)>>
  <2>1. Start(p, b, "cover", goal \o more, c.retry)
    BY <1>2 DEF Cover
  <2>2. ClaimRecord(c.cover) \in Records /\ ClaimRecord(c.spine) \in Records
    BY CoversType DEF ClaimRecord, Records
  <2>3. more \in Seq(Records)
    BY <2>2
  <2> HIDE DEF more
  <2> QED BY <1>1, <2>1, <2>3, FilesFirst
<1>3. ASSUME NEW e \in Offers, Submit(p, b, e) PROVE GoalFiled'
  <2>1. Start(p, b, "submit", goal, <<e>>)
    BY <1>3 DEF Submit
  <2>2. goal \in Seq(Records)
    BY <1>1, GoalOffersNothing
  <2> HIDE DEF goal
  <2>3. goal \o <<>> = goal /\ <<>> \in Seq(Records)
    BY <2>2, ConcatEmptySeq, NothingToRetry
  <2>4. Start(p, b, "submit", goal \o <<>>, <<e>>)
    BY <2>1, <2>3
  <2> QED BY <1>1, <2>3, <2>4, FilesFirst DEF goal
<1>4. ASSUME NEW batch \in Batches, Batch(p, b, batch) PROVE GoalFiled'
  <2> DEFINE filed == Filed(ledger[b])
             plan == BatchPlan(filed, batch)
             more == plan.todo
  <2>1. Start(p, b, "submit-batch", goal \o more, plan.retry)
    BY <1>4 DEF Batch
  <2>2. filed \in Seq(Records) /\ WellFormed(filed)
    BY <1>1, FilingStart
  <2>3. batch \in Seq(Entries)
    BY BatchesType DEF Entries
  <2>4. more \in Seq(Records)
    <3> HIDE DEF filed
    <3> QED BY <2>2, <2>3, BatchFits
  <2> HIDE DEF more, plan
  <2> QED BY <1>1, <2>1, <2>4, FilesFirst
<1> QED BY <1>2, <1>3, <1>4

LEMMA FilesDecide ==
    ASSUME Orderly, GoalFiled, NEW p \in Procs, SubmitNext(p) \/ SyncNext(p)
    PROVE  GoalFiled'
<1> DEFINE c == proc[p]
<1>1. c # Idle /\ c.todo = <<>>
  BY DEF SubmitNext, SyncNext
<1>2. Sound(c) /\ Files(c)
  BY <1>1 DEF Orderly, GoalFiled
<1>3. c.retry \in Seq(Entries) /\ c.seen \in Seq(Records) /\ Fields \subseteq DOMAIN c
  BY <1>2 DEF Sound
<1>4. c.rounds > 0 => Range(GoalClaims) \subseteq Claims(c.seen)
  <2>1. Due(c) = c.seen
    BY <1>1, <1>3, ConcatEmptySeq DEF Due
  <2> QED BY <1>2, <2>1 DEF Files
<1>5. ASSUME NEW e \in Entries, NEW rec, rec = Verdict(c.seen, e), NEW d, proc' = [proc EXCEPT ![p] = d],
             d.seen = c.seen, d.todo = <<rec>>, d.rounds > 0 => c.rounds > 0
      PROVE  GoalFiled'
  <2> DEFINE seen == c.seen
             todo == <<rec>>
  <2>1. Due(d) = seen \o todo
    BY <1>5 DEF Due
  <2>2. seen \in Seq(Records) /\ rec \in Records
    BY <1>3, <1>5, VerdictRecords
  <2>3. todo \in Seq(Records)
    BY <2>2
  <2> HIDE DEF seen, todo
  <2>4. Claims(seen) \subseteq Claims(seen \o todo)
    BY <2>2, <2>3, ConcatSays
  <2>5. Files(d)
    BY <1>4, <1>5, <2>1, <2>4 DEF Files, seen
  <2> QED BY <1>5, <2>5, FilesSet
<1>6. CASE SubmitNext(p)
  <2> DEFINE e == Head(c.retry)
             rec == Verdict(c.seen, e)
             d == [c EXCEPT !.todo = <<rec>>, !.retry = Tail(@),
                            !.rounds = IF c.cmd = "submit" /\ rec.op = "refused" THEN 0 ELSE @]
  <2>1. proc' = [proc EXCEPT ![p] = d] /\ c.retry # <<>>
    BY <1>6 DEF SubmitNext
  <2>2. e \in Entries
    BY <1>3, <2>1, HeadTailProperties
  <2> HIDE DEF rec
  <2>3. d.seen = c.seen /\ d.todo = <<rec>> /\ (d.rounds > 0 => c.rounds > 0)
    BY <1>3 DEF Fields
  <2> HIDE DEF d, e
  <2> QED BY <1>5, <2>1, <2>2, <2>3 DEF rec
<1>7. CASE SyncNext(p)
  <2>1. PICK e \in Worth(c.seen) :
              LET rec == Verdict(c.seen, e)
              IN  proc' = [proc EXCEPT ![p].todo   = <<rec>>,
                                       ![p].rounds = IF rec.op = "support" THEN @ - 1 ELSE @]
    BY <1>7 DEF SyncNext
  <2> DEFINE rec == Verdict(c.seen, e)
             d == [c EXCEPT !.todo = <<rec>>, !.rounds = IF rec.op = "support" THEN @ - 1 ELSE @]
  <2>2. proc' = [proc EXCEPT ![p] = d] /\ c.rounds > 0
    BY <1>7, <2>1 DEF SyncNext
  <2>3. e \in Entries
    BY <2>1, WorthIs
  <2> HIDE DEF rec
  <2>4. d.seen = c.seen /\ d.todo = <<rec>>
    BY <1>3 DEF Fields
  <2> HIDE DEF d
  <2> QED BY <1>5, <2>2, <2>3, <2>4 DEF rec
<1> QED BY <1>6, <1>7

\* A record that is written was due before.
LEMMA FilesWrite ==
    ASSUME Orderly, Unmerged, GoalFiled, NEW p \in Procs, Write(p)
    PROVE  GoalFiled'
<1> DEFINE c == proc[p]
           seen == c.seen
           todo == c.todo
           rec == NextRecord(p)
           d == Wrote(c, rec)
           after == After(p)
<1>1. c # Idle /\ todo # <<>> /\ proc' = [proc EXCEPT ![p] = after] /\ after = IF Ended(d) THEN Idle ELSE d
  BY DEF Write, Working, After, Wrote
<1>2. Sound(c) /\ Files(c)
  BY <1>1 DEF Orderly, GoalFiled
<1>3. rec = Head(todo) /\ todo \in Seq(Records) /\ seen \in Seq(Records)
  BY NextIsDue DEF Unmerged, Write, Working
<1>4. d.seen = Append(seen, rec) /\ d.todo = Tail(todo) /\ d.rounds = c.rounds
  BY <1>2 DEF Wrote, Sound, Fields
<1> HIDE DEF d, rec, after
<1>5. Append(seen, rec) \o Tail(todo) = seen \o todo
  <2> HIDE DEF seen, todo
  <2> QED BY <1>1, <1>3, TakeNext
<1>6. Due(d) = Due(c)
  BY <1>4, <1>5 DEF Due
<1>7. Files(d)
  BY <1>2, <1>4, <1>6 DEF Files
<1> QED BY <1>1, <1>7, FilesSet

LEMMA FilesNext == GoalFiled /\ Orderly /\ Unmerged /\ [Next]_vars => GoalFiled'
<1> SUFFICES ASSUME GoalFiled, Orderly, Unmerged, [Next]_vars PROVE GoalFiled'
  OBVIOUS
<1>1. ASSUME UNCHANGED proc PROVE GoalFiled'
  BY <1>1 DEF GoalFiled
<1>2. CASE UNCHANGED vars
  BY <1>1, <1>2 DEF vars
<1>3. ASSUME NEW b \in Branches, NEW s \in Statements, Edit(b, s) PROVE GoalFiled'
  BY <1>1, <1>3 DEF Edit
<1>4. ASSUME NEW p \in Procs, NEW r \in Receipts, Store(p, r) PROVE GoalFiled'
  BY <1>1, <1>4 DEF Store
<1>5. ASSUME NEW p \in Procs, Crash(p) PROVE GoalFiled'
  BY <1>5, FilesSet DEF Crash
<1>6. ASSUME NEW p \in Procs, NEW other \in Branches, PlanMerge(p, other) PROVE GoalFiled'
  BY <1>6 DEF PlanMerge, Idle, Unmerged
<1>7. ASSUME NEW p \in Procs, NEW b \in Branches,
             \/ InitLedger(p, b) \/ Restate(p, b) \/ BeginMerge(p, b) \/ FileGoal(p, b)
             \/ \E k \in Keys : Claim(p, b, k)
             \/ \E k \in Keys, cascade \in BOOLEAN : WithdrawClaim(p, b, k, cascade)
      PROVE  GoalFiled'
  <2>1. ASSUME NEW cmd, NEW todo, NEW retry, Start(p, b, cmd, todo, retry), cmd \notin Syncing
        PROVE  GoalFiled'
    BY <2>1, FilesStart
  <2>2. \A cmd \in {"init", "restate", "merge", "claim", "withdraw", "withdraw --cascade"} :
          cmd \notin Syncing
    BY DEF Syncing
  <2>3. CASE InitLedger(p, b) \/ Restate(p, b) \/ BeginMerge(p, b) \/ FileGoal(p, b)
    BY <2>1, <2>2, <2>3 DEF InitLedger, Restate, BeginMerge, FileGoal
  <2>4. ASSUME NEW k \in Keys, Claim(p, b, k) PROVE GoalFiled'
    BY <2>1, <2>2, <2>4 DEF Claim
  <2>5. ASSUME NEW k \in Keys, NEW cascade \in BOOLEAN, WithdrawClaim(p, b, k, cascade)
        PROVE  GoalFiled'
    BY <2>1, <2>2, <2>5 DEF WithdrawClaim
  <2> QED BY <1>7, <2>3, <2>4, <2>5
<1>8. ASSUME NEW p \in Procs, NEW b \in Branches,
             \/ \E c \in Covers : Cover(p, b, c)
             \/ \E e \in Offers : Submit(p, b, e)
             \/ \E batch \in Batches : Batch(p, b, batch)
      PROVE  GoalFiled'
  BY <1>8, FilesSync
<1>9. ASSUME NEW p \in Procs, SubmitNext(p) \/ SyncNext(p) \/ Write(p) PROVE GoalFiled'
  BY <1>9, FilesDecide, FilesWrite
<1> QED BY <1>2, <1>3, <1>4, <1>5, <1>6, <1>7, <1>8, <1>9 DEF Next

\* Where nothing but withdrawals takes a hold away, the held claims are the
\* supported ones that rest on no withdrawn claim: what Pending counts.
LEMMA SupportedHold ==
    ASSUME NEW recs, Grounded(recs), DOMAIN Supports(recs) \subseteq Claims(recs)
    PROVE  Held(recs) = DOMAIN Supports(recs) \ RestsOnWithdrawn(recs)
<1>1. DOMAIN Supports(recs) \subseteq Held(recs) \cup RestsOnWithdrawn(recs)
  BY GroundedHolds
<1>2. Held(recs) \cap RestsOnWithdrawn(recs) = {}
  BY HeldRestsOnNothingWithdrawn
<1>3. Held(recs) \subseteq DOMAIN Supports(recs)
  BY DEF Held, HeldWith, Offer, NoTrial
<1> QED BY <1>1, <1>2, <1>3

\* What a ledger has where gp stops offering receipts for the goal's claims.
Applied(recs) ==
    \/ Range(GoalClaims) \cap Held(recs) # {}
    \/ \A e \in Proposals :
          Proves(e) /\ e.key \in Claims(recs) /\ PremisesOf[e.receipt] \subseteq Held(recs)
              => e.key \in Held(recs)

LEMMA StopsApplied ==
    ASSUME NEW recs, Grounded(recs), DOMAIN Supports(recs) \subseteq Claims(recs),
           Range(GoalClaims) \subseteq Claims(recs), ~Pending(recs) \/ Worth(recs) = {}
    PROVE  Applied(recs)
<1>1. CASE Worth(recs) = {}
  <2>1. SUFFICES ASSUME NEW e \in Proposals, Proves(e), e.key \in Claims(recs),
                        PremisesOf[e.receipt] \subseteq Held(recs), e.key \notin Held(recs)
                 PROVE  FALSE
    BY DEF Applied
  <2>2. e \in Proposed(recs)
    BY <2>1 DEF Proposed
  <2> QED BY <1>1, <2>1, <2>2 DEF Worth
<1>2. CASE ~Pending(recs)
  <2>1. Held(recs) = DOMAIN Supports(recs) \ RestsOnWithdrawn(recs)
    BY SupportedHold
  <2>2. \/ ~(Range(GoalClaims) \subseteq Claims(recs) \ Held(recs))
        \/ ~ \E e \in Proposals : /\ e.key \in Claims(recs) \ Held(recs)
                                 /\ PremisesOf[e.receipt] \subseteq Held(recs)
    BY <1>2, <2>1 DEF Pending
  <2> QED BY <2>2 DEF Applied
<1> QED BY <1>1, <1>2

\* A command that ends with a record having offered what the goal's rules need
\* leaves none behind that would hold: while nobody merges, one command at a
\* time works on a branch, and no batch is killed half-way.
THEOREM RulesApplied ==
    ASSUME BatchesRunOut
    PROVE  Spec /\ []Alone /\ []Unmerged => GoalRulesApplied
<1> DEFINE Step ==
      \A p \in Procs :
          Syncs(p) =>
          LET recs == ledger'[proc[p].branch]
          IN  \/ Range(GoalClaims) \cap Held(recs) # {}
              \/ \A e \in Proposals :
                    Proves(e) /\ e.key \in Claims(recs) /\ PremisesOf[e.receipt] \subseteq Held(recs)
                        => e.key \in Held(recs)
<1>1. ASSUME Grounds, GoalFiled, Alone, Alone', Unmerged, [Next]_vars PROVE Step
  <2> SUFFICES ASSUME NEW p \in Procs, Syncs(p) PROVE Applied(ledger'[proc[p].branch])
    BY DEF Applied
  <2> DEFINE c == proc[p]
             b == c.branch
             now == ledger'[b]
             d == Wrote(c, NextRecord(p))
  <2>1. c # Idle /\ c.rounds > 0 /\ proc'[p] = Idle /\ ledger' # ledger
    BY DEF Syncs
  <2>2. Grounds' /\ Orderly' /\ Orderly
    BY <1>1, GroundsNext DEF Grounds
  <2>3. b \in Branches /\ c.seen = ledger[b] /\ Sound(c) /\ proc = [q \in Procs |-> proc[q]]
    BY <2>1, <2>2 DEF Orderly, Sound, Custody
  <2>4. Write(p)
    <3>1. PICK q \in Procs : Write(q)
      BY <1>1, <2>1, WritersChange
    <3>2. q # p => proc'[p] = proc[p]
      BY <2>3, <3>1 DEF Write
    <3> QED BY <2>1, <3>1, <3>2
  <2>5. now = Append(c.seen, NextRecord(p)) /\ proc'[p] = IF Ended(d) THEN Idle ELSE d
    <3>1. /\ ledger' = [ledger EXCEPT ![b] = Append(@, NextRecord(p))]
          /\ proc' = [proc EXCEPT ![p] = After(p)]
          /\ After(p) = IF Ended(d) THEN Idle ELSE d
      BY <2>4 DEF Write, After, Wrote
    <3>2. ledger = [x \in Branches |-> ledger[x]]
      BY <2>2 DEF Orderly, Custody
    <3> HIDE DEF d
    <3> QED BY <2>3, <3>1, <3>2
  <2>6. d.seen = now /\ d.todo = Tail(c.todo) /\ d.rounds = c.rounds /\ d # Idle
    <3>1. d.seen = now /\ d.todo = Tail(c.todo) /\ d.rounds = c.rounds /\ DOMAIN d = DOMAIN c
      BY <2>3, <2>5 DEF Wrote, Sound, Fields
    <3> HIDE DEF d, now
    <3>2. d # Idle
      BY <2>3, <3>1 DEF Sound, Fields, Idle
    <3> QED BY <3>1, <3>2
  <2>7. Tail(c.todo) = <<>> /\ (~Pending(now) \/ Worth(now) = {})
    <3> HIDE DEF d, now
    <3>1. Ended(d)
      BY <2>1, <2>5, <2>6
    <3>2. d.rounds # 0
      BY <2>1, <2>6
    <3> QED BY <2>6, <3>1, <3>2 DEF Ended
  <2>8. Range(GoalClaims) \subseteq Claims(now)
    <3>1. Range(GoalClaims) \subseteq Claims(Due(c))
      BY <1>1, <2>1 DEF GoalFiled, Files
    <3>2. c.todo \in Seq(Records) /\ c.todo # <<>> /\ c.seen \in Seq(Records) /\ NextRecord(p) = Head(c.todo)
      BY <1>1, <2>2, <2>4, NextIsDue DEF Write, Working, Unmerged
    <3>3. Append(c.seen, Head(c.todo)) \o Tail(c.todo) = c.seen \o c.todo
      <4> DEFINE seen == c.seen
                 todo == c.todo
      <4>1. seen \in Seq(Records) /\ todo \in Seq(Records) /\ todo # <<>>
        BY <3>2
      <4> HIDE DEF seen, todo
      <4>2. Append(seen, Head(todo)) \o Tail(todo) = seen \o todo
        BY <4>1, TakeNext
      <4> QED BY <4>2 DEF seen, todo
    <3>4. Append(c.seen, Head(c.todo)) \in Seq(Records)
      BY <3>2, HeadTailProperties, AppendProperties
    <3> HIDE DEF c, now
    <3>5. Due(c) = now
      BY <2>5, <2>7, <3>2, <3>3, <3>4, ConcatEmptySeq DEF Due
    <3> QED BY <3>1, <3>5
  <2>9. Grounded(now)
    <3>1. PICK x \in Branches : x = b
      BY <2>3
    <3>2. ~Batching(x)'
      <4>1. SUFFICES ASSUME NEW q \in Procs, proc'[q] # Idle, proc'[q].branch = x PROVE FALSE
        BY DEF Batching
      <4>2. q # p /\ proc'[q] = proc[q]
        BY <2>1, <2>3, <2>4, <4>1 DEF Write
      <4> QED BY <1>1, <2>1, <3>1, <4>1, <4>2 DEF Alone
    <3> QED BY <2>2, <3>1, <3>2 DEF Grounds
  <2>10. DOMAIN Supports(now) \subseteq Claims(now)
    <3>1. now \in Seq(Records) /\ WellFiled(now)
      BY <2>2, <2>3 DEF Orderly, TypeOK
    <3> HIDE DEF now
    <3> QED BY <3>1, SupportsFiled
  <2> HIDE DEF now
  <2>11. Applied(now)
    BY <2>7, <2>8, <2>9, <2>10, StopsApplied
  <2> QED BY <2>11 DEF now
<1>2. ASSUME Grounds, GoalFiled, Alone, Alone', Unmerged, [Next]_vars PROVE [Step]_vars
  BY <1>1, <1>2
<1>3. Init => GoalFiled
  BY DEF Init, GoalFiled
<1>4. Grounds /\ Alone /\ Alone' /\ Unmerged /\ [Next]_vars => Grounds'
  BY GroundsNext
<1>5. Grounds => Orderly
  BY DEF Grounds
<1> HIDE DEF Step
<1>6. Spec /\ []Alone /\ []Unmerged => [][Step]_vars
  BY <1>2, <1>3, <1>4, <1>5, GroundsInit, FilesNext, PTL DEF Spec
<1> QED BY <1>6 DEF GoalRulesApplied, Step

=============================================================================
