---------------------------- MODULE LastingProofs ----------------------------
(***************************************************************************)
(* For every set of batches, files, wallets and fingerprints, and for any  *)
(* depth of a chat's channel: work that goes on after its caller is gone   *)
(* puts a fingerprint in the ledger once, says in its job what became of   *)
(* its file, and stores of a chat's turn at least what its caller was told;*)
(* the rows of a file are read as they were written.                       *)
(***************************************************************************)
EXTENDS MCLasting, SumProofs, SequenceTheorems

(***************************************************************************)
(* Imports of statements.                                                  *)
(***************************************************************************)
(* Batches are records, and what a batch has inserted is not committed by  *)
(* anybody else and not inserted by another batch: the unique index holds  *)
(* it until the transaction of the batch ends.                             *)
Outcomes == Seq({"imported", "duplicate", "skipped"})

Batches == [pc : {"idle", "extract", "row", "lock", "record", "over", "gone"},
            inserted : SUBSET Prints, outcomes : Outcomes,
            verdict : {"none", "succeeded", "failed"}, aborted : BOOLEAN]

Shaped == /\ held \in [Prints -> Nat]
          /\ batch \in [Jobs -> Batches]

OwnInserts == \A j, k \in Jobs :
    j # k => batch[j].inserted \cap batch[k].inserted = {}

FreshInserts == \A j \in Jobs : \A p \in batch[j].inserted : held[p] = 0

RowLeft == \A j \in Jobs : At(j, "lock") => MoreRows(j)

PrintsInv == RowLeft /\ Shaped /\ OwnInserts /\ FreshInserts /\ OnePerPrint

(* An element of a sequence. *)
LEMMA Element ==
    ASSUME NEW S, NEW s \in Seq(S), NEW i \in 1..Len(s)
    PROVE  s[i] \in S
  OBVIOUS

(* A row of a batch that has rows left. *)
LEMMA RowType ==
    ASSUME Shaped, NEW j \in Jobs, MoreRows(j)
    PROVE  Row(j).print \in Prints
  <1>1. File[j] \in Seq([wallets : SUBSET Purses, print : Prints,
                         flaw : {"none", "unreadable", "unstorable"}])
    BY ImportsAssumption
  <1>2. batch[j].outcomes \in Seq({"imported", "duplicate", "skipped"})
    BY DEF Shaped, Batches, Outcomes
  <1>3. Len(batch[j].outcomes) + 1 \in 1..Len(File[j])
    BY <1>1, <1>2 DEF MoreRows
  <1>4. File[j][Len(batch[j].outcomes) + 1] \in
            [wallets : SUBSET Purses, print : Prints, flaw : {"none", "unreadable", "unstorable"}]
    BY <1>1, <1>3, Element
  <1>5. QED
    BY <1>4 DEF Row

(* A batch that only moves on, or that gives up what it inserted. *)
LEMMA MovesOn ==
    ASSUME PrintsInv, UNCHANGED held, batch' \in [Jobs -> Batches], RowLeft',
           \A j \in Jobs : batch'[j].inserted \subseteq batch[j].inserted
    PROVE  PrintsInv'
  BY DEF PrintsInv, Shaped, OwnInserts, FreshInserts, OnePerPrint

(* What dealing with a row leaves of a batch. *)
LEMMA PushType ==
    ASSUME Shaped, NEW j \in Jobs, NEW o \in {"imported", "duplicate", "skipped"},
           NEW S \in SUBSET Prints, PushOutcome(j, o, S)
    PROVE  /\ batch' \in [Jobs -> Batches]
           /\ batch'[j].inserted = S /\ batch'[j].pc = "row"
           /\ batch'[j].aborted = batch[j].aborted
           /\ \A k \in Jobs \ {j} : batch'[k] = batch[k]
  <1>1. Append(batch[j].outcomes, o) \in Outcomes
    BY DEF Shaped, Batches, Outcomes
  <1>2. QED
    BY <1>1 DEF PushOutcome, Shaped, Batches

(* What a batch keeps when its work is over. *)
LEMMA ConcludeType ==
    ASSUME Shaped, NEW j \in Jobs, NEW v \in {"succeeded", "failed"}, Conclude(j, v)
    PROVE  /\ batch' \in [Jobs -> Batches]
           /\ batch'[j].inserted = {} /\ batch'[j].pc = "record"
           /\ batch'[j].aborted = batch[j].aborted
           /\ \A k \in Jobs \ {j} : batch'[k] = batch[k]
  <1>1. <<>> \in Outcomes
    BY DEF Outcomes
  <1>2. batch[j] \in Batches
    BY DEF Shaped
  <1>3. (IF v = "failed" THEN <<>> ELSE batch[j].outcomes) \in Outcomes
    BY <1>1, <1>2 DEF Batches
  <1> DEFINE b == [batch[j] EXCEPT !.pc = "record", !.verdict = v, !.inserted = {},
                      !.outcomes = IF v = "failed" THEN <<>> ELSE batch[j].outcomes]
  <1>4. batch' = [batch EXCEPT ![j] = b]
    BY DEF Conclude
  <1>5. b \in Batches /\ b.inserted = {} /\ b.pc = "record" /\ b.aborted = batch[j].aborted
    BY <1>2, <1>3 DEF Batches
  <1> HIDE DEF b
  <1>6. QED
    BY <1>4, <1>5 DEF Shaped

(* A batch that fails gives up what it inserted. *)
LEMMA FailMovesOn ==
    ASSUME PrintsInv, NEW j \in Jobs, FailBatch(j)
    PROVE  PrintsInv'
  <1>1. Conclude(j, "failed") /\ UNCHANGED held
    BY DEF FailBatch
  <1>2. /\ batch' \in [Jobs -> Batches]
        /\ batch'[j].inserted = {} /\ batch'[j].pc = "record"
        /\ \A k \in Jobs \ {j} : batch'[k] = batch[k]
    BY <1>1, ConcludeType DEF PrintsInv
  <1>3. RowLeft'
    BY <1>2 DEF PrintsInv, RowLeft, At, MoreRows
  <1>4. QED
    BY <1>1, <1>2, <1>3, MovesOn

(* A batch whose transaction is aborted under a row.                       *)
LEMMA AbortType ==
    ASSUME Shaped, NEW j \in Jobs, AbortRow(j)
    PROVE  /\ batch' \in [Jobs -> Batches]
           /\ batch'[j].inserted = {} /\ batch'[j].pc = "row" /\ batch'[j].aborted
           /\ batch'[j].outcomes = Append(batch[j].outcomes, "skipped")
           /\ \A k \in Jobs \ {j} : batch'[k] = batch[k]
  <1> DEFINE b == [batch[j] EXCEPT !.outcomes = Append(batch[j].outcomes, "skipped"),
                                   !.inserted = {}, !.aborted = TRUE]
  <1>1. batch[j] \in Batches /\ batch[j].pc = "row"
    BY DEF Shaped, AbortRow, At
  <1>2. Append(batch[j].outcomes, "skipped") \in Outcomes
    BY <1>1 DEF Batches, Outcomes
  <1>3. batch' = [batch EXCEPT ![j] = b]
    BY DEF AbortRow
  <1>4. /\ b \in Batches /\ b.inserted = {} /\ b.pc = "row" /\ b.aborted
        /\ b.outcomes = Append(batch[j].outcomes, "skipped")
    BY <1>1, <1>2 DEF Batches
  <1> HIDE DEF b
  <1>5. QED
    BY <1>3, <1>4 DEF Shaped

(* An insert goes in where the index is free. *)
LEMMA InsertKeepsPrints ==
    ASSUME PrintsInv, NEW j \in Jobs, InsertRow(j), MoreRows(j)
    PROVE  PrintsInv'
  <1> DEFINE p == Row(j).print
  <1>1. p \in Prints
    BY RowType DEF PrintsInv
  <1>2. batch[j].inserted \cup {p} \in SUBSET Prints
    BY <1>1 DEF PrintsInv, Shaped, Batches
  <1>3. /\ PushOutcome(j, "imported", batch[j].inserted \cup {p})
        /\ UNCHANGED held /\ held[p] = 0
        /\ \A k \in Jobs \ {j} : p \notin batch[k].inserted
    BY DEF InsertRow, IndexFree
  <1> HIDE DEF p
  <1>4. /\ batch' \in [Jobs -> Batches]
        /\ batch'[j].inserted = batch[j].inserted \cup {p} /\ batch'[j].pc = "row"
        /\ \A k \in Jobs \ {j} : batch'[k] = batch[k]
    BY <1>2, <1>3, PushType DEF PrintsInv
  <1>5. OwnInserts'
    BY <1>3, <1>4 DEF PrintsInv, OwnInserts
  <1>6. FreshInserts'
    BY <1>3, <1>4 DEF PrintsInv, FreshInserts
  <1>7. RowLeft'
    BY <1>4 DEF PrintsInv, RowLeft, At, MoreRows
  <1>8. QED
    BY <1>3, <1>4, <1>5, <1>6, <1>7 DEF PrintsInv, Shaped, OnePerPrint

(* A commit counts the rows that nobody else has. *)
LEMMA CommitKeepsPrints ==
    ASSUME PrintsInv, NEW j \in Jobs, NEW v \in {"succeeded", "failed"}, CommitBatch(j, v)
    PROVE  PrintsInv'
  <1>1. /\ Conclude(j, v)
        /\ held' = [p \in Prints |-> held[p] + IF p \in batch[j].inserted THEN 1 ELSE 0]
    BY DEF CommitBatch
  <1>2. /\ batch' \in [Jobs -> Batches]
        /\ batch'[j].inserted = {} /\ batch'[j].pc = "record"
        /\ \A k \in Jobs \ {j} : batch'[k] = batch[k]
    BY <1>1, ConcludeType DEF PrintsInv
  <1>3. held' \in [Prints -> Nat]
    BY <1>1 DEF PrintsInv, Shaped
  <1>4. OwnInserts'
    BY <1>2 DEF PrintsInv, OwnInserts
  <1>5. FreshInserts'
    <2> SUFFICES ASSUME NEW k \in Jobs, NEW p \in batch'[k].inserted PROVE held'[p] = 0
      BY DEF FreshInserts
    <2>1. k # j /\ p \in batch[k].inserted
      BY <1>2
    <2>2. p \in Prints /\ p \notin batch[j].inserted /\ held[p] = 0
      BY <2>1 DEF PrintsInv, Shaped, Batches, OwnInserts, FreshInserts
    <2>3. QED
      BY <1>1, <2>2
  <1>6. OnePerPrint'
    BY <1>1 DEF PrintsInv, Shaped, FreshInserts, OnePerPrint
  <1>7. RowLeft'
    BY <1>2 DEF PrintsInv, RowLeft, At, MoreRows
  <1>8. QED
    BY <1>2, <1>3, <1>4, <1>5, <1>6, <1>7 DEF PrintsInv, Shaped

(* Every step keeps what is known of the batches and the fingerprints. *)
THEOREM PrintsAlways == ImportsSpec => []PrintsInv
  <1>1. ImportsInit => PrintsInv
    <2>1. NoBatch \in Batches /\ NoBatch.inserted = {} /\ NoBatch.pc = "idle"
      BY DEF NoBatch, Batches, Outcomes
    <2>2. QED
      BY <2>1 DEF ImportsInit, PrintsInv, Shaped, OwnInserts, FreshInserts, OnePerPrint, RowLeft, At
  <1>2. PrintsInv /\ [ImportsNext]_importsVars => PrintsInv'
    <2> SUFFICES ASSUME PrintsInv, [ImportsNext]_importsVars PROVE PrintsInv'
      OBVIOUS
    <2>1. CASE UNCHANGED importsVars
      BY <2>1 DEF importsVars, PrintsInv, Shaped, OwnInserts, FreshInserts, OnePerPrint, RowLeft,
                  At, MoreRows
    <2>2. ASSUME NEW j \in Jobs, StartImport(j) \/ Extract(j) \/ TakeRow(j) \/ Finish(j) \/ LoseOutcome(j)
          PROVE  PrintsInv'
      <3>1. PICK s \in {"extract", "row", "lock", "over", "gone"} :
                /\ batch' = [batch EXCEPT ![j].pc = s]
                /\ s = "lock" => MoreRows(j)
                /\ UNCHANGED held
        BY <2>2 DEF StartImport, Extract, TakeRow, Readable, Finish, LoseOutcome
      <3>2. /\ batch' \in [Jobs -> Batches]
            /\ \A k \in Jobs : /\ batch'[k].inserted = batch[k].inserted
                               /\ batch'[k].outcomes = batch[k].outcomes
                               /\ batch'[k].pc = IF k = j THEN s ELSE batch[k].pc
        BY <3>1 DEF PrintsInv, Shaped, Batches
      <3>3. RowLeft'
        BY <3>1, <3>2 DEF PrintsInv, RowLeft, At, MoreRows
      <3>4. QED
        BY <3>1, <3>2, <3>3, MovesOn
    <2>3. ASSUME NEW j \in Jobs, SkipRow(j) \/ CountDuplicate(j) PROVE PrintsInv'
      <3>1. PICK o \in {"imported", "duplicate", "skipped"} :
                PushOutcome(j, o, batch[j].inserted) /\ UNCHANGED held
        BY <2>3 DEF SkipRow, CountDuplicate
      <3>2. batch[j].inserted \in SUBSET Prints
        BY DEF PrintsInv, Shaped, Batches
      <3>3. /\ batch' \in [Jobs -> Batches]
            /\ batch'[j].inserted = batch[j].inserted /\ batch'[j].pc = "row"
            /\ \A k \in Jobs \ {j} : batch'[k] = batch[k]
        BY <3>1, <3>2, PushType DEF PrintsInv
      <3>4. RowLeft'
        BY <3>3 DEF PrintsInv, RowLeft, At, MoreRows
      <3>5. QED
        BY <3>1, <3>3, <3>4, MovesOn
    <2>4. ASSUME NEW j \in Jobs, LockWallet(j) PROVE PrintsInv'
      BY <2>4 DEF LockWallet, PrintsInv, Shaped, OwnInserts, FreshInserts, OnePerPrint, RowLeft,
                  At, MoreRows
    <2>5. ASSUME NEW j \in Jobs,
                 ExtractNothing(j) \/ MissWallet(j) \/ RejectRow(j) \/ BreakCircle(j)
          PROVE  PrintsInv'
      <3>1. FailBatch(j)
        BY <2>5 DEF ExtractNothing, MissWallet, RejectRow, BreakCircle
      <3>2. QED
        BY <3>1, FailMovesOn
    <2>6. ASSUME NEW j \in Jobs, InsertRow(j) PROVE PrintsInv'
      <3>1. MoreRows(j)
        BY <2>6 DEF InsertRow, PrintsInv, RowLeft
      <3>2. QED
        BY <2>6, <3>1, InsertKeepsPrints
    <2>7. ASSUME NEW j \in Jobs, Commit(j) \/ CommitUnanswered(j) PROVE PrintsInv'
      BY <2>7, CommitKeepsPrints DEF Commit, CommitUnanswered
    <2>8. CASE Crash
      <3>1. /\ UNCHANGED held
            /\ batch' = [j \in Jobs |-> IF batch[j].pc \in {"idle", "over", "gone"} THEN batch[j]
                                         ELSE [NoBatch EXCEPT !.pc = "gone"]]
        BY <2>8 DEF Crash
      <3>2. /\ [NoBatch EXCEPT !.pc = "gone"] \in Batches
            /\ [NoBatch EXCEPT !.pc = "gone"].inserted = {}
            /\ [NoBatch EXCEPT !.pc = "gone"].pc = "gone"
        <4>1. <<>> \in Outcomes
          BY DEF Outcomes
        <4>2. QED
          BY <4>1 DEF NoBatch, Batches
      <3>3. batch' \in [Jobs -> Batches]
        BY <3>1, <3>2 DEF PrintsInv, Shaped
      <3>4. \A j \in Jobs : batch'[j].inserted \subseteq batch[j].inserted
        BY <3>1, <3>2
      <3>5. RowLeft'
        BY <3>1, <3>2 DEF RowLeft, At
      <3>6. QED
        BY <3>1, <3>3, <3>4, <3>5, MovesOn
    <2>9. ASSUME NEW p \in Prints, DeleteImported(p) PROVE PrintsInv'
      <3>1. held[p] > 0 /\ held' = [held EXCEPT ![p] = @ - 1] /\ UNCHANGED batch
        BY <2>9 DEF DeleteImported
      <3>2. held' \in [Prints -> Nat]
        BY <3>1 DEF PrintsInv, Shaped
      <3>3. FreshInserts'
        BY <3>1 DEF PrintsInv, Shaped, Batches, FreshInserts
      <3>4. OnePerPrint'
        BY <3>1 DEF PrintsInv, Shaped, OnePerPrint
      <3>5. QED
        BY <3>1, <3>2, <3>3, <3>4 DEF PrintsInv, Shaped, OwnInserts, RowLeft, At, MoreRows
    <2>10. ASSUME NEW w \in Purses, DropPurse(w) PROVE PrintsInv'
      BY <2>10 DEF DropPurse, PrintsInv, Shaped, OwnInserts, FreshInserts, OnePerPrint, RowLeft,
                   At, MoreRows
    <2>11. ASSUME NEW j \in Jobs, AbortRow(j) PROVE PrintsInv'
      <3>1. /\ batch' \in [Jobs -> Batches]
            /\ batch'[j].inserted = {} /\ batch'[j].pc = "row"
            /\ \A k \in Jobs \ {j} : batch'[k] = batch[k]
        BY <2>11, AbortType DEF PrintsInv
      <3>2. RowLeft'
        BY <3>1 DEF PrintsInv, RowLeft, At, MoreRows
      <3>3. QED
        BY <2>11, <3>1, <3>2, MovesOn DEF AbortRow
    <2>12. QED
      BY <2>1, <2>2, <2>3, <2>4, <2>5, <2>6, <2>7, <2>8, <2>9, <2>10, <2>11
      DEF ImportsNext, BatchStep
  <1>3. QED
    BY <1>1, <1>2, PTL DEF ImportsSpec

(* However many imports of however many rows run at once, fail, stop or    *)
(* are tried again, a fingerprint is in the ledger once.                   *)
THEOREM PrintsOnce == ImportsSpec => []OnePerPrint
  <1>1. PrintsInv => OnePerPrint
    BY DEF PrintsInv
  <1>2. QED
    BY <1>1, PrintsAlways, PTL

(* The outcomes of a batch and the fingerprints it has: one row was        *)
(* imported for each, and for nothing else.                                *)
Tally(j, outcomes, prints) ==
    /\ \A i \in 1..Len(outcomes) : outcomes[i] = "imported" => File[j][i].print \in prints
    /\ \A p \in prints : \E i \in 1..Len(outcomes) : outcomes[i] = "imported" /\ File[j][i].print = p
    /\ \A i, k \in 1..Len(outcomes) :
          /\ outcomes[i] = "imported" /\ outcomes[k] = "imported"
          /\ File[j][i].print = File[j][k].print
          => i = k

(* So it is unless the transaction was aborted; then there are none.       *)
Tells(j, outcomes, prints) ==
    IF batch[j].aborted THEN prints = {} ELSE Tally(j, outcomes, prints)

JobsTyped ==
    /\ lockedBy \in [Purses -> Jobs \cup {NoJob}]
    /\ \A w \in Purses : lockedBy[w] # NoJob => batch[lockedBy[w]].pc \in {"row", "lock"}
    /\ jobRow \in [Jobs -> [status : {"none", "pending", "succeeded", "failed"}, outcomes : Outcomes]]
    /\ committed \in [Jobs -> SUBSET Prints]
    /\ losses \in 0 .. MaxLosses

(* What a batch has done, and what is recorded of it.                      *)
Reading(j) ==
    /\ Len(batch[j].outcomes) <= Len(File[j])
    /\ At(j, "idle") \/ At(j, "extract") =>
          batch[j].outcomes = <<>> /\ batch[j].inserted = {} /\ committed[j] = {}
    /\ At(j, "row") \/ At(j, "lock") =>
          Tells(j, batch[j].outcomes, batch[j].inserted) /\ committed[j] = {}
    /\ At(j, "lock") => ~batch[j].aborted /\ Row(j).print \notin batch[j].inserted

Recorded(j) ==
    /\ At(j, "record") =>
          /\ batch[j].verdict \in {"succeeded", "failed"}
          /\ batch[j].verdict = "succeeded" =>
                Len(batch[j].outcomes) = Len(File[j]) /\ Tells(j, batch[j].outcomes, committed[j])
          /\ batch[j].verdict = "failed" /\ losses = 0 => committed[j] = {}
    /\ jobRow[j].status \in {"succeeded", "failed"} => At(j, "over")
    /\ jobRow[j].status = "succeeded" =>
          Len(jobRow[j].outcomes) = Len(File[j]) /\ Tells(j, jobRow[j].outcomes, committed[j])
    /\ jobRow[j].status = "failed" /\ losses = 0 => committed[j] = {}

JobsInv == PrintsInv /\ JobsTyped /\ \A j \in Jobs : Reading(j) /\ Recorded(j)

(* One row was imported for a fingerprint that is committed, none for      *)
(* another.                                                                *)
LEMMA TallyCounts ==
    ASSUME NEW j \in Jobs, NEW outcomes \in Outcomes, NEW prints \in SUBSET Prints,
           Len(outcomes) = Len(File[j]), Tally(j, outcomes, prints), NEW p \in Prints
    PROVE  Cardinality({i \in DOMAIN File[j] : outcomes[i] = "imported" /\ File[j][i].print = p})
           = IF p \in prints THEN 1 ELSE 0
  <1> DEFINE S == {i \in DOMAIN File[j] : outcomes[i] = "imported" /\ File[j][i].print = p}
  <1>1. DOMAIN File[j] = 1..Len(outcomes)
    BY ImportsAssumption
  <1>2. CASE p \in prints
    <2>1. PICK i \in 1..Len(outcomes) : outcomes[i] = "imported" /\ File[j][i].print = p
      BY <1>2 DEF Tally
    <2>2. S = {i}
      BY <1>1, <2>1 DEF Tally
    <2> HIDE DEF S
    <2>3. Cardinality(S) = 1
      BY <2>2, FS_Singleton
    <2> QED
      BY <1>2, <2>3 DEF S
  <1>3. CASE p \notin prints
    <2>1. S = {}
      BY <1>1, <1>3 DEF Tally
    <2> HIDE DEF S
    <2>2. Cardinality(S) = 0
      BY <2>1, FS_EmptySet
    <2> QED
      BY <1>3, <2>2 DEF S
  <1> QED
    BY <1>2, <1>3

LEMMA JobsTellTruth == JobsInv => ImportsTypeOK /\ JobTellsUnlessAborted
  <1> SUFFICES ASSUME JobsInv PROVE ImportsTypeOK /\ JobTellsUnlessAborted
    OBVIOUS
  <1>1. ImportsTypeOK
    <2>1. ASSUME NEW j \in Jobs
          PROVE  /\ batch[j].pc \in {"idle", "extract", "row", "lock", "record", "over", "gone"}
                 /\ Len(batch[j].outcomes) <= Len(File[j])
                 /\ jobRow[j].status \in {"none", "pending", "succeeded", "failed"}
      BY DEF JobsInv, JobsTyped, PrintsInv, Shaped, Batches, Reading
    <2> QED
      BY <2>1 DEF ImportsTypeOK, JobsInv, JobsTyped, PrintsInv, Shaped
  <1>2. ASSUME NEW j \in Jobs, jobRow[j].status = "succeeded"
        PROVE  IF batch[j].aborted THEN committed[j] = {} ELSE CountsExact(j)
    <2>1. jobRow[j].outcomes \in Outcomes /\ committed[j] \in SUBSET Prints
      BY DEF JobsInv, JobsTyped
    <2>2. Len(jobRow[j].outcomes) = Len(File[j]) /\ Tells(j, jobRow[j].outcomes, committed[j])
      BY <1>2 DEF JobsInv, Recorded
    <2>3. CASE batch[j].aborted
      BY <2>2, <2>3 DEF Tells
    <2>4. CASE ~batch[j].aborted
      <3>1. Tally(j, jobRow[j].outcomes, committed[j])
        BY <2>2, <2>4 DEF Tells
      <3>2. CountsExact(j)
        BY <2>1, <2>2, <3>1, TallyCounts DEF CountsExact
      <3> QED
        BY <2>4, <3>2
    <2> QED
      BY <2>3, <2>4
  <1>3. \A j \in Jobs : FailedHasNothing(j)
    BY DEF JobsInv, Recorded, FailedHasNothing
  <1> QED
    BY <1>1, <1>2, <1>3 DEF JobTellsUnlessAborted

(* What is said of a batch stays true while it and its job's row stay as   *)
(* they are.                                                               *)
LEMMA RestsInOrder ==
    ASSUME NEW k \in Jobs, Reading(k), Recorded(k),
           batch'[k] = batch[k], jobRow'[k] = jobRow[k], committed'[k] = committed[k],
           losses' = 0 => losses = 0
    PROVE  Reading(k)' /\ Recorded(k)'
  <1>1. Reading(k)'
    BY DEF Reading, At, Row, Tells, Tally
  <1>2. Recorded(k)'
    <2>1. /\ At(k, "record")' <=> At(k, "record")
          /\ At(k, "over")' <=> At(k, "over")
      BY DEF At
    <2>2. CASE batch[k].aborted
      BY <2>1, <2>2 DEF Recorded, Tells
    <2>3. CASE ~batch[k].aborted
      BY <2>1, <2>3 DEF Recorded, Tells, Tally
    <2> QED
      BY <2>2, <2>3
  <1> QED
    BY <1>1, <1>2

(* A step of one batch, or of none: what else it has to keep.              *)
OthersRest(j) ==
    /\ \A k \in Jobs \ {j} : /\ batch'[k] = batch[k] /\ jobRow'[k] = jobRow[k]
                             /\ committed'[k] = committed[k]
    /\ losses' = 0 => losses = 0

LEMMA StepOfOne ==
    ASSUME JobsInv, PrintsInv', JobsTyped', NEW j \in Jobs, OthersRest(j),
           Reading(j)', Recorded(j)'
    PROVE  JobsInv'
  <1>1. ASSUME NEW k \in Jobs PROVE Reading(k)' /\ Recorded(k)'
    <2>1. CASE k # j
      <3>1. batch'[k] = batch[k] /\ jobRow'[k] = jobRow[k] /\ committed'[k] = committed[k]
        BY <2>1 DEF OthersRest
      <3>2. Reading(k) /\ Recorded(k)
        BY DEF JobsInv
      <3> QED
        BY <3>1, <3>2, RestsInOrder DEF OthersRest
    <2> QED
      BY <2>1
  <1> QED
    BY <1>1 DEF JobsInv

(* A batch that only goes on to another stage. *)
LEMMA StageKeeps ==
    ASSUME JobsInv, PrintsInv', NEW j \in Jobs,
           NEW s \in {"extract", "row", "lock", "gone"}, batch' = [batch EXCEPT ![j].pc = s],
           s = "extract" => At(j, "idle"),
           s = "row" => At(j, "idle") \/ At(j, "extract"),
           s = "lock" => At(j, "row") /\ ~batch[j].aborted /\ Row(j).print \notin batch[j].inserted,
           s = "gone" => At(j, "record"),
           \/ jobRow' = jobRow
           \/ s # "gone" /\ At(j, "idle") /\ jobRow' = [jobRow EXCEPT ![j].status = "pending"],
           UNCHANGED <<lockedBy, committed>>, losses' \in 0..MaxLosses, losses' = 0 => losses = 0
    PROVE  JobsInv'
  <1>1. /\ batch \in [Jobs -> Batches] /\ batch[j] \in Batches /\ Reading(j) /\ Recorded(j)
        /\ jobRow \in [Jobs -> [status : {"none", "pending", "succeeded", "failed"}, outcomes : Outcomes]]
    BY DEF JobsInv, JobsTyped, PrintsInv, Shaped
  <1>2. /\ batch'[j].pc = s /\ batch'[j].inserted = batch[j].inserted
        /\ batch'[j].outcomes = batch[j].outcomes /\ batch'[j].verdict = batch[j].verdict
        /\ batch'[j].aborted = batch[j].aborted
        /\ \A k \in Jobs \ {j} : batch'[k] = batch[k]
    BY <1>1 DEF Batches
  <1>3. /\ jobRow'[j].outcomes = jobRow[j].outcomes
        /\ jobRow'[j].status \in {jobRow[j].status, "pending"}
        /\ \A k \in Jobs \ {j} : jobRow'[k] = jobRow[k]
        /\ jobRow' \in [Jobs -> [status : {"none", "pending", "succeeded", "failed"}, outcomes : Outcomes]]
    BY <1>1
  <1>4. ~At(j, "over") /\ jobRow[j].status \notin {"succeeded", "failed"}
    BY <1>1 DEF At, Recorded
  <1>5. \A w \in Purses : lockedBy[w] = j => batch[j].pc \in {"row", "lock"}
    BY ImportsAssumption DEF JobsInv, JobsTyped
  <1>6. JobsTyped'
    <2>1. ASSUME NEW w \in Purses, lockedBy[w] # NoJob PROVE batch'[lockedBy[w]].pc \in {"row", "lock"}
      <3>1. PICK k \in Jobs : k = lockedBy[w]
        BY <2>1 DEF JobsInv, JobsTyped
      <3>2. batch[k].pc \in {"row", "lock"}
        BY <2>1, <3>1 DEF JobsInv, JobsTyped
      <3>3. k = j => s \in {"row", "lock"}
        BY <3>2 DEF At
      <3> QED
        BY <1>2, <3>1, <3>2, <3>3
    <2> QED
      BY <1>3, <2>1 DEF JobsInv, JobsTyped
  <1>7. Reading(j)'
    <2>1. Row(j)' = Row(j)
      BY <1>2 DEF Row
    <2>2. s \in {"row", "lock"} => Tells(j, batch[j].outcomes, batch[j].inserted)
      BY SMTT(30), <1>1 DEF Reading, At, Tells, Tally
    <2>3. Len(batch'[j].outcomes) <= Len(File[j])
      BY <1>1, <1>2 DEF Reading
    <2>4. s # "gone" => committed'[j] = {}
      BY <1>1 DEF Reading
    <2>5. s = "extract" => batch'[j].outcomes = <<>> /\ batch'[j].inserted = {}
      BY <1>1, <1>2 DEF Reading
    <2>6. At(j, "row")' \/ At(j, "lock")' => Tells(j, batch[j].outcomes, batch[j].inserted)'
      BY <1>2, <2>2 DEF At, Tells, Tally
    <2> QED
      BY <1>2, <2>1, <2>3, <2>4, <2>5, <2>6 DEF Reading, At
  <1>8. Recorded(j)'
    BY <1>2, <1>3, <1>4 DEF Recorded, At
  <1>9. OthersRest(j)
    BY <1>2, <1>3 DEF OthersRest
  <1> QED
    BY <1>6, <1>7, <1>8, <1>9, StepOfOne

(* A row that is dealt with. *)
LEMMA PushKeeps ==
    ASSUME JobsInv, PrintsInv', NEW j \in Jobs, MoreRows(j), At(j, "row") \/ At(j, "lock"),
           NEW o \in {"imported", "duplicate", "skipped"}, NEW S \in SUBSET Prints, PushOutcome(j, o, S),
           S = IF o = "imported" THEN batch[j].inserted \cup {Row(j).print} ELSE batch[j].inserted,
           o = "imported" => ~batch[j].aborted /\ Row(j).print \notin batch[j].inserted,
           UNCHANGED <<lockedBy, jobRow, committed, losses>>
    PROVE  JobsInv'
  <1> DEFINE done == batch[j].outcomes
             n == Len(done)
  <1>1. /\ Shaped /\ batch[j] \in Batches /\ done \in Outcomes /\ Reading(j) /\ Recorded(j)
        /\ File[j] \in Seq([wallets : SUBSET Purses, print : Prints,
                            flaw : {"none", "unreadable", "unstorable"}])
    BY ImportsAssumption DEF JobsInv, PrintsInv, Shaped, Batches
  <1>2. /\ batch' \in [Jobs -> Batches] /\ batch'[j].inserted = S /\ batch'[j].pc = "row"
        /\ batch'[j].aborted = batch[j].aborted
        /\ \A k \in Jobs \ {j} : batch'[k] = batch[k]
    BY <1>1, PushType
  <1>3. batch'[j].outcomes = Append(done, o)
    BY <1>1 DEF PushOutcome, Shaped, Batches
  <1>4. n \in Nat /\ n < Len(File[j]) /\ Row(j) = File[j][n + 1] /\ Len(File[j]) \in Nat
    BY <1>1 DEF MoreRows, Row, Outcomes
  <1>5. /\ Len(Append(done, o)) = n + 1 /\ Append(done, o)[n + 1] = o
        /\ \A i \in 1..n : Append(done, o)[i] = done[i]
    BY <1>1 DEF Outcomes
  <1>6. Tells(j, done, batch[j].inserted) /\ committed[j] = {}
    BY <1>1 DEF Reading
  <1> DEFINE all == Append(done, o)
  <1>7. ASSUME ~batch[j].aborted PROVE Tally(j, all, S)
    <2> HIDE DEF all, n
    <2>7. Tally(j, done, batch[j].inserted)
      BY <1>6, <1>7 DEF Tells
    <2>0. /\ Len(all) = n + 1 /\ all[n + 1] = o /\ \A i \in 1..n : all[i] = done[i]
          /\ n = Len(done) /\ n \in Nat /\ Row(j) = File[j][n + 1]
      BY <1>4, <1>5 DEF all, n
    <2> HIDE DEF done
    <2>1. \A i \in 1..n : all[i] = "imported" => File[j][i].print \in batch[j].inserted
      BY <2>0, <2>7 DEF Tally, done
    <2>2. ASSUME NEW i \in 1..Len(all), all[i] = "imported" PROVE File[j][i].print \in S
      <3>1. i \in 1..n \/ i = n + 1
        BY <2>0
      <3> QED
        BY <2>0, <2>1, <2>2, <3>1
    <2>3. ASSUME NEW p \in S PROVE \E i \in 1..Len(all) : all[i] = "imported" /\ File[j][i].print = p
      <3>1. CASE p \in batch[j].inserted
        <4>1. PICK i \in 1..n : done[i] = "imported" /\ File[j][i].print = p
          BY <2>0, <3>1, <2>7 DEF Tally, done
        <4>2. i \in 1..Len(all)
          BY <2>0
        <4> QED
          BY <2>0, <4>1, <4>2
      <3>2. CASE p \notin batch[j].inserted
        <4>1. o = "imported" /\ p = Row(j).print
          BY <3>2
        <4>2. n + 1 \in 1..Len(all)
          BY <2>0
        <4> QED
          BY <2>0, <4>1, <4>2
      <3> QED
        BY <3>1, <3>2
    <2>4. ASSUME NEW i \in 1..Len(all), NEW k \in 1..Len(all), all[i] = "imported", all[k] = "imported",
                 File[j][i].print = File[j][k].print
          PROVE  i = k
      <3>1. (i \in 1..n \/ i = n + 1) /\ (k \in 1..n \/ k = n + 1)
        BY <2>0
      <3>2. CASE i \in 1..n /\ k \in 1..n
        <4>1. done[i] = "imported" /\ done[k] = "imported"
          BY <2>0, <2>4, <3>2
        <4> QED
          BY <2>0, <2>4, <3>2, <4>1, <2>7 DEF Tally, done
      <3>3. ~(i \in 1..n /\ k = n + 1) /\ ~(k \in 1..n /\ i = n + 1)
        BY <2>0, <2>1, <2>4
      <3> QED
        BY <3>1, <3>2, <3>3
    <2> QED
      BY <2>2, <2>3, <2>4 DEF Tally
  <1>8. Reading(j)'
    <2>1. Len(all) <= Len(File[j])
      BY <1>4, <1>5
    <2>2. /\ batch'[j].outcomes = all /\ batch'[j].inserted = S /\ batch'[j].pc = "row"
          /\ batch'[j].aborted = batch[j].aborted /\ committed'[j] = {}
      BY <1>2, <1>3, <1>6
    <2>3. IF batch[j].aborted THEN S = {} ELSE Tally(j, all, S)
      BY <1>6, <1>7 DEF Tells
    <2> HIDE DEF all, done, n
    <2>4. Tells(j, batch[j].outcomes, batch[j].inserted)'
      BY <2>2, <2>3 DEF Tells, Tally
    <2> QED
      BY <2>1, <2>2, <2>4 DEF Reading, At
  <1>9. Recorded(j)'
    BY <1>1, <1>2 DEF Recorded, At
  <1>10. JobsTyped'
    <2>1. ASSUME NEW w \in Purses, lockedBy[w] # NoJob PROVE batch'[lockedBy[w]].pc \in {"row", "lock"}
      <3>1. PICK k \in Jobs : k = lockedBy[w]
        BY <2>1 DEF JobsInv, JobsTyped
      <3>2. batch[k].pc \in {"row", "lock"}
        BY <2>1, <3>1 DEF JobsInv, JobsTyped
      <3> QED
        BY <1>2, <3>1, <3>2
    <2> QED
      BY <2>1 DEF JobsInv, JobsTyped
  <1>11. OthersRest(j)
    BY <1>2 DEF OthersRest
  <1> QED
    BY <1>8, <1>9, <1>10, <1>11, StepOfOne

(* A batch whose transaction is over, committed or not. *)
LEMMA ConcludeKeeps ==
    ASSUME JobsInv, PrintsInv', NEW j \in Jobs, NEW v \in {"succeeded", "failed"}, Conclude(j, v),
           FreeLocks(j), At(j, "extract") \/ At(j, "row") \/ At(j, "lock"), jobRow' = jobRow,
           losses' \in 0..MaxLosses, losses' = 0 => losses = 0,
           \/ v = "failed" /\ committed' = committed
           \/ /\ At(j, "row") /\ ~MoreRows(j) /\ committed' = [committed EXCEPT ![j] = @ \cup batch[j].inserted]
              /\ v = "failed" => losses' > 0
    PROVE  JobsInv'
  <1>1. /\ Shaped /\ batch[j] \in Batches /\ Reading(j) /\ Recorded(j)
        /\ File[j] \in Seq([wallets : SUBSET Purses, print : Prints,
                            flaw : {"none", "unreadable", "unstorable"}])
    BY ImportsAssumption DEF JobsInv, PrintsInv, Shaped, Batches
  <1>2. /\ batch' \in [Jobs -> Batches] /\ batch'[j].pc = "record"
        /\ batch'[j].aborted = batch[j].aborted
        /\ \A k \in Jobs \ {j} : batch'[k] = batch[k]
    BY <1>1, ConcludeType
  <1>3. /\ batch'[j].verdict = v
        /\ batch'[j].outcomes = IF v = "failed" THEN <<>> ELSE batch[j].outcomes
    <2>1. batch[j].outcomes \in Outcomes /\ <<>> \in Outcomes
      BY <1>1 DEF Batches, Outcomes
    <2> QED
      BY <1>1 DEF Conclude, Shaped, Batches
  <1>4. batch[j].inserted \in SUBSET Prints /\ committed \in [Jobs -> SUBSET Prints] /\ committed[j] = {}
    BY <1>1 DEF Batches, JobsInv, JobsTyped, Reading
  <1>5. /\ committed' \in [Jobs -> SUBSET Prints] /\ \A k \in Jobs \ {j} : committed'[k] = committed[k]
        /\ v = "succeeded" => committed'[j] = batch[j].inserted
        /\ v = "failed" /\ losses' = 0 => committed'[j] = {}
    BY <1>4
  <1>6. JobsTyped'
    <2>1. ASSUME NEW w \in Purses
          PROVE  /\ lockedBy'[w] \in Jobs \cup {NoJob}
                 /\ lockedBy'[w] # NoJob => batch'[lockedBy'[w]].pc \in {"row", "lock"}
      <3>1. lockedBy[w] \in Jobs \cup {NoJob} /\ lockedBy'[w] = IF lockedBy[w] = j THEN NoJob ELSE lockedBy[w]
        BY DEF JobsInv, JobsTyped, FreeLocks
      <3>2. CASE lockedBy[w] = j \/ lockedBy[w] = NoJob
        BY <3>1, <3>2
      <3>3. CASE lockedBy[w] # j /\ lockedBy[w] # NoJob
        <4>1. PICK k \in Jobs \ {j} : k = lockedBy[w]
          BY <3>1, <3>3
        <4>2. batch[k].pc \in {"row", "lock"}
          BY <3>3, <4>1 DEF JobsInv, JobsTyped
        <4> QED
          BY <1>2, <3>1, <4>1, <4>2
      <3> QED
        BY <3>2, <3>3
    <2>2. lockedBy' \in [Purses -> Jobs \cup {NoJob}]
      BY <2>1 DEF FreeLocks
    <2> QED
      BY <1>5, <2>1, <2>2 DEF JobsInv, JobsTyped
  <1>7. Reading(j)'
    <2>1. Len(<<>>) = 0 /\ Len(File[j]) \in Nat
      BY <1>1
    <2>2. Len(batch'[j].outcomes) <= Len(File[j])
      BY <1>1, <1>3, <2>1 DEF Reading
    <2> QED
      BY <1>2, <2>2 DEF Reading, At
  <1>8. Recorded(j)'
    <2>1. jobRow[j].status \notin {"succeeded", "failed"}
      BY <1>1 DEF Recorded, At
    <2>2. ASSUME v = "succeeded"
          PROVE  Len(batch[j].outcomes) = Len(File[j]) /\ Tells(j, batch[j].outcomes, committed'[j])
      <3>1. At(j, "row") /\ ~MoreRows(j)
        BY <2>2
      <3>2. Len(batch[j].outcomes) \in Nat /\ Len(File[j]) \in Nat
        BY <1>1 DEF Batches, Outcomes
      <3>3. Len(batch[j].outcomes) = Len(File[j])
        BY <1>1, <3>1, <3>2 DEF MoreRows, Reading
      <3> QED
        BY <1>1, <1>5, <2>2, <3>1, <3>3 DEF Reading
    <2> QED
      BY <1>2, <1>3, <1>5, <2>1, <2>2 DEF Recorded, At, Tells, Tally
  <1>9. OthersRest(j)
    BY <1>2, <1>5 DEF OthersRest
  <1> QED
    BY <1>6, <1>7, <1>8, <1>9, StepOfOne

(* An aborted transaction leaves nothing, and the job goes on. *)
LEMMA AbortKeeps == ASSUME JobsInv, PrintsInv', NEW j \in Jobs, AbortRow(j) PROVE JobsInv'
  <1>1. /\ Shaped /\ Reading(j) /\ Recorded(j) /\ At(j, "row") /\ MoreRows(j) /\ FreeLocks(j)
        /\ batch[j].outcomes \in Outcomes /\ Len(File[j]) \in Nat
        /\ UNCHANGED <<jobRow, committed>> /\ losses' \in 0..MaxLosses /\ losses' # 0
    BY ImportsAssumption DEF JobsInv, JobsTyped, PrintsInv, Shaped, Batches, AbortRow, Lost
  <1>2. /\ batch'[j].inserted = {} /\ batch'[j].pc = "row" /\ batch'[j].aborted
        /\ batch'[j].outcomes = Append(batch[j].outcomes, "skipped")
        /\ \A k \in Jobs \ {j} : batch'[k] = batch[k]
    BY <1>1, AbortType
  <1>3. Len(batch'[j].outcomes) <= Len(File[j])
    BY <1>1, <1>2 DEF MoreRows, Outcomes
  <1>4. Reading(j)'
    BY <1>1, <1>2, <1>3 DEF Reading, At, Tells
  <1>5. Recorded(j)'
    BY <1>1, <1>2 DEF Recorded, At
  <1>6. JobsTyped'
    <2>1. ASSUME NEW w \in Purses
          PROVE  /\ lockedBy'[w] \in Jobs \cup {NoJob}
                 /\ lockedBy'[w] # NoJob => batch'[lockedBy'[w]].pc \in {"row", "lock"}
      <3>1. /\ lockedBy[w] \in Jobs \cup {NoJob}
            /\ lockedBy'[w] = IF lockedBy[w] = j THEN NoJob ELSE lockedBy[w]
        BY <1>1 DEF JobsInv, JobsTyped, FreeLocks
      <3>2. lockedBy'[w] # NoJob => batch[lockedBy[w]].pc \in {"row", "lock"}
        BY <3>1 DEF JobsInv, JobsTyped
      <3> QED
        BY <1>2, <3>1, <3>2
    <2>2. lockedBy' \in [Purses -> Jobs \cup {NoJob}]
      BY <1>1, <2>1 DEF FreeLocks
    <2> QED
      BY <1>1, <2>1, <2>2 DEF JobsInv, JobsTyped
  <1>7. OthersRest(j)
    BY <1>1, <1>2 DEF OthersRest
  <1> QED
    BY <1>4, <1>5, <1>6, <1>7, StepOfOne

(* The verdict is written to the job's row. *)
LEMMA FinishKeeps == ASSUME JobsInv, PrintsInv', NEW j \in Jobs, Finish(j) PROVE JobsInv'
  <1>1. /\ Shaped /\ batch[j] \in Batches /\ Reading(j) /\ Recorded(j) /\ At(j, "record")
        /\ jobRow \in [Jobs -> [status : {"none", "pending", "succeeded", "failed"}, outcomes : Outcomes]]
    BY DEF JobsInv, JobsTyped, PrintsInv, Shaped, Finish
  <1>2. /\ batch'[j].pc = "over" /\ batch'[j].outcomes = batch[j].outcomes
        /\ batch'[j].aborted = batch[j].aborted
        /\ \A k \in Jobs \ {j} : batch'[k] = batch[k]
    BY <1>1 DEF Finish, Shaped, Batches
  <1>3. /\ jobRow'[j] = [status |-> batch[j].verdict, outcomes |-> batch[j].outcomes]
        /\ \A k \in Jobs \ {j} : jobRow'[k] = jobRow[k]
    BY <1>1 DEF Finish
  <1>4. [status |-> batch[j].verdict, outcomes |-> batch[j].outcomes]
           \in [status : {"none", "pending", "succeeded", "failed"}, outcomes : Outcomes]
    BY <1>1 DEF Batches
  <1>5. jobRow' \in [Jobs -> [status : {"none", "pending", "succeeded", "failed"}, outcomes : Outcomes]]
    BY <1>1, <1>4 DEF Finish
  <1>6. UNCHANGED <<lockedBy, committed, losses>>
    BY DEF Finish
  <1>7. JobsTyped'
    <2>1. ASSUME NEW w \in Purses, lockedBy[w] # NoJob PROVE batch'[lockedBy[w]].pc \in {"row", "lock"}
      <3>1. PICK k \in Jobs : k = lockedBy[w]
        BY <2>1 DEF JobsInv, JobsTyped
      <3>2. batch[k].pc \in {"row", "lock"}
        BY <2>1, <3>1 DEF JobsInv, JobsTyped
      <3>3. k # j
        BY <1>1, <3>2 DEF At
      <3> QED
        BY <1>2, <3>1, <3>2, <3>3
    <2> QED
      BY <1>5, <1>6, <2>1 DEF JobsInv, JobsTyped
  <1>8. Reading(j)'
    BY <1>1, <1>2 DEF Reading, At
  <1>9. Recorded(j)'
    <2>1. jobRow'[j].status = batch[j].verdict /\ jobRow'[j].outcomes = batch[j].outcomes
      BY <1>3
    <2> QED
      BY <1>1, <1>2, <1>6, <2>1 DEF Recorded, At, Tells, Tally
  <1>10. OthersRest(j)
    BY <1>2, <1>3, <1>6 DEF OthersRest
  <1> QED
    BY <1>7, <1>8, <1>9, <1>10, StepOfOne

(* A crash ends every batch that is under way, and rolls it back. *)
LEMMA CrashKeeps == ASSUME JobsInv, PrintsInv', Crash PROVE JobsInv'
  <1>1. Shaped /\ UNCHANGED <<jobRow, committed>> /\ losses' \in 0..MaxLosses /\ losses' # 0
    BY ImportsAssumption DEF JobsInv, JobsTyped, PrintsInv, Crash, Lost
  <1>2. JobsTyped'
    BY <1>1 DEF JobsInv, JobsTyped, Crash
  <1>3. ASSUME NEW j \in Jobs PROVE Reading(j)' /\ Recorded(j)'
    <2>1. Reading(j) /\ Recorded(j) /\ Len(<<>>) = 0 /\ Len(File[j]) \in Nat
      BY ImportsAssumption DEF JobsInv
    <2>2. \/ batch'[j] = batch[j] /\ batch[j].pc \in {"idle", "over", "gone"}
          \/ /\ batch[j].pc \notin {"idle", "over", "gone"}
             /\ batch'[j].pc = "gone" /\ batch'[j].outcomes = <<>>
      BY <1>1 DEF Crash, NoBatch
    <2>3. CASE batch'[j] = batch[j] /\ batch[j].pc \in {"idle", "over", "gone"}
      <3>1. Reading(j)'
        BY <1>1, <2>1, <2>3 DEF Reading, At, Row, Tells, Tally
      <3>2. Recorded(j)'
        <4>1. CASE batch[j].aborted
          BY <1>1, <2>1, <2>3, <4>1 DEF Recorded, At, Tells
        <4>2. CASE ~batch[j].aborted
          BY <1>1, <2>1, <2>3, <4>2 DEF Recorded, At, Tells, Tally
        <4> QED
          BY <4>1, <4>2
      <3> QED
        BY <3>1, <3>2
    <2>4. CASE /\ batch[j].pc \notin {"idle", "over", "gone"}
               /\ batch'[j].pc = "gone" /\ batch'[j].outcomes = <<>>
      <3>1. jobRow[j].status \notin {"succeeded", "failed"}
        BY <2>1, <2>4 DEF Recorded, At
      <3> QED
        BY <1>1, <2>1, <2>4, <3>1 DEF Reading, Recorded, At
    <2> QED
      BY <2>2, <2>3, <2>4
  <1> QED
    BY <1>2, <1>3 DEF JobsInv

(* The wallets of a row are locked one by one. *)
LEMMA LockKeeps == ASSUME JobsInv, PrintsInv', NEW j \in Jobs, LockWallet(j) PROVE JobsInv'
  <1>1. /\ UNCHANGED <<batch, jobRow, committed, losses>>
        /\ lockedBy' = [lockedBy EXCEPT ![Min(Unheld(j))] = j] /\ batch[j].pc = "lock"
    BY DEF LockWallet, At
  <1>2. JobsTyped'
    BY <1>1, ImportsAssumption DEF JobsInv, JobsTyped
  <1>3. Reading(j)' /\ Recorded(j)'
    BY <1>1, RestsInOrder DEF JobsInv
  <1>4. OthersRest(j)
    BY <1>1 DEF OthersRest
  <1> QED
    BY <1>2, <1>3, <1>4, StepOfOne

(* The type and the truth of the imports are kept by every step. *)
LEMMA JobsStep ==
    ASSUME JobsInv, PrintsInv', [ImportsNext]_importsVars
    PROVE  JobsInv'
  <1>0. losses \in 0..MaxLosses /\ PrintsInv
    BY DEF JobsInv, JobsTyped
  <1>1. CASE UNCHANGED <<batch, jobRow, committed, losses, lockedBy>>
    <2>1. JobsTyped'
      BY <1>1 DEF JobsInv, JobsTyped
    <2>2. \A j \in Jobs : Reading(j)' /\ Recorded(j)'
      BY <1>1, RestsInOrder DEF JobsInv
    <2> QED
      BY <2>1, <2>2 DEF JobsInv
  <1>2. ASSUME NEW j \in Jobs, StartImport(j) PROVE JobsInv'
    <2>1. PICK s \in {"extract", "row"} :
             /\ batch' = [batch EXCEPT ![j].pc = s]
             /\ jobRow' = jobRow \/ jobRow' = [jobRow EXCEPT ![j].status = "pending"]
      BY <1>2 DEF StartImport
    <2> QED
      BY <1>0, <1>2, <2>1, StageKeeps DEF StartImport
  <1>3. ASSUME NEW j \in Jobs, Extract(j) PROVE JobsInv'
    BY <1>0, <1>3, StageKeeps DEF Extract
  <1>4. ASSUME NEW j \in Jobs, TakeRow(j) PROVE JobsInv'
    <2>1. At(j, "row") /\ ~batch[j].aborted /\ Row(j).print \notin batch[j].inserted
      BY <1>4 DEF TakeRow, Readable, Seen
    <2> QED
      BY <1>0, <1>4, <2>1, StageKeeps DEF TakeRow
  <1>5. ASSUME NEW j \in Jobs, LoseOutcome(j) PROVE JobsInv'
    <2>1. losses' \in 0..MaxLosses /\ losses' # 0
      BY <1>0, <1>5, ImportsAssumption DEF LoseOutcome, Lost
    <2> QED
      BY <1>5, <2>1, StageKeeps DEF LoseOutcome
  <1>6. ASSUME NEW j \in Jobs, ExtractNothing(j) \/ MissWallet(j) \/ RejectRow(j) \/ BreakCircle(j)
        PROVE  JobsInv'
    <2>1. FailBatch(j) /\ (At(j, "extract") \/ At(j, "lock"))
      BY <1>6 DEF ExtractNothing, MissWallet, RejectRow, BreakCircle
    <2> QED
      BY <1>0, <2>1, ConcludeKeeps DEF FailBatch
  <1>7. ASSUME NEW j \in Jobs, SkipRow(j) \/ CountDuplicate(j) PROVE JobsInv'
    <2>1. PICK o \in {"duplicate", "skipped"} : PushOutcome(j, o, batch[j].inserted)
      BY <1>7 DEF SkipRow, CountDuplicate
    <2>2. /\ At(j, "row") /\ MoreRows(j) /\ UNCHANGED <<lockedBy, jobRow, committed, losses>>
          /\ batch[j].inserted \in SUBSET Prints
      BY <1>0, <1>7 DEF SkipRow, CountDuplicate, Readable, PrintsInv, Shaped, Batches
    <2>3. PICK S \in SUBSET Prints : S = batch[j].inserted
      BY <2>2
    <2> QED
      BY <2>1, <2>2, <2>3, PushKeeps
  <1>8. ASSUME NEW j \in Jobs, InsertRow(j) PROVE JobsInv'
    <2>1. /\ At(j, "lock") /\ UNCHANGED <<lockedBy, jobRow, committed, losses>>
          /\ PushOutcome(j, "imported", batch[j].inserted \cup {Row(j).print})
      BY <1>8 DEF InsertRow
    <2>2. MoreRows(j) /\ ~batch[j].aborted /\ Row(j).print \notin batch[j].inserted
      BY <1>0, <2>1 DEF PrintsInv, RowLeft, JobsInv, Reading
    <2>3. Row(j).print \in Prints /\ batch[j].inserted \in SUBSET Prints
      BY <1>0, <2>2, RowType DEF PrintsInv, Shaped, Batches
    <2>4. PICK S \in SUBSET Prints : S = batch[j].inserted \cup {Row(j).print}
      BY <2>3
    <2> QED
      BY <2>1, <2>2, <2>4, PushKeeps
  <1>9. ASSUME NEW j \in Jobs, Commit(j) PROVE JobsInv'
    BY <1>0, <1>9, ConcludeKeeps DEF Commit, CommitBatch
  <1>10. ASSUME NEW j \in Jobs, CommitUnanswered(j) PROVE JobsInv'
    <2>1. losses' \in 0..MaxLosses /\ losses' > 0
      BY <1>0, <1>10, ImportsAssumption DEF CommitUnanswered, Lost
    <2>2. losses' = 0 => losses = 0
      BY <2>1
    <2> QED
      BY <1>10, <2>1, <2>2, ConcludeKeeps DEF CommitUnanswered, CommitBatch
  <1>11. ASSUME NEW j \in Jobs, Finish(j) PROVE JobsInv'
    BY <1>11, FinishKeeps
  <1>12. ASSUME NEW j \in Jobs, LockWallet(j) PROVE JobsInv'
    BY <1>12, LockKeeps
  <1>13. CASE Crash
    BY <1>13, CrashKeeps
  <1>14. ASSUME NEW p \in Prints, DeleteImported(p) PROVE JobsInv'
    BY <1>1, <1>14 DEF DeleteImported
  <1>15. ASSUME NEW w \in Purses, DropPurse(w) PROVE JobsInv'
    BY <1>1, <1>15 DEF DropPurse
  <1>16. CASE UNCHANGED importsVars
    BY <1>1, <1>16 DEF importsVars
  <1>17. ASSUME NEW j \in Jobs, AbortRow(j) PROVE JobsInv'
    BY <1>17, AbortKeeps
  <1> QED
    BY <1>2, <1>3, <1>4, <1>5, <1>6, <1>7, <1>8, <1>9, <1>10, <1>11, <1>12, <1>13, <1>14, <1>15, <1>16,
       <1>17
    DEF ImportsNext, BatchStep

LEMMA JobsBegin == ImportsInit => JobsInv
  <1> SUFFICES ASSUME ImportsInit PROVE JobsInv
    OBVIOUS
  <1>1. <<>> \in Outcomes /\ Len(<<>>) = 0
    BY DEF Outcomes
  <1>2. NoBatch \in Batches /\ NoBatch.inserted = {} /\ NoBatch.pc = "idle" /\ NoBatch.outcomes = <<>>
    BY <1>1 DEF NoBatch, Batches
  <1>3. PrintsInv
    BY <1>2 DEF ImportsInit, PrintsInv, Shaped, OwnInserts, FreshInserts, OnePerPrint, RowLeft, At
  <1>4. JobsTyped
    BY <1>1, ImportsAssumption DEF ImportsInit, JobsTyped
  <1>5. ASSUME NEW j \in Jobs PROVE Reading(j) /\ Recorded(j)
    <2>1. Len(File[j]) \in Nat
      BY ImportsAssumption
    <2> QED
      BY <1>1, <1>2, <2>1 DEF ImportsInit, Reading, Recorded, At
  <1> QED
    BY <1>3, <1>4, <1>5 DEF JobsInv

LEMMA JobsAlways == ImportsSpec => []JobsInv
  <1>1. JobsInv /\ PrintsInv' /\ [ImportsNext]_importsVars => JobsInv'
    BY JobsStep
  <1> QED
    BY <1>1, JobsBegin, PrintsAlways, PTL DEF ImportsSpec

(* Every reachable state of the imports is well typed. *)
THEOREM ImportsTyped == ImportsSpec => []ImportsTypeOK
  <1>1. QED
    BY JobsAlways, JobsTellTruth, PTL

(* A job's row tells what became of its file: after success one row was    *)
(* imported for each fingerprint the batch committed and none for another, *)
(* unless the transaction was aborted under a row and nothing is there;    *)
(* after failure nothing was committed, unless an answer was lost.         *)
THEOREM JobsTell == ImportsSpec => []JobTellsUnlessAborted
  <1>1. QED
    BY JobsAlways, JobsTellTruth, PTL

(***************************************************************************)
(* A chat turn's stream.                                                   *)
(*                                                                         *)
(* Until the task has told the caller the end, what was sent holds no last *)
(* event; what was sent never says more than the reply so far, and less by *)
(* the event at hand.                                                      *)
(***************************************************************************)
Events == Passed \cup LastEvents \cup {"artifact"}

Quiet(s) == \A i \in 1..Len(s) : s[i] \notin LastEvents
EndsWith(s, es) == s # <<>> /\ s[Len(s)] \in es

Running == pump \in {"next", "forward", "artifact"}

\* The end is still to be told, or was the last thing said.
EndToTell ==
    /\ Running => Quiet(Sent)
    /\ pump \in {"store", "last"} /\ after # "nothing" => Quiet(Sent)
    /\ pump = "last" => after # "nothing"
    /\ pump = "store" /\ after = "nothing" /\ caller = "there" => EndsWith(Sent, LastEvents)

\* The artifact at hand is the one of the result just sent.
ArtifactAtHand ==
    pump = "artifact" /\ caller = "there" => canvas /\ EndsWith(Sent, {"result"})

\* The reply is the one said, and nothing is stored before the end.
ReplyIsSaid ==
    /\ said.tokens <= heard /\ said.calls <= heard
    /\ reply.kept = "no" <=> (Running \/ pump = "store")
    /\ reply.kept = "stored" => reply.tokens = said.tokens /\ reply.calls = said.calls
    /\ reply.kept = "nothing" => said.tokens = 0 /\ said.calls = 0

\* What was sent was said before.
SaidBeforeSent ==
    /\ CountOf(Sent, "token") <= said.tokens
    /\ CountOf(Sent, "call") <= said.calls
    /\ pump = "forward" /\ event = "token" => CountOf(Sent, "token") < said.tokens
    /\ pump = "forward" /\ event = "call" => CountOf(Sent, "call") < said.calls
    /\ reply.kept = "no" => CountOf(Sent, "done") = 0

StreamInv ==
    /\ ChatStreamTypeOK
    /\ EndToTell /\ ArtifactAtHand /\ ReplyIsSaid /\ SaidBeforeSent
    /\ OneLastEvent /\ ArtifactFollowsResult

(* How many of an event a longer sequence holds. *)
LEMMA CountType ==
    ASSUME NEW s \in Seq(Events), NEW e
    PROVE  CountOf(s, e) \in Nat
  <1>1. Len(s) \in Nat /\ IsFiniteSet(1..Len(s))
    BY FS_Interval
  <1>2. {i \in 1..Len(s) : s[i] = e} \in SUBSET (1..Len(s))
    OBVIOUS
  <1>3. QED
    BY <1>1, <1>2, FS_Subset, FS_CardinalityType DEF CountOf

LEMMA CountAppend ==
    ASSUME NEW s \in Seq(Events), NEW x \in Events, NEW e
    PROVE  CountOf(Append(s, x), e) = CountOf(s, e) + IF x = e THEN 1 ELSE 0
  <1> DEFINE Places == {i \in 1..Len(s) : s[i] = e}
             MorePlaces == {i \in 1..Len(Append(s, x)) : Append(s, x)[i] = e}
             n == Len(s) + 1
  <1>1. Len(s) \in Nat /\ IsFiniteSet(1..Len(s))
    BY FS_Interval
  <1>2. Places \in SUBSET (1..Len(s)) /\ IsFiniteSet(Places) /\ Cardinality(Places) \in Nat /\ n \notin Places
    BY <1>1, FS_Subset, FS_CardinalityType
  <1>3. Len(Append(s, x)) = n /\ Append(s, x)[n] = x
    OBVIOUS
  <1>4. \A i \in 1..Len(s) : Append(s, x)[i] = s[i]
    OBVIOUS
  <1>5. CASE x = e
    <2>1. MorePlaces = Places \cup {n}
      BY <1>1, <1>3, <1>4, <1>5
    <2>2. Cardinality(MorePlaces) = Cardinality(Places) + 1
      BY <1>2, <2>1, FS_AddElement
    <2>3. QED
      BY <1>5, <2>2 DEF CountOf
  <1>6. CASE x # e
    <2>1. MorePlaces = Places
      BY <1>1, <1>3, <1>4, <1>6
    <2> HIDE DEF Places, MorePlaces
    <2>2. Cardinality(MorePlaces) = Cardinality(Places) + 0
      BY <1>2, <2>1
    <2>3. QED
      BY <1>6, <2>2 DEF CountOf, Places, MorePlaces
  <1>7. QED
    BY <1>5, <1>6

LEMMA CountPrefix ==
    ASSUME NEW s \in Seq(Events), NEW t \in Seq(Events), NEW e
    PROVE  CountOf(s, e) <= CountOf(s \o t, e)
  <1> DEFINE Places == {i \in 1..Len(s) : s[i] = e}
             MorePlaces == {i \in 1..Len(s \o t) : (s \o t)[i] = e}
  <1>1. /\ Len(s) \in Nat /\ Len(t) \in Nat /\ Len(s \o t) = Len(s) + Len(t)
        /\ \A i \in 1..Len(s) : (s \o t)[i] = s[i]
    OBVIOUS
  <1>2. IsFiniteSet(1..Len(s \o t))
    BY <1>1, FS_Interval
  <1>3. MorePlaces \in SUBSET (1..Len(s \o t))
    OBVIOUS
  <1>4. IsFiniteSet(MorePlaces)
    BY <1>2, <1>3, FS_Subset
  <1>5. Places \in SUBSET MorePlaces
    BY <1>1
  <1>6. QED
    BY <1>4, <1>5, FS_Subset DEF CountOf

(* What was sent is a sequence of events. *)
LEMMA SentType ==
    ASSUME ChatStreamTypeOK
    PROVE  /\ got \in Seq(Events) /\ channel \in Seq(Events) /\ Sent \in Seq(Events)
           /\ Len(Sent) \in Nat
           /\ \A e \in {"token", "call", "done"} : CountOf(Sent, e) \in Nat
  <1>1. got \in Seq(Events) /\ channel \in Seq(Events)
    BY DEF ChatStreamTypeOK, Events
  <1>2. Sent \in Seq(Events) /\ Len(Sent) \in Nat
    BY <1>1 DEF Sent
  <1>3. QED
    BY <1>1, <1>2, CountType

(* What was sent when the task passes an event on, and when the caller     *)
(* reads.                                                                  *)
LEMMA PushSent ==
    ASSUME ChatStreamTypeOK, NEW e \in Events, Push(e), got' = got
    PROVE  Sent' = Append(Sent, e)
  <1> DEFINE s == (got \o channel) 
             t == got \o Append(channel, e)
             u == Append(s, e)
  <1>1. got \in Seq(Events) /\ channel \in Seq(Events) /\ Len(got) \in Nat /\ Len(channel) \in Nat
    BY SentType
  <1>2. /\ t \in Seq(Events) /\ u \in Seq(Events)
        /\ Len(t) = Len(got) + Len(channel) + 1 /\ Len(u) = Len(t)
    BY <1>1
  <1>3. ASSUME NEW i \in 1..Len(t) PROVE t[i] = u[i]
    BY <1>1, <1>2
  <1>4. t = u
    BY <1>2, <1>3
  <1>5. QED
    BY <1>4 DEF Push, Sent

LEMMA ReadSent ==
    ASSUME ChatStreamTypeOK, Read
    PROVE  Sent' = Sent
  <1> DEFINE s == got \o channel
             t == Append(got, Head(channel)) \o Tail(channel)
  <1>1. /\ got \in Seq(Events) /\ channel \in Seq(Events) /\ channel # <<>>
        /\ Len(got) \in Nat /\ Len(channel) \in Nat \ {0}
    BY SentType DEF Read
  <1>2. /\ Head(channel) \in Events /\ Tail(channel) \in Seq(Events)
        /\ Len(Tail(channel)) = Len(channel) - 1
        /\ Head(channel) = channel[1]
        /\ \A i \in 1..Len(channel) - 1 : Tail(channel)[i] = channel[i + 1]
    BY <1>1
  <1>3. /\ Append(got, Head(channel)) \in Seq(Events)
        /\ Len(Append(got, Head(channel))) = Len(got) + 1
        /\ \A i \in 1..Len(got) : Append(got, Head(channel))[i] = got[i]
        /\ Append(got, Head(channel))[Len(got) + 1] = channel[1]
    BY <1>1, <1>2
  <1>4. /\ s \in Seq(Events) /\ t \in Seq(Events)
        /\ Len(s) = Len(got) + Len(channel) /\ Len(t) = Len(s)
    BY <1>1, <1>2, <1>3
  <1>5. ASSUME NEW i \in 1..Len(s) PROVE s[i] = t[i]
    <2>1. CASE i <= Len(got)
      BY <1>1, <1>2, <1>3, <1>4, <2>1
    <2>2. CASE i = Len(got) + 1
      BY <1>1, <1>2, <1>3, <1>4, <2>2
    <2>3. CASE i > Len(got) + 1
      BY <1>1, <1>2, <1>3, <1>4, <2>3
    <2>4. QED
      BY <1>1, <2>1, <2>2, <2>3
  <1>6. s = t
    BY <1>4, <1>5
  <1>7. QED
    BY <1>6 DEF Read, Sent

(* The stream starts as the invariant says.                                *)
LEMMA StreamInit ==
    ASSUME ChatStreamInit
    PROVE  StreamInv
  <1>1. Sent = <<>> /\ Len(Sent) = 0
    BY DEF ChatStreamInit, Sent
  <1>2. ChatStreamTypeOK
    <2>1. channel \in Seq(Events) /\ got \in Seq(Events) /\ Len(channel) = 0
      BY DEF ChatStreamInit
    <2>2. 0 \in 0..MaxEvents /\ 0 <= ChannelDepth
      BY ChatStreamAssumption
    <2>3. said \in [tokens : 0..MaxEvents, calls : 0..MaxEvents]
      BY <2>2 DEF ChatStreamInit
    <2>4. reply \in [tokens : 0..MaxEvents, calls : 0..MaxEvents,
                     kept : {"no", "stored", "failed", "nothing"}]
      BY <2>2 DEF ChatStreamInit, NotStored
    <2>5. QED
      BY <2>1, <2>2, <2>3, <2>4
         DEF ChatStreamInit, ChatStreamTypeOK, Stages, Passed, LastEvents, Events
  <1>3. \A e : CountOf(Sent, e) = 0
    <2>1. TAKE e
    <2>2. {i \in 1..Len(Sent) : Sent[i] = e} = {}
      BY <1>1
    <2>3. QED
      BY <2>2, FS_EmptySet DEF CountOf
  <1>4. EndToTell /\ ArtifactAtHand /\ OneLastEvent /\ ArtifactFollowsResult
    BY <1>1 DEF ChatStreamInit, EndToTell, ArtifactAtHand, OneLastEvent, ArtifactFollowsResult,
                Running, Quiet
  <1>5. ReplyIsSaid
    BY DEF ChatStreamInit, ReplyIsSaid, Running, NotStored
  <1>6. SaidBeforeSent
    BY <1>3 DEF ChatStreamInit, SaidBeforeSent
  <1>7. QED
    BY <1>2, <1>4, <1>5, <1>6 DEF StreamInv

(* What the AI service sends, and the time that is up: nothing is passed   *)
(* on yet.                                                                 *)
LEMMA StreamHears ==
    ASSUME StreamInv, Upstream \/ Deadline
    PROVE  StreamInv'
  <1>1. Sent' = Sent /\ pump = "next" /\ caller' = caller /\ canvas' = canvas /\ reply' = reply
    BY DEF Upstream, Token, Call, Result, ForeignArtifact, Done, ErrorEvent, Break, Deadline, Sent
  <1>2. ChatStreamTypeOK /\ Quiet(Sent) /\ reply.kept = "no" /\ OneLastEvent /\ ArtifactFollowsResult
    BY <1>1 DEF StreamInv, EndToTell, ReplyIsSaid, Running
  <1>3. ChatStreamTypeOK'
    BY SMTT(30), ChatStreamAssumption
       DEF StreamInv, ReplyIsSaid, ChatStreamTypeOK, Upstream, Token, Call, Result, ForeignArtifact,
           Done, ErrorEvent, Break, Deadline, Hear, StoreThen, Stages, Passed, LastEvents
  <1>4. EndToTell'
    BY <1>1, <1>2
       DEF EndToTell, Running, Upstream, Token, Call, Result, ForeignArtifact, Done, ErrorEvent,
           Break, Deadline, StoreThen
  <1>5. pump' \in {"next", "forward", "store"}
    BY <1>1 DEF Upstream, Token, Call, Result, ForeignArtifact, Done, ErrorEvent, Break, Deadline,
                StoreThen
  <1>6. ArtifactAtHand' /\ OneLastEvent' /\ ArtifactFollowsResult'
    BY <1>1, <1>2, <1>5 DEF ArtifactAtHand, OneLastEvent, ArtifactFollowsResult
  <1>7. /\ said'.tokens \in Nat /\ said'.calls \in Nat
        /\ said.tokens <= said'.tokens /\ said.calls <= said'.calls
        /\ pump' = "forward" /\ event' = "token" => said'.tokens = said.tokens + 1
        /\ pump' = "forward" /\ event' = "call" => said'.calls = said.calls + 1
        /\ said'.tokens <= heard' /\ said'.calls <= heard'
    BY <1>1 DEF StreamInv, ReplyIsSaid, ChatStreamTypeOK, Upstream, Token, Call, Result,
                ForeignArtifact, Done, ErrorEvent, Break, Deadline, Hear, StoreThen
  <1>8. ReplyIsSaid'
    BY <1>1, <1>2, <1>5, <1>7 DEF ReplyIsSaid, Running
  <1>9. SaidBeforeSent'
    <2>1. /\ CountOf(Sent, "token")' = CountOf(Sent, "token")
          /\ CountOf(Sent, "call")' = CountOf(Sent, "call")
          /\ CountOf(Sent, "done")' = CountOf(Sent, "done")
      BY <1>1
    <2>2. /\ said.tokens \in Nat /\ said.calls \in Nat
          /\ \A e \in {"token", "call", "done"} : CountOf(Sent, e) \in Nat
      BY <1>2, SentType DEF ChatStreamTypeOK
    <2>3. QED
      BY <1>1, <1>7, <2>1, <2>2 DEF StreamInv, SaidBeforeSent
  <1>10. QED
    BY <1>3, <1>4, <1>6, <1>8, <1>9 DEF StreamInv

(* The steps of the task that send nothing.                                *)
LEMMA StreamSilent ==
    ASSUME StreamInv, StoreOnHangUp \/ Store \/ (SendLast /\ UNCHANGED channel)
    PROVE  StreamInv'
  <1>1. /\ Sent' = Sent /\ caller' = caller /\ canvas' = canvas /\ said' = said
        /\ event' = event /\ heard' = heard
    BY DEF StoreOnHangUp, Store, SendLast, Sent
  <1>2. ChatStreamTypeOK'
    BY DEF StreamInv, ChatStreamTypeOK, StoreOnHangUp, Store, SendLast, StoreThen, Stages, Passed,
           LastEvents
  <1>3. pump' \in {"store", "last", "ended"}
    BY DEF StoreOnHangUp, Store, SendLast, StoreThen
  <1>4. EndToTell'
    BY <1>1 DEF StreamInv, EndToTell, Running, StoreOnHangUp, Store, SendLast, StoreThen
  <1>5. ArtifactAtHand' /\ ArtifactFollowsResult'
    BY <1>1, <1>3 DEF StreamInv, ArtifactAtHand, ArtifactFollowsResult
  <1>6. OneLastEvent'
    <2>1. \A i \in 1..Len(Sent) : Sent[i] \in LastEvents => i = Len(Sent)
      BY DEF StreamInv, OneLastEvent
    <2>2. pump' = "ended" /\ caller' = "there" => Sent # <<>> /\ Sent[Len(Sent)] \in LastEvents
      BY DEF StreamInv, EndToTell, StoreOnHangUp, Store, SendLast, StoreThen, EndsWith, Push, Room
    <2>3. QED
      BY <1>1, <2>1, <2>2 DEF OneLastEvent
  <1>7. ReplyIsSaid'
    BY <1>1 DEF StreamInv, ReplyIsSaid, Running, StoreOnHangUp, Store, SendLast, StoreThen,
                ChatStreamTypeOK
  <1>8. SaidBeforeSent'
    <2>1. /\ CountOf(Sent, "token")' = CountOf(Sent, "token")
          /\ CountOf(Sent, "call")' = CountOf(Sent, "call")
          /\ CountOf(Sent, "done")' = CountOf(Sent, "done")
      BY <1>1
    <2>2. reply'.kept = "no" => reply.kept = "no"
      BY DEF StoreOnHangUp, Store, SendLast, StreamInv, ReplyIsSaid, Running
    <2>3. QED
      BY <1>1, <1>3, <2>1, <2>2 DEF StreamInv, SaidBeforeSent
  <1>9. QED
    BY <1>2, <1>4, <1>5, <1>6, <1>7, <1>8 DEF StreamInv

(* What the task passes on.                                                *)
LEMMA StreamSends ==
    ASSUME StreamInv, Forward \/ ShowArtifact \/ (SendLast /\ Room /\ Push(after))
    PROVE  StreamInv'
  <1>1. PICK e \in Events : /\ Push(e) /\ got' = got /\ Room
                            /\ \/ Forward /\ e = event /\ event \in Passed
                               \/ ShowArtifact /\ e = "artifact"
                               \/ SendLast /\ e = after /\ after \in LastEvents /\ pump = "last"
    BY DEF StreamInv, EndToTell, ChatStreamTypeOK, Forward, ShowArtifact, SendLast, Events
  <1>2. ChatStreamTypeOK /\ Sent \in Seq(Events) /\ Len(Sent) \in Nat
    BY SentType DEF StreamInv
  <1>3. Sent' = Append(Sent, e)
    BY <1>1, <1>2, PushSent
  <1>4. /\ Len(Sent') = Len(Sent) + 1 /\ Sent'[Len(Sent')] = e /\ Sent' # <<>>
        /\ \A i \in 1..Len(Sent) : Sent'[i] = Sent[i]
    BY <1>2, <1>3
  <1>5. /\ caller' = caller /\ canvas' = canvas /\ said' = said /\ caller = "there"
        /\ event' = event /\ heard' = heard /\ reply' = reply
    BY <1>1 DEF Forward, ShowArtifact, SendLast, Room
  <1>6. ChatStreamTypeOK'
    <2>1. channel' \in Seq(Passed \cup LastEvents \cup {"artifact"}) /\ Len(channel') <= ChannelDepth
      BY <1>1, <1>2, ChatStreamAssumption DEF ChatStreamTypeOK, Push, Room, Events
    <2>2. QED
      BY <1>1, <1>2, <1>5, <2>1
         DEF ChatStreamTypeOK, Forward, ShowArtifact, SendLast, StoreThen, Stages, LastEvents
  <1>7. Quiet(Sent)
    BY <1>1 DEF StreamInv, EndToTell, Running, Forward, ShowArtifact, SendLast
  <1>8. e \notin LastEvents => Quiet(Sent')
    BY <1>2, <1>4, <1>7 DEF Quiet
  <1>9. e \in LastEvents <=> (Forward /\ e = "error") \/ SendLast
    BY <1>1 DEF Passed, LastEvents, Forward, ShowArtifact, SendLast
  <1>10. EndToTell'
    BY <1>1, <1>4, <1>5, <1>8, <1>9
       DEF EndToTell, Running, Forward, ShowArtifact, SendLast, StoreThen, EndsWith, LastEvents
  <1>11. ArtifactAtHand'
    BY <1>1, <1>4, <1>5
       DEF ArtifactAtHand, Forward, ShowArtifact, SendLast, StoreThen, EndsWith, Leaves
  <1>12. OneLastEvent'
    <2>1. \A i \in 1..Len(Sent') : Sent'[i] \in LastEvents => i = Len(Sent')
      BY <1>2, <1>4, <1>7 DEF Quiet
    <2>2. pump' = "ended" => e \in LastEvents
      BY <1>1 DEF Forward, ShowArtifact, SendLast, StoreThen
    <2>3. QED
      BY <1>4, <2>1, <2>2 DEF OneLastEvent
  <1>13. ArtifactFollowsResult'
    <2>1. e = "artifact" => canvas /\ Len(Sent) > 0 /\ Sent[Len(Sent)] = "result"
      BY <1>1, <1>2, <1>5
         DEF StreamInv, ArtifactAtHand, EndsWith, ShowArtifact, Passed, LastEvents
    <2>2. ASSUME NEW i \in 1..Len(Sent'), Sent'[i] = "artifact"
          PROVE  canvas /\ i > 1 /\ Sent'[i - 1] = "result"
      <3>1. CASE i \in 1..Len(Sent)
        BY <1>2, <1>4, <2>2, <3>1 DEF StreamInv, ArtifactFollowsResult
      <3>2. CASE i = Len(Sent) + 1
        BY <1>2, <1>4, <2>1, <2>2, <3>2
      <3>3. QED
        BY <1>2, <1>4, <3>1, <3>2
    <2>3. QED
      BY <1>5, <2>2 DEF ArtifactFollowsResult
  <1>14. ReplyIsSaid'
    BY <1>1, <1>5 DEF StreamInv, ReplyIsSaid, Running, Forward, ShowArtifact, SendLast, StoreThen
  <1>15. SaidBeforeSent'
    <2>1. \A x \in {"token", "call", "done"} :
              CountOf(Sent', x) = CountOf(Sent, x) + IF e = x THEN 1 ELSE 0
      BY <1>2, <1>3, CountAppend
    <2>2. /\ said.tokens \in Nat /\ said.calls \in Nat
          /\ \A x \in {"token", "call", "done"} : CountOf(Sent, x) \in Nat
      BY <1>2, SentType DEF ChatStreamTypeOK
    <2>3. e = "token" => pump = "forward" /\ event = "token"
      BY <1>1 DEF Forward, LastEvents
    <2>4. e = "call" => pump = "forward" /\ event = "call"
      BY <1>1 DEF Forward, LastEvents
    <2>5. pump' # "forward"
      BY <1>1 DEF Forward, ShowArtifact, SendLast, StoreThen
    <2>6. reply.kept = "no" => e # "done"
      BY <1>1 DEF StreamInv, ReplyIsSaid, Running, Passed
    <2>7. /\ CountOf(Sent', "token") = CountOf(Sent, "token") + IF e = "token" THEN 1 ELSE 0
          /\ CountOf(Sent', "call") = CountOf(Sent, "call") + IF e = "call" THEN 1 ELSE 0
          /\ CountOf(Sent', "done") = CountOf(Sent, "done") + IF e = "done" THEN 1 ELSE 0
      BY <2>1
    <2>8. QED
      BY <1>5, <2>2, <2>3, <2>4, <2>5, <2>6, <2>7 DEF StreamInv, SaidBeforeSent
  <1>16. QED
    BY <1>6, <1>10, <1>11, <1>12, <1>13, <1>14, <1>15 DEF StreamInv

(* The caller reads, which changes nothing of what was sent.               *)
LEMMA StreamRead ==
    ASSUME StreamInv, Read
    PROVE  StreamInv'
  <1>1. Sent' = Sent
    BY ReadSent DEF StreamInv
  <1>2. ChatStreamTypeOK /\ channel \in Seq(Events) /\ got \in Seq(Events) /\ channel # <<>>
    BY SentType DEF StreamInv, Read
  <1>3. ChatStreamTypeOK'
    <2>1. Head(channel) \in Events /\ Tail(channel) \in Seq(Events) /\ Len(Tail(channel)) <= Len(channel)
      BY <1>2
    <2>2. Append(got, Head(channel)) \in Seq(Events)
      BY <1>2, <2>1
    <2>3. Len(channel') <= ChannelDepth
      BY <1>2, <2>1, ChatStreamAssumption DEF Read, ChatStreamTypeOK
    <2>4. QED
      BY <1>2, <2>1, <2>2, <2>3 DEF ChatStreamTypeOK, Read, Events
  <1>4. UNCHANGED <<pump, canvas, event, heard, said, left, after, reply, caller>>
    BY DEF Read
  <1>5. EndToTell' /\ ArtifactAtHand' /\ OneLastEvent' /\ ArtifactFollowsResult'
    BY <1>1, <1>4 DEF StreamInv, EndToTell, ArtifactAtHand, OneLastEvent, ArtifactFollowsResult, Running
  <1>6. ReplyIsSaid' /\ SaidBeforeSent'
    BY <1>1, <1>4 DEF StreamInv, ReplyIsSaid, SaidBeforeSent, Running
  <1>7. QED
    BY <1>3, <1>5, <1>6 DEF StreamInv

(* The caller hangs up: what was in the channel is gone.                   *)
LEMMA StreamHangUp ==
    ASSUME StreamInv, HangUp
    PROVE  StreamInv'
  <1>1. ChatStreamTypeOK /\ channel \in Seq(Events) /\ got \in Seq(Events)
    BY SentType DEF StreamInv
  <1>2. /\ Sent' = got /\ caller' = "gone"
        /\ UNCHANGED <<pump, canvas, event, heard, said, left, after, reply>>
    BY <1>1 DEF HangUp, Sent
  <1>3. /\ Len(got) \in Nat /\ Len(channel) \in Nat /\ Len(Sent) = Len(got) + Len(channel)
        /\ \A i \in 1..Len(got) : Sent[i] = got[i]
    BY <1>1 DEF Sent
  <1>4. ChatStreamTypeOK'
    <2>1. channel' = <<>> /\ got' = got
      BY DEF HangUp
    <2>2. <<>> \in Seq(Events) /\ Len(<<>>) <= ChannelDepth
      BY ChatStreamAssumption
    <2>3. QED
      BY <1>1, <1>2, <2>1, <2>2 DEF ChatStreamTypeOK, Events
  <1>5. Quiet(Sent) => Quiet(got)
    BY <1>3 DEF Quiet
  <1>6. EndToTell' /\ ArtifactAtHand'
    BY <1>2, <1>5 DEF StreamInv, EndToTell, ArtifactAtHand, Running
  <1>7. OneLastEvent' /\ ArtifactFollowsResult'
    BY <1>2, <1>3 DEF StreamInv, OneLastEvent, ArtifactFollowsResult
  <1>8. ReplyIsSaid'
    BY <1>2 DEF StreamInv, ReplyIsSaid, Running
  <1>9. SaidBeforeSent'
    <2>1. \A x \in {"token", "call", "done"} : CountOf(got, x) <= CountOf(Sent, x)
      BY <1>1, CountPrefix DEF Sent
    <2>2. /\ said.tokens \in Nat /\ said.calls \in Nat
          /\ \A x \in {"token", "call", "done"} : CountOf(Sent, x) \in Nat
      BY <1>1, SentType DEF ChatStreamTypeOK
    <2>3. \A x \in {"token", "call", "done"} : CountOf(got, x) \in Nat
      BY <1>1, CountType
    <2>4. QED
      BY <1>2, <2>1, <2>2, <2>3 DEF StreamInv, SaidBeforeSent
  <1>10. QED
    BY <1>4, <1>6, <1>7, <1>8, <1>9 DEF StreamInv

LEMMA StreamAlways == ChatStreamSpec => []StreamInv
  <1>1. StreamInv /\ [ChatStreamNext]_chatStreamVars => StreamInv'
    <2>1. SUFFICES ASSUME StreamInv, [ChatStreamNext]_chatStreamVars PROVE StreamInv'
      OBVIOUS
    <2>2. CASE UNCHANGED chatStreamVars
      <3>1. Sent' = Sent /\ UNCHANGED chatStreamVars
        BY <2>2 DEF chatStreamVars, Sent
      <3>2. ChatStreamTypeOK' /\ ReplyIsSaid' /\ SaidBeforeSent'
        BY <2>1, <3>1 DEF chatStreamVars, StreamInv, ChatStreamTypeOK, ReplyIsSaid, SaidBeforeSent,
                         Running
      <3>3. EndToTell' /\ ArtifactAtHand' /\ OneLastEvent' /\ ArtifactFollowsResult'
        BY <2>1, <3>1 DEF chatStreamVars, StreamInv, EndToTell, ArtifactAtHand, OneLastEvent,
                         ArtifactFollowsResult, Running
      <3>4. QED
        BY <3>2, <3>3 DEF StreamInv
    <2>3. CASE Upstream \/ Deadline
      BY <2>1, <2>3, StreamHears
    <2>4. CASE PumpSteps
      <3>1. \/ StoreOnHangUp \/ Store \/ (SendLast /\ UNCHANGED channel)
            \/ Forward \/ ShowArtifact \/ (SendLast /\ Room /\ Push(after))
        BY <2>4 DEF PumpSteps, SendLast
      <3>2. QED
        BY <2>1, <3>1, StreamSilent, StreamSends
    <2>5. CASE Read \/ HangUp
      BY <2>1, <2>5, StreamRead, StreamHangUp
    <2>6. QED
      BY <2>1, <2>2, <2>3, <2>4, <2>5 DEF ChatStreamNext
  <1>2. QED
    BY <1>1, StreamInit, PTL DEF ChatStreamSpec

(* Every variable of a stream holds what its declaration says, and the     *)
(* channel keeps its depth.                                                *)
THEOREM StreamTyped == ChatStreamSpec => []ChatStreamTypeOK
  <1>1. StreamInv => ChatStreamTypeOK
    BY DEF StreamInv
  <1>2. QED
    BY <1>1, StreamAlways, PTL

(* A caller who stays is told one end, an artifact follows its result, and *)
(* a stored reply holds all the caller was told, however the turn ended.   *)
THEOREM StreamTells ==
    ChatStreamSpec => [](OneLastEvent /\ ArtifactFollowsResult /\ StoredIsWhatWasSent)
  <1>1. StreamInv => OneLastEvent /\ ArtifactFollowsResult /\ StoredIsWhatWasSent
    <2>1. SUFFICES ASSUME StreamInv PROVE StoredIsWhatWasSent
      BY DEF StreamInv
    <2>2. /\ said.tokens \in Nat /\ said.calls \in Nat
          /\ \A e \in {"token", "call", "done"} : CountOf(Sent, e) \in Nat
      BY <2>1, SentType DEF StreamInv, ChatStreamTypeOK
    <2>3. QED
      BY <2>1, <2>2 DEF StreamInv, ReplyIsSaid, SaidBeforeSent, StoredIsWhatWasSent, Running
  <1>2. QED
    BY <1>1, StreamAlways, PTL

(***************************************************************************)
(* Reading the rows of a statement.                                        *)
(***************************************************************************)
(* A sum over the places from i to n.                                      *)
LEMMA SumFrom ==
    ASSUME NEW n \in Nat, NEW i \in Nat, NEW f, \A j \in i..n : f[j] \in Int
    PROVE  /\ i > n => SumFunctionOnSet(f, i..n) = 0
           /\ i <= n => SumFunctionOnSet(f, i..n) = f[i] + SumFunctionOnSet(f, (i + 1)..n)
           /\ SumFunctionOnSet(f, i..n) \in Int
  <1>1. IsFiniteSet(i..n) /\ Numbers(f, i..n)
    BY FS_Interval DEF Numbers
  <1>2. i > n => SumFunctionOnSet(f, i..n) = 0
    <2>1. ASSUME i > n PROVE i..n = {}
      BY <2>1
    <2>2. QED
      BY <2>1, SumOfNone
  <1>3. ASSUME i <= n
        PROVE  SumFunctionOnSet(f, i..n) = f[i] + SumFunctionOnSet(f, (i + 1)..n)
    <2>1. i \in i..n /\ (i..n) \ {i} = (i + 1)..n
      BY <1>3
    <2>2. SumFunctionOnSet(f, i..n) = f[i] + SumFunctionOnSet(f, (i..n) \ {i})
      BY <1>1, <2>1, SumTakes
    <2>3. QED
      BY <2>1, <2>2
  <1>4. QED
    BY <1>1, <1>2, <1>3, SumType

(* The digits after a group, from the last.                                *)
LEMMA WidthsAfter ==
    ASSUME NEW groups, NEW n \in Nat \ {0}, DOMAIN groups = 1..n, Len(groups) = n,
           NEW i \in 1..n, \A j \in 2..n : groups[j].width \in Nat
    PROVE  /\ i = n => WidthAfter(groups, i) = 0
           /\ i < n => WidthAfter(groups, i) = groups[i + 1].width + WidthAfter(groups, i + 1)
           /\ WidthAfter(groups, i) \in Nat
  <1> DEFINE f == [j \in DOMAIN groups |-> groups[j].width]
  <1>1. \A j \in 2..n : f[j] \in Nat /\ f[j] = groups[j].width
    OBVIOUS
  <1>2. \A k \in 1..n : WidthAfter(groups, k) = SumFunctionOnSet(f, (k + 1)..n)
    BY DEF WidthAfter
  <1> HIDE DEF f
  <1>3. i + 1 \in Nat /\ \A j \in (i + 1)..n : f[j] \in Int
    BY <1>1
  <1>4. /\ i + 1 > n => SumFunctionOnSet(f, (i + 1)..n) = 0
        /\ i + 1 <= n => SumFunctionOnSet(f, (i + 1)..n) = f[i + 1] + SumFunctionOnSet(f, (i + 1 + 1)..n)
    BY <1>3, SumFrom
  <1>5. SumFunctionOnSet(f, (i + 1)..n) \in Nat
    <2>0. i + 1 \in Int /\ n \in Int
      OBVIOUS
    <2>1. IsFiniteSet((i + 1)..n)
      BY <2>0, FS_Interval
    <2>2. \A j \in (i + 1)..n : f[j] \in Nat
      BY <1>1
    <2>3. QED
      BY <2>1, <2>2, SumOfNaturals
  <1>6. QED
    BY <1>1, <1>2, <1>4, <1>5

Thousands(a, b) == a * 1000 + b

(* A text as a bank writes it: k groups of the whole amount N, and with c  *)
(* the group of the cents C, with their marks.                             *)
Spells(text, N, C, k, c, thousands, decimals) ==
    LET g == text.groups
    IN /\ k \in 1..3 /\ c \in 0..1
       /\ DOMAIN g = 1..(k + c) /\ Len(g) = k + c
       /\ \A j \in 1..(k + c) : g[j].value \in Nat
       /\ \A j \in 2..k : g[j].width = 3
       /\ c = 1 => g[k + 1].width = 2 /\ g[k + 1].value = C /\ decimals \in Marks /\ decimals # thousands
       /\ k = 1 => g[1].value = N
       /\ k = 2 => Thousands(g[1].value, g[2].value) = N /\ g[1].width # 0
       /\ k = 3 => Thousands(Thousands(g[1].value, g[2].value), g[3].value) = N
       /\ k > 1 => thousands \in Marks
       /\ DOMAIN text.marks = 1..(k - 1 + c)
       /\ \A i \in 1..(k - 1) : text.marks[i] = thousands
       /\ c = 1 => text.marks[k] = decimals

(* No mark, marks between thousands, and a decimal point.                  *)
LEMMA PointsOfNone ==
    ASSUME NEW text, Max({LastOf(text, "."), LastOf(text, ",")}) = 0
    PROVE  PointsOf(text) = {}
  BY DEF PointsOf

LEMMA PointsOfThousands ==
    ASSUME NEW text, NEW last, last # 0, Max({LastOf(text, "."), LastOf(text, ",")}) = last,
           0 \in {LastOf(text, "."), LastOf(text, ",")},
           text.groups[last + 1].width = 3, ~(last = 1 /\ text.groups[1].width = 0)
    PROVE  PointsOf(text) = {}
  BY DEF PointsOf

LEMMA PointsOfCents ==
    ASSUME NEW text, NEW last, last # 0, Max({LastOf(text, "."), LastOf(text, ",")}) = last,
           text.groups[last + 1].width # 3
    PROVE  \A i : i \in PointsOf(text) <=> i \in DOMAIN text.marks /\ text.marks[i] = text.marks[last]
  BY DEF PointsOf

(* The decimal point is the mark before the cents.                         *)
LEMMA PointsFound ==
    ASSUME NEW text, NEW N, NEW C, NEW k, NEW c, NEW thousands, NEW decimals,
           Spells(text, N, C, k, c, thousands, decimals)
    PROVE  PointsOf(text) = IF c = 1 THEN {k} ELSE {}
  <1> DEFINE places(m) == {0} \cup {i \in DOMAIN text.marks : text.marks[i] = m}
             dot == LastOf(text, ".")
             comma == LastOf(text, ",")
  <1>1. /\ k \in {1, 2, 3} /\ c \in {0, 1} /\ DOMAIN text.marks = 1..(k - 1 + c)
        /\ \A i \in 1..(k - 1) : text.marks[i] = thousands
        /\ c = 1 => text.marks[k] = decimals /\ decimals \in Marks /\ decimals # thousands
        /\ k > 1 => thousands \in Marks
    BY DEF Spells
  <1>0. /\ c = 1 => text.groups[k + 1].width = 2
        /\ \A j \in 2..k : text.groups[j].width = 3
        /\ k = 2 => text.groups[1].width # 0
    BY DEF Spells
  <1>2. \A m : places(m) \in SUBSET Int
    BY <1>1
  <1>3. \A m : LastOf(text, m) = Max(places(m))
    BY DEF LastOf
  <1>4. ASSUME NEW m, NEW x \in Nat, x \in places(m), \A y \in places(m) : x >= y
        PROVE  LastOf(text, m) = x
    <2>1. places(m) \in SUBSET Int
      BY <1>2
    <2> HIDE DEF places
    <2>2. Max(places(m)) = x
      BY <1>4, <2>1, MaxIs
    <2>3. QED
      BY <1>3, <2>2
  <1>5. CASE c = 1
    <2>1. LastOf(text, decimals) = k
      <3>1. k \in Nat /\ k \in places(decimals) /\ \A y \in places(decimals) : k >= y
        BY <1>1, <1>5
      <3> HIDE DEF places
      <3>2. QED
        BY <3>1, <1>4
    <2>2. ASSUME NEW m, m # decimals, NEW x, x = IF m = thousands THEN k - 1 ELSE 0
          PROVE  LastOf(text, m) = x
      <3>1. x \in Nat /\ x \in places(m) /\ \A y \in places(m) : x >= y
        BY <1>1, <1>5, <2>2
      <3> HIDE DEF places
      <3>2. QED
        BY <3>1, <1>4
    <2> HIDE DEF places
    <2>3. /\ dot \in Nat /\ comma \in Nat /\ k \in Nat
          /\ dot = k \/ comma = k
          /\ dot <= k /\ comma <= k
      <3>1. decimals \in Marks => decimals = "." \/ decimals = ","
        BY DEF Marks
      <3>2. ASSUME NEW m, m # decimals PROVE LastOf(text, m) \in Nat /\ LastOf(text, m) <= k
        <4>1. CASE m = thousands
          BY <1>1, <2>2, <3>2, <4>1
        <4>2. CASE m # thousands
          BY <1>1, <2>2, <3>2, <4>2
        <4>3. QED
          BY <4>1, <4>2
      <3>3. \A m : LastOf(text, m) \in Nat /\ LastOf(text, m) <= k
        BY <1>1, <2>1, <3>2
      <3>4. QED
        BY <1>1, <1>5, <2>1, <3>1, <3>3
    <2> HIDE DEF dot, comma
    <2>4. Max({dot, comma}) = k
      <3>1. {dot, comma} \in SUBSET Int /\ k \in {dot, comma} /\ \A y \in {dot, comma} : k >= y
        BY <2>3
      <3>2. QED
        BY <3>1, MaxIs
    <2>5. text.groups[k + 1].width # 3 /\ k # 0
      BY <1>0, <1>1, <1>5
    <2>6. \A i : i \in PointsOf(text) <=> i \in DOMAIN text.marks /\ text.marks[i] = text.marks[k]
      <3>1. Max({LastOf(text, "."), LastOf(text, ",")}) = k
        BY <2>4 DEF dot, comma
      <3>2. QED
        BY <2>5, <3>1, PointsOfCents
    <2>7. \A i : i \in PointsOf(text) <=> i = k
      <3>1. DOMAIN text.marks = 1..k /\ k \in 1..k
        BY <1>1, <1>5
      <3>2. \A i \in 1..k : text.marks[i] = text.marks[k] <=> i = k
        BY <1>1, <1>5
      <3>3. QED
        BY <2>6, <3>1, <3>2
    <2>8. PointsOf(text) = {k}
      BY <2>7
    <2>9. QED
      BY <1>5, <2>8
  <1>6. CASE c = 0 /\ k = 1
    <2>1. \A m : LastOf(text, m) = 0
      <3>1. \A m : 0 \in places(m) /\ \A y \in places(m) : 0 >= y
        BY <1>1, <1>6
      <3> HIDE DEF places
      <3>2. QED
        BY <3>1, <1>4
    <2>2. Max({dot, comma}) = 0
      <3>0. dot = 0 /\ comma = 0
        BY <2>1
      <3> HIDE DEF dot, comma
      <3>1. {dot, comma} = {0}
        BY <3>0
      <3>2. {0} \in SUBSET Int /\ 0 \in {0} /\ \A y \in {0} : 0 >= y
        OBVIOUS
      <3>3. Max({0}) = 0
        BY <3>2, MaxIs
      <3>4. QED
        BY <3>1, <3>3
    <2>3. Max({LastOf(text, "."), LastOf(text, ",")}) = 0
      BY <2>2
    <2>4. PointsOf(text) = {}
      BY <2>3, PointsOfNone
    <2>5. QED
      BY <1>6, <2>4
  <1>7. CASE c = 0 /\ k > 1
    <2>1. LastOf(text, thousands) = k - 1
      <3>1. k - 1 \in Nat /\ k - 1 \in places(thousands) /\ \A y \in places(thousands) : k - 1 >= y
        BY <1>1, <1>7
      <3> HIDE DEF places
      <3>2. QED
        BY <3>1, <1>4
    <2>2. ASSUME NEW m, m # thousands PROVE LastOf(text, m) = 0
      <3>1. 0 \in places(m) /\ \A y \in places(m) : 0 >= y
        BY <1>1, <1>7, <2>2
      <3> HIDE DEF places
      <3>2. QED
        BY <3>1, <1>4
    <2> HIDE DEF places
    <2>3. (dot = k - 1 /\ comma = 0) \/ (dot = 0 /\ comma = k - 1)
      <3>1. thousands = "." \/ thousands = ","
        BY <1>1, <1>7 DEF Marks
      <3>2. QED
        BY <2>1, <2>2, <3>1
    <2> HIDE DEF dot, comma
    <2>4. PICK last \in Nat : last = k - 1 /\ last # 0 /\ last + 1 = k
      BY <1>1, <1>7
    <2>5. Max({dot, comma}) = last
      <3>1. {dot, comma} \in SUBSET Int /\ last \in {dot, comma} /\ \A y \in {dot, comma} : last >= y
        BY <2>3, <2>4
      <3>2. QED
        BY <3>1, MaxIs
    <2>6. 0 \in {dot, comma}
      BY <2>3
    <2>7. text.groups[last + 1].width = 3 /\ ~(last = 1 /\ text.groups[1].width = 0)
      <3>1. k \in 2..k /\ (last = 1 => k = 2)
        BY <1>1, <1>7, <2>4
      <3>2. QED
        BY <1>0, <2>4, <3>1
    <2>8. PointsOf(text) = {}
      <3>1. /\ Max({LastOf(text, "."), LastOf(text, ",")}) = last
            /\ 0 \in {LastOf(text, "."), LastOf(text, ",")}
        BY <2>5, <2>6 DEF dot, comma
      <3>2. QED
        BY <2>4, <2>7, <3>1, PointsOfThousands
    <2>9. QED
      BY <1>7, <2>8
  <1>8. QED
    BY <1>1, <1>5, <1>6, <1>7

(* The sum of up to four numbers.                                          *)
LEMMA SumOfFew ==
    ASSUME NEW n \in 1..4, NEW f, DOMAIN f = 1..n, \A j \in 1..n : f[j] \in Int
    PROVE  /\ n = 1 => SumFunction(f) = f[1]
           /\ n = 2 => SumFunction(f) = f[1] + f[2]
           /\ n = 3 => SumFunction(f) = f[1] + f[2] + f[3]
           /\ n = 4 => SumFunction(f) = f[1] + f[2] + f[3] + f[4]
  <1> DEFINE S(i) == SumFunctionOnSet(f, i..n)
  <1>1. SumFunction(f) = S(1)
    BY DEF SumFunction
  <1>2. n \in {1, 2, 3, 4}
    OBVIOUS
  <1>3. ASSUME NEW i \in 1..4
        PROVE  /\ i > n => S(i) = 0
               /\ i <= n => S(i) = f[i] + S(i + 1)
               /\ S(i) \in Int
    <2>1. n \in Nat /\ i \in Nat /\ \A j \in i..n : f[j] \in Int
      OBVIOUS
    <2>2. QED
      BY <2>1, SumFrom
  <1>4. S(n + 1) = 0
    <2>1. n \in Nat /\ n + 1 \in Nat /\ n + 1 > n /\ \A j \in (n + 1)..n : f[j] \in Int
      OBVIOUS
    <2>2. QED
      BY <2>1, SumFrom
  <1> HIDE DEF S
  <1>5. n = 1 => S(1) = f[1]
    BY <1>3, <1>4
  <1>6. n = 2 => S(1) = f[1] + f[2]
    BY <1>3, <1>4
  <1>7. n = 3 => S(1) = f[1] + f[2] + f[3]
    BY <1>3, <1>4
  <1>8. n = 4 => S(1) = f[1] + f[2] + f[3] + f[4]
    BY <1>3, <1>4
  <1>9. QED
    BY <1>1, <1>5, <1>6, <1>7, <1>8

(* The digits joined are the whole amount, and behind it the cents.        *)
LEMMA JoinedFound ==
    ASSUME NEW text, NEW N, NEW C \in Nat, NEW k, NEW c, NEW thousands, NEW decimals,
           Spells(text, N, C, k, c, thousands, decimals)
    PROVE  /\ Joined(text.groups) = IF c = 1 THEN N * 100 + C ELSE N
           /\ c = 1 => WidthAfter(text.groups, k) = 2
  <1> DEFINE g == text.groups
             n == k + c
             W(i) == WidthAfter(g, i)
             f == [i \in DOMAIN g |-> g[i].value * 10^WidthAfter(g, i)]
  <1>1. /\ k \in {1, 2, 3} /\ c \in {0, 1} /\ n \in 1..4 /\ n \in Nat \ {0}
        /\ DOMAIN g = 1..n /\ Len(g) = n
        /\ \A j \in 1..n : g[j].value \in Nat
        /\ \A j \in 2..k : g[j].width = 3
        /\ c = 1 => g[n].width = 2 /\ g[n].value = C
        /\ k = 1 => g[1].value = N
        /\ k = 2 => Thousands(g[1].value, g[2].value) = N
        /\ k = 3 => Thousands(Thousands(g[1].value, g[2].value), g[3].value) = N
    <2>1. /\ k \in {1, 2, 3} /\ c \in {0, 1}
          /\ DOMAIN g = 1..(k + c) /\ Len(g) = k + c
          /\ \A j \in 1..(k + c) : g[j].value \in Nat
          /\ \A j \in 2..k : g[j].width = 3
      BY DEF Spells
    <2>2. c = 1 => g[k + 1].width = 2 /\ g[k + 1].value = C
      BY DEF Spells
    <2>3. /\ k = 1 => g[1].value = N
          /\ k = 2 => Thousands(g[1].value, g[2].value) = N
          /\ k = 3 => Thousands(Thousands(g[1].value, g[2].value), g[3].value) = N
      BY DEF Spells
    <2> HIDE DEF g
    <2>4. n \in 1..4 /\ n \in Nat \ {0}
      BY <2>1
    <2>5. QED
      BY <2>1, <2>2, <2>3, <2>4
  <1>2. \A j \in 2..n : g[j].width \in Nat
    BY <1>1
  <1> HIDE DEF g, n
  <1>3. ASSUME NEW i \in 1..n
        PROVE  (i = n => W(i) = 0) /\ (i < n => W(i) = g[i + 1].width + W(i + 1))
    <2>0. n \in Nat \ {0} /\ DOMAIN g = 1..n /\ Len(g) = n
      BY <1>1
    <2>1. /\ i = n => WidthAfter(g, i) = 0
          /\ i < n => WidthAfter(g, i) = g[i + 1].width + WidthAfter(g, i + 1)
          /\ WidthAfter(g, i) \in Nat
      BY <1>2, <2>0, WidthsAfter
    <2>2. QED
      BY <2>1
  <1>4. Joined(g) = SumFunction(f)
    BY DEF Joined
  <1>5. DOMAIN f = 1..n /\ \A i \in 1..n : f[i] = g[i].value * 10^W(i)
    BY <1>1
  <1> HIDE DEF W, f
  <1>6. CASE c = 0 /\ k = 1
    <2>1. n = 1 /\ W(1) = 0
      BY <1>1, <1>3, <1>6 DEF n
    <2>2. f[1] = N /\ f[1] \in Nat
      <3>0. 1 \in 1..n
        BY <2>1
      <3>1. f[1] = g[1].value * 10^0
        BY <1>5, <2>1, <3>0, Zenon
      <3>2. g[1].value \in Nat
        BY <1>1, <3>0
      <3>3. QED
        BY <1>1, <1>6, <2>1, <3>1, <3>2, SMT
    <2>3. QED
      BY <1>1, <1>4, <1>5, <1>6, <2>1, <2>2, SumOfFew DEF g
  <1>7. CASE c = 1 /\ k = 1
    <2>1. n = 2 /\ W(2) = 0 /\ W(1) = 2
      BY <1>1, <1>3, <1>7 DEF n
    <2>2. f[1] = N * 100 /\ f[2] = C /\ f[1] \in Nat /\ f[2] \in Nat
      <3>0. 1 \in 1..n /\ 2 \in 1..n
        BY <2>1
      <3>1. f[1] = g[1].value * 10^2
        BY <1>5, <2>1, <3>0, Zenon
      <3>2. f[2] = g[2].value * 10^0
        BY <1>5, <2>1, <3>0, Zenon
      <3>3. g[1].value \in Nat /\ g[2].value \in Nat
        BY <1>1, <3>0
      <3>4. QED
        BY <1>1, <1>7, <2>1, <3>1, <3>2, <3>3, SMT
    <2>3. QED
      BY <1>1, <1>4, <1>5, <1>7, <2>1, <2>2, SumOfFew DEF g, W
  <1>8. CASE c = 0 /\ k = 2
    <2>1. n = 2 /\ W(2) = 0 /\ W(1) = 3
      BY <1>1, <1>3, <1>8 DEF n
    <2>2. f[1] = g[1].value * 1000 /\ f[2] = g[2].value /\ f[1] \in Nat /\ f[2] \in Nat
      <3>0. 1 \in 1..n /\ 2 \in 1..n
        BY <2>1
      <3>1. f[1] = g[1].value * 10^3
        BY <1>5, <2>1, <3>0, Zenon
      <3>2. f[2] = g[2].value * 10^0
        BY <1>5, <2>1, <3>0, Zenon
      <3>3. g[1].value \in Nat /\ g[2].value \in Nat
        BY <1>1, <3>0
      <3>4. QED
        BY <1>1, <1>8, <2>1, <3>1, <3>2, <3>3, SMT
    <2>3. QED
      BY <1>1, <1>4, <1>5, <1>8, <2>1, <2>2, SumOfFew DEF g, Thousands
  <1>9. CASE c = 1 /\ k = 2
    <2>1. n = 3 /\ W(3) = 0 /\ W(2) = 2 /\ W(1) = 5
      BY <1>1, <1>3, <1>9 DEF n
    <2>2. /\ f[1] = g[1].value * 1000 * 100 /\ f[2] = g[2].value * 100 /\ f[3] = C
          /\ f[1] \in Nat /\ f[2] \in Nat /\ f[3] \in Nat
      <3>0. 1 \in 1..n /\ 2 \in 1..n /\ 3 \in 1..n
        BY <2>1
      <3>1. f[1] = g[1].value * 10^5
        BY <1>5, <2>1, <3>0, Zenon
      <3>2. f[2] = g[2].value * 10^2
        BY <1>5, <2>1, <3>0, Zenon
      <3>3. f[3] = g[3].value * 10^0
        BY <1>5, <2>1, <3>0, Zenon
      <3>4. g[1].value \in Nat /\ g[2].value \in Nat /\ g[3].value \in Nat
        BY <1>1, <3>0
      <3>5. QED
        BY <1>1, <1>9, <2>1, <3>1, <3>2, <3>3, <3>4, SMT
    <2>3. QED
      BY <1>1, <1>4, <1>5, <1>9, <2>1, <2>2, SumOfFew DEF g, W, Thousands
  <1>10. CASE c = 0 /\ k = 3
    <2>1. n = 3 /\ W(3) = 0 /\ W(2) = 3 /\ W(1) = 6
      BY <1>1, <1>3, <1>10 DEF n
    <2>2. /\ f[1] = g[1].value * 1000 * 1000 /\ f[2] = g[2].value * 1000 /\ f[3] = g[3].value
          /\ f[1] \in Nat /\ f[2] \in Nat /\ f[3] \in Nat
      <3>0. 1 \in 1..n /\ 2 \in 1..n /\ 3 \in 1..n
        BY <2>1
      <3>1. f[1] = g[1].value * 10^6
        BY <1>5, <2>1, <3>0, Zenon
      <3>2. f[2] = g[2].value * 10^3
        BY <1>5, <2>1, <3>0, Zenon
      <3>3. f[3] = g[3].value * 10^0
        BY <1>5, <2>1, <3>0, Zenon
      <3>4. g[1].value \in Nat /\ g[2].value \in Nat /\ g[3].value \in Nat
        BY <1>1, <3>0
      <3>5. QED
        BY <1>1, <1>10, <2>1, <3>1, <3>2, <3>3, <3>4, SMT
    <2>3. QED
      BY <1>1, <1>4, <1>5, <1>10, <2>1, <2>2, SumOfFew DEF g, Thousands
  <1>11. CASE c = 1 /\ k = 3
    <2>1. n = 4 /\ W(4) = 0 /\ W(3) = 2 /\ W(2) = 5 /\ W(1) = 8
      BY <1>1, <1>3, <1>11 DEF n
    <2>2. /\ f[1] = g[1].value * 1000 * 1000 * 100 /\ f[2] = g[2].value * 1000 * 100
          /\ f[3] = g[3].value * 100 /\ f[4] = C
          /\ f[1] \in Nat /\ f[2] \in Nat /\ f[3] \in Nat /\ f[4] \in Nat
      <3>0. 1 \in 1..n /\ 2 \in 1..n /\ 3 \in 1..n /\ 4 \in 1..n
        BY <2>1
      <3>1. f[1] = g[1].value * 10^8
        BY <1>5, <2>1, <3>0, Zenon
      <3>2. f[2] = g[2].value * 10^5
        BY <1>5, <2>1, <3>0, Zenon
      <3>3. f[3] = g[3].value * 10^2
        BY <1>5, <2>1, <3>0, Zenon
      <3>4. f[4] = g[4].value * 10^0
        BY <1>5, <2>1, <3>0, Zenon
      <3>5. g[1].value \in Nat /\ g[2].value \in Nat /\ g[3].value \in Nat /\ g[4].value \in Nat
        BY <1>1, <3>0
      <3>6. QED
        BY <1>1, <1>11, <2>1, <3>1, <3>2, <3>3, <3>4, <3>5, SMT
    <2>3. SumFunction(f) = f[1] + f[2] + f[3] + f[4]
      <3>1. n \in 1..4 /\ DOMAIN f = 1..n /\ \A j \in 1..n : f[j] \in Int
        BY <1>5, <2>1, <2>2
      <3>2. QED
        BY <2>1, <3>1, SumOfFew
    <2>4. f[1] + f[2] + f[3] + f[4] = N * 100 + C
      <3>1. Thousands(Thousands(g[1].value, g[2].value), g[3].value) = N
        BY <1>1, <1>11
      <3>2. \A j \in {1, 2, 3} : g[j].value \in Nat
        BY <1>1, <2>1
      <3>3. PICK u \in Nat, v \in Nat, w \in Nat : u = g[1].value /\ v = g[2].value /\ w = g[3].value
        BY <3>2
      <3>4. (u * 1000 + v) * 1000 + w = N
        BY <3>1, <3>3 DEF Thousands
      <3>5. /\ f[1] = u * 1000 * 1000 * 100 /\ f[2] = v * 1000 * 100
            /\ f[3] = w * 100 /\ f[4] = C
        BY <2>2, <3>3
      <3>6. u * 1000 * 1000 * 100 + v * 1000 * 100 + w * 100 + C = N * 100 + C
        BY <3>4
      <3>7. QED
        BY <3>5, <3>6
    <2>5. QED
      BY <1>4, <1>11, <2>1, <2>3, <2>4 DEF g, W
  <1>12. QED
    BY <1>1, <1>6, <1>7, <1>8, <1>9, <1>10, <1>11

(* What is written so is read as it was meant.                             *)
LEMMA SpelledIsRead ==
    ASSUME NEW text, NEW N \in Nat, NEW C \in Nat, NEW k, NEW c, NEW thousands, NEW decimals,
           Spells(text, N, C, k, c, thousands, decimals), c = 0 => C = 0,
           NEW size, size = N * 100 + C
    PROVE  ParseAmount(text) = [ok |-> TRUE, value |-> IF text.sign = "none" THEN size ELSE -size]
  <1>1. k \in Nat /\ c \in {0, 1}
    BY DEF Spells
  <1>2. PointsOf(text) = IF c = 1 THEN {k} ELSE {}
    BY PointsFound
  <1>3. /\ Joined(text.groups) = IF c = 1 THEN N * 100 + C ELSE N
        /\ c = 1 => WidthAfter(text.groups, k) = 2
    BY JoinedFound
  <1>4. CASE c = 1
    <2>1. Cardinality({k}) = 1
      BY FS_Singleton
    <2>2. Max({k}) = k
      <3>1. {k} \in SUBSET Int /\ k \in {k} /\ \A y \in {k} : k >= y
        BY <1>1
      <3>2. QED
        BY <3>1, MaxIs
    <2>3. PointsOf(text) = {k} /\ {k} # {}
      BY <1>2, <1>4
    <2>4. size \div 10^(2 - 2) = size
      <3>1. 10^(2 - 2) = 1
        OBVIOUS
      <3>2. size \in Nat
        OBVIOUS
      <3>3. QED
        BY <3>1, <3>2
    <2>5. Joined(text.groups) = size /\ WidthAfter(text.groups, k) = 2
      BY <1>3, <1>4
    <2>6. ~(2 < 2) /\ ~(1 > 1)
      OBVIOUS
    <2>7. QED
      BY <2>1, <2>2, <2>3, <2>4, <2>5, <2>6, Zenon DEF ParseAmount
  <1>5. CASE c = 0
    <2>1. PointsOf(text) = {} /\ Cardinality({}) = 0
      BY <1>2, <1>5, FS_EmptySet
    <2>2. Joined(text.groups) * 10^(2 - 0) = size
      <3>1. 10^(2 - 0) = 100
        OBVIOUS
      <3>2. QED
        BY <1>3, <1>5, <3>1
    <2>3. 0 < 2 /\ ~(0 > 1)
      OBVIOUS
    <2>4. QED
      BY <2>1, <2>2, <2>3, Zenon DEF ParseAmount
  <1>6. QED
    BY <1>1, <1>4, <1>5

(* The width of up to three digits.                                        *)
LEMMA WidthOfFew ==
    ASSUME NEW n \in Nat, 1 <= n, n < 1000
    PROVE  Width(n) # 0
  <1>1. \E w \in 1..9 : 10^(w - 1) <= n /\ n < 10^w
    <2>1. 10^0 = 1 /\ 10^1 = 10 /\ 10^2 = 100 /\ 10^3 = 1000
      OBVIOUS
    <2>2. CASE n < 10
      BY <2>1, <2>2
    <2>3. CASE n >= 10 /\ n < 100
      BY <2>1, <2>3
    <2>4. CASE n >= 100
      BY <2>1, <2>4
    <2>5. QED
      BY <2>2, <2>3, <2>4
  <1>2. Width(n) \in 1..9
    BY <1>1 DEF Width
  <1>3. QED
    BY <1>2

(* The groups of a whole amount.                                           *)
GroupsIn(n) == [value : Nat, width : {Width(n), Width(n \div 1000), Width(n \div 1000000), 1, 3}]
Groups(whole, n, k) ==
    /\ k \in 1..3 /\ DOMAIN whole = 1..k /\ Len(whole) = k
    /\ whole \in Seq(GroupsIn(n)) /\ k \in Nat /\ k - 1 \in Nat
    /\ \A j \in 1..k : whole[j].value \in Nat
    /\ \A j \in 2..k : whole[j].width = 3
    /\ k = 1 => whole[1].value = n
    /\ k = 2 => Thousands(whole[1].value, whole[2].value) = n /\ whole[1].width # 0
    /\ k = 3 => Thousands(Thousands(whole[1].value, whole[2].value), whole[3].value) = n

LEMMA PlainIsGroups ==
    ASSUME NEW n \in Nat
    PROVE  Groups(Plain(n), n, 1)
  BY SMT DEF Groups, GroupsIn, Plain, Digits, Thousands

LEMMA GroupedIsGroups ==
    ASSUME NEW n \in Nat
    PROVE  \E k \in 1..3 : Groups(Grouped(n), n, k)
  <1>1. CASE n < 1000
    <2>1. Grouped(n) = <<Digits(n, IF n = 0 THEN 1 ELSE Width(n))>>
      BY <1>1, SMT DEF Grouped
    <2>2. Groups(Grouped(n), n, 1)
      BY <2>1, SMT DEF Groups, GroupsIn, Digits, Thousands
    <2>3. QED
      BY <2>2, SMT
  <1>2. CASE ~(n < 1000) /\ n < 1000000
    <2>1. Grouped(n) = <<Digits(n \div 1000, Width(n \div 1000)), Digits(n % 1000, 3)>>
      BY <1>2, SMT DEF Grouped
    <2>2. PICK a \in Nat : a = n \div 1000 /\ 1 <= a /\ a < 1000
      BY <1>2, SMT
    <2>3. PICK b \in Nat : b = n % 1000 /\ a * 1000 + b = n
      BY <2>2, SMT
    <2>4. Width(a) # 0
      BY <2>2, WidthOfFew
    <2>5. Grouped(n) = <<[value |-> a, width |-> Width(a)], [value |-> b, width |-> 3]>>
      BY <2>1, <2>2, <2>3, SMT DEF Digits
    <2>6. Groups(Grouped(n), n, 2)
      BY <2>2, <2>3, <2>4, <2>5, SMT DEF Groups, GroupsIn, Thousands
    <2>7. QED
      BY <2>6, SMT
  <1>3. CASE ~(n < 1000000)
    <2>1. Grouped(n) = <<Digits(n \div 1000000, Width(n \div 1000000)),
                         Digits((n \div 1000) % 1000, 3), Digits(n % 1000, 3)>>
      BY <1>3, SMT DEF Grouped
    <2>2. PICK a \in Nat : a = n \div 1000000
      BY SMT
    <2>3. PICK q \in Nat : q = n \div 1000
      BY SMT
    <2>4. PICK b \in Nat : b = q % 1000 /\ a * 1000 + b = q
      BY <2>2, <2>3, SMT
    <2>5. PICK d \in Nat : d = n % 1000 /\ q * 1000 + d = n
      BY <2>3, SMT
    <2>6. Grouped(n) = <<[value |-> a, width |-> Width(a)], [value |-> b, width |-> 3],
                         [value |-> d, width |-> 3]>>
      BY <2>1, <2>2, <2>3, <2>4, <2>5, SMT DEF Digits
    <2>7. (a * 1000 + b) * 1000 + d = n
      BY <2>4, <2>5, SMT
    <2>8. Groups(Grouped(n), n, 3)
      BY <2>2, <2>6, <2>7, SMT DEF Groups, GroupsIn, Thousands
    <2>9. QED
      BY <2>8, SMT
  <1>4. QED
    BY <1>1, <1>2, <1>3, SMT

(* Nothing, a sequence and one element more.                               *)
LEMMA Behind ==
    ASSUME NEW S, NEW s \in Seq(S), NEW m \in Nat, Len(s) = m
    PROVE  /\ <<>> \o s = s /\ s \o <<>> = s
           /\ \A x \in S : /\ DOMAIN (s \o <<x>>) = 1..(m + 1) /\ Len(s \o <<x>>) = m + 1
                           /\ \A i \in 1..m : (s \o <<x>>)[i] = s[i]
                           /\ (s \o <<x>>)[m + 1] = x
  <1>1. <<>> \o s = s /\ s \o <<>> = s
    BY ConcatEmptySeq
  <1>2. ASSUME NEW x \in S
        PROVE  /\ DOMAIN (s \o <<x>>) = 1..(m + 1) /\ Len(s \o <<x>>) = m + 1
               /\ \A i \in 1..m : (s \o <<x>>)[i] = s[i]
               /\ (s \o <<x>>)[m + 1] = x
    <2>1. <<x>> \in Seq(S) /\ Len(<<x>>) = 1 /\ <<x>>[1] = x
      OBVIOUS
    <2>2. /\ s \o <<x>> \in Seq(S) /\ Len(s \o <<x>>) = m + 1
          /\ \A i \in 1..(m + 1) : (s \o <<x>>)[i] = IF i <= m THEN s[i] ELSE <<x>>[i - m]
      BY <2>1, ConcatProperties
    <2>3. DOMAIN (s \o <<x>>) = 1..(m + 1)
      BY <2>2
    <2>4. (m + 1) - m = 1 /\ m + 1 \in 1..(m + 1) /\ ~(m + 1 <= m)
      OBVIOUS
    <2>5. QED
      BY <2>1, <2>2, <2>3, <2>4
  <1>3. QED
    BY <1>1, <1>2

(* Without cents, and with them.                                           *)
LEMMA WholeSpells ==
    ASSUME NEW whole, NEW N \in Nat, NEW k, Groups(whole, N, k), NEW thousands, k > 1 => thousands \in Marks,
           NEW sign, NEW text,
           text = [groups |-> whole, marks |-> [i \in 1..(k - 1) |-> thousands], sign |-> sign]
    PROVE  Spells(text, N, 0, k, 0, thousands, "")
  <1>1. /\ k \in 1..3 /\ k \in Nat /\ k - 1 \in Nat /\ DOMAIN whole = 1..k /\ Len(whole) = k
        /\ \A j \in 1..k : whole[j].value \in Nat
        /\ \A j \in 2..k : whole[j].width = 3
        /\ k = 1 => whole[1].value = N
        /\ k = 2 => Thousands(whole[1].value, whole[2].value) = N /\ whole[1].width # 0
        /\ k = 3 => Thousands(Thousands(whole[1].value, whole[2].value), whole[3].value) = N
    BY Zenon DEF Groups
  <1>2. /\ text.groups = whole /\ DOMAIN text.marks = 1..(k - 1)
        /\ \A i \in 1..(k - 1) : text.marks[i] = thousands
    OBVIOUS
  <1>3. k + 0 = k /\ k - 1 + 0 = k - 1 /\ ~(0 = 1) /\ 0 \in 0..1
    BY <1>1
  <1>4. /\ DOMAIN text.groups = 1..(k + 0) /\ Len(text.groups) = k + 0
        /\ DOMAIN text.marks = 1..(k - 1 + 0)
        /\ \A j \in 1..(k + 0) : text.groups[j].value \in Nat
    BY <1>1, <1>2, <1>3
  <1>5. QED
    BY <1>1, <1>2, <1>3, <1>4 DEF Spells

LEMMA CentsSpell ==
    ASSUME NEW whole, NEW N \in Nat, NEW k, Groups(whole, N, k), NEW thousands, k > 1 => thousands \in Marks,
           NEW C \in Nat, NEW decimals \in Marks, decimals # thousands, NEW sign, NEW text,
           text = [groups |-> whole \o <<[value |-> C, width |-> 2]>>,
                   marks |-> [i \in 1..(k - 1) |-> thousands] \o <<decimals>>, sign |-> sign]
    PROVE  Spells(text, N, C, k, 1, thousands, decimals)
  <1>1. /\ k \in 1..3 /\ k \in Nat /\ k - 1 \in Nat /\ DOMAIN whole = 1..k /\ Len(whole) = k
        /\ \A j \in 1..k : whole[j].value \in Nat
        /\ \A j \in 2..k : whole[j].width = 3
        /\ k = 1 => whole[1].value = N
        /\ k = 2 => Thousands(whole[1].value, whole[2].value) = N /\ whole[1].width # 0
        /\ k = 3 => Thousands(Thousands(whole[1].value, whole[2].value), whole[3].value) = N
    BY Zenon DEF Groups
  <1> DEFINE cents == [value |-> C, width |-> 2]
             S == GroupsIn(N) \cup {cents}
             groups == whole \o <<cents>>
             before == [i \in 1..(k - 1) |-> thousands]
             marks == before \o <<decimals>>
  <1>2. /\ DOMAIN groups = 1..(k + 1) /\ Len(groups) = k + 1
        /\ \A i \in 1..k : groups[i] = whole[i]
        /\ groups[k + 1] = cents
    <2>1. whole \in Seq(S) /\ cents \in S
      <3>1. whole \in Seq(GroupsIn(N))
        BY DEF Groups
      <3> HIDE DEF cents
      <3>2. QED
        BY <3>1
    <2> HIDE DEF S, cents
    <2>2. QED
      BY <1>1, <2>1, Behind
  <1>3. /\ DOMAIN marks = 1..((k - 1) + 1) /\ Len(marks) = (k - 1) + 1
        /\ \A i \in 1..(k - 1) : marks[i] = thousands
        /\ marks[(k - 1) + 1] = decimals
    <2>1. before \in Seq({thousands, decimals}) /\ Len(before) = k - 1 /\ decimals \in {thousands, decimals}
      BY <1>1
    <2>2. \A i \in 1..(k - 1) : before[i] = thousands
      OBVIOUS
    <2> HIDE DEF before
    <2> DEFINE T == {thousands, decimals}
               m == k - 1
    <2>3. before \in Seq(T) /\ m \in Nat /\ Len(before) = m /\ decimals \in T
      BY <1>1, <2>1
    <2> HIDE DEF T, m
    <2>4. /\ DOMAIN (before \o <<decimals>>) = 1..(m + 1) /\ Len(before \o <<decimals>>) = m + 1
          /\ \A i \in 1..m : (before \o <<decimals>>)[i] = before[i]
          /\ (before \o <<decimals>>)[m + 1] = decimals
      BY <2>3, Behind
    <2>5. QED
      BY <2>2, <2>4 DEF m
  <1>4. text.groups = groups /\ text.marks = marks /\ cents.value = C /\ cents.width = 2
    OBVIOUS
  <1> HIDE DEF groups, marks, cents
  <1>5. (k - 1) + 1 = k /\ k - 1 + 1 = k /\ 1 \in 0..1
    BY <1>1
  <1>6. \A j \in 1..(k + 1) : groups[j].value \in Nat
    <2>1. \A j \in 1..(k + 1) : j \in 1..k \/ j = k + 1
      BY <1>1
    <2>2. QED
      BY <1>1, <1>2, <1>4, <2>1
  <1>7. \A j \in 2..k : groups[j].width = 3
    <2>1. \A j \in 2..k : j \in 1..k
      BY <1>1
    <2>2. QED
      BY <1>1, <1>2, <2>1, Zenon
  <1>8. /\ k = 1 => groups[1] = whole[1]
        /\ k = 2 => groups[1] = whole[1] /\ groups[2] = whole[2]
        /\ k = 3 => groups[1] = whole[1] /\ groups[2] = whole[2] /\ groups[3] = whole[3]
    <2>1. /\ k = 1 => 1 \in 1..k
          /\ k = 2 => 1 \in 1..k /\ 2 \in 1..k
          /\ k = 3 => 1 \in 1..k /\ 2 \in 1..k /\ 3 \in 1..k
      OBVIOUS
    <2>2. QED
      BY <1>2, <2>1
  <1>9. /\ k = 1 => groups[1].value = N
        /\ k = 2 => Thousands(groups[1].value, groups[2].value) = N /\ groups[1].width # 0
        /\ k = 3 => Thousands(Thousands(groups[1].value, groups[2].value), groups[3].value) = N
    <2>1. k = 1 => groups[1].value = N
      BY <1>1, <1>8
    <2>2. k = 2 => Thousands(groups[1].value, groups[2].value) = N /\ groups[1].width # 0
      BY <1>1, <1>8
    <2>3. k = 3 => Thousands(Thousands(groups[1].value, groups[2].value), groups[3].value) = N
      BY <1>1, <1>8
    <2>4. QED
      BY <2>1, <2>2, <2>3
  <1>10. /\ DOMAIN text.marks = 1..(k - 1 + 1) /\ text.marks[k] = decimals
         /\ \A i \in 1..(k - 1) : text.marks[i] = thousands
    BY <1>3, <1>4, <1>5
  <1>11. /\ DOMAIN text.groups = 1..(k + 1) /\ Len(text.groups) = k + 1
         /\ \A j \in 1..(k + 1) : text.groups[j].value \in Nat
         /\ \A j \in 2..k : text.groups[j].width = 3
         /\ text.groups[k + 1].width = 2 /\ text.groups[k + 1].value = C
    BY <1>2, <1>4, <1>6, <1>7
  <1>12. QED
    BY <1>1, <1>4, <1>5, <1>9, <1>10, <1>11 DEF Spells

(* A movement as it is written, with whole cents and a mark or without.    *)
LEMMA WrittenIsRead ==
    ASSUME NEW amount \in Int, NEW habit \in Habits, NEW sign \in Signs, NEW prefix \in {"none", "name"},
           CanWrite(amount, habit)
    PROVE  /\ ParseAmount(Write(amount, habit, sign, prefix)) = [ok |-> TRUE, value |-> amount]
           /\ Write(amount, habit, sign, prefix) # Blank
  <1> DEFINE size == IF amount < 0 THEN -amount ELSE amount
             N == size \div 100
             C == size % 100
             whole == IF habit.thousands = "" THEN Plain(N) ELSE Grouped(N)
             cents == IF habit.decimals = "" THEN <<>> ELSE <<Digits(C, 2)>>
             before == [i \in 1..(Len(whole) - 1) |-> habit.thousands]
             marks == before \o (IF cents = <<>> THEN <<>> ELSE <<habit.decimals>>)
             text == Write(amount, habit, sign, prefix)
  <1>1. /\ text.groups = <<>> \o whole \o cents
        /\ text.marks = <<>> \o marks
        /\ text.sign = IF amount < 0 THEN sign ELSE "none"
        /\ text = [groups |-> <<>> \o whole \o cents, marks |-> <<>> \o marks,
                   sign |-> IF amount < 0 THEN sign ELSE "none"]
    <2>1. prefix # "short name"
      BY Zenon
    <2>2. text = [groups |-> <<>> \o whole \o cents, marks |-> <<>> \o marks,
                  sign |-> IF amount < 0 THEN sign ELSE "none"]
      BY <2>1, Zenon DEF Write
    <2> HIDE DEF whole, cents, marks, text
    <2>3. QED
      BY <2>2
  <1>2. /\ habit.thousands \in Marks \cup {""} /\ habit.decimals \in Marks \cup {""}
        /\ habit.thousands = habit.decimals => habit.thousands = ""
        /\ "" \notin Marks
    BY DEF Habits, Marks
  <1>3. size \in Nat /\ N \in Nat /\ C \in Nat /\ size = N * 100 + C
    <2>1. size \in Nat
      OBVIOUS
    <2> HIDE DEF size
    <2>2. QED
      BY <2>1
  <1>4. habit.decimals = "" => C = 0
    <2>1. habit.decimals = "" => amount % 100 = 0
      BY DEF CanWrite
    <2>2. ASSUME amount % 100 = 0 PROVE (IF amount < 0 THEN -amount ELSE amount) % 100 = 0
      BY <2>2
    <2>3. QED
      BY <2>1, <2>2
  <1>5. PICK k \in 1..3 : Groups(whole, N, k) /\ (k > 1 => habit.thousands \in Marks)
    <2> HIDE DEF N
    <2>1. CASE habit.thousands = ""
      <3>1. Groups(Plain(N), N, 1)
        BY <1>3, PlainIsGroups
      <3>2. 1 \in 1..3 /\ ~(1 > 1)
        OBVIOUS
      <3>3. whole = Plain(N)
        BY <2>1
      <3> HIDE DEF whole
      <3>4. QED
        BY <3>1, <3>2, <3>3
    <2>2. CASE habit.thousands # ""
      <3>1. \E k \in 1..3 : Groups(Grouped(N), N, k)
        BY <1>3, GroupedIsGroups
      <3>2. whole = Grouped(N) /\ habit.thousands \in Marks
        BY <1>2, <2>2
      <3> HIDE DEF whole
      <3>3. QED
        BY <3>1, <3>2
    <2>3. QED
      BY <2>1, <2>2
  <1> HIDE DEF whole
  <1>6. /\ whole \in Seq(GroupsIn(N)) /\ k \in Nat /\ k - 1 \in Nat /\ Len(whole) = k /\ DOMAIN whole = 1..k
    <2> HIDE DEF N
    <2>1. QED
      BY <1>5 DEF Groups
  <1>7. <<>> \o whole = whole /\ whole \o <<>> = whole
    <2> HIDE DEF N
    <2>1. QED
      BY <1>6, Behind
  <1>8. before = [i \in 1..(k - 1) |-> habit.thousands]
    BY <1>6
  <1>9. before \in Seq({habit.thousands, habit.decimals})
    BY <1>6
  <1> HIDE DEF before
  <1>10. \A t \in Seq({habit.thousands, habit.decimals}) : <<>> \o t = t /\ t \o <<>> = t
    BY ConcatEmptySeq
  <1>14. size = IF amount < 0 THEN -amount ELSE amount
    OBVIOUS
  <1> HIDE DEF N, C, size, text
  <1>15. (IF text.sign = "none" THEN size ELSE -size) = amount
    <2>1. sign # "none"
      BY DEF Signs
    <2>2. amount < 0 => -(-amount) = amount
      OBVIOUS
    <2>3. QED
      BY <1>1, <1>14, <2>1, <2>2
  <1>16. text = Write(amount, habit, sign, prefix)
    BY DEF text
  <1>11. CASE habit.decimals = ""
    <2>1. cents = <<>>
      BY <1>11
    <2>2. text.groups = whole /\ text.marks = before
      BY <1>1, <1>7, <1>9, <1>10, <2>1
    <2>3. Spells([groups |-> whole, marks |-> [i \in 1..(k - 1) |-> habit.thousands], sign |-> text.sign], N, 0, k, 0, habit.thousands, "")
      BY <1>3, <1>5, WholeSpells
    <2> HIDE DEF cents
    <2>4. text = [groups |-> whole, marks |-> [i \in 1..(k - 1) |-> habit.thousands], sign |-> text.sign]
      BY <1>1, <1>7, <1>8, <1>9, <1>10, <2>1, <2>2
    <2>5. Spells(text, N, 0, k, 0, habit.thousands, "")
      BY <2>3, <2>4
    <2>6. size = N * 100 + 0 /\ 0 \in Nat /\ (0 = 0 => 0 = 0)
      BY <1>3, <1>4, <1>11
    <2>7. ParseAmount(text) = [ok |-> TRUE, value |-> IF text.sign = "none" THEN size ELSE -size]
      BY <1>3, <2>5, <2>6, SpelledIsRead
    <2>8. text # Blank
      BY <1>6, <2>2 DEF Blank
    <2>9. QED
      BY <1>15, <1>16, <2>7, <2>8
  <1>12. CASE habit.decimals # ""
    <2>1. cents = <<[value |-> C, width |-> 2]>>
      BY <1>12 DEF Digits
    <2>2. cents # <<>>
      BY <2>1
    <2> HIDE DEF cents
    <2>3. marks = before \o <<habit.decimals>>
      BY <2>2
    <2>4. before \o <<habit.decimals>> \in Seq({habit.thousands, habit.decimals})
      BY <1>9
    <2>5. text.groups = whole \o <<[value |-> C, width |-> 2]>> /\ text.marks = before \o <<habit.decimals>>
      BY <1>1, <1>7, <1>10, <2>1, <2>3, <2>4
    <2>6. text = [groups |-> whole \o <<[value |-> C, width |-> 2]>>,
                  marks |-> [i \in 1..(k - 1) |-> habit.thousands] \o <<habit.decimals>>, sign |-> text.sign]
      BY <1>1, <1>7, <1>8, <1>10, <2>1, <2>3, <2>4
    <2>7. habit.decimals \in Marks /\ habit.decimals # habit.thousands
      BY <1>2, <1>12
    <2>8. Spells(text, N, C, k, 1, habit.thousands, habit.decimals)
      BY <1>3, <1>5, <2>6, <2>7, CentsSpell
    <2>9. ParseAmount(text) = [ok |-> TRUE, value |-> IF text.sign = "none" THEN size ELSE -size]
      <3>1. 1 = 0 => C = 0
        OBVIOUS
      <3>2. QED
        BY <1>3, <2>8, <3>1, SpelledIsRead
    <2>10. text # Blank
      <3>1. DOMAIN text.groups = 1..(k + 1)
        BY <2>8 DEF Spells
      <3>2. QED
        BY <1>6, <3>1 DEF Blank
    <2>11. QED
      BY <1>15, <1>16, <2>9, <2>10
  <1>13. QED
    BY <1>11, <1>12

(* A blank cell, and one in which an amount is written.                    *)
GivenAmount(value) == [given |-> TRUE, ok |-> TRUE, value |-> value]
NoAmountGiven == [given |-> FALSE, ok |-> TRUE, value |-> 0]

LEMMA CellIsRead ==
    ASSUME NEW amount \in Int, NEW habit \in Habits, NEW sign \in Signs, NEW prefix \in {"none", "name"},
           CanWrite(amount, habit)
    PROVE  OptionalAmount(Write(amount, habit, sign, prefix)) = GivenAmount(amount)
  <1> DEFINE text == Write(amount, habit, sign, prefix)
             parsed == ParseAmount(text)
  <1>1. parsed = [ok |-> TRUE, value |-> amount] /\ text # Blank
    BY WrittenIsRead, Zenon
  <1>2. OptionalAmount(text) = [given |-> TRUE, ok |-> parsed.ok, value |-> parsed.value]
    BY <1>1, Zenon DEF OptionalAmount
  <1> HIDE DEF text, parsed
  <1>3. parsed.ok = TRUE /\ parsed.value = amount
    BY <1>1
  <1>4. OptionalAmount(text) = GivenAmount(amount)
    BY <1>2, <1>3, Zenon DEF GivenAmount
  <1>5. QED
    BY <1>4, Zenon DEF text

LEMMA BlankIsRead == OptionalAmount(Blank) = NoAmountGiven
  BY DEF OptionalAmount, NoAmountGiven

(* Of two columns the one with an amount counts.                           *)
LEMMA SplitIsRead ==
    ASSUME NEW a \in Int, a > 0, NEW zero \in {GivenAmount(0), NoAmountGiven},
           NEW cell, cell = GivenAmount(a)
    PROVE  /\ ReadSplit(cell, zero) = RowRead("expense", a)
           /\ ReadSplit(zero, cell) = RowRead("income", a)
  BY DEF ReadSplit, Size, GivenAmount, NoAmountGiven

(* What stands in a row is read as the movement.                           *)
LEMMA RowIsRead ==
    ASSUME NEW w \in WrittenRows, w.prefix \in {"none", "name"}
    PROVE  ReadAmount(w.columns, RowsOf(w)) = Expected(w)
  <1> DEFINE a == w.amount
             size == Size(a)
             text == Write(a, w.habit, w.sign, w.prefix)
             sized == Write(size, w.habit, w.sign, w.prefix)
             other == IF w.filled THEN Zero(w.habit) ELSE Blank
             row == RowsOf(w)
  <1>1. /\ a \in Int \ {0} /\ w.habit \in Habits /\ w.sign \in Signs /\ CanWrite(a, w.habit)
        /\ w.columns = "out" => a < 0
        /\ w.columns = "in" => a > 0
    <2>1. /\ w.amount \in Movements /\ w.habit \in Habits /\ w.sign \in Signs /\ CanWrite(w.amount, w.habit)
          /\ w.columns = "out" => w.amount < 0
          /\ w.columns = "in" => w.amount > 0
      BY Zenon DEF WrittenRows
    <2>2. QED
      BY <2>1, StatementsAssumption, Zenon
  <1>3. /\ row.amount = text
        /\ row.out = IF a < 0 THEN sized ELSE other
        /\ row.in = IF a < 0 THEN other ELSE sized
    BY Zenon DEF RowsOf
  <1>4. OptionalAmount(text) = GivenAmount(a)
    <2>1. a \in Int
      BY <1>1, Zenon
    <2> HIDE DEF a
    <2>2. QED
      BY <1>1, <2>1, CellIsRead, WrittenIsRead, Zenon
  <1>5. size \in Int /\ size > 0 /\ CanWrite(size, w.habit)
    <2>1. \A n \in Int \ {0} : Size(n) \in Int /\ Size(n) > 0 /\ (n % 100 = 0 => Size(n) % 100 = 0)
      BY DEF Size
    <2> HIDE DEF a
    <2>2. QED
      BY <1>1, <2>1, Zenon DEF CanWrite
  <1>6. OptionalAmount(sized) = GivenAmount(size)
    <2> HIDE DEF a, size
    <2>1. QED
      BY <1>1, <1>5, CellIsRead, Zenon
  <1>7. OptionalAmount(other) \in {GivenAmount(0), NoAmountGiven}
    <2>1. 0 \in Int /\ "minus" \in Signs /\ "none" \in {"none", "name"} /\ \A h : CanWrite(0, h)
      BY DEF Signs, CanWrite
    <2>2. OptionalAmount(Zero(w.habit)) = GivenAmount(0)
      BY <1>1, <2>1, CellIsRead, Zenon DEF Zero
    <2>3. QED
      BY <2>2, BlankIsRead, Zenon
  <1>8. Expected(w) = IF a < 0 THEN RowRead("expense", size) ELSE RowRead("income", size)
    BY Zenon DEF Expected
  <1>9. size = IF a < 0 THEN -a ELSE a
    BY Zenon DEF Size
  <1> HIDE DEF a, size, text, sized, other, row
  <1>10. CASE w.columns = "signed"
    <2>1. ReadAmount(w.columns, row) = IF a < 0 THEN RowRead("expense", -a) ELSE RowRead("income", a)
      <3>1. /\ OptionalAmount(row.amount).ok /\ OptionalAmount(row.amount).value = a
            /\ OptionalAmount(row.amount).given
        <4>1. GivenAmount(a).given /\ GivenAmount(a).ok /\ GivenAmount(a).value = a
          BY DEF GivenAmount
        <4>2. QED
          BY <1>3, <1>4, <4>1, Zenon
      <3>2. QED
        BY <1>10, <3>1, Zenon DEF ReadAmount
    <2>2. QED
      BY <1>8, <1>9, <2>1, Zenon DEF row
  <1>11. CASE w.columns # "signed"
    <2> DEFINE out == OptionalAmount(IF w.columns = "in" THEN Blank ELSE row.out)
               in == OptionalAmount(IF w.columns = "out" THEN Blank ELSE row.in)
    <2>1. ReadAmount(w.columns, row) =
            IF ~out.ok \/ ~in.ok THEN BadAmount
            ELSE IF ~out.given /\ ~in.given THEN EmptyAmount ELSE ReadSplit(out, in)
      BY <1>11, Zenon DEF ReadAmount
    <2>2. ~(size = 0) /\ ~(a < 0 /\ a > 0)
      BY <1>1, <1>5, SMT
    <2>3. CASE a < 0
      <3>1. out = GivenAmount(size) /\ in \in {GivenAmount(0), NoAmountGiven}
        BY <1>1, <1>3, <1>6, <1>7, <2>2, <2>3, BlankIsRead, Zenon
      <3> HIDE DEF out, in
      <3>2. ReadAmount(w.columns, row) = ReadSplit(out, in)
        <4>1. out.ok /\ in.ok /\ (out.given \/ in.given)
          BY <3>1 DEF GivenAmount, NoAmountGiven
        <4>2. QED
          BY <2>1, <4>1, Zenon
      <3>3. ReadSplit(out, in) = RowRead("expense", size)
        BY <1>5, <3>1, SplitIsRead, Zenon
      <3>4. QED
        BY <1>8, <2>3, <3>2, <3>3, Zenon DEF row
    <2>4. CASE ~(a < 0)
      <3>1. out \in {GivenAmount(0), NoAmountGiven} /\ in = GivenAmount(size)
        BY <1>1, <1>3, <1>6, <1>7, <2>4, BlankIsRead, Zenon
      <3> HIDE DEF out, in
      <3>2. ReadAmount(w.columns, row) = ReadSplit(out, in)
        <4>1. out.ok /\ in.ok /\ (out.given \/ in.given)
          BY <3>1 DEF GivenAmount, NoAmountGiven
        <4>2. QED
          BY <2>1, <4>1, Zenon
      <3>3. ReadSplit(out, in) = RowRead("income", size)
        BY <1>5, <3>1, SplitIsRead, Zenon
      <3>4. QED
        BY <1>8, <2>4, <3>2, <3>3, Zenon DEF row
    <2>5. QED
      BY <2>3, <2>4, Zenon
  <1>12. QED
    BY <1>10, <1>11, Zenon

(* A row is read as ReadAmount says, and its reading stays.                *)
ReadIsOf(w, r) ==
    \/ r = NotRead
    \/ r = IF w.day # "read" THEN RowRead("bad date", 0) ELSE ReadAmount(w.columns, RowsOf(w))
ReadingInv == written \in WrittenRows /\ ReadIsOf(written, read)

(* Property: what a bank writes is what is read, whatever its marks between *)
(* thousands and before cents, its sign and its columns (parse_amount,      *)
(* read_amount), for every amount of money.                                 *)
THEOREM RowsAreReadBack == StatementsSpec => []RowsReadBack
  <1>1. StatementsInit => ReadingInv
    BY Zenon DEF StatementsInit, ReadingInv, ReadIsOf
  <1>2. ReadingInv /\ [Transform]_statementsVars => ReadingInv'
    <2> SUFFICES ASSUME ReadingInv, [Transform]_statementsVars PROVE ReadingInv'
      OBVIOUS
    <2>1. CASE Transform
      BY <2>1, Zenon DEF Transform, ReadingInv, ReadIsOf
    <2>2. CASE UNCHANGED statementsVars
      BY <2>2, Zenon DEF statementsVars, ReadingInv, ReadIsOf
    <2>3. QED
      BY <2>1, <2>2
  <1>3. ReadingInv => RowsReadBack
    <2>1. \A w \in WrittenRows : w.prefix # "short name" => w.prefix \in {"none", "name"}
      BY Zenon DEF WrittenRows, Spelled
    <2>2. QED
      BY <2>1, RowIsRead, Zenon DEF ReadingInv, ReadIsOf, RowsReadBack
  <1>4. QED
    BY <1>1, <1>2, <1>3, PTL DEF StatementsSpec

(***************************************************************************)
(* The instance the run checks: a behaviour is about one part.             *)
(***************************************************************************)
LEMMA PartsOfLasting == LastingSpec => ImportsSpec /\ StatementsSpec /\ ChatStreamSpec
  <1>1. LastingInit => ImportsInit /\ StatementsInit /\ ChatStreamInit
    BY DEF LastingInit
  <1>2. [LastingNext]_lastingVars =>
          [ImportsNext]_importsVars /\ [Transform]_statementsVars /\ [ChatStreamNext]_chatStreamVars
    BY DEF LastingNext, lastingVars
  <1>3. QED
    BY <1>1, <1>2, PTL DEF LastingSpec, ImportsSpec, StatementsSpec, ChatStreamSpec

(* Batches and streams are well typed, however their callers leave them.   *)
THEOREM LastingTyped == LastingSpec => []LastingTypeOK
  <1>1. ImportsTypeOK /\ ChatStreamTypeOK => LastingTypeOK
    BY DEF LastingTypeOK, Of
  <1>2. QED
    BY <1>1, PartsOfLasting, ImportsTyped, StreamTyped, PTL

(* A job that ended says of its file what was done with each row, and what *)
(* a caller of the chat is told and what is stored say the same.           *)
THEOREM EndsTell == LastingSpec => []EndsTellTruth
  <1>1. JobTellsUnlessAborted /\ OneLastEvent /\ ArtifactFollowsResult /\ StoredIsWhatWasSent => EndsTellTruth
    BY DEF EndsTellTruth, Of
  <1>2. QED
    BY <1>1, PartsOfLasting, JobsTell, StreamTells, PTL

(* A row of a statement is read as the movement the bank wrote, whatever   *)
(* its marks, its sign and its columns.                                    *)
THEOREM RowsAreReadAlways == LastingSpec => []RowsAreRead
  <1>1. RowsReadBack => RowsAreRead
    BY DEF RowsAreRead, Of
  <1>2. QED
    BY <1>1, PartsOfLasting, RowsAreReadBack, PTL
=============================================================================
