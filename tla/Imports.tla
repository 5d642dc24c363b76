------------------------------- MODULE Imports -------------------------------
(***************************************************************************)
(* Importing many rows at once (transactions/service.rs bulk_create and    *)
(* import_rows), and the job a statement import runs as (statement.rs).    *)
(* A batch is one database transaction: each row is read, looked up by its *)
(* fingerprint, put under the locks of its wallets and inserted, and the   *)
(* unique index has the last word.  Batches run beside each other, the     *)
(* process may stop, and the row of a job is all its user ever sees.       *)
(***************************************************************************)
EXTENDS Integers, Sequences, FiniteSets, FiniteSetsExt

CONSTANTS
    Jobs,            \* batches; a retry is another batch of the same rows
    Statements,      \* those with a job row
    File,            \* the rows of each: wallets, fingerprint and what is wrong with them
    Purses,          \* wallets, ordered like their identifiers
    Prints,
    NoJob,
    MaxLosses        \* bound: crashes, lost commit answers and lost job updates

ASSUME ImportsAssumption ==
    /\ Statements \subseteq Jobs
    /\ NoJob \notin Jobs
    /\ Purses \subseteq Nat
    /\ MaxLosses \in Nat
    /\ \A j \in Jobs : File[j] \in
          Seq([wallets : SUBSET Purses, print : Prints,
               flaw : {"none", "unreadable", "unstorable"}])

VARIABLES
    held,        \* live rows per fingerprint
    purses,      \* wallets not deleted
    lockedBy,    \* the batch that holds a wallet's row, or NoJob
    batch,       \* what each batch is doing, its open transaction and its outcomes
    jobRow,      \* transaction_import_jobs.status, and the outcomes it reports
    committed,   \* history: the fingerprints each batch committed
    losses

importsVars == <<held, purses, lockedBy, batch, jobRow, committed, losses>>

NoBatch == [pc |-> "idle", inserted |-> {}, outcomes |-> <<>>, verdict |-> "none",
            aborted |-> FALSE]

ImportsInit ==
    /\ held = [p \in Prints |-> 0]
    /\ purses = Purses
    /\ lockedBy = [w \in Purses |-> NoJob]
    /\ batch = [j \in Jobs |-> NoBatch]
    /\ jobRow = [j \in Jobs |-> [status |-> "none", outcomes |-> <<>>]]
    /\ committed = [j \in Jobs |-> {}]
    /\ losses = 0

At(j, pc) == batch[j].pc = pc
Row(j) == File[j][Len(batch[j].outcomes) + 1]
MoreRows(j) == Len(batch[j].outcomes) < Len(File[j])
Unheld(j) == {w \in Row(j).wallets : lockedBy[w] # j}
Lost == losses < MaxLosses /\ losses' = losses + 1

\* The row of index Len(outcomes) + 1 is dealt with.
PushOutcome(j, outcome, inserted) ==
    batch' = [batch EXCEPT ![j].pc = "row", ![j].outcomes = Append(@, outcome),
                           ![j].inserted = inserted]

FreeLocks(j) == lockedBy' = [w \in Purses |-> IF lockedBy[w] = j THEN NoJob ELSE lockedBy[w]]

\* What is left of a batch whose work is over: a verdict to record.
Conclude(j, verdict) ==
    batch' = [batch EXCEPT ![j].pc = "record", ![j].verdict = verdict, ![j].inserted = {},
                           ![j].outcomes = IF verdict = "failed" THEN <<>> ELSE @]

(* Mutation: the transaction of a failed batch is left open. *)
FailHolding(j) ==
    /\ Conclude(j, "failed")
    /\ UNCHANGED <<held, purses, lockedBy, jobRow, committed, losses>>

FailBatch(j) ==
    /\ Conclude(j, "failed")
    /\ FreeLocks(j)
    /\ UNCHANGED <<held, purses, jobRow, committed, losses>>

(***************************************************************************)
(* The batch.                                                              *)
(***************************************************************************)
\* The wallet of a statement is there; its job row is written and the work
\* goes on in a task.
StartImport(j) ==
    /\ At(j, "idle")
    /\ j \in Statements => \A i \in DOMAIN File[j] : File[j][i].wallets \subseteq purses
    /\ batch' = [batch EXCEPT ![j].pc = IF j \in Statements THEN "extract" ELSE "row"]
    /\ jobRow' = IF j \in Statements THEN [jobRow EXCEPT ![j].status = "pending"] ELSE jobRow
    /\ UNCHANGED <<held, purses, lockedBy, committed, losses>>

Extract(j) ==
    /\ At(j, "extract")
    /\ batch' = [batch EXCEPT ![j].pc = "row"]
    /\ UNCHANGED <<held, purses, lockedBy, jobRow, committed, losses>>

ExtractNothing(j) == At(j, "extract") /\ FailBatch(j)

\* transform and prepare_import_row: a row that cannot be read, or whose
\* wallet is gone, is skipped; so is every row after the transaction aborted.
SkipRow(j) ==
    /\ At(j, "row")
    /\ MoreRows(j)
    /\ \/ Row(j).flaw = "unreadable"
       \/ ~(Row(j).wallets \subseteq purses)
       \/ batch[j].aborted
    /\ PushOutcome(j, "skipped", batch[j].inserted)
    /\ UNCHANGED <<held, purses, lockedBy, jobRow, committed, losses>>

\* A query of prepare_import_row fails.  That, too, skips the row, but for
\* PostgreSQL the transaction is over: its rows and its locks are gone.
AbortRow(j) ==
    /\ At(j, "row")
    /\ MoreRows(j)
    /\ Row(j).flaw # "unreadable"
    /\ ~batch[j].aborted
    /\ Lost
    /\ batch' = [batch EXCEPT ![j].outcomes = Append(@, "skipped"), ![j].inserted = {},
                           ![j].aborted = TRUE]
    /\ FreeLocks(j)
    /\ UNCHANGED <<held, purses, jobRow, committed>>

Readable(j) ==
    /\ At(j, "row")
    /\ MoreRows(j)
    /\ Row(j).flaw # "unreadable"
    /\ Row(j).wallets \subseteq purses
    /\ ~batch[j].aborted

\* existing_fingerprints sees what is committed and what this batch inserted.
Seen(j) == held[Row(j).print] > 0 \/ Row(j).print \in batch[j].inserted

CountDuplicate(j) ==
    /\ Readable(j)
    /\ Seen(j)
    /\ PushOutcome(j, "duplicate", batch[j].inserted)
    /\ UNCHANGED <<held, purses, lockedBy, jobRow, committed, losses>>

TakeRow(j) ==
    /\ Readable(j)
    /\ ~Seen(j)
    /\ batch' = [batch EXCEPT ![j].pc = "lock"]
    /\ UNCHANGED <<held, purses, lockedBy, jobRow, committed, losses>>

\* apply_moves: the wallets of a row in the order of their identifiers, kept
\* to the end of the batch.  One that was deleted meanwhile fails the batch.
LockWallet(j) ==
    LET w == Min(Unheld(j))
    IN  /\ At(j, "lock")
        /\ Unheld(j) # {}
        /\ lockedBy[w] = NoJob
        /\ w \in purses
        /\ lockedBy' = [lockedBy EXCEPT ![w] = j]
        /\ UNCHANGED <<held, purses, batch, jobRow, committed, losses>>

MissWallet(j) == At(j, "lock") /\ ~(Row(j).wallets \subseteq purses) /\ FailBatch(j)

(* Mutation: the insert goes to the pool, not to the transaction. *)
InsertOnPool(j) ==
    /\ At(j, "lock")
    /\ Unheld(j) = {}
    /\ Row(j).flaw = "none"
    /\ held[Row(j).print] = 0
    /\ held' = [held EXCEPT ![Row(j).print] = 1]
    /\ committed' = [committed EXCEPT ![j] = @ \cup {Row(j).print}]
    /\ PushOutcome(j, "imported", batch[j].inserted)
    /\ UNCHANGED <<purses, lockedBy, jobRow, losses>>

(* Mutation: there is no unique index. *)
InsertUnindexed(j) ==
    /\ At(j, "lock")
    /\ Unheld(j) = {}
    /\ Row(j).flaw = "none"
    /\ PushOutcome(j, "imported", batch[j].inserted \cup {Row(j).print})
    /\ UNCHANGED <<held, purses, lockedBy, jobRow, committed, losses>>

\* transactions_fingerprint_idx: an insert waits for another transaction's
\* row of the same fingerprint.
IndexFree(j) == \A k \in Jobs \ {j} : Row(j).print \notin batch[k].inserted

InsertRow(j) ==
    /\ At(j, "lock")
    /\ Unheld(j) = {}
    /\ Row(j).flaw = "none"
    /\ IndexFree(j)
    /\ held[Row(j).print] = 0
    /\ PushOutcome(j, "imported", batch[j].inserted \cup {Row(j).print})
    /\ UNCHANGED <<held, purses, lockedBy, jobRow, committed, losses>>

\* A row committed since the look-up, and an amount the column cannot hold.
RejectRow(j) ==
    /\ At(j, "lock")
    /\ Unheld(j) = {}
    /\ IndexFree(j)
    /\ held[Row(j).print] > 0 \/ Row(j).flaw = "unstorable"
    /\ FailBatch(j)

\* Of a transaction that aborted the commit answers as of any other.
CommitBatch(j, verdict) ==
    /\ At(j, "row")
    /\ ~MoreRows(j)
    /\ held' = [p \in Prints |-> held[p] + IF p \in batch[j].inserted THEN 1 ELSE 0]
    /\ committed' = [committed EXCEPT ![j] = @ \cup batch[j].inserted]
    /\ Conclude(j, verdict)
    /\ FreeLocks(j)
    /\ UNCHANGED <<purses, jobRow>>

Commit(j) == CommitBatch(j, "succeeded") /\ UNCHANGED losses
CommitUnanswered(j) == CommitBatch(j, "failed") /\ Lost

\* finish_import_job; a batch without a job row answers its request.
Finish(j) ==
    /\ At(j, "record")
    /\ batch' = [batch EXCEPT ![j].pc = "over"]
    /\ jobRow' = [jobRow EXCEPT ![j] =
                     [status |-> batch[j].verdict, outcomes |-> batch[j].outcomes]]
    /\ UNCHANGED <<held, purses, lockedBy, committed, losses>>

LoseOutcome(j) ==
    /\ At(j, "record")
    /\ Lost
    /\ batch' = [batch EXCEPT ![j].pc = "gone"]
    /\ UNCHANGED <<held, purses, lockedBy, jobRow, committed>>

(***************************************************************************)
(* Around the batches.                                                     *)
(***************************************************************************)
\* The process stops: open transactions are rolled back, job rows stay.
Crash ==
    /\ \E j \in Jobs : batch[j].pc \notin {"idle", "over", "gone"}
    /\ Lost
    /\ lockedBy' = [w \in Purses |-> NoJob]
    /\ batch' = [j \in Jobs |-> IF batch[j].pc \in {"idle", "over", "gone"} THEN batch[j]
                                ELSE [NoBatch EXCEPT !.pc = "gone"]]
    /\ UNCHANGED <<held, purses, jobRow, committed>>

\* Somebody deletes an imported transaction, or a wallet; both take the
\* wallet's row.
DeleteImported(p) ==
    /\ held[p] > 0
    /\ \A j \in Jobs : \A i \in DOMAIN File[j] :
          File[j][i].print = p => \A w \in File[j][i].wallets : lockedBy[w] = NoJob
    /\ held' = [held EXCEPT ![p] = @ - 1]
    /\ UNCHANGED <<purses, lockedBy, batch, jobRow, committed, losses>>

DropPurse(w) ==
    /\ w \in purses
    /\ lockedBy[w] = NoJob
    /\ purses' = purses \ {w}
    /\ UNCHANGED <<held, lockedBy, batch, jobRow, committed, losses>>

\* j cannot go on before k ends its transaction.
WaitsOn(j, k) ==
    /\ At(j, "lock")
    /\ k # j
    /\ IF Unheld(j) # {} THEN lockedBy[Min(Unheld(j))] = k
       ELSE Row(j).print \in batch[k].inserted

\* PostgreSQL ends one of the transactions that wait in a circle.
BreakCircle(j) ==
    /\ At(j, "lock")
    /\ \E S \in SUBSET Jobs : j \in S /\ \A k \in S : \E l \in S : WaitsOn(k, l)
    /\ FailBatch(j)

BatchStep(j) ==
    \/ Extract(j) \/ ExtractNothing(j)
    \/ SkipRow(j) \/ CountDuplicate(j) \/ TakeRow(j)
    \/ LockWallet(j) \/ MissWallet(j) \/ InsertRow(j) \/ RejectRow(j)
    \/ Commit(j) \/ Finish(j) \/ BreakCircle(j)

ImportsNext ==
    \/ \E j \in Jobs :
          \/ StartImport(j) \/ BatchStep(j) \/ AbortRow(j)
          \/ CommitUnanswered(j) \/ LoseOutcome(j)
    \/ Crash
    \/ \E p \in Prints : DeleteImported(p)
    \/ \E w \in Purses : DropPurse(w)

ImportsSpec == ImportsInit /\ [][ImportsNext]_importsVars

\* The task of a batch is scheduled and the database answers.
ImportsFairness == \A j \in Jobs : WF_importsVars(BatchStep(j))
ImportsFairSpec == ImportsSpec /\ ImportsFairness

(***************************************************************************)
(* Properties.                                                             *)
(***************************************************************************)
\* Rows and batches hold what their declarations say; a wallet is locked by
\* a batch with a transaction open; every row dealt with has an outcome.
ImportsTypeOK ==
    /\ held \in [Prints -> Nat]
    /\ \A w \in Purses : lockedBy[w] # NoJob => batch[lockedBy[w]].pc \in {"row", "lock"}
    /\ \A j \in Jobs :
          /\ batch[j].pc \in {"idle", "extract", "row", "lock", "record", "over", "gone"}
          /\ Len(batch[j].outcomes) <= Len(File[j])
          /\ jobRow[j].status \in {"none", "pending", "succeeded", "failed"}
    /\ losses \in 0 .. MaxLosses

\* A fingerprint is in the ledger once, however many imports of the same rows
\* run at once, are cut short or are tried again.
OnePerPrint == \A p \in Prints : held[p] <= 1

\* Every row of the file has its outcome, and the imported ones are those
\* committed, no more and no fewer.
CountsExact(j) ==
    /\ Len(jobRow[j].outcomes) = Len(File[j])
    /\ \A p \in Prints :
          Cardinality({i \in DOMAIN File[j] :
             jobRow[j].outcomes[i] = "imported" /\ File[j][i].print = p})
          = IF p \in committed[j] THEN 1 ELSE 0

FailedHasNothing(j) == jobRow[j].status = "failed" /\ losses = 0 => committed[j] = {}

\* Not kept.  A job's row tells what became of the file, as statement.rs says
\* of its counts: after success they are exact, after failure nothing was
\* committed unless the answer to the commit was lost.  When a query of one
\* row fails, the rows before it are called imported and are not there.
JobTellsTruth ==
    \A j \in Jobs :
       (jobRow[j].status = "succeeded" => CountsExact(j)) /\ FailedHasNothing(j)

\* What the code keeps of it: the counts are exact unless the transaction was
\* aborted under one of the rows.  Then the batch left nothing behind: its
\* rows are committed all or none, and a retry of the file brings them in.
JobTellsUnlessAborted ==
    \A j \in Jobs :
       /\ jobRow[j].status = "succeeded" =>
             IF batch[j].aborted THEN committed[j] = {} ELSE CountsExact(j)
       /\ FailedHasNothing(j)

\* Not kept.  docs/features/transactions.md: one bad row never fails a file.
\* A batch that fails has met something other than a row of its own.
BadRowNeverFailsFile ==
    [][\A j \in Jobs : ~(RejectRow(j) /\ Row(j).flaw = "unstorable")]_importsVars

\* A job that is pending ends, or its task is gone and it will be called stale.
JobsFinish ==
    \A j \in Jobs : jobRow[j].status = "pending" ~>
                       (jobRow[j].status # "pending" \/ batch[j].pc = "gone")
=============================================================================
