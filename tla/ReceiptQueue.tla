---------------------------- MODULE ReceiptQueue ----------------------------
(***************************************************************************)
(* Receipts waiting for the reader: the rows of receipt_jobs, the loop of  *)
(* every API process that claims due jobs, reads them, saves the expense   *)
(* and marks the job, and what people do to the same files meanwhile.      *)
(* Time passes in minutes; a job carries the minutes left to its next      *)
(* attempt, since its last update and since it was queued.                 *)
(***************************************************************************)
EXTENDS Integers, Sequences, FiniteSets, SequencesExt

CONSTANTS
    Replicas,       \* API processes running the loop
    Files,          \* vault files, each with at most one job
    TelegramFiles,  \* the files sent by Telegram, whose sender is told
    Batch,          \* how many jobs one tick claims
    Backoff,        \* minutes to the next attempt, by attempts made
    GiveUpAfter,    \* minutes a receipt is retried for
    StaleAfter,     \* minutes after which a processing job is released
    ReadTakes,      \* minutes the calls of one attempt can take
    Answers,        \* what the reader may answer
    People,         \* what people do meanwhile: "save", "delete", "discard"
    MaxFaults,      \* bound: crashes and failed writes
    MaxSaves        \* bound: expenses ever made from one file

Ended == {"done", "failed"}

ASSUME QueueAssumption ==
    /\ IsFiniteSet(Files) /\ TelegramFiles \subseteq Files
    /\ {Batch, GiveUpAfter, StaleAfter, ReadTakes, MaxSaves} \subseteq Nat \ {0}
    /\ MaxFaults \in Nat
    /\ Backoff \in Seq(Nat \ {0}) /\ Backoff # <<>>
    /\ Answers \subseteq {"read", "busy", "refused", "error"}

VARIABLES
    status,     \* receipt_jobs.status, or "none"
    attempts,   \* receipt_jobs.attempts, counted up to the last backoff
    wait,       \* minutes until next_attempt_at, 0 once due
    age,        \* minutes since created_at, counted up to GiveUpAfter
    idle,       \* minutes since updated_at, counted up to StaleAfter + 1
    gone,       \* files deleted from the vault
    live,       \* live expenses the file is attached to
    made,       \* history: expenses the queue made from the file
    overrun,    \* history: jobs released while a process still held them
    told,       \* history: how the sender was last told it ended, "lost" if
                \* the one message about it did not go out, or "no"
    loop,       \* where each process is in its tick
    taken,      \* the jobs a process claimed and has not finished, in order
    passed,     \* how many jobs of its batch a process is through with
    spent,      \* minutes the current attempt has taken
    outcome,    \* what the current attempt has come to
    faults

job == <<status, attempts, wait, age, idle>>
files == <<gone, live, made, overrun>>
process == <<loop, taken, passed, spent, outcome>>
queueVars == <<job, files, told, process, faults>>

AtMost(n, limit) == IF n < limit THEN n ELSE limit

QueueInit ==
    /\ status = [f \in Files |-> "none"]
    /\ attempts = [f \in Files |-> 0]
    /\ wait = [f \in Files |-> 0]
    /\ age = [f \in Files |-> 0]
    /\ idle = [f \in Files |-> 0]
    /\ gone = {}
    /\ live = [f \in Files |-> 0]
    /\ made = [f \in Files |-> 0]
    /\ overrun = {}
    /\ told = [f \in Files |-> "no"]
    /\ loop = [r \in Replicas |-> "asleep"]
    /\ taken = [r \in Replicas |-> <<>>]
    /\ passed = [r \in Replicas |-> 0]
    /\ spent = [r \in Replicas |-> 0]
    /\ outcome = [r \in Replicas |-> "read"]
    /\ faults = 0

(***************************************************************************)
(* What people do.  A file that already has a job keeps it: queuing it     *)
(* again changes nothing.                                                  *)
(***************************************************************************)
Enqueue(f) ==
    /\ status[f] = "none"
    /\ f \notin gone
    /\ status' = [status EXCEPT ![f] = "pending"]
    /\ wait' = [wait EXCEPT ![f] = Backoff[1]]
    /\ UNCHANGED <<attempts, age, idle, files, told, process, faults>>

\* The file is attached to an expense saved by hand.
SaveByHand(f) ==
    /\ "save" \in People
    /\ f \notin gone
    /\ live[f] < MaxSaves
    /\ live' = [live EXCEPT ![f] = @ + 1]
    /\ UNCHANGED <<job, gone, made, overrun, told, process, faults>>

\* An expense the file is attached to is deleted, or the file detached.
DeleteExpense(f) ==
    /\ "delete" \in People
    /\ live[f] > 0
    /\ live' = [live EXCEPT ![f] = @ - 1]
    /\ UNCHANGED <<job, gone, made, overrun, told, process, faults>>

\* Deleting a file detaches it everywhere.
DiscardFile(f) ==
    /\ "discard" \in People
    /\ f \notin gone
    /\ gone' = gone \cup {f}
    /\ live' = [live EXCEPT ![f] = 0]
    /\ UNCHANGED <<job, made, overrun, told, process, faults>>

(***************************************************************************)
(* The loop: release what a dead process held, claim what is due.          *)
(***************************************************************************)
(* Mutation: release_stale without its status condition. *)
StaleWhatever == {f \in Files : idle[f] > StaleAfter}

(* Mutation: nothing is ever stale. *)
StaleNever == {}

Stale == {f \in Files : status[f] = "processing" /\ idle[f] > StaleAfter}

(* Mutation: a claim that takes what is already processing. *)
DueOrTaken == {f \in Files : status[f] \in {"pending", "processing"} /\ wait[f] = 0}

Due == {f \in Files : status[f] = "pending" /\ wait[f] = 0}

\* The i-th of the jobs a process still has comes so late in its batch that
\* the attempts up to it can outlast the stale limit.
Late(r, i) == (passed[r] + i) * ReadTakes > StaleAfter

\* Nothing tells a dead process from one that is still reading.
ReleaseStale(r) ==
    /\ loop[r] = "asleep"
    /\ status' = [f \in Files |-> IF f \in Stale THEN "pending" ELSE status[f]]
    /\ idle' = [f \in Files |-> IF f \in Stale THEN 0 ELSE idle[f]]
    /\ overrun' = overrun \cup
          {f \in Stale : \E q \in Replicas : \E i \in 1..Len(taken[q]) :
                             taken[q][i] = f /\ Late(q, i)}
    /\ loop' = [loop EXCEPT ![r] = "awake"]
    /\ UNCHANGED <<attempts, wait, age, gone, live, made, told,
                   taken, passed, spent, outcome, faults>>

\* Which of more than Batch due jobs are oldest is left open.
ClaimJobs(r) ==
    /\ loop[r] = "awake"
    /\ \E S \in SUBSET Due :
          /\ Cardinality(S) = AtMost(Cardinality(Due), Batch)
          /\ status' = [f \in Files |-> IF f \in S THEN "processing" ELSE status[f]]
          /\ attempts' = [f \in Files |->
                 IF f \in S THEN AtMost(attempts[f] + 1, Len(Backoff)) ELSE attempts[f]]
          /\ idle' = [f \in Files |-> IF f \in S THEN 0 ELSE idle[f]]
          /\ \E order \in SetToSeqs(S) : taken' = [taken EXCEPT ![r] = order]
          /\ loop' = [loop EXCEPT ![r] = IF S = {} THEN "asleep" ELSE "check"]
    /\ passed' = [passed EXCEPT ![r] = 0]
    /\ spent' = [spent EXCEPT ![r] = 0]
    /\ UNCHANGED <<wait, age, files, told, outcome, faults>>

(***************************************************************************)
(* One attempt at the job at the head of what the process took.            *)
(***************************************************************************)
Job(r) == Head(taken[r])

Working == {"check", "open", "read", "save", "mark", "tell"}

\* The rest of the attempt changes nothing but where the process is.
Turn(r, next, result) ==
    /\ loop' = [loop EXCEPT ![r] = next]
    /\ outcome' = [outcome EXCEPT ![r] = result]
    /\ UNCHANGED <<taken, passed, spent>>

(* Mutation: an attempt that does not look for a saved expense. *)
CheckNothing(r) ==
    /\ loop[r] = "check"
    /\ Turn(r, "open", "read")
    /\ UNCHANGED <<job, files, told, faults>>

\* A file already attached to a live expense is that expense.
CheckSaved(r) ==
    /\ loop[r] = "check"
    /\ IF live[Job(r)] > 0 THEN Turn(r, "mark", "saved") ELSE Turn(r, "open", "read")
    /\ UNCHANGED <<job, files, told, faults>>

\* The document comes from the vault, whose deleted files are not found.
OpenDocument(r) ==
    /\ loop[r] = "open"
    /\ IF Job(r) \in gone THEN Turn(r, "mark", "error") ELSE Turn(r, "read", "read")
    /\ UNCHANGED <<job, files, told, faults>>

Answer(r) ==
    /\ loop[r] = "read"
    /\ \E a \in Answers : Turn(r, IF a = "read" THEN "save" ELSE "mark", a)
    /\ UNCHANGED <<job, files, told, faults>>

\* The expense and its attachment are one database transaction.
Save(r) ==
    /\ loop[r] = "save"
    /\ \/ /\ Job(r) \in gone
          /\ Turn(r, "mark", "error")
          /\ UNCHANGED files
       \/ /\ Job(r) \notin gone
          /\ Turn(r, "mark", "saved")
          /\ live' = [live EXCEPT ![Job(r)] = @ + 1]
          /\ made' = [made EXCEPT ![Job(r)] = AtMost(@ + 1, MaxSaves)]
          /\ UNCHANGED <<gone, overrun>>
    /\ UNCHANGED <<job, told, faults>>

\* What the job becomes: a saved one is done, a refused one failed, and a
\* busy reader is asked again unless that would be too late.
NextStatus(f, result) ==
    CASE result = "saved"   -> "done"
      [] result = "refused" -> "failed"
      [] result = "busy"    -> IF age[f] + Backoff[attempts[f]] > GiveUpAfter
                               THEN "failed" ELSE "pending"
      [] OTHER              -> "pending"

\* The process goes on to its next job.
Continue(r) ==
    /\ taken' = [taken EXCEPT ![r] = Tail(@)]
    /\ passed' = [passed EXCEPT ![r] = IF Len(taken[r]) = 1 THEN 0 ELSE @ + 1]
    /\ spent' = [spent EXCEPT ![r] = 0]
    /\ outcome' = [outcome EXCEPT ![r] = "read"]
    /\ loop' = [loop EXCEPT ![r] = IF Len(taken[r]) = 1 THEN "asleep" ELSE "check"]

Mark(r) ==
    /\ loop[r] = "mark"
    /\ LET f == Job(r)
           next == NextStatus(f, outcome[r])
       IN  /\ status' = [status EXCEPT ![f] = next]
           /\ idle' = [idle EXCEPT ![f] = 0]
           /\ IF next = "pending"
              THEN /\ wait' = [wait EXCEPT ![f] = Backoff[attempts[f]]]
                   /\ Continue(r)
              ELSE /\ Turn(r, "tell", outcome[r])
                   /\ UNCHANGED wait
    /\ UNCHANGED <<attempts, age, files, told, faults>>

\* The process drops the rest of its batch, which stays marked processing.
DropBatch(r) ==
    /\ taken' = [taken EXCEPT ![r] = <<>>]
    /\ passed' = [passed EXCEPT ![r] = 0]
    /\ spent' = [spent EXCEPT ![r] = 0]
    /\ outcome' = [outcome EXCEPT ![r] = "read"]
    /\ loop' = [loop EXCEPT ![r] = "asleep"]

\* A write that fails puts the job back; one that fails then, too, ends the
\* tick with the rest of what was taken still marked processing.
MarkFails(r) ==
    /\ loop[r] = "mark"
    /\ faults < MaxFaults
    /\ faults' = faults + 1
    /\ \/ /\ outcome[r] # "error"
          /\ Turn(r, "mark", "error")
       \/ /\ outcome[r] = "error"
          /\ DropBatch(r)
    /\ UNCHANGED <<job, files, told>>

(* Mutation: only a saved receipt is told. *)
TellSaved(r) ==
    /\ loop[r] = "tell"
    /\ told' = [told EXCEPT ![Job(r)] =
                   IF outcome[r] = "saved" THEN "done" ELSE @]
    /\ Continue(r)
    /\ UNCHANGED <<job, files, faults>>

\* Telegram is told at once, by what the attempt came to.
Tell(r) ==
    /\ loop[r] = "tell"
    /\ told' = [told EXCEPT ![Job(r)] =
                   IF Job(r) \notin TelegramFiles THEN @
                   ELSE IF outcome[r] = "saved" THEN "done" ELSE "failed"]
    /\ Continue(r)
    /\ UNCHANGED <<job, files, faults>>

\* What becomes of the one message, if it does not go out: no other follows.
ToldLost(r) ==
    told' = [told EXCEPT ![Job(r)] =
                IF Job(r) \in TelegramFiles /\ @ = "no" THEN "lost" ELSE @]

\* The message cannot be made, because its expense is gone, or is not sent;
\* either is logged, and the process goes on to its next job.
TellFails(r) ==
    /\ loop[r] = "tell"
    /\ Job(r) \in TelegramFiles
    /\ \/ /\ outcome[r] = "saved" /\ live[Job(r)] = 0
          /\ UNCHANGED faults
       \/ /\ faults < MaxFaults
          /\ faults' = faults + 1
    /\ ToldLost(r)
    /\ Continue(r)
    /\ UNCHANGED <<job, files>>

\* The web is told on its next page.
ShowNotice(f) ==
    /\ f \notin TelegramFiles
    /\ status[f] \in Ended
    /\ told[f] = "no"
    /\ told' = [told EXCEPT ![f] = status[f]]
    /\ UNCHANGED <<job, files, process, faults>>

(* Mutation: a claim that survives its process in memory only. *)
CrashKeepingTaken(r) ==
    /\ faults < MaxFaults
    /\ faults' = faults + 1
    /\ loop' = [loop EXCEPT ![r] = "asleep"]
    /\ UNCHANGED <<job, files, told, taken, passed, spent, outcome>>

\* The process dies and starts again with nothing taken; what it had marked
\* and not yet told, it does not tell.
CrashLoop(r) ==
    /\ faults < MaxFaults
    /\ faults' = faults + 1
    /\ IF loop[r] = "tell" THEN ToldLost(r) ELSE UNCHANGED told
    /\ DropBatch(r)
    /\ UNCHANGED <<job, files>>

\* A minute passes, if no attempt has used up the time its calls can take.
PassMinute ==
    /\ \A r \in Replicas : loop[r] \in Working => spent[r] < ReadTakes
    /\ spent' = [r \in Replicas |-> IF loop[r] \in Working THEN spent[r] + 1 ELSE 0]
    /\ wait' = [f \in Files |-> IF wait[f] > 0 THEN wait[f] - 1 ELSE 0]
    /\ age' = [f \in Files |->
                  IF status[f] = "none" THEN 0 ELSE AtMost(age[f] + 1, GiveUpAfter)]
    /\ idle' = [f \in Files |->
                  IF status[f] = "none" THEN 0 ELSE AtMost(idle[f] + 1, StaleAfter + 1)]
    /\ UNCHANGED <<status, attempts, files, told, loop, taken, passed, outcome, faults>>

Step(r) ==
    \/ ReleaseStale(r) \/ ClaimJobs(r) \/ CheckSaved(r) \/ OpenDocument(r)
    \/ Answer(r) \/ Save(r) \/ Mark(r) \/ Tell(r)

QueueNext ==
    \/ \E f \in Files :
          Enqueue(f) \/ SaveByHand(f) \/ DeleteExpense(f) \/ DiscardFile(f) \/ ShowNotice(f)
    \/ \E r \in Replicas : Step(r) \/ MarkFails(r) \/ TellFails(r) \/ CrashLoop(r)
    \/ PassMinute

QueueSpec == QueueInit /\ [][QueueNext]_queueVars

\* Time passes, every process is scheduled and people load pages.
QueueFairness ==
    /\ WF_queueVars(PassMinute)
    /\ \A r \in Replicas : WF_queueVars(Step(r))
    /\ \A f \in Files : WF_queueVars(ShowNotice(f))

QueueFairSpec == QueueSpec /\ QueueFairness
-----------------------------------------------------------------------------
(* Every variable has a value the code can give it. *)
QueueTypeOK ==
    /\ status \in [Files -> {"none", "pending", "processing"} \cup Ended]
    /\ attempts \in [Files -> 0..Len(Backoff)]
    /\ wait \in [Files -> Nat]
    /\ age \in [Files -> 0..GiveUpAfter]
    /\ idle \in [Files -> 0..(StaleAfter + 1)]
    /\ gone \subseteq Files
    /\ live \in [Files -> Nat]
    /\ made \in [Files -> 0..MaxSaves]
    /\ overrun \subseteq Files
    /\ told \in [Files -> {"no", "lost"} \cup Ended]
    /\ loop \in [Replicas -> {"asleep", "awake"} \cup Working]
    /\ taken \in [Replicas -> Seq(Files)]
    /\ \A r \in Replicas : loop[r] \in Working <=> taken[r] # <<>>
    /\ passed \in [Replicas -> Nat]
    /\ spent \in [Replicas -> 0..ReadTakes]
    /\ outcome \in [Replicas -> {"saved", "read", "busy", "refused", "error"}]
    /\ faults \in 0..MaxFaults

(* Not kept.  Two processes never take the same row, as queue.rs says: a     *)
(* job that is late in a batch read slowly is released while its process     *)
(* still has it.                                                             *)
OneTaker ==
    \A r1, r2 \in Replicas : r1 # r2 => ToSet(taken[r1]) \cap ToSet(taken[r2]) = {}

(* What the code keeps of it: a job has two takers only if it was released   *)
(* from a batch whose attempts up to it can outlast the stale limit.  The    *)
(* jobs before it in the batch, and whatever a process that died had taken,  *)
(* have one taker.                                                           *)
OneTakerInTime ==
    \A r1, r2 \in Replicas : r1 # r2 => ToSet(taken[r1]) \cap ToSet(taken[r2]) \subseteq overrun

(* The queue saves no expense for a file that is attached to one, unless its *)
(* job was once released from a process that still had it.                   *)
SavesOnlyUnsaved ==
    [][\A f \in Files \ overrun : made'[f] > made[f] => live[f] = 0]_queueVars

(* With the same exception a job that is done or failed stays so, whatever   *)
(* a process that held it still writes.                                      *)
EndedJobsStay ==
    [][\A f \in Files \ overrun : status[f] \in Ended => status'[f] = status[f]]_queueVars

(* And nobody is told a receipt was saved that was given up, or the reverse. *)
ToldAsItEnded ==
    \A f \in Files \ overrun : told[f] \in Ended => told[f] = status[f]

(* A queued receipt is read or given up on. *)
JobsEnd ==
    \A f \in Files : status[f] = "pending" ~> status[f] \in Ended

(* While nobody deletes the expense or the file, whoever sent a receipt is   *)
(* told how it ended, the web by its next page, a Telegram chat at once.  A  *)
(* chat is told nothing only if its one message is lost with a process that  *)
(* died or a call that failed: it is not sent again.                         *)
SenderTold ==
    \A f \in Files :
        status[f] \in Ended ~>
            \/ told[f] \in Ended
            \/ f \in TelegramFiles /\ told[f] = "lost" /\ faults > 0
=============================================================================
