--------------------------- MODULE TelegramProofs ---------------------------
(***************************************************************************)
(* What is proved of the Telegram bot, for every set of updates, chats,     *)
(* workers, members and folders and any number of crashes, failed claims,   *)
(* panics, taps and changes: the poller handles the updates of a chat one   *)
(* at a time, none twice and in the order they were sent; a message about   *)
(* an expense says what is stored; chats and members have one link each; a  *)
(* receipt that was checked adds up.                                        *)
(* The parts are put together as MCTelegram puts them.                      *)
(***************************************************************************)
EXTENDS MCTelegram, SumProofs

(***************************************************************************)
(* The queue of receipts.                                                  *)
(***************************************************************************)
(* The bounds are natural numbers and the first backoffs are waits. *)
LEMMA Bounds ==
    /\ Batch \in Nat \ {0} /\ GiveUpAfter \in Nat \ {0} /\ StaleAfter \in Nat \ {0}
    /\ ReadTakes \in Nat \ {0} /\ MaxSaves \in Nat \ {0} /\ MaxFaults \in Nat
    /\ Len(Backoff) \in Nat \ {0}
    /\ \A n \in 1..Len(Backoff) : Backoff[n] \in Nat \ {0}
  BY QueueAssumption

(* A capped counter is at most what it counts and at most its cap. *)
LEMMA AtMostType ==
    ASSUME NEW n \in Nat, NEW limit \in Nat
    PROVE  /\ AtMost(n, limit) \in 0..limit
           /\ AtMost(n, limit) <= n
  BY DEF AtMost

(* The tail of a batch is shorter by one, and empty after the last job. *)
LEMMA TailType ==
    ASSUME NEW s \in Seq(Files), s # <<>>
    PROVE  /\ Tail(s) \in Seq(Files)
           /\ Len(s) \in Nat \ {0}
           /\ Len(Tail(s)) = Len(s) - 1
           /\ \A i \in 1..Len(Tail(s)) : Tail(s)[i] = s[i + 1]
           /\ Len(s) = 1 <=> Tail(s) = <<>>
  <1>1. Tail(s) \in Seq(Files) /\ Len(Tail(s)) = Len(s) - 1 /\ Len(s) \in Nat \ {0}
    OBVIOUS
  <1>2. \A i \in 1..Len(Tail(s)) : Tail(s)[i] = s[i + 1]
    OBVIOUS
  <1>3. Tail(s) = <<>> <=> Len(Tail(s)) = 0
    <2> DEFINE t == Tail(s)
    <2> HIDE DEF t
    <2>1. t \in Seq(Files)
      BY <1>1 DEF t
    <2>2. t = <<>> <=> Len(t) = 0
      BY <2>1
    <2>3. QED
      BY <2>2 DEF t
  <1>4. QED
    BY <1>1, <1>2, <1>3

(* An order of the claimed jobs lists each of them once. *)
LEMMA ClaimedInOrder ==
    ASSUME NEW S \in SUBSET Files, NEW order \in SetToSeqs(S)
    PROVE  /\ order \in Seq(Files)
           /\ Len(order) = Cardinality(S)
           /\ order = <<>> <=> S = {}
           /\ \A i \in 1..Len(order) : order[i] \in S
           /\ \A i, j \in 1..Len(order) : i # j => order[i] # order[j]
  <1>1. IsFiniteSet(S) /\ Cardinality(S) \in Nat /\ (Cardinality(S) = 0 <=> S = {})
    BY QueueAssumption, FS_Subset, FS_CardinalityType, FS_EmptySet
  <1>2. /\ order \in [1..Cardinality(S) -> S]
        /\ \A i, j \in 1..Cardinality(S) : i # j => order[i] # order[j]
    BY DEF SetToSeqs
  <1>3. order \in Seq(Files) /\ Len(order) = Cardinality(S)
    BY <1>1, <1>2
  <1>4. order = <<>> <=> Len(order) = 0
    BY <1>3
  <1>5. QED
    BY <1>1, <1>2, <1>3, <1>4

(* The end of a job leaves the rest of the batch. *)
LEMMA ContinueType ==
    ASSUME QueueTypeOK, NEW r \in Replicas, Continue(r), loop[r] \in Working
    PROVE  /\ taken' \in [Replicas -> Seq(Files)]
           /\ loop' \in [Replicas -> {"asleep", "awake"} \cup Working]
           /\ \A q \in Replicas : loop'[q] \in Working <=> taken'[q] # <<>>
           /\ passed' \in [Replicas -> Nat]
           /\ spent' \in [Replicas -> 0..ReadTakes]
           /\ outcome' \in [Replicas -> {"saved", "read", "busy", "refused", "error"}]
  <1>1. taken[r] # <<>> /\ taken[r] \in Seq(Files)
    BY DEF QueueTypeOK
  <1>2. Tail(taken[r]) \in Seq(Files) /\ (Len(taken[r]) = 1 <=> Tail(taken[r]) = <<>>)
    BY <1>1, TailType
  <1>3. /\ taken' = [taken EXCEPT ![r] = Tail(taken[r])]
        /\ loop' = [loop EXCEPT ![r] = IF Len(taken[r]) = 1 THEN "asleep" ELSE "check"]
        /\ passed' = [passed EXCEPT ![r] = IF Len(taken[r]) = 1 THEN 0 ELSE @ + 1]
        /\ spent' = [spent EXCEPT ![r] = 0]
        /\ outcome' = [outcome EXCEPT ![r] = "read"]
    BY DEF Continue
  <1>4. taken' \in [Replicas -> Seq(Files)]
    BY <1>2, <1>3 DEF QueueTypeOK
  <1>5. loop' \in [Replicas -> {"asleep", "awake"} \cup Working]
    BY <1>3 DEF QueueTypeOK, Working
  <1>6. \A q \in Replicas : loop'[q] \in Working <=> taken'[q] # <<>>
    BY <1>2, <1>3 DEF QueueTypeOK, Working
  <1>7. /\ passed' \in [Replicas -> Nat] /\ spent' \in [Replicas -> 0..ReadTakes]
        /\ outcome' \in [Replicas -> {"saved", "read", "busy", "refused", "error"}]
    <2>1. passed[r] + 1 \in Nat
      BY DEF QueueTypeOK
    <2>2. passed' \in [Replicas -> Nat]
      BY <1>3, <2>1 DEF QueueTypeOK
    <2>3. spent' \in [Replicas -> 0..ReadTakes]
      <3>1. 0 \in 0..ReadTakes
        BY Bounds
      <3>2. QED
        BY <1>3, <3>1 DEF QueueTypeOK
    <2>4. outcome' \in [Replicas -> {"saved", "read", "busy", "refused", "error"}]
      BY <1>3 DEF QueueTypeOK
    <2>5. QED
      BY <2>2, <2>3, <2>4
  <1>8. QED
    BY <1>3, <1>4, <1>5, <1>6, <1>7

(* A turn of the attempt keeps the process at its batch. *)
LEMMA TurnType ==
    ASSUME QueueTypeOK, NEW r \in Replicas, loop[r] \in Working,
           NEW next \in Working,
           NEW result \in {"saved", "read", "busy", "refused", "error"},
           Turn(r, next, result)
    PROVE  /\ taken' \in [Replicas -> Seq(Files)]
           /\ loop' \in [Replicas -> {"asleep", "awake"} \cup Working]
           /\ \A q \in Replicas : loop'[q] \in Working <=> taken'[q] # <<>>
           /\ passed' \in [Replicas -> Nat]
           /\ spent' \in [Replicas -> 0..ReadTakes]
           /\ outcome' \in [Replicas -> {"saved", "read", "busy", "refused", "error"}]
  BY DEF Turn, QueueTypeOK

(* A process that drops its batch holds nothing. *)
LEMMA DropType ==
    ASSUME QueueTypeOK, NEW r \in Replicas, DropBatch(r)
    PROVE  /\ taken' \in [Replicas -> Seq(Files)]
           /\ loop' \in [Replicas -> {"asleep", "awake"} \cup Working]
           /\ \A q \in Replicas : loop'[q] \in Working <=> taken'[q] # <<>>
           /\ passed' \in [Replicas -> Nat]
           /\ spent' \in [Replicas -> 0..ReadTakes]
           /\ outcome' \in [Replicas -> {"saved", "read", "busy", "refused", "error"}]
  <1>1. /\ taken' \in [Replicas -> Seq(Files)]
        /\ loop' \in [Replicas -> {"asleep", "awake"} \cup Working]
        /\ passed' \in [Replicas -> Nat]
        /\ spent' \in [Replicas -> 0..ReadTakes]
        /\ outcome' \in [Replicas -> {"saved", "read", "busy", "refused", "error"}]
    BY Bounds DEF DropBatch, QueueTypeOK
  <1>2. \A q \in Replicas : loop'[q] \in Working <=> taken'[q] # <<>>
    BY DEF DropBatch, QueueTypeOK, Working
  <1>3. QED
    BY <1>1, <1>2

(* A message that does not go out leaves what was told before. *)
LEMMA LostType ==
    ASSUME QueueTypeOK, NEW r \in Replicas, ToldLost(r)
    PROVE  /\ told' \in [Files -> {"no", "lost"} \cup Ended]
           /\ \A f \in Files : told'[f] \in Ended => told'[f] = told[f]
  BY DEF ToldLost, QueueTypeOK, Ended

(* A turn that changes nothing else keeps the types. *)
LEMMA OnlyTurns ==
    ASSUME QueueTypeOK, NEW r \in Replicas, loop[r] \in Working,
           NEW next \in Working,
           NEW result \in {"saved", "read", "busy", "refused", "error"},
           Turn(r, next, result),
           UNCHANGED <<job, files, told, faults>>
    PROVE  QueueTypeOK'
  <1>1. /\ taken' \in [Replicas -> Seq(Files)]
        /\ loop' \in [Replicas -> {"asleep", "awake"} \cup Working]
        /\ \A q \in Replicas : loop'[q] \in Working <=> taken'[q] # <<>>
        /\ passed' \in [Replicas -> Nat]
        /\ spent' \in [Replicas -> 0..ReadTakes]
        /\ outcome' \in [Replicas -> {"saved", "read", "busy", "refused", "error"}]
    BY TurnType
  <1>2. QED
    BY <1>1 DEF QueueTypeOK, job, files

(* The job at hand is a file that is being worked on. *)
LEMMA JobType ==
    ASSUME QueueTypeOK, NEW r \in Replicas, loop[r] \in Working
    PROVE  Job(r) \in Files
  <1>1. taken[r] \in Seq(Files) /\ taken[r] # <<>>
    BY DEF QueueTypeOK
  <1>2. QED
    BY <1>1 DEF Job

(* A job that is being worked on has been tried at least once. *)
TakenTried ==
    \A r \in Replicas : \A i \in 1..Len(taken[r]) : attempts[taken[r][i]] # 0

(* Every reachable state is well typed, and counts the attempts begun. *)
LEMMA TypedAndTried == QueueSpec => [](QueueTypeOK /\ TakenTried)
  <1>1. QueueInit => QueueTypeOK /\ TakenTried
    BY Bounds DEF QueueInit, QueueTypeOK, TakenTried, Ended, Working
  <1>2. QueueTypeOK /\ TakenTried /\ [QueueNext]_queueVars => QueueTypeOK'
    <2> SUFFICES ASSUME QueueTypeOK, TakenTried, [QueueNext]_queueVars PROVE QueueTypeOK'
      OBVIOUS
    <2>1. ASSUME NEW f \in Files, Enqueue(f) PROVE QueueTypeOK'
      BY SMTT(30), Bounds, <2>1 DEF Enqueue, QueueTypeOK, files, process, Ended
    <2>2. ASSUME NEW f \in Files, SaveByHand(f) PROVE QueueTypeOK'
      BY SMTT(30), <2>2 DEF SaveByHand, QueueTypeOK, job, process
    <2>3. ASSUME NEW f \in Files, DeleteExpense(f) PROVE QueueTypeOK'
      BY SMTT(30), <2>3 DEF DeleteExpense, QueueTypeOK, job, process
    <2>4. ASSUME NEW f \in Files, DiscardFile(f) PROVE QueueTypeOK'
      BY <2>4 DEF DiscardFile, QueueTypeOK, job, process
    <2>5. ASSUME NEW f \in Files, ShowNotice(f) PROVE QueueTypeOK'
      BY <2>5 DEF ShowNotice, QueueTypeOK, job, files, process, Ended
    <2>6. ASSUME NEW r \in Replicas, ReleaseStale(r) PROVE QueueTypeOK'
      <3>1. 0 \in 0..(StaleAfter + 1)
        BY Bounds
      <3>2. /\ status' \in [Files -> {"none", "pending", "processing"} \cup Ended]
            /\ idle' \in [Files -> 0..(StaleAfter + 1)]
            /\ overrun' \subseteq Files
        BY <2>6, <3>1 DEF ReleaseStale, QueueTypeOK, Stale
      <3>3. /\ loop' \in [Replicas -> {"asleep", "awake"} \cup Working]
            /\ \A q \in Replicas : loop'[q] \in Working <=> taken'[q] # <<>>
        BY <2>6 DEF ReleaseStale, QueueTypeOK, Working
      <3>4. QED
        BY <2>6, <3>2, <3>3 DEF ReleaseStale, QueueTypeOK
    <2>7. ASSUME NEW r \in Replicas, ClaimJobs(r) PROVE QueueTypeOK'
      <3>0. PICK S \in SUBSET Due :
                /\ status' = [f \in Files |-> IF f \in S THEN "processing" ELSE status[f]]
                /\ attempts' = [f \in Files |->
                      IF f \in S THEN AtMost(attempts[f] + 1, Len(Backoff)) ELSE attempts[f]]
                /\ idle' = [f \in Files |-> IF f \in S THEN 0 ELSE idle[f]]
                /\ \E order \in SetToSeqs(S) : taken' = [taken EXCEPT ![r] = order]
                /\ loop' = [loop EXCEPT ![r] = IF S = {} THEN "asleep" ELSE "check"]
        BY <2>7 DEF ClaimJobs
      <3>1. PICK order \in SetToSeqs(S) : taken' = [taken EXCEPT ![r] = order]
        BY <3>0
      <3>2. /\ order \in Seq(Files)
            /\ order = <<>> <=> S = {}
        BY ClaimedInOrder DEF Due
      <3>3. attempts' \in [Files -> 0..Len(Backoff)]
        <4>1. ASSUME NEW f \in Files
              PROVE  AtMost(attempts[f] + 1, Len(Backoff)) \in 0..Len(Backoff)
          <5>1. attempts[f] + 1 \in Nat
            BY Bounds DEF QueueTypeOK
          <5>2. QED
            BY Bounds, <5>1, AtMostType
        <4>2. QED
          BY <3>0, <3>1, <4>1 DEF QueueTypeOK
      <3>4. taken' \in [Replicas -> Seq(Files)]
        BY <3>0, <3>1, <3>2 DEF QueueTypeOK
      <3>5. \A q \in Replicas : loop'[q] \in Working <=> taken'[q] # <<>>
        BY <2>7, <3>0, <3>1, <3>2 DEF ClaimJobs, QueueTypeOK, Working
      <3>6. /\ spent' \in [Replicas -> 0..ReadTakes] /\ idle' \in [Files -> 0..(StaleAfter + 1)]
            /\ passed' \in [Replicas -> Nat]
        BY SMTT(30), <2>7, <3>0, <3>1, Bounds DEF ClaimJobs, QueueTypeOK
      <3>7. loop' \in [Replicas -> {"asleep", "awake"} \cup Working]
        BY <3>0 DEF QueueTypeOK, Working
      <3>8. status' \in [Files -> {"none", "pending", "processing"} \cup Ended]
        BY <3>0 DEF QueueTypeOK
      <3>9. QED
        BY <2>7, <3>3, <3>4, <3>5, <3>6, <3>7, <3>8 DEF ClaimJobs, QueueTypeOK, files
    <2>8. ASSUME NEW r \in Replicas, CheckSaved(r) PROVE QueueTypeOK'
      <3>1. loop[r] \in Working
        BY <2>8 DEF CheckSaved, Working
      <3>2. \E next \in Working,
               result \in {"saved", "read", "busy", "refused", "error"} : Turn(r, next, result)
        BY <2>8 DEF CheckSaved, Working
      <3>3. UNCHANGED <<job, files, told, faults>>
        BY <2>8 DEF CheckSaved
      <3>4. PICK next \in Working,
                 result \in {"saved", "read", "busy", "refused", "error"} : Turn(r, next, result)
        BY <3>2
      <3>5. QED
        BY <3>1, <3>3, <3>4, OnlyTurns
    <2>9. ASSUME NEW r \in Replicas, OpenDocument(r) PROVE QueueTypeOK'
      <3>1. loop[r] \in Working
        BY <2>9 DEF OpenDocument, Working
      <3>2. \E next \in Working,
               result \in {"saved", "read", "busy", "refused", "error"} : Turn(r, next, result)
        BY <2>9 DEF OpenDocument, Working
      <3>3. UNCHANGED <<job, files, told, faults>>
        BY <2>9 DEF OpenDocument
      <3>4. PICK next \in Working,
                 result \in {"saved", "read", "busy", "refused", "error"} : Turn(r, next, result)
        BY <3>2
      <3>5. QED
        BY <3>1, <3>3, <3>4, OnlyTurns
    <2>10. ASSUME NEW r \in Replicas, Answer(r) PROVE QueueTypeOK'
      <3>1. loop[r] \in Working
        BY <2>10 DEF Answer, Working
      <3>2. \E next \in Working,
               result \in {"saved", "read", "busy", "refused", "error"} : Turn(r, next, result)
        BY <2>10, QueueAssumption DEF Answer, Working
      <3>3. UNCHANGED <<job, files, told, faults>>
        BY <2>10 DEF Answer
      <3>4. PICK next \in Working,
                 result \in {"saved", "read", "busy", "refused", "error"} : Turn(r, next, result)
        BY <3>2
      <3>5. QED
        BY <3>1, <3>3, <3>4, OnlyTurns
    <2>11. ASSUME NEW r \in Replicas, Save(r) PROVE QueueTypeOK'
      <3>1. loop[r] \in Working
        BY <2>11 DEF Save, Working
      <3>2. \E next \in Working,
               result \in {"saved", "read", "busy", "refused", "error"} : Turn(r, next, result)
        BY <2>11 DEF Save, Working
      <3>3. /\ live' \in [Files -> Nat] /\ made' \in [Files -> 0..MaxSaves]
            /\ gone' = gone /\ overrun' = overrun
        <4>1. Job(r) \in Files
          BY <3>1, JobType
        <4>2. live[Job(r)] + 1 \in Nat /\ AtMost(made[Job(r)] + 1, MaxSaves) \in 0..MaxSaves
          <5>1. live[Job(r)] \in Nat /\ made[Job(r)] \in Nat /\ MaxSaves \in Nat
            BY <4>1, Bounds DEF QueueTypeOK
          <5> DEFINE n == made[Job(r)] + 1
          <5>2. n \in Nat
            BY <5>1
          <5>3. AtMost(n, MaxSaves) \in 0..MaxSaves
            BY <5>1, <5>2, AtMostType
          <5>4. QED
            BY <5>1, <5>3
        <4>3. CASE UNCHANGED files
          BY <4>3 DEF files, QueueTypeOK
        <4>4. CASE /\ live' = [live EXCEPT ![Job(r)] = @ + 1]
                   /\ made' = [made EXCEPT ![Job(r)] = AtMost(@ + 1, MaxSaves)]
                   /\ UNCHANGED <<gone, overrun>>
          BY <4>2, <4>4 DEF QueueTypeOK
        <4>5. QED
          BY <2>11, <4>3, <4>4 DEF Save
      <3>4. /\ taken' \in [Replicas -> Seq(Files)]
            /\ loop' \in [Replicas -> {"asleep", "awake"} \cup Working]
            /\ \A q \in Replicas : loop'[q] \in Working <=> taken'[q] # <<>>
            /\ passed' \in [Replicas -> Nat]
            /\ spent' \in [Replicas -> 0..ReadTakes]
            /\ outcome' \in [Replicas -> {"saved", "read", "busy", "refused", "error"}]
        <4>1. PICK next \in Working,
                   result \in {"saved", "read", "busy", "refused", "error"} : Turn(r, next, result)
          BY <3>2
        <4>2. QED
          BY <3>1, <4>1, TurnType
      <3>5. QED
        BY <2>11, <3>3, <3>4 DEF Save, QueueTypeOK, job
    <2>12. ASSUME NEW r \in Replicas, Mark(r) PROVE QueueTypeOK'
      <3> DEFINE f == Job(r)
                 next == NextStatus(f, outcome[r])
      <3>1. loop[r] \in Working /\ "tell" \in Working
        BY <2>12 DEF Mark, Working
      <3>2. f \in Files
        BY <3>1, JobType
      <3>3. next \in {"pending"} \cup Ended
        BY DEF NextStatus, Ended
      <3>4. /\ status' = [status EXCEPT ![f] = next]
            /\ idle' = [idle EXCEPT ![f] = 0]
            /\ UNCHANGED <<attempts, age, files, told, faults>>
        BY <2>12 DEF Mark
      <3>5. status' \in [Files -> {"none", "pending", "processing"} \cup Ended]
        BY <3>3, <3>4 DEF QueueTypeOK
      <3>6. idle' \in [Files -> 0..(StaleAfter + 1)]
        <4>1. 0 \in 0..(StaleAfter + 1)
          BY Bounds
        <4>2. QED
          BY <3>4, <4>1 DEF QueueTypeOK
      <3>7. CASE next = "pending"
        <4>1. wait' = [wait EXCEPT ![f] = Backoff[attempts[f]]] /\ Continue(r)
          BY <2>12, <3>7 DEF Mark
        <4>2. Backoff[attempts[f]] \in Nat
          <5>1. taken[r] \in Seq(Files) /\ taken[r] # <<>> /\ f = taken[r][1] /\ 1 \in 1..Len(taken[r])
            BY <3>1 DEF QueueTypeOK, Job
          <5>2. attempts[f] \in 1..Len(Backoff)
            <6>1. attempts[f] # 0
              <7>1. attempts[taken[r][1]] # 0
                BY <5>1 DEF TakenTried
              <7>2. QED
                BY <5>1, <7>1
            <6>2. attempts[f] \in 0..Len(Backoff)
              BY <3>2 DEF QueueTypeOK
            <6>3. Len(Backoff) \in Nat
              BY Bounds
            <6> HIDE DEF f
            <6>4. QED
              BY <6>1, <6>2, <6>3
          <5>3. QED
            BY Bounds, <5>2
        <4>3. QED
          BY <3>1, <3>4, <3>5, <3>6, <4>1, <4>2, ContinueType DEF QueueTypeOK, files
      <3>8. CASE next # "pending"
        <4>1. wait' = wait /\ Turn(r, "tell", outcome[r])
          BY <2>12, <3>8 DEF Mark
        <4>2. outcome[r] \in {"saved", "read", "busy", "refused", "error"}
          BY DEF QueueTypeOK
        <4>3. /\ taken' \in [Replicas -> Seq(Files)]
              /\ loop' \in [Replicas -> {"asleep", "awake"} \cup Working]
              /\ \A q \in Replicas : loop'[q] \in Working <=> taken'[q] # <<>>
              /\ passed' \in [Replicas -> Nat]
              /\ spent' \in [Replicas -> 0..ReadTakes]
              /\ outcome' \in [Replicas -> {"saved", "read", "busy", "refused", "error"}]
          BY <3>1, <4>1, <4>2, TurnType
        <4>4. QED
          BY <3>4, <3>5, <3>6, <4>1, <4>3 DEF QueueTypeOK, files
      <3>9. QED
        BY <3>7, <3>8
    <2>13. ASSUME NEW r \in Replicas, MarkFails(r) PROVE QueueTypeOK'
      <3>1. loop[r] \in Working /\ "mark" \in Working
        BY <2>13 DEF MarkFails, Working
      <3>2. faults' \in 0..MaxFaults
        BY <2>13, Bounds DEF MarkFails, QueueTypeOK
      <3>3. UNCHANGED <<job, files, told>>
        BY <2>13 DEF MarkFails
      <3>4. CASE Turn(r, "mark", "error")
        <4>1. /\ taken' \in [Replicas -> Seq(Files)]
              /\ loop' \in [Replicas -> {"asleep", "awake"} \cup Working]
              /\ \A q \in Replicas : loop'[q] \in Working <=> taken'[q] # <<>>
              /\ passed' \in [Replicas -> Nat]
              /\ spent' \in [Replicas -> 0..ReadTakes]
              /\ outcome' \in [Replicas -> {"saved", "read", "busy", "refused", "error"}]
          BY <3>1, <3>4, TurnType
        <4>2. QED
          BY <3>2, <3>3, <4>1 DEF QueueTypeOK, job, files
      <3>5. CASE DropBatch(r)
        BY <3>2, <3>3, <3>5, DropType DEF QueueTypeOK, job, files
      <3>6. QED
        BY <2>13, <3>4, <3>5 DEF MarkFails
    <2>14. ASSUME NEW r \in Replicas, Tell(r) PROVE QueueTypeOK'
      <3>1. loop[r] \in Working
        BY <2>14 DEF Tell, Working
      <3>2. told' \in [Files -> {"no", "lost"} \cup Ended]
        BY <2>14 DEF Tell, QueueTypeOK, Ended
      <3>3. QED
        BY <2>14, <3>1, <3>2, ContinueType DEF Tell, QueueTypeOK, job, files
    <2>15. ASSUME NEW r \in Replicas, CrashLoop(r) PROVE QueueTypeOK'
      <3>1. faults' \in 0..MaxFaults
        BY <2>15, Bounds DEF CrashLoop, QueueTypeOK
      <3>2. told' \in [Files -> {"no", "lost"} \cup Ended]
        BY <2>15, LostType DEF CrashLoop, QueueTypeOK
      <3>3. DropBatch(r) /\ UNCHANGED <<job, files>>
        BY <2>15 DEF CrashLoop
      <3>4. QED
        BY <3>1, <3>2, <3>3, DropType DEF QueueTypeOK, job, files
    <2>19. ASSUME NEW r \in Replicas, TellFails(r) PROVE QueueTypeOK'
      <3>1. loop[r] \in Working
        BY <2>19 DEF TellFails, Working
      <3>2. faults' \in 0..MaxFaults
        BY <2>19, Bounds DEF TellFails, QueueTypeOK
      <3>3. told' \in [Files -> {"no", "lost"} \cup Ended]
        BY <2>19, LostType DEF TellFails
      <3>4. Continue(r) /\ UNCHANGED <<job, files>>
        BY <2>19 DEF TellFails
      <3>5. QED
        BY <3>1, <3>2, <3>3, <3>4, ContinueType DEF QueueTypeOK, job, files
    <2>16. CASE PassMinute
      <3>1. spent' \in [Replicas -> 0..ReadTakes]
        <4>1. ASSUME NEW r \in Replicas
              PROVE  (IF loop[r] \in Working THEN spent[r] + 1 ELSE 0) \in 0..ReadTakes
          <5>1. spent[r] \in 0..ReadTakes /\ (loop[r] \in Working => spent[r] < ReadTakes)
            BY <2>16 DEF PassMinute, QueueTypeOK
          <5>2. QED
            BY <5>1, Bounds
        <4>2. QED
          BY <2>16, <4>1 DEF PassMinute
      <3>2. wait' \in [Files -> Nat]
        BY <2>16 DEF PassMinute, QueueTypeOK
      <3>3. age' \in [Files -> 0..GiveUpAfter]
        BY <2>16, Bounds DEF PassMinute, QueueTypeOK, AtMost
      <3>4. idle' \in [Files -> 0..(StaleAfter + 1)]
        BY <2>16, Bounds DEF PassMinute, QueueTypeOK, AtMost
      <3>5. QED
        BY <2>16, <3>1, <3>2, <3>3, <3>4 DEF PassMinute, QueueTypeOK, files
    <2>17. CASE UNCHANGED queueVars
      BY <2>17 DEF queueVars, QueueTypeOK, job, files, process
    <2>18. QED
      BY <2>1, <2>2, <2>3, <2>4, <2>5, <2>6, <2>7, <2>8, <2>9, <2>10, <2>11, <2>12,
         <2>13, <2>14, <2>15, <2>16, <2>17, <2>19 DEF QueueNext, Step
  <1>3. QueueTypeOK /\ QueueTypeOK' /\ TakenTried /\ [QueueNext]_queueVars => TakenTried'
    <2> SUFFICES ASSUME QueueTypeOK, QueueTypeOK', TakenTried, [QueueNext]_queueVars,
                        NEW r \in Replicas, NEW i \in 1..Len(taken'[r])
                 PROVE  attempts'[taken'[r][i]] # 0
      BY DEF TakenTried
    <2>1. CASE UNCHANGED <<attempts, taken>>
      BY <2>1 DEF TakenTried
    <2>2. ASSUME NEW f \in Files, Enqueue(f) PROVE UNCHANGED <<attempts, taken>>
      BY <2>2 DEF Enqueue, process
    <2>3. ASSUME NEW q \in Replicas, ClaimJobs(q) PROVE attempts'[taken'[r][i]] # 0
      <3>1. PICK S \in SUBSET Due :
                /\ attempts' = [f \in Files |->
                      IF f \in S THEN AtMost(attempts[f] + 1, Len(Backoff)) ELSE attempts[f]]
                /\ \E order \in SetToSeqs(S) : taken' = [taken EXCEPT ![q] = order]
        BY <2>3 DEF ClaimJobs
      <3>2. PICK order \in SetToSeqs(S) : taken' = [taken EXCEPT ![q] = order]
        BY <3>1
      <3>3. \A f \in Files : attempts[f] # 0 => attempts'[f] # 0
        <4>1. ASSUME NEW f \in Files PROVE AtMost(attempts[f] + 1, Len(Backoff)) # 0
          <5>1. attempts[f] \in Nat /\ Len(Backoff) \in Nat \ {0}
            BY Bounds DEF QueueTypeOK
          <5>2. QED
            BY <5>1 DEF AtMost
        <4>2. QED
          BY <3>1, <4>1 DEF QueueTypeOK
      <3>4. \A f \in S : attempts'[f] # 0
        <4>1. ASSUME NEW f \in Files PROVE AtMost(attempts[f] + 1, Len(Backoff)) # 0
          <5>1. attempts[f] \in Nat /\ Len(Backoff) \in Nat \ {0}
            BY Bounds DEF QueueTypeOK
          <5>2. QED
            BY <5>1 DEF AtMost
        <4>2. QED
          BY <3>1, <4>1 DEF QueueTypeOK, Due
      <3>5. CASE r = q
        <4>1. taken'[r] = order
          BY <3>2, <3>5 DEF QueueTypeOK
        <4>2. S \in SUBSET Files
          BY DEF Due
        <4>3. order[i] \in S
          BY <4>1, <4>2, ClaimedInOrder
        <4>4. QED
          BY <3>4, <4>1, <4>3
      <3>6. CASE r # q
        <4>1. taken'[r] = taken[r]
          BY <3>2, <3>6 DEF QueueTypeOK
        <4>2. taken[r] \in Seq(Files) /\ i \in 1..Len(taken[r])
          BY <4>1 DEF QueueTypeOK
        <4>4. taken[r][i] \in Files
          BY <4>2
        <4>3. QED
          BY <3>3, <4>1, <4>2, <4>4 DEF TakenTried
      <3>7. QED
        BY <3>5, <3>6
    <2>4. ASSUME NEW q \in Replicas, UNCHANGED attempts, Continue(q), loop[q] \in Working
          PROVE  attempts'[taken'[r][i]] # 0
      <3>1. taken' = [taken EXCEPT ![q] = Tail(taken[q])]
        BY <2>4 DEF Continue
      <3>2. CASE r = q
        <4>1. taken[r] \in Seq(Files) /\ taken[r] # <<>> /\ taken'[r] = Tail(taken[r])
          BY <2>4, <3>1, <3>2 DEF QueueTypeOK
        <4>2. i + 1 \in 1..Len(taken[r]) /\ taken'[r][i] = taken[r][i + 1]
          BY <4>1, TailType
        <4>3. QED
          BY <2>4, <4>2 DEF TakenTried
      <3>3. CASE r # q
        BY <2>4, <3>1, <3>3 DEF TakenTried, QueueTypeOK
      <3>4. QED
        BY <3>2, <3>3
    <2>5. ASSUME NEW q \in Replicas, UNCHANGED attempts, taken' = [taken EXCEPT ![q] = <<>>]
          PROVE  attempts'[taken'[r][i]] # 0
      <3>1. taken'[r] = IF r = q THEN <<>> ELSE taken[r]
        BY <2>5 DEF QueueTypeOK
      <3>2. r # q
        BY <3>1
      <3>3. QED
        BY <2>5, <3>1, <3>2 DEF TakenTried
    <2>6. QED
      BY <2>1, <2>2, <2>3, <2>4, <2>5
         DEF QueueNext, Step, queueVars, process, job, Turn, Working, SaveByHand, DeleteExpense, DiscardFile, ShowNotice,
             ReleaseStale, CheckSaved, OpenDocument, Answer, Save, Mark, MarkFails, Tell,
             TellFails, CrashLoop, DropBatch, PassMinute
  <1>4. QED
    BY <1>1, <1>2, <1>3, PTL DEF QueueSpec

(* Every reachable state of the receipt queue is well typed. *)
THEOREM TypeCorrect == QueueSpec => []QueueTypeOK
  BY TypedAndTried, PTL

-----------------------------------------------------------------------------
(***************************************************************************)
(* The inductive invariant: a process holds different jobs, each for no    *)
(* longer than the attempts it has begun can have taken; and all of them   *)
(* but the one it is telling of are processing and its own, except those   *)
(* that were once released while a process still held them.                *)
(***************************************************************************)
Places(r) == 1..Len(taken[r])

BatchFits == \A r \in Replicas : passed[r] + Len(taken[r]) <= Batch

EachOnce == \A r \in Replicas : \A i, j \in Places(r) : i # j => taken[r][i] # taken[r][j]

HeldApart ==
    \A r1, r2 \in Replicas : r1 # r2 =>
        \A i \in Places(r1), j \in Places(r2) :
            taken[r1][i] = taken[r2][j] => taken[r1][i] \in overrun

HeldProcessing ==
    \A r \in Replicas : \A i \in Places(r) :
        (i > 1 \/ loop[r] # "tell") =>
            status[taken[r][i]] = "processing" \/ taken[r][i] \in overrun

TellsTheEnd ==
    \A r \in Replicas : loop[r] = "tell" =>
        \/ status[Job(r)] = IF outcome[r] = "saved" THEN "done" ELSE "failed"
        \/ Job(r) \in overrun

InTime ==
    \A r \in Replicas : \A i \in Places(r) :
        idle[taken[r][i]] <= passed[r] * ReadTakes + spent[r]

SavesUnsaved ==
    "save" \notin People =>
        \A r \in Replicas :
            loop[r] \in {"open", "read", "save"} => live[Job(r)] = 0 \/ Job(r) \in overrun

Leases ==
    /\ QueueTypeOK /\ TakenTried
    /\ BatchFits /\ EachOnce /\ HeldApart /\ HeldProcessing /\ TellsTheEnd /\ InTime

QueueInv == Leases /\ ToldAsItEnded /\ SavesUnsaved

(* An attempt more leaves no less time. *)
LEMMA TimeLeft ==
    ASSUME NEW p \in Nat, NEW t \in Nat, NEW s \in 0..t
    PROVE  /\ p * t + s \in Nat
           /\ p * t + s <= (p + 1) * t
           /\ (p + 1) * t \in Nat
  <1>1. (p + 1) * t = p * t + t
    OBVIOUS
  <1>2. p * t \in Nat
    OBVIOUS
  <1>3. QED
    BY <1>1, <1>2

(* Time grows with the place in the batch. *)
LEMMA LaterTakesLonger ==
    ASSUME NEW m \in Nat, NEW n \in Nat, m <= n, NEW t \in Nat
    PROVE  m * t <= n * t /\ m * t \in Nat /\ n * t \in Nat
  <1>1. n * t = m * t + (n - m) * t
    OBVIOUS
  <1>2. n - m \in Nat
    OBVIOUS
  <1>3. ASSUME NEW k \in Nat PROVE k * t \in Nat
    OBVIOUS
  <1>4. (n - m) * t \in Nat /\ m * t \in Nat /\ n * t \in Nat
    BY <1>2, <1>3
  <1>5. QED
    BY <1>1, <1>4

(* The jobs a process holds are files, and it is at the first of them. *)
LEMMA HeldType ==
    ASSUME QueueTypeOK, NEW r \in Replicas
    PROVE  /\ taken[r] \in Seq(Files)
           /\ \A i \in Places(r) : taken[r][i] \in Files
           /\ loop[r] \in Working => 1 \in Places(r) /\ Job(r) = taken[r][1]
  <1>1. taken[r] \in Seq(Files)
    BY DEF QueueTypeOK
  <1>2. \A i \in Places(r) : taken[r][i] \in Files
    BY <1>1 DEF Places
  <1>3. loop[r] \in Working => 1 \in Places(r) /\ Job(r) = taken[r][1]
    BY <1>1 DEF Places, Job, QueueTypeOK
  <1>4. QED
    BY <1>1, <1>2, <1>3

(* What InTime compares are natural numbers. *)
LEMMA TimeType ==
    ASSUME QueueTypeOK, NEW r \in Replicas
    PROVE  /\ passed[r] * ReadTakes + spent[r] \in Nat
           /\ \A i \in Places(r) : idle[taken[r][i]] \in 0..(StaleAfter + 1)
  <1>1. passed[r] \in Nat /\ spent[r] \in 0..ReadTakes
    BY DEF QueueTypeOK
  <1>2. passed[r] * ReadTakes + spent[r] \in Nat
    BY <1>1, Bounds, TimeLeft
  <1>3. \A i \in Places(r) : idle[taken[r][i]] \in 0..(StaleAfter + 1)
    BY HeldType DEF QueueTypeOK
  <1>4. QED
    BY <1>2, <1>3

(* A job that is stale while a process holds it is late in its batch. *)
LEMMA HeldStaleIsLate ==
    ASSUME Leases, NEW r \in Replicas, NEW i \in Places(r), taken[r][i] \in Stale
    PROVE  Late(r, i)
  <1> DEFINE a == idle[taken[r][i]]
             b == passed[r] * ReadTakes + spent[r]
             c == (passed[r] + 1) * ReadTakes
             d == (passed[r] + i) * ReadTakes
  <1>1. passed[r] \in Nat /\ spent[r] \in 0..ReadTakes /\ i \in Nat \ {0}
    BY HeldType DEF Leases, QueueTypeOK, Places
  <1>2. a > StaleAfter /\ a \in Nat
    BY TimeType, Bounds DEF Leases, Stale
  <1>3. a <= b /\ b \in Nat
    BY TimeType DEF Leases, InTime
  <1>4. b <= c /\ c \in Nat
    BY <1>1, TimeLeft, Bounds
  <1>5. c <= d /\ d \in Nat
    BY <1>1, LaterTakesLonger, Bounds
  <1> HIDE DEF a, b, c, d
  <1>6. d > StaleAfter
    BY <1>2, <1>3, <1>4, <1>5, Bounds
  <1>7. QED
    BY <1>6 DEF Late, d

(* What was once released from a process that held it is remembered. *)
LEMMA OverrunGrows ==
    ASSUME [QueueNext]_queueVars
    PROVE  overrun \subseteq overrun'
  BY DEF QueueNext, Step, queueVars, files, Enqueue, SaveByHand, DeleteExpense, DiscardFile,
         ShowNotice, ReleaseStale, ClaimJobs, CheckSaved, OpenDocument, Answer, Save, Mark,
         MarkFails, Tell, TellFails, CrashLoop, PassMinute

(* The end of a job: the rest of the batch moves up, with a full attempt to  *)
(* come for its first job.                                                   *)
LEMMA ContinueKeepsLeases ==
    ASSUME Leases, QueueTypeOK', TakenTried', NEW r \in Replicas,
           loop[r] \in Working, Continue(r), overrun' = overrun,
           \A f \in Files : f # Job(r) => status'[f] = status[f],
           \A f \in Files : idle'[f] <= idle[f]
    PROVE  Leases'
  <1>1. /\ taken[r] \in Seq(Files) /\ 1 \in Places(r) /\ Job(r) = taken[r][1]
        /\ taken[r] # <<>>
    BY HeldType DEF Leases, QueueTypeOK
  <1>2. /\ taken' = [taken EXCEPT ![r] = Tail(taken[r])]
        /\ passed' = [passed EXCEPT ![r] = IF Len(taken[r]) = 1 THEN 0 ELSE @ + 1]
        /\ spent' = [spent EXCEPT ![r] = 0]
        /\ loop' = [loop EXCEPT ![r] = IF Len(taken[r]) = 1 THEN "asleep" ELSE "check"]
        /\ outcome' = [outcome EXCEPT ![r] = "read"]
    BY DEF Continue
  <1>3. /\ Places(r)' = 1..(Len(taken[r]) - 1)
        /\ \A i \in Places(r)' : i + 1 \in Places(r) /\ taken'[r][i] = taken[r][i + 1]
        /\ \A i \in Places(r)' : i \in Nat \ {0}
    <2>1. Len(taken'[r]) = Len(taken[r]) - 1 /\ Len(taken[r]) \in Nat \ {0}
      BY <1>1, <1>2, TailType DEF Leases, QueueTypeOK
    <2>2. Places(r)' = 1..(Len(taken[r]) - 1)
      BY <2>1 DEF Places
    <2>3. \A i \in Places(r)' : i + 1 \in Places(r) /\ i \in Nat \ {0}
      BY <2>1, <2>2 DEF Places
    <2>4. \A i \in Places(r)' : taken'[r][i] = taken[r][i + 1]
      BY <1>1, <1>2, <2>1, <2>2, TailType DEF Leases, QueueTypeOK
    <2>5. QED
      BY <2>2, <2>3, <2>4
  <1>4. \A q \in Replicas : q # r =>
            /\ taken'[q] = taken[q] /\ Places(q)' = Places(q)
            /\ loop'[q] = loop[q] /\ spent'[q] = spent[q] /\ passed'[q] = passed[q]
            /\ outcome'[q] = outcome[q]
    <2>1. \A q \in Replicas : q # r =>
              /\ taken'[q] = taken[q] /\ Places(q)' = Places(q)
              /\ loop'[q] = loop[q] /\ spent'[q] = spent[q]
      BY <1>2 DEF Places, Leases, QueueTypeOK
    <2>2. \A q \in Replicas : q # r => passed'[q] = passed[q] /\ outcome'[q] = outcome[q]
      BY <1>2 DEF Leases, QueueTypeOK
    <2>3. QED
      BY <2>1, <2>2
  <1>13. passed'[r] = (IF Len(taken[r]) = 1 THEN 0 ELSE passed[r] + 1) /\ passed[r] \in Nat
    BY <1>2 DEF Leases, QueueTypeOK
  <1>5. BatchFits'
    <2>1. Len(taken'[r]) = Len(taken[r]) - 1 /\ Len(taken[r]) \in Nat \ {0}
      BY <1>1, <1>2, TailType DEF Leases, QueueTypeOK
    <2>2. passed[r] + Len(taken[r]) <= Batch
      BY DEF Leases, BatchFits
    <2>3. passed'[r] + Len(taken'[r]) <= Batch
      BY <1>13, <2>1, <2>2, Bounds
    <2>4. QED
      BY <1>4, <2>3 DEF BatchFits, Leases
  <1>6. EachOnce'
    <2> SUFFICES ASSUME NEW q \in Replicas, NEW i \in Places(q)', NEW j \in Places(q)', i # j
                 PROVE  taken'[q][i] # taken'[q][j]
      BY DEF EachOnce
    <2>1. CASE q = r
      <3>1. i + 1 \in Places(r) /\ j + 1 \in Places(r) /\ i + 1 # j + 1
        BY <1>3, <2>1
      <3>2. QED
        BY <1>3, <2>1, <3>1 DEF Leases, EachOnce
    <2>2. CASE q # r
      BY <1>4, <2>2 DEF Leases, EachOnce
    <2>3. QED
      BY <2>1, <2>2
  <1>7. HeldApart'
    <2> SUFFICES ASSUME NEW q1 \in Replicas, NEW q2 \in Replicas, q1 # q2,
                        NEW i \in Places(q1)', NEW j \in Places(q2)',
                        taken'[q1][i] = taken'[q2][j]
                 PROVE  taken'[q1][i] \in overrun
      BY DEF HeldApart
    <2>1. CASE q1 = r
      BY <1>3, <1>4, <2>1 DEF Leases, HeldApart
    <2>2. CASE q2 = r
      BY <1>3, <1>4, <2>2 DEF Leases, HeldApart
    <2>3. CASE q1 # r /\ q2 # r
      BY <1>4, <2>3 DEF Leases, HeldApart
    <2>4. QED
      BY <2>1, <2>2, <2>3
  <1>8. \A q \in Replicas : \A i \in Places(q)' :
            /\ taken'[q][i] \in Files
            /\ status'[taken'[q][i]] = status[taken'[q][i]] \/ taken'[q][i] \in overrun
    <2> SUFFICES ASSUME NEW q \in Replicas, NEW i \in Places(q)'
                 PROVE  /\ taken'[q][i] \in Files
                        /\ taken'[q][i] # Job(r) \/ taken'[q][i] \in overrun
      OBVIOUS
    <2>1. CASE q = r
      <3>1. i + 1 # 1
        BY <1>3, <2>1
      <3>2. QED
        BY <1>1, <1>3, <2>1, <3>1, HeldType DEF Leases, EachOnce
    <2>2. CASE q # r
      BY <1>1, <1>4, <2>2, HeldType DEF Leases, HeldApart
    <2>3. QED
      BY <2>1, <2>2
  <1>9. HeldProcessing'
    <2> SUFFICES ASSUME NEW q \in Replicas, NEW i \in Places(q)',
                        i > 1 \/ loop'[q] # "tell", taken'[q][i] \notin overrun
                 PROVE  status[taken'[q][i]] = "processing"
      BY <1>8 DEF HeldProcessing
    <2>1. CASE q = r
      <3>1. i + 1 \in Places(r) /\ i + 1 > 1 /\ taken'[q][i] = taken[r][i + 1]
        BY <1>3, <2>1
      <3>2. QED
        BY <3>1 DEF Leases, HeldProcessing
    <2>2. CASE q # r
      BY <1>4, <2>2 DEF Leases, HeldProcessing
    <2>3. QED
      BY <2>1, <2>2
  <1>10. TellsTheEnd'
    <2> SUFFICES ASSUME NEW q \in Replicas, loop'[q] = "tell", Job(q)' \notin overrun
                 PROVE  status'[Job(q)'] = IF outcome'[q] = "saved" THEN "done" ELSE "failed"
      BY DEF TellsTheEnd
    <2>1. q # r /\ loop[q] = "tell"
      BY <1>2, <1>4 DEF Leases, QueueTypeOK
    <2>2. 1 \in Places(q)' /\ Job(q)' = taken'[q][1] /\ Job(q)' = Job(q)
      BY <1>4, <2>1, HeldType DEF Leases, Working, Job
    <2>3. status'[Job(q)'] = status[Job(q)]
      BY <1>8, <2>2
    <2>4. QED
      BY <1>4, <2>1, <2>2, <2>3 DEF Leases, TellsTheEnd
  <1>11. InTime'
    <2> SUFFICES ASSUME NEW q \in Replicas, NEW i \in Places(q)'
                 PROVE  idle'[taken'[q][i]] <= passed'[q] * ReadTakes + spent'[q]
      BY DEF InTime
    <2>1. CASE q = r
      <3> DEFINE a == idle'[taken'[r][i]]
                 b == idle[taken[r][i + 1]]
                 c == passed[r] * ReadTakes + spent[r]
                 d == (passed[r] + 1) * ReadTakes
      <3>1. a <= b
        BY <1>3, <1>8, <2>1
      <3>2. b <= c
        BY <1>3, <2>1 DEF Leases, InTime
      <3>3. spent[r] \in 0..ReadTakes
        BY DEF Leases, QueueTypeOK
      <3>4. c <= d /\ c \in Nat /\ d \in Nat
        BY <1>13, <3>3, TimeLeft, Bounds
      <3>5. passed'[r] = passed[r] + 1 /\ spent'[r] = 0
        <4>1. Len(taken[r]) # 1
          BY <1>1, <1>3, <2>1
        <4>2. QED
          BY <1>2, <1>13, <4>1 DEF Leases, QueueTypeOK
      <3>6. a \in Int /\ b \in Int
        <4>1. taken'[r][i] \in Files /\ taken[r][i + 1] \in Files
          BY <1>3, <1>8, <2>1
        <4>2. a \in 0..(StaleAfter + 1) /\ b \in 0..(StaleAfter + 1)
          BY <4>1 DEF QueueTypeOK, Leases
        <4>3. QED
          BY <4>2
      <3>7. passed'[r] * ReadTakes + spent'[r] = d
        BY <3>4, <3>5
      <3> HIDE DEF a, b, c, d
      <3>8. a <= d
        BY <3>1, <3>2, <3>4, <3>6
      <3>9. QED
        BY <2>1, <3>7, <3>8 DEF a
    <2>2. CASE q # r
      <3> DEFINE x == idle'[taken'[q][i]]
                 y == idle[taken[q][i]]
                 z == passed[q] * ReadTakes + spent[q]
      <3>1. taken'[q][i] \in Files /\ taken'[q][i] = taken[q][i] /\ i \in Places(q)
        BY <1>4, <1>8, <2>2
      <3>2. x <= y /\ y <= z
        BY <3>1 DEF Leases, InTime
      <3>3. x \in Int /\ y \in Int /\ z \in Int
        <4>1. x \in 0..(StaleAfter + 1) /\ y \in 0..(StaleAfter + 1)
          BY <3>1 DEF Leases, QueueTypeOK
        <4>2. z \in Nat
          BY TimeType DEF Leases
        <4>3. QED
          BY <4>1, <4>2
      <3>4. passed'[q] * ReadTakes + spent'[q] = z
        BY <1>4, <2>2
      <3> HIDE DEF x, y, z
      <3>5. x <= z
        BY <3>2, <3>3
      <3>6. QED
        BY <3>4, <3>5 DEF x
    <2>3. QED
      BY <2>1, <2>2
  <1>12. QED
    BY <1>5, <1>6, <1>7, <1>9, <1>10, <1>11 DEF Leases

(* A step that leaves what is held, and how long it was held, alone. *)
LEMMA StillKeepsLeases ==
    ASSUME Leases, QueueTypeOK', TakenTried', UNCHANGED <<taken, passed, spent>>,
           overrun \subseteq overrun',
           \A r \in Replicas : \A i \in Places(r) :
               /\ status'[taken[r][i]] = status[taken[r][i]] \/ taken[r][i] \in overrun'
               /\ idle'[taken[r][i]] <= idle[taken[r][i]],
           \A r \in Replicas : loop'[r] = "tell" <=> loop[r] = "tell",
           \A r \in Replicas : loop[r] = "tell" => outcome'[r] = outcome[r]
    PROVE  Leases'
  <1>1. \A r \in Replicas : Places(r)' = Places(r) /\ Job(r)' = Job(r)
    BY DEF Places, Job
  <1>2. BatchFits' /\ EachOnce' /\ HeldApart'
    BY <1>1 DEF Leases, BatchFits, EachOnce, HeldApart
  <1>3. HeldProcessing'
    <2> SUFFICES ASSUME NEW r \in Replicas, NEW i \in Places(r),
                        i > 1 \/ loop'[r] # "tell", taken[r][i] \notin overrun'
                 PROVE  status'[taken[r][i]] = "processing"
      BY <1>1 DEF HeldProcessing
    <2>1. status[taken[r][i]] = "processing"
      BY DEF Leases, HeldProcessing
    <2>2. QED
      BY <2>1
  <1>4. TellsTheEnd'
    <2> SUFFICES ASSUME NEW r \in Replicas, loop'[r] = "tell", Job(r) \notin overrun'
                 PROVE  status'[Job(r)] = IF outcome'[r] = "saved" THEN "done" ELSE "failed"
      BY <1>1 DEF TellsTheEnd
    <2>1. 1 \in Places(r) /\ Job(r) = taken[r][1]
      BY HeldType DEF Leases, Working
    <2>2. status'[Job(r)] = status[Job(r)]
      BY <2>1
    <2>3. QED
      BY <2>2 DEF Leases, TellsTheEnd
  <1>5. InTime'
    <2> SUFFICES ASSUME NEW r \in Replicas, NEW i \in Places(r)
                 PROVE  idle'[taken[r][i]] <= passed[r] * ReadTakes + spent[r]
      BY <1>1 DEF InTime
    <2> DEFINE a == idle'[taken[r][i]]
               b == idle[taken[r][i]]
               c == passed[r] * ReadTakes + spent[r]
    <2>1. a <= b /\ b <= c
      BY DEF Leases, InTime
    <2>2. c \in Int /\ b \in Int
      BY TimeType DEF Leases
    <2>3. a \in Int
      <3>1. taken[r][i] \in Files
        BY HeldType DEF Leases
      <3>2. a \in 0..(StaleAfter + 1)
        BY <3>1 DEF QueueTypeOK
      <3>3. QED
        BY <3>2
    <2> HIDE DEF a, b, c
    <2>4. a <= c
      BY <2>1, <2>2, <2>3
    <2>5. QED
      BY <2>4 DEF a, c
  <1>6. QED
    BY <1>2, <1>3, <1>4, <1>5 DEF Leases

(* A process that drops what it holds. *)
LEMMA DropKeepsLeases ==
    ASSUME Leases, QueueTypeOK', TakenTried', NEW r \in Replicas, DropBatch(r),
           UNCHANGED <<status, idle, overrun>>
    PROVE  Leases'
  <1>1. Places(r)' = {} /\ Len(taken'[r]) = 0 /\ passed'[r] = 0 /\ loop'[r] = "asleep"
    BY DEF DropBatch, Places, Leases, QueueTypeOK
  <1>2. \A q \in Replicas : q # r =>
            /\ taken'[q] = taken[q] /\ Places(q)' = Places(q) /\ loop'[q] = loop[q]
            /\ Job(q)' = Job(q)
    BY DEF DropBatch, Places, Job, Leases, QueueTypeOK
  <1>3. \A q \in Replicas : q # r =>
            passed'[q] = passed[q] /\ spent'[q] = spent[q] /\ outcome'[q] = outcome[q]
    BY DEF DropBatch, Leases, QueueTypeOK
  <1>4. BatchFits'
    BY <1>1, <1>2, <1>3, Bounds DEF BatchFits, Leases
  <1>5. EachOnce' /\ HeldApart'
    BY <1>1, <1>2 DEF Leases, EachOnce, HeldApart
  <1>6. HeldProcessing' /\ InTime'
    BY <1>1, <1>2, <1>3 DEF Leases, HeldProcessing, InTime
  <1>7. TellsTheEnd'
    BY <1>1, <1>2, <1>3 DEF Leases, TellsTheEnd
  <1>8. QED
    BY <1>4, <1>5, <1>6, <1>7 DEF Leases

(* A claim takes only what nobody holds, or what was released from a process. *)
LEMMA ClaimKeepsLeases ==
    ASSUME Leases, QueueTypeOK', TakenTried', NEW r \in Replicas, ClaimJobs(r)
    PROVE  Leases'
  <1>1. PICK S \in SUBSET Due :
            /\ Cardinality(S) = AtMost(Cardinality(Due), Batch)
            /\ status' = [f \in Files |-> IF f \in S THEN "processing" ELSE status[f]]
            /\ idle' = [f \in Files |-> IF f \in S THEN 0 ELSE idle[f]]
            /\ \E order \in SetToSeqs(S) : taken' = [taken EXCEPT ![r] = order]
            /\ loop' = [loop EXCEPT ![r] = IF S = {} THEN "asleep" ELSE "check"]
            /\ passed' = [passed EXCEPT ![r] = 0]
            /\ spent' = [spent EXCEPT ![r] = 0]
            /\ outcome' = outcome /\ overrun' = overrun
    BY DEF ClaimJobs, files
  <1>2. PICK order \in SetToSeqs(S) : taken' = [taken EXCEPT ![r] = order]
    BY <1>1
  <1>3. /\ order \in Seq(Files) /\ Len(order) = Cardinality(S)
        /\ \A i \in 1..Len(order) : order[i] \in S
        /\ \A i, j \in 1..Len(order) : i # j => order[i] # order[j]
    BY ClaimedInOrder DEF Due
  <1>4. Len(order) \in 0..Batch
    <2>1. IsFiniteSet(Due)
      BY QueueAssumption, FS_Subset DEF Due
    <2>2. Cardinality(Due) \in Nat
      BY <2>1, FS_CardinalityType
    <2>3. QED
      BY <1>1, <1>3, <2>2, AtMostType, Bounds
  <1>5. /\ taken'[r] = order /\ Places(r)' = 1..Len(order) /\ loop'[r] # "tell"
        /\ spent'[r] = 0 /\ passed'[r] = 0
    BY <1>1, <1>2 DEF Places, Leases, QueueTypeOK
  <1>6. \A q \in Replicas : q # r =>
            /\ taken'[q] = taken[q] /\ Places(q)' = Places(q) /\ loop'[q] = loop[q]
            /\ Job(q)' = Job(q) /\ spent'[q] = spent[q] /\ passed'[q] = passed[q]
    BY <1>1, <1>2 DEF Places, Job, Leases, QueueTypeOK
  <1>7. \A q \in Replicas : \A i \in Places(q) : taken[q][i] \notin S \/ taken[q][i] \in overrun
    <2> SUFFICES ASSUME NEW q \in Replicas, NEW i \in Places(q), taken[q][i] \notin overrun
                 PROVE  status[taken[q][i]] # "pending"
      BY DEF Due
    <2>1. CASE i > 1 \/ loop[q] # "tell"
      BY <2>1 DEF Leases, HeldProcessing
    <2>2. CASE ~(i > 1 \/ loop[q] # "tell")
      <3>1. i = 1 /\ taken[q][i] = Job(q)
        BY <2>2, HeldType DEF Leases, Working, Places
      <3>2. QED
        BY <2>2, <3>1 DEF Leases, TellsTheEnd
    <2>3. QED
      BY <2>1, <2>2
  <1>8. \A q \in Replicas : \A i \in Places(q) :
            /\ taken[q][i] \in Files
            /\ status'[taken[q][i]] = status[taken[q][i]] \/ taken[q][i] \in overrun
            /\ idle'[taken[q][i]] \in {0, idle[taken[q][i]]}
    BY <1>1, <1>7, HeldType DEF Leases
  <1>9. BatchFits'
    BY <1>4, <1>5, <1>6 DEF BatchFits, Leases
  <1>10. EachOnce'
    BY <1>3, <1>5, <1>6 DEF EachOnce, Leases
  <1>11. HeldApart'
    <2> SUFFICES ASSUME NEW q1 \in Replicas, NEW q2 \in Replicas, q1 # q2,
                        NEW i \in Places(q1)', NEW j \in Places(q2)',
                        taken'[q1][i] = taken'[q2][j]
                 PROVE  taken'[q1][i] \in overrun
      BY <1>1 DEF HeldApart
    <2>1. CASE q1 = r
      BY <1>3, <1>5, <1>6, <1>7, <2>1
    <2>2. CASE q2 = r
      BY <1>3, <1>5, <1>6, <1>7, <2>2
    <2>3. CASE q1 # r /\ q2 # r
      BY <1>6, <2>3 DEF Leases, HeldApart
    <2>4. QED
      BY <2>1, <2>2, <2>3
  <1>12. HeldProcessing'
    <2>1. \A f \in S : status'[f] = "processing"
      BY <1>1 DEF Due
    <2>2. QED
      BY <1>1, <1>3, <1>5, <1>6, <1>8, <2>1 DEF HeldProcessing, Leases
  <1>13. TellsTheEnd'
    <2> SUFFICES ASSUME NEW q \in Replicas, loop'[q] = "tell", Job(q)' \notin overrun
                 PROVE  status'[Job(q)'] = IF outcome'[q] = "saved" THEN "done" ELSE "failed"
      BY <1>1 DEF TellsTheEnd
    <2>1. q # r /\ loop[q] = "tell" /\ Job(q)' = Job(q)
      BY <1>5, <1>6
    <2>2. 1 \in Places(q) /\ Job(q) = taken[q][1]
      BY <2>1, HeldType DEF Leases, Working
    <2>3. QED
      BY <1>1, <1>8, <2>1, <2>2 DEF Leases, TellsTheEnd
  <1>14. InTime'
    <2> SUFFICES ASSUME NEW q \in Replicas, NEW i \in Places(q)'
                 PROVE  idle'[taken'[q][i]] <= passed'[q] * ReadTakes + spent'[q]
      BY DEF InTime
    <2>1. passed'[q] * ReadTakes + spent'[q] \in Nat
      <3>1. passed'[q] \in Nat /\ spent'[q] \in 0..ReadTakes
        BY DEF QueueTypeOK
      <3>2. QED
        BY <3>1, TimeLeft, Bounds
    <2>2. CASE q = r
      <3>1. idle'[taken'[q][i]] = 0
        BY <1>1, <1>3, <1>5, <2>2 DEF Due
      <3>2. QED
        BY <2>1, <3>1
    <2>3. CASE q # r
      <3>1. i \in Places(q) /\ taken'[q][i] = taken[q][i]
        BY <1>6, <2>3
      <3>2. idle'[taken[q][i]] \in {0, idle[taken[q][i]]}
        BY <1>8, <3>1
      <3>3. idle[taken[q][i]] <= passed'[q] * ReadTakes + spent'[q]
        BY <1>6, <2>3, <3>1 DEF InTime, Leases
      <3>4. QED
        BY <2>1, <3>1, <3>2, <3>3
    <2>4. QED
      BY <2>2, <2>3
  <1>15. QED
    BY <1>9, <1>10, <1>11, <1>12, <1>13, <1>14 DEF Leases

(* An attempt that ends its job goes on to tell of it. *)
LEMMA MarkKeepsLeases ==
    ASSUME Leases, QueueTypeOK', TakenTried', NEW r \in Replicas, Mark(r)
    PROVE  Leases'
  <1> DEFINE f == Job(r)
             next == NextStatus(f, outcome[r])
  <1>1. /\ loop[r] = "mark" /\ loop[r] \in Working /\ 1 \in Places(r) /\ f = taken[r][1]
        /\ f \in Files
    BY HeldType DEF Mark, Leases, Working
  <1>2. /\ status' = [status EXCEPT ![f] = next]
        /\ idle' = [idle EXCEPT ![f] = 0]
        /\ overrun' = overrun
    BY DEF Mark, files
  <1>3. \A g \in Files : (g # f => status'[g] = status[g]) /\ idle'[g] <= idle[g]
    <2> SUFFICES ASSUME NEW g \in Files
                 PROVE  (g # f => status'[g] = status[g]) /\ idle'[g] <= idle[g]
      OBVIOUS
    <2>1. status'[g] = IF g = f THEN next ELSE status[g]
      BY <1>2 DEF Leases, QueueTypeOK
    <2>2. idle'[g] = IF g = f THEN 0 ELSE idle[g]
      BY <1>2 DEF Leases, QueueTypeOK
    <2>3. idle[g] \in 0..(StaleAfter + 1)
      BY DEF Leases, QueueTypeOK
    <2> HIDE DEF next, f
    <2>4. QED
      BY <2>1, <2>2, <2>3
  <1>4. CASE next = "pending"
    <2>1. Continue(r)
      BY <1>4 DEF Mark
    <2>2. QED
      BY <1>1, <1>2, <1>3, <2>1, ContinueKeepsLeases
  <1>5. CASE next # "pending"
    <2>1. Turn(r, "tell", outcome[r])
      BY <1>5 DEF Mark
    <2>2. /\ loop' = [loop EXCEPT ![r] = "tell"]
          /\ outcome' = outcome
          /\ UNCHANGED <<taken, passed, spent>>
      BY <2>1 DEF Turn, Leases, QueueTypeOK
    <2>3. \A q \in Replicas : Places(q)' = Places(q) /\ Job(q)' = Job(q)
      BY <2>2 DEF Places, Job
    <2>4. BatchFits' /\ EachOnce' /\ HeldApart'
      BY <1>2, <2>2, <2>3 DEF Leases, BatchFits, EachOnce, HeldApart
    <2>5. \A q \in Replicas : \A i \in Places(q) :
              q # r \/ i # 1 => \/ status'[taken[q][i]] = status[taken[q][i]]
                                \/ taken[q][i] \in overrun
      BY <1>1, <1>3, HeldType DEF Leases, EachOnce, HeldApart
    <2>6. HeldProcessing'
      <3> SUFFICES ASSUME NEW q \in Replicas, NEW i \in Places(q),
                          i > 1 \/ loop'[q] # "tell", taken[q][i] \notin overrun
                   PROVE  status'[taken[q][i]] = "processing"
        BY <1>2, <2>2, <2>3 DEF HeldProcessing
      <3>1. q # r \/ i # 1
        BY <2>2 DEF Leases, QueueTypeOK
      <3>2. i # 1 => i > 1
        BY HeldType DEF Places, Leases
      <3>3. q = r => loop[q] # "tell"
        BY <1>1
      <3>4. q # r => loop'[q] = loop[q]
        BY <2>2 DEF Leases, QueueTypeOK
      <3>5. status[taken[q][i]] = "processing"
        BY <3>1, <3>2, <3>3, <3>4 DEF Leases, HeldProcessing
      <3>6. QED
        BY <2>5, <3>1, <3>5
    <2>7. TellsTheEnd'
      <3> SUFFICES ASSUME NEW q \in Replicas, loop'[q] = "tell", Job(q) \notin overrun
                   PROVE  status'[Job(q)] = IF outcome[q] = "saved" THEN "done" ELSE "failed"
        BY <1>2, <2>2, <2>3 DEF TellsTheEnd
      <3>1. CASE q = r
        <4>1. status'[f] = next
          BY <1>1, <1>2 DEF Leases, QueueTypeOK
        <4>2. next = IF outcome[r] = "saved" THEN "done" ELSE "failed"
          BY <1>5 DEF NextStatus
        <4>3. QED
          BY <3>1, <4>1, <4>2
      <3>2. CASE q # r
        <4>1. loop[q] = "tell"
          BY <2>2, <3>2 DEF Leases, QueueTypeOK
        <4>2. 1 \in Places(q) /\ Job(q) = taken[q][1]
          BY <4>1, HeldType DEF Leases, Working
        <4>3. QED
          BY <2>5, <3>2, <4>1, <4>2 DEF Leases, TellsTheEnd
      <3>3. QED
        BY <3>1, <3>2
    <2>8. InTime'
      <3> SUFFICES ASSUME NEW q \in Replicas, NEW i \in Places(q)
                   PROVE  idle'[taken[q][i]] <= passed[q] * ReadTakes + spent[q]
        BY <2>2, <2>3 DEF InTime
      <3> DEFINE a == idle'[taken[q][i]]
                 b == idle[taken[q][i]]
                 c == passed[q] * ReadTakes + spent[q]
      <3>1. a <= b /\ b <= c
        BY <1>3, HeldType DEF Leases, InTime
      <3>2. a \in Int /\ b \in Int /\ c \in Int
        <4>1. taken[q][i] \in Files
          BY HeldType DEF Leases
        <4>2. a \in 0..(StaleAfter + 1)
          BY <4>1 DEF QueueTypeOK
        <4>3. b \in 0..(StaleAfter + 1) /\ c \in Nat
          BY TimeType DEF Leases
        <4>4. QED
          BY <4>2, <4>3
      <3> HIDE DEF a, b, c
      <3>3. a <= c
        BY <3>1, <3>2
      <3>4. QED
        BY <3>3 DEF a, c
    <2>9. QED
      BY <2>4, <2>6, <2>7, <2>8 DEF Leases
  <1>6. QED
    BY <1>4, <1>5

(* A minute that passes is a minute of every attempt that is going on. *)
LEMMA PassKeepsLeases ==
    ASSUME Leases, QueueTypeOK', TakenTried', PassMinute
    PROVE  Leases'
  <1>1. UNCHANGED <<status, loop, taken, passed, outcome, overrun>>
    BY DEF PassMinute, files
  <1>2. \A r \in Replicas : Places(r)' = Places(r) /\ Job(r)' = Job(r)
    BY <1>1 DEF Places, Job
  <1>3. BatchFits' /\ EachOnce' /\ HeldApart' /\ HeldProcessing' /\ TellsTheEnd'
    BY <1>1, <1>2 DEF Leases, BatchFits, EachOnce, HeldApart, HeldProcessing, TellsTheEnd
  <1>4. InTime'
    <2> SUFFICES ASSUME NEW r \in Replicas, NEW i \in Places(r)
                 PROVE  idle'[taken[r][i]] <= passed[r] * ReadTakes + spent'[r]
      BY <1>1, <1>2 DEF InTime
    <2> DEFINE b == idle[taken[r][i]]
               c == passed[r] * ReadTakes
    <2>1. taken[r][i] \in Files /\ loop[r] \in Working
      BY HeldType DEF Leases, QueueTypeOK, Places
    <2>2. idle'[taken[r][i]] <= b + 1
      <3>1. b \in 0..(StaleAfter + 1)
        BY TimeType DEF Leases
      <3>2. idle'[taken[r][i]] \in {0, AtMost(b + 1, StaleAfter + 1)}
        BY <2>1 DEF PassMinute
      <3>3. QED
        BY <3>1, <3>2, Bounds DEF AtMost
    <2>3. spent'[r] = spent[r] + 1
      BY <2>1 DEF PassMinute
    <2>4. b <= c + spent[r]
      BY DEF Leases, InTime
    <2>5. b \in Int /\ spent[r] \in Int /\ c \in Int
      <3>1. b \in 0..(StaleAfter + 1) /\ spent[r] \in 0..ReadTakes /\ passed[r] \in Nat
        BY TimeType DEF Leases, QueueTypeOK
      <3>2. passed[r] <= passed[r]
        BY <3>1
      <3>3. c \in Nat
        BY <3>1, <3>2, LaterTakesLonger, Bounds
      <3>4. QED
        BY <3>1, <3>3
    <2>6. idle'[taken[r][i]] \in Int
      <3>1. idle'[taken[r][i]] \in 0..(StaleAfter + 1)
        BY <2>1 DEF QueueTypeOK
      <3>2. QED
        BY <3>1
    <2> HIDE DEF b, c
    <2>7. idle'[taken[r][i]] <= c + spent'[r]
      BY <2>2, <2>3, <2>4, <2>5, <2>6
    <2>8. QED
      BY <2>7 DEF c
  <1>5. QED
    BY <1>3, <1>4 DEF Leases

(* Every step keeps the leases. *)
LEMMA NextKeepsLeases ==
    ASSUME Leases, QueueTypeOK', TakenTried', [QueueNext]_queueVars
    PROVE  Leases'
  <1>1. ASSUME NEW f \in Files, Enqueue(f) PROVE Leases'
    <2>1. status' = [status EXCEPT ![f] = "pending"] /\ status[f] = "none"
          /\ UNCHANGED <<taken, passed, spent, idle, loop, outcome, overrun>>
      BY <1>1 DEF Enqueue, process, files
    <2>2. \A r \in Replicas : \A i \in Places(r) :
              taken[r][i] \in Files /\ (taken[r][i] # f \/ taken[r][i] \in overrun)
      <3> SUFFICES ASSUME NEW r \in Replicas, NEW i \in Places(r), taken[r][i] \notin overrun
                   PROVE  status[taken[r][i]] # "none"
        BY <2>1, HeldType DEF Leases
      <3>1. CASE i > 1 \/ loop[r] # "tell"
        BY <3>1 DEF Leases, HeldProcessing
      <3>2. CASE ~(i > 1 \/ loop[r] # "tell")
        <4>1. i = 1 /\ taken[r][i] = Job(r)
          BY <3>2, HeldType DEF Leases, Working, Places
        <4>2. QED
          BY <3>2, <4>1 DEF Leases, TellsTheEnd
      <3>3. QED
        BY <3>1, <3>2
    <2>3. \A r \in Replicas : \A i \in Places(r) :
              /\ status'[taken[r][i]] = status[taken[r][i]] \/ taken[r][i] \in overrun'
              /\ idle'[taken[r][i]] <= idle[taken[r][i]]
      <3>1. \A g \in Files : g # f => status'[g] = status[g]
        BY <2>1 DEF Leases, QueueTypeOK
      <3>2. \A r \in Replicas : \A i \in Places(r) : idle[taken[r][i]] \in Int
        BY TimeType DEF Leases
      <3>3. QED
        BY <2>1, <2>2, <3>1, <3>2
    <2>4. QED
      BY <2>1, <2>3, StillKeepsLeases
  <1>2. ASSUME UNCHANGED <<status, idle, process, overrun>> PROVE Leases'
    <2>1. \A r \in Replicas : \A i \in Places(r) :
              /\ status'[taken[r][i]] = status[taken[r][i]]
              /\ idle'[taken[r][i]] <= idle[taken[r][i]]
      BY <1>2, TimeType DEF Leases
    <2>2. QED
      BY <1>2, <2>1, StillKeepsLeases DEF process
  <1>3. ASSUME NEW q \in Replicas, ReleaseStale(q) PROVE Leases'
    <2>1. /\ status' = [f \in Files |-> IF f \in Stale THEN "pending" ELSE status[f]]
          /\ idle' = [f \in Files |-> IF f \in Stale THEN 0 ELSE idle[f]]
          /\ overrun' = overrun \cup
                {f \in Stale : \E p \in Replicas : \E i \in 1..Len(taken[p]) :
                                   taken[p][i] = f /\ Late(p, i)}
          /\ loop[q] = "asleep" /\ loop' = [loop EXCEPT ![q] = "awake"]
          /\ UNCHANGED <<taken, passed, spent, outcome>>
      BY <1>3 DEF ReleaseStale
    <2>2. \A r \in Replicas : \A i \in Places(r) :
              status'[taken[r][i]] = status[taken[r][i]] \/ taken[r][i] \in overrun'
      <3> SUFFICES ASSUME NEW r \in Replicas, NEW i \in Places(r), taken[r][i] \in Stale
                   PROVE  taken[r][i] \in overrun'
        BY <2>1, HeldType DEF Leases
      <3>1. Late(r, i)
        BY HeldStaleIsLate
      <3>2. QED
        BY <2>1, <3>1 DEF Places
    <2>3. \A r \in Replicas : \A i \in Places(r) : idle'[taken[r][i]] <= idle[taken[r][i]]
      <3> SUFFICES ASSUME NEW r \in Replicas, NEW i \in Places(r)
                   PROVE  idle'[taken[r][i]] <= idle[taken[r][i]]
        OBVIOUS
      <3>1. idle[taken[r][i]] \in 0..(StaleAfter + 1)
        BY TimeType DEF Leases
      <3>2. idle'[taken[r][i]] \in {0, idle[taken[r][i]]}
        BY <2>1, HeldType DEF Leases
      <3>3. QED
        BY <3>1, <3>2
    <2>4. \A r \in Replicas : loop'[r] = "tell" <=> loop[r] = "tell"
      BY <2>1 DEF Leases, QueueTypeOK
    <2>5. overrun \subseteq overrun'
      BY <2>1
    <2>6. \A r \in Replicas : loop[r] = "tell" => outcome'[r] = outcome[r]
      BY <2>1
    <2>7. QED
      BY <2>1, <2>2, <2>3, <2>4, <2>5, <2>6, StillKeepsLeases
  <1>4. ASSUME NEW q \in Replicas, loop[q] # "tell", UNCHANGED <<status, idle, overrun>>,
               NEW next \in Working \ {"tell"}, NEW result, Turn(q, next, result)
        PROVE  Leases'
    <2>1. /\ loop' = [loop EXCEPT ![q] = next]
          /\ outcome' = [outcome EXCEPT ![q] = result]
          /\ UNCHANGED <<taken, passed, spent>>
      BY <1>4 DEF Turn
    <2>2. \A r \in Replicas : loop'[r] = "tell" <=> loop[r] = "tell"
      BY <1>4, <2>1 DEF Leases, QueueTypeOK
    <2>3. \A r \in Replicas : loop[r] = "tell" => outcome'[r] = outcome[r]
      BY <1>4, <2>1 DEF Leases, QueueTypeOK
    <2>4. \A r \in Replicas : \A i \in Places(r) :
              /\ status'[taken[r][i]] = status[taken[r][i]]
              /\ idle'[taken[r][i]] <= idle[taken[r][i]]
      BY <1>4, TimeType DEF Leases
    <2>5. QED
      BY <1>4, <2>1, <2>2, <2>3, <2>4, StillKeepsLeases
  <1>5. ASSUME NEW q \in Replicas, CheckSaved(q) PROVE Leases'
    BY <1>4, <1>5 DEF CheckSaved, job, files, Working
  <1>6. ASSUME NEW q \in Replicas, OpenDocument(q) PROVE Leases'
    BY <1>4, <1>6 DEF OpenDocument, job, files, Working
  <1>7. ASSUME NEW q \in Replicas, Answer(q) PROVE Leases'
    BY <1>4, <1>7 DEF Answer, job, files, Working
  <1>8. ASSUME NEW q \in Replicas, Save(q) PROVE Leases'
    BY <1>4, <1>8 DEF Save, job, files, Working
  <1>9. ASSUME NEW q \in Replicas, MarkFails(q) PROVE Leases'
    <2>1. CASE Turn(q, "mark", "error")
      BY <1>4, <1>9, <2>1 DEF MarkFails, job, files, Working
    <2>2. CASE DropBatch(q)
      BY <1>9, <2>2, DropKeepsLeases DEF MarkFails, job, files
    <2>3. QED
      BY <1>9, <2>1, <2>2 DEF MarkFails
  <1>10. ASSUME NEW q \in Replicas, CrashLoop(q) PROVE Leases'
    BY <1>10, DropKeepsLeases DEF CrashLoop, job, files
  <1>11. ASSUME NEW q \in Replicas, Tell(q) \/ TellFails(q) PROVE Leases'
    <2>1. Continue(q) /\ UNCHANGED <<status, idle, overrun>> /\ loop[q] \in Working
      BY <1>11 DEF Tell, TellFails, job, files, Working
    <2>2. \A f \in Files : idle'[f] <= idle[f] /\ status'[f] = status[f]
      BY <2>1 DEF Leases, QueueTypeOK
    <2>3. QED
      BY <2>1, <2>2, ContinueKeepsLeases
  <1>12. QED
    BY <1>1, <1>2, <1>3, <1>5, <1>6, <1>7, <1>8, <1>9, <1>10, <1>11,
       ClaimKeepsLeases, MarkKeepsLeases, PassKeepsLeases
       DEF QueueNext, Step, queueVars, job, files, SaveByHand, DeleteExpense, DiscardFile,
           ShowNotice

(* A job's status changes only by its own process, a release or a request. *)
LEMMA EndedStaysEnded ==
    ASSUME Leases, [QueueNext]_queueVars,
           NEW f \in Files \ overrun, status[f] \in Ended
    PROVE  status'[f] = status[f]
  <1>1. CASE UNCHANGED status
    BY <1>1
  <1>2. ASSUME NEW g \in Files, Enqueue(g) PROVE status'[f] = status[f]
    BY <1>2 DEF Enqueue, Ended, Leases, QueueTypeOK
  <1>3. ASSUME NEW r \in Replicas, ReleaseStale(r) PROVE status'[f] = status[f]
    BY <1>3 DEF ReleaseStale, Stale, Ended
  <1>4. ASSUME NEW r \in Replicas, ClaimJobs(r) PROVE status'[f] = status[f]
    BY <1>4 DEF ClaimJobs, Due, Ended
  <1>5. ASSUME NEW r \in Replicas, Mark(r) PROVE status'[f] = status[f]
    <2>1. loop[r] = "mark" /\ loop[r] \in Working
      BY <1>5 DEF Mark, Working
    <2>2. 1 \in Places(r) /\ Job(r) = taken[r][1]
      BY <2>1, HeldType DEF Leases
    <2>3. status[Job(r)] = "processing" \/ Job(r) \in overrun
      BY <2>1, <2>2 DEF Leases, HeldProcessing
    <2>4. QED
      BY <1>5, <2>3 DEF Mark, Ended, Leases, QueueTypeOK
  <1>6. QED
    BY <1>1, <1>2, <1>3, <1>4, <1>5
       DEF QueueNext, Step, queueVars, job, SaveByHand, DeleteExpense, DiscardFile, ShowNotice,
           CheckSaved, OpenDocument, Answer, Save, MarkFails, Tell, TellFails,
           CrashLoop, PassMinute

(* What was told stays true, and only what is true is told. *)
LEMMA NextKeepsTold ==
    ASSUME Leases, ToldAsItEnded, [QueueNext]_queueVars
    PROVE  ToldAsItEnded'
  <1> SUFFICES ASSUME NEW f \in Files, f \notin overrun', told'[f] \in Ended
               PROVE  told'[f] = status'[f]
    BY OverrunGrows DEF ToldAsItEnded, Leases, QueueTypeOK
  <1>0. f \notin overrun
    BY OverrunGrows
  <1>1. CASE told'[f] = told[f]
    <2>1. told[f] = status[f] /\ status[f] \in Ended
      BY <1>0, <1>1 DEF ToldAsItEnded
    <2>2. QED
      BY <1>0, <1>1, <2>1, EndedStaysEnded
  <1>2. ASSUME NEW g \in Files, ShowNotice(g), told'[f] # told[f] PROVE told'[f] = status'[f]
    BY <1>2 DEF ShowNotice, job, Leases, QueueTypeOK
  <1>3. ASSUME NEW r \in Replicas, Tell(r), told'[f] # told[f] PROVE told'[f] = status'[f]
    <2>1. loop[r] = "tell" /\ status' = status
      BY <1>3 DEF Tell, job
    <2>2. f = Job(r)
      BY <1>3 DEF Tell, Leases, QueueTypeOK
    <2>3. status[Job(r)] = IF outcome[r] = "saved" THEN "done" ELSE "failed"
      BY <1>0, <2>1, <2>2 DEF Leases, TellsTheEnd
    <2>4. QED
      BY <1>3, <2>1, <2>2, <2>3 DEF Tell, Leases, QueueTypeOK
  <1>4. ASSUME NEW r \in Replicas, TellFails(r) \/ CrashLoop(r) PROVE told'[f] = told[f]
    BY <1>4, LostType DEF TellFails, CrashLoop, Leases
  <1>5. CASE UNCHANGED told
    BY <1>1, <1>5
  <1>6. QED
    BY <1>1, <1>2, <1>3, <1>4, <1>5
       DEF QueueNext, Step, queueVars, Enqueue, SaveByHand, DeleteExpense, DiscardFile, ReleaseStale,
           ClaimJobs, CheckSaved, OpenDocument, Answer, Save, Mark, MarkFails, PassMinute

(* A file found without an expense has none until its process saves one,     *)
(* unless another process was given its job.                                 *)
LEMMA NextKeepsSavesUnsaved ==
    ASSUME Leases, Leases', SavesUnsaved, [QueueNext]_queueVars
    PROVE  SavesUnsaved'
  <1> DEFINE Reading == {"open", "read", "save"}
  <1> SUFFICES ASSUME "save" \notin People, NEW r \in Replicas, loop'[r] \in Reading,
                      Job(r)' \notin overrun'
               PROVE  live'[Job(r)'] = 0
    BY DEF SavesUnsaved
  <1>0. Job(r)' \notin overrun
    BY OverrunGrows
  <1>1. ASSUME loop[r] \in Reading, Job(r)' = Job(r), live'[Job(r)] <= live[Job(r)]
        PROVE  live'[Job(r)'] = 0
    <2>1. live[Job(r)] = 0
      BY <1>0, <1>1 DEF SavesUnsaved
    <2>2. QueueTypeOK /\ loop[r] \in Working
      BY <1>1 DEF Leases, Working
    <2>3. Job(r) \in Files
      BY <2>2, JobType
    <2>4. live'[Job(r)] \in Nat
      BY <2>3 DEF Leases, QueueTypeOK
    <2>5. QED
      BY <1>1, <2>1, <2>4
  <1>2. ASSUME loop'[r] = loop[r], taken'[r] = taken[r], live' = live
        PROVE  live'[Job(r)'] = 0
    <2>1. Job(r)' = Job(r)
      BY <1>2 DEF Job
    <2>2. QED
      BY <1>0, <1>2, <2>1 DEF SavesUnsaved
  <1>3. ASSUME NEW q \in Replicas, NEW next, NEW result, live' = live,
               Turn(q, next, result), loop[q] \in Reading \/ next \notin Reading
        PROVE  live'[Job(r)'] = 0
    <2>1. loop' = [loop EXCEPT ![q] = next] /\ taken' = taken
      BY <1>3 DEF Turn
    <2>2. loop[r] \in Reading
      BY <1>3, <2>1 DEF Leases, QueueTypeOK
    <2>3. Job(r)' = Job(r)
      BY <2>1 DEF Job
    <2>4. QED
      BY <1>0, <1>3, <2>2, <2>3 DEF SavesUnsaved
  <1>4. ASSUME NEW q \in Replicas, Continue(q), live' = live
        PROVE  live'[Job(r)'] = 0
    <2>1. r # q
      BY <1>4 DEF Continue, Leases, QueueTypeOK
    <2>2. loop'[r] = loop[r] /\ taken'[r] = taken[r]
      BY <1>4, <2>1 DEF Continue, Leases, QueueTypeOK
    <2>3. QED
      BY <1>2, <1>4, <2>2
  <1>5. ASSUME NEW f \in Files, DeleteExpense(f) \/ DiscardFile(f)
        PROVE  live'[Job(r)'] = 0
    <2>1. loop' = loop /\ taken' = taken
      BY <1>5 DEF DeleteExpense, DiscardFile, process
    <2>2. loop[r] \in Reading /\ Job(r)' = Job(r)
      BY <2>1 DEF Job
    <2>3. live[Job(r)] = 0
      BY <1>0, <2>2 DEF SavesUnsaved
    <2>4. Job(r) \in Files
      BY <2>2, JobType DEF Leases, Working
    <2>5. CASE DeleteExpense(f)
      BY <2>2, <2>3, <2>4, <2>5 DEF DeleteExpense, Leases, QueueTypeOK
    <2>6. CASE DiscardFile(f)
      BY <2>2, <2>3, <2>4, <2>6 DEF DiscardFile, Leases, QueueTypeOK
    <2>7. QED
      BY <1>5, <2>5, <2>6
  <1>6. ASSUME NEW q \in Replicas, ReleaseStale(q) \/ ClaimJobs(q) \/ CrashLoop(q)
        PROVE  live'[Job(r)'] = 0
    <2>1. loop'[q] \in {"asleep", "awake", "check"} /\ live' = live
      BY <1>6 DEF ReleaseStale, ClaimJobs, CrashLoop, DropBatch, files, Leases, QueueTypeOK
    <2>2. r # q
      BY <2>1
    <2>3. loop'[r] = loop[r] /\ taken'[r] = taken[r]
      BY <1>6, <2>2 DEF ReleaseStale, ClaimJobs, CrashLoop, DropBatch, Leases, QueueTypeOK
    <2>4. QED
      BY <1>2, <2>1, <2>3
  <1>7. ASSUME NEW q \in Replicas, CheckSaved(q) PROVE live'[Job(r)'] = 0
    <2>1. live' = live
      BY <1>7 DEF CheckSaved, files
    <2>2. CASE live[Job(q)] > 0
      BY <1>3, <1>7, <2>1, <2>2 DEF CheckSaved
    <2>3. CASE ~(live[Job(q)] > 0)
      <3>1. Turn(q, "open", "read") /\ loop[q] \in Working
        BY <1>7, <2>3 DEF CheckSaved, Working
      <3>2. live[Job(q)] = 0
        <4>1. Job(q) \in Files
          BY <3>1, JobType DEF Leases
        <4>2. live[Job(q)] \in Nat
          BY <4>1 DEF Leases, QueueTypeOK
        <4>3. QED
          BY <2>3, <4>2
      <3>3. \A p \in Replicas : p # q => loop'[p] = loop[p]
        BY <3>1 DEF Turn, Leases, QueueTypeOK
      <3>4. Job(r)' = Job(r)
        BY <3>1 DEF Turn, Job
      <3>5. QED
        BY <1>2, <2>1, <3>1, <3>2, <3>3, <3>4 DEF Turn
    <2>4. QED
      BY <2>2, <2>3
  <1>8. ASSUME NEW q \in Replicas, OpenDocument(q) PROVE live'[Job(r)'] = 0
    BY <1>3, <1>8 DEF OpenDocument, files
  <1>9. ASSUME NEW q \in Replicas, Answer(q) PROVE live'[Job(r)'] = 0
    BY <1>3, <1>9 DEF Answer, files
  <1>10. ASSUME NEW q \in Replicas, Save(q) PROVE live'[Job(r)'] = 0
    <2>1. loop[q] = "save"
      BY <1>10 DEF Save
    <2>2. CASE UNCHANGED files
      BY <1>3, <1>10, <2>1, <2>2 DEF Save, files
    <2>3. CASE live' = [live EXCEPT ![Job(q)] = @ + 1]
      <3>1. Turn(q, "mark", "saved") \/ Turn(q, "mark", "error")
        BY <1>10 DEF Save
      <3>2. r # q /\ loop'[r] = loop[r] /\ taken' = taken
        BY <3>1 DEF Turn, Leases, QueueTypeOK
      <3>3. Job(r)' = Job(r) /\ loop[r] \in Reading
        BY <3>2 DEF Job
      <3>4. Job(r) # Job(q)
        <4>1. 1 \in Places(r) /\ Job(r) = taken[r][1] /\ 1 \in Places(q) /\ Job(q) = taken[q][1]
          BY <2>1, <3>3, HeldType DEF Leases, Working
        <4>2. QED
          BY <1>0, <3>2, <3>3, <4>1 DEF Leases, HeldApart
      <3>5. live[Job(r)] = 0
        BY <1>0, <3>3 DEF SavesUnsaved
      <3>6. QED
        BY <2>3, <3>3, <3>4, <3>5 DEF Leases, QueueTypeOK
    <2>4. QED
      BY <1>10, <2>2, <2>3 DEF Save
  <1>11. ASSUME NEW q \in Replicas, Mark(q) PROVE live'[Job(r)'] = 0
    <2>1. live' = live /\ (Continue(q) \/ Turn(q, "tell", outcome[q]))
      BY <1>11 DEF Mark, files
    <2>2. QED
      BY <1>3, <1>4, <2>1
  <1>12. ASSUME NEW q \in Replicas, MarkFails(q) PROVE live'[Job(r)'] = 0
    <2>1. live' = live
      BY <1>12 DEF MarkFails, files
    <2>2. CASE Turn(q, "mark", "error")
      BY <1>3, <2>1, <2>2
    <2>3. CASE DropBatch(q)
      <3>1. r # q
        BY <2>3 DEF DropBatch, Leases, QueueTypeOK
      <3>2. QED
        BY <1>2, <2>1, <2>3, <3>1 DEF DropBatch, Leases, QueueTypeOK
    <2>4. QED
      BY <1>12, <2>2, <2>3 DEF MarkFails
  <1>13. ASSUME NEW q \in Replicas, Tell(q) \/ TellFails(q) PROVE live'[Job(r)'] = 0
    BY <1>4, <1>13 DEF Tell, TellFails, files
  <1>14. CASE UNCHANGED <<live, loop, taken>>
    BY <1>2, <1>14
  <1>15. QED
    BY <1>5, <1>6, <1>7, <1>8, <1>9, <1>10, <1>11, <1>12, <1>13, <1>14
       DEF QueueNext, Step, queueVars, files, process, Enqueue, SaveByHand, ShowNotice, PassMinute

(* The jobs of the queue are held, told and saved as the code means them to. *)
THEOREM QueueInvariant == QueueSpec => []QueueInv
  <1>1. QueueInit => Leases
    <2> SUFFICES ASSUME QueueInit PROVE Leases
      OBVIOUS
    <2>1. QueueTypeOK /\ TakenTried
      BY Bounds DEF QueueInit, QueueTypeOK, TakenTried, Ended, Working
    <2>2. \A r \in Replicas :
              /\ taken[r] = <<>> /\ Len(taken[r]) = 0 /\ Places(r) = {}
              /\ loop[r] = "asleep" /\ passed[r] = 0
      BY DEF QueueInit, Places
    <2>3. QED
      BY <2>1, <2>2, Bounds
         DEF Leases, BatchFits, EachOnce, HeldApart, HeldProcessing, TellsTheEnd, InTime
  <1>2. QueueInit => ToldAsItEnded /\ SavesUnsaved
    BY DEF QueueInit, ToldAsItEnded, SavesUnsaved, Ended
  <1>3. Leases /\ (QueueTypeOK /\ TakenTried)' /\ [QueueNext]_queueVars => Leases'
    BY NextKeepsLeases
  <1>4. Leases /\ Leases' /\ ToldAsItEnded /\ SavesUnsaved /\ [QueueNext]_queueVars
            => ToldAsItEnded' /\ SavesUnsaved'
    BY NextKeepsTold, NextKeepsSavesUnsaved
  <1>5. QED
    BY <1>1, <1>2, <1>3, <1>4, TypedAndTried, PTL DEF QueueSpec, QueueInv

(* A job has two takers only if it was released from a process that still    *)
(* held it, from a place in its batch that the attempts up to it can carry   *)
(* past the stale limit.                                                     *)
THEOREM JobsHaveOneTaker == QueueSpec => []OneTakerInTime
  <1>1. QueueInv => OneTakerInTime
    BY HeldType DEF QueueInv, Leases, OneTakerInTime, HeldApart, Places, ToSet
  <1>2. QED
    BY <1>1, QueueInvariant, PTL

(* Of every other job the sender is told what it then still says. *)
THEOREM SendersAreToldTheEnd == QueueSpec => []ToldAsItEnded
  BY QueueInvariant, PTL DEF QueueInv

(* And every other job that ended stays as it ended. *)
THEOREM JobsEndOnce == QueueSpec => EndedJobsStay
  <1>1. QueueInv /\ [QueueNext]_queueVars
            => [\A f \in Files \ overrun :
                    status[f] \in Ended => status'[f] = status[f]]_queueVars
    BY EndedStaysEnded DEF QueueInv
  <1>2. QED
    BY <1>1, QueueInvariant, PTL DEF QueueSpec, EndedJobsStay

(* And, if nobody attaches the file by hand meanwhile, the queue saves no    *)
(* expense of it beside a live one.                                          *)
THEOREM NoExpenseBesideAnother ==
    ASSUME "save" \notin People
    PROVE  QueueSpec => SavesOnlyUnsaved
  <1>1. QueueInv /\ [QueueNext]_queueVars
            => [\A f \in Files \ overrun : made'[f] > made[f] => live[f] = 0]_queueVars
    <2> SUFFICES ASSUME QueueInv, [QueueNext]_queueVars, NEW f \in Files \ overrun,
                        made'[f] > made[f]
                 PROVE  live[f] = 0
      OBVIOUS
    <2>1. made' # made
      BY Bounds DEF QueueInv, Leases, QueueTypeOK
    <2>2. PICK r \in Replicas : Save(r)
      BY <2>1
         DEF QueueNext, Step, queueVars, files, Enqueue, SaveByHand, DeleteExpense, DiscardFile,
             ShowNotice, ReleaseStale, ClaimJobs, CheckSaved, OpenDocument, Answer, Mark,
             MarkFails, Tell, TellFails, CrashLoop, PassMinute
    <2>3. f = Job(r)
      BY <2>1, <2>2 DEF Save, files, QueueInv, Leases, QueueTypeOK
    <2>4. QED
      BY <2>2, <2>3 DEF Save, QueueInv, SavesUnsaved
  <1>2. QED
    BY <1>1, QueueInvariant, PTL DEF QueueSpec, SavesOnlyUnsaved

(* What keeps a claim from going stale while its process is alive: a batch   *)
(* that fits the stale limit, or one process, which releases before it       *)
(* claims.                                                                   *)
LeaseOutlivesBatch ==
    \/ Batch * ReadTakes <= StaleAfter
    \/ \A r1, r2 \in Replicas : r1 = r2

NoneOverran == overrun = {}

(* Then no job is released while it is held, and nothing is excepted above.  *)
THEOREM NothingOverruns ==
    ASSUME LeaseOutlivesBatch
    PROVE  QueueSpec => []NoneOverran
  <1>1. QueueInit => NoneOverran
    BY DEF QueueInit, NoneOverran
  <1>2. QueueInv /\ NoneOverran /\ [QueueNext]_queueVars => NoneOverran'
    <2> SUFFICES ASSUME Leases, overrun = {}, [QueueNext]_queueVars PROVE overrun' = {}
      BY DEF QueueInv, NoneOverran
    <2>1. ASSUME NEW q \in Replicas, ReleaseStale(q) PROVE overrun' = {}
      <3> SUFFICES ASSUME NEW r \in Replicas, NEW i \in 1..Len(taken[r]) PROVE ~Late(r, i)
        BY <2>1 DEF ReleaseStale
      <3>1. /\ taken[r] \in Seq(Files) /\ Len(taken[r]) \in Nat /\ passed[r] \in Nat
            /\ passed[r] + Len(taken[r]) <= Batch
        BY HeldType DEF Leases, QueueTypeOK, BatchFits
      <3>2. CASE Batch * ReadTakes <= StaleAfter
        <4> DEFINE c == (passed[r] + i) * ReadTakes
                   d == Batch * ReadTakes
        <4>1. passed[r] + i \in Nat /\ passed[r] + i <= Batch
          BY <3>1, Bounds
        <4>2. c <= d /\ c \in Nat /\ d \in Nat
          BY <4>1, LaterTakesLonger, Bounds
        <4>3. d <= StaleAfter
          BY <3>2
        <4> HIDE DEF c, d
        <4>4. ~(c > StaleAfter)
          BY <4>2, <4>3, Bounds
        <4>5. QED
          BY <4>4 DEF Late, c
      <3>3. CASE \A r1, r2 \in Replicas : r1 = r2
        <4>1. loop[r] = "asleep"
          BY <2>1, <3>3 DEF ReleaseStale
        <4>2. taken[r] = <<>>
          BY <4>1 DEF Leases, QueueTypeOK, Working
        <4>3. QED
          BY <4>2
      <3>4. QED
        BY <3>2, <3>3 DEF LeaseOutlivesBatch
    <2>2. CASE UNCHANGED overrun
      BY <2>2
    <2>3. QED
      BY <2>1, <2>2
         DEF QueueNext, Step, queueVars, files, Enqueue, SaveByHand, DeleteExpense, DiscardFile,
             ShowNotice, ClaimJobs, CheckSaved, OpenDocument, Answer, Save, Mark,
             MarkFails, Tell, TellFails, CrashLoop, PassMinute
  <1>3. QED
    BY <1>1, <1>2, QueueInvariant, PTL DEF QueueSpec

(***************************************************************************)
(* The poller.                                                              *)
(***************************************************************************)
(* The bounds are natural numbers, and no update has the id 0. *)
LEMMA PollerBounds ==
    /\ TelegramKeeps \in Nat /\ ClaimsKept \in Nat /\ MaxDay \in Nat
    /\ MaxCrashes \in Nat /\ MaxClaimErrors \in Nat /\ MaxPanics \in Nat
    /\ TelegramKeeps <= ClaimsKept
    /\ \A u \in Updates : u \in Nat /\ u # NoUpdate /\ u + 1 \in Nat
    /\ NoWorker \notin Workers /\ NoChat \notin Chats
    /\ \A u \in Updates : ChatOf[u] # NoChat => ChatOf[u] \in Chats
  BY PollerAssumption DEF NoUpdate

Elems(s) == {s[i] : i \in 1..Len(s)}
Distinct(s) == \A i, j \in 1..Len(s) : s[i] = s[j] => i = j

(* What an appended update adds to a sequence of updates. *)
LEMMA AppendElems ==
    ASSUME NEW s \in Seq(Updates), NEW u \in Updates
    PROVE  /\ Append(s, u) \in Seq(Updates)
           /\ Elems(Append(s, u)) = Elems(s) \cup {u}
           /\ Distinct(s) /\ u \notin Elems(s) => Distinct(Append(s, u))
  <1> DEFINE t == Append(s, u)
  <1>1. /\ t \in Seq(Updates) /\ Len(t) = Len(s) + 1 /\ Len(s) \in Nat
        /\ \A i \in 1..Len(s) : t[i] = s[i]
        /\ t[Len(s) + 1] = u
    OBVIOUS
  <1> HIDE DEF t
  <1>2. Elems(t) = Elems(s) \cup {u}
    <2>1. Elems(t) \subseteq Elems(s) \cup {u}
      BY <1>1 DEF Elems
    <2>2. Elems(s) \subseteq Elems(t)
      BY <1>1 DEF Elems
    <2>3. u \in Elems(t)
      <3>1. Len(s) + 1 \in 1..Len(t)
        BY <1>1
      <3>2. QED
        BY <1>1, <3>1 DEF Elems
    <2>4. QED
      BY <2>1, <2>2, <2>3
  <1>3. Distinct(s) /\ u \notin Elems(s) => Distinct(t)
    <2> SUFFICES ASSUME Distinct(s), u \notin Elems(s),
                        NEW i \in 1..Len(t), NEW j \in 1..Len(t), t[i] = t[j]
                 PROVE  i = j
      BY DEF Distinct
    <2>1. \A k \in 1..Len(s) : s[k] # u
      BY DEF Elems
    <2>2. i \in 1..Len(s) \/ i = Len(s) + 1
      BY <1>1
    <2>3. j \in 1..Len(s) \/ j = Len(s) + 1
      BY <1>1
    <2>4. QED
      BY <1>1, <2>1, <2>2, <2>3 DEF Distinct
  <1>4. QED
    BY <1>1, <1>2, <1>3 DEF t

(* The head of a sequence without repetitions is not in its tail. *)
LEMMA TailElems ==
    ASSUME NEW s \in Seq(Updates), s # <<>>
    PROVE  /\ Tail(s) \in Seq(Updates)
           /\ Head(s) \in Updates
           /\ Elems(s) = Elems(Tail(s)) \cup {Head(s)}
           /\ Distinct(s) => Distinct(Tail(s)) /\ Head(s) \notin Elems(Tail(s))
  <1> DEFINE t == Tail(s)
             h == Head(s)
  <1>1. /\ t \in Seq(Updates) /\ Len(t) = Len(s) - 1 /\ Len(s) \in Nat \ {0}
        /\ \A i \in 1..Len(t) : t[i] = s[i + 1]
        /\ h = s[1] /\ h \in Updates
    OBVIOUS
  <1> HIDE DEF t, h
  <1>2. Elems(s) = Elems(t) \cup {h}
    <2>1. ASSUME NEW i \in 1..Len(s)
          PROVE  s[i] \in Elems(t) \cup {h}
      <3>1. CASE i = 1
        BY <1>1, <3>1
      <3>2. CASE i # 1
        <4>1. i - 1 \in 1..Len(t) /\ t[i - 1] = s[i]
          BY <1>1, <3>2
        <4>2. QED
          BY <4>1 DEF Elems
      <3>3. QED
        BY <3>1, <3>2
    <2>2. ASSUME NEW i \in 1..Len(t)
          PROVE  t[i] \in Elems(s)
      <3>1. i + 1 \in 1..Len(s) /\ t[i] = s[i + 1]
        BY <1>1
      <3>2. QED
        BY <3>1 DEF Elems
    <2>3. h \in Elems(s)
      BY <1>1 DEF Elems
    <2>4. QED
      BY <2>1, <2>2, <2>3 DEF Elems
  <1>3. Distinct(s) => Distinct(t) /\ h \notin Elems(t)
    <2> SUFFICES ASSUME Distinct(s)
                 PROVE  Distinct(t) /\ h \notin Elems(t)
      OBVIOUS
    <2>1. ASSUME NEW i \in 1..Len(t), NEW j \in 1..Len(t), t[i] = t[j]
          PROVE  i = j
      <3>1. i + 1 \in 1..Len(s) /\ j + 1 \in 1..Len(s) /\ s[i + 1] = s[j + 1]
        BY <1>1, <2>1
      <3>2. i + 1 = j + 1
        BY <3>1 DEF Distinct
      <3>3. QED
        BY <3>2
    <2>2. ASSUME NEW i \in 1..Len(t)
          PROVE  t[i] # h
      <3>1. i + 1 \in 1..Len(s) /\ 1 \in 1..Len(s) /\ t[i] = s[i + 1] /\ i + 1 # 1
        BY <1>1
      <3>2. QED
        BY <1>1, <3>1 DEF Distinct
    <2>3. QED
      BY <2>1, <2>2 DEF Distinct, Elems
  <1>4. QED
    BY <1>1, <1>2, <1>3 DEF t, h

(* Sequences of no update and of one. *)
LEMMA ShortElems ==
    /\ Elems(<<>>) = {} /\ Distinct(<<>>)
    /\ \A u \in Updates : Elems(<<u>>) = {u} /\ Distinct(<<u>>) /\ <<u>> \in Seq(Updates)
  <1>1. Elems(<<>>) = {} /\ Distinct(<<>>)
    BY DEF Elems, Distinct
  <1>2. ASSUME NEW u \in Updates
        PROVE  Elems(<<u>>) = {u} /\ Distinct(<<u>>) /\ <<u>> \in Seq(Updates)
    <2> DEFINE s == <<u>>
    <2>1. Len(s) = 1 /\ s[1] = u /\ s \in Seq(Updates)
      OBVIOUS
    <2> HIDE DEF s
    <2>2. Elems(s) = {u} /\ Distinct(s)
      BY <2>1 DEF Elems, Distinct
    <2>3. QED
      BY <2>1, <2>2 DEF s
  <1>3. QED
    BY <1>1, <1>2

(***************************************************************************)
(* Type correctness.                                                       *)
(***************************************************************************)
(* A worker's step from channel to handler keeps the types. *)
LEMMA BeginNextTypes ==
    ASSUME TypeOK, NEW w \in Workers, BeginNext(w)
    PROVE  /\ stage' \in [Workers -> {"gone", "waiting", "handling", "idle"}]
           /\ channel' \in [Workers -> Seq(Updates)]
           /\ \A v \in Workers : stage'[v] = "gone" => channel'[v] = <<>>
           /\ begun' \in Seq(Updates)
           /\ UNCHANGED <<queues, chat>>
  <1>1. channel[w] \in Seq(Updates) /\ channel[w] # <<>>
    BY DEF TypeOK, BeginNext
  <1>2. Tail(channel[w]) \in Seq(Updates) /\ Head(channel[w]) \in Updates
    BY <1>1, TailElems
  <1>3. begun' \in Seq(Updates)
    BY <1>2, AppendElems DEF TypeOK, BeginNext
  <1>4. stage'[w] = "handling"
    BY DEF TypeOK, BeginNext
  <1>5. \A v \in Workers : v # w => stage'[v] = stage[v] /\ channel'[v] = channel[v]
    BY DEF TypeOK, BeginNext
  <1>6. QED
    BY <1>2, <1>3, <1>4, <1>5 DEF TypeOK, BeginNext

(* A task that leaves keeps the types. *)
LEMMA LeaveTypes ==
    ASSUME TypeOK, NEW w \in Workers, Leave(w)
    PROVE  /\ stage' \in [Workers -> {"gone", "waiting", "handling", "idle"}]
           /\ channel' \in [Workers -> Seq(Updates)]
           /\ \A v \in Workers : stage'[v] = "gone" => channel'[v] = <<>>
           /\ queues' \in [Chats -> Workers \cup {NoWorker}]
           /\ UNCHANGED <<begun, chat>>
  <1>1. <<>> \in Seq(Updates)
    OBVIOUS
  <1>2. QED
    BY <1>1 DEF TypeOK, Leave

(* Every reachable state of the poller is well typed. *)
THEOREM PollerTyped == Spec => []TypeOK
  <1>1. Init => TypeOK
    <2>1. <<>> \in Seq(Updates)
      OBVIOUS
    <2>2. QED
      BY <2>1, PollerBounds
      DEF Init, TypeOK, NoQueues, NoWorkers, NoChannels, NoChats, Never, NoUpdate
  <1>2. TypeOK /\ [Next]_vars => TypeOK'
    <2> SUFFICES ASSUME TypeOK, [Next]_vars
                 PROVE  TypeOK'
      OBVIOUS
    <2>1. CASE \E u \in Updates : Send(u)
      BY <2>1 DEF TypeOK, Send, poll, worker, pollerFaults
    <2>2. CASE PassDay
      BY <2>2, PollerBounds DEF TypeOK, PassDay, poll, worker, pollerFaults
    <2>3. CASE Poll \/ PollFails
      <3>1. Confirmed \in Nat
        BY DEF TypeOK, Confirmed
      <3>2. batch' \subseteq Updates
        BY <2>3 DEF Poll, PollFails, Deliverable
      <3>3. QED
        BY <2>3, <3>1, <3>2 DEF TypeOK, Poll, PollFails, AskTelegram, worker, pollerFaults
    <2>4. CASE Accept
      <3>1. PICK u \in batch : offset' = u + 1 /\ batch' = batch \ {u} /\ Claim(u)
        BY <2>4 DEF Accept
      <3>2. /\ claimedOn' \in [Updates -> 0..MaxDay \cup {Never}]
            /\ accepted' \in Updates \cup {NoUpdate}
            /\ errors' \in 0..MaxClaimErrors
        <4>1. u \in Updates /\ day \in 0..MaxDay
          BY DEF TypeOK
        <4>2. [claimedOn EXCEPT ![u] = day] \in [Updates -> 0..MaxDay \cup {Never}]
          BY <4>1 DEF TypeOK
        <4>3. errors < MaxClaimErrors => errors + 1 \in 0..MaxClaimErrors
          BY PollerBounds DEF TypeOK
        <4>4. \/ claimedOn' = claimedOn
              \/ claimedOn' = [claimedOn EXCEPT ![u] = day]
          BY <3>1 DEF Claim
        <4>5. accepted' = u \/ accepted' = accepted
          BY <3>1 DEF Claim
        <4>6. errors' = errors \/ (errors < MaxClaimErrors /\ errors' = errors + 1)
          BY <3>1 DEF Claim
        <4>7. QED
          BY <4>1, <4>2, <4>3, <4>4, <4>5, <4>6 DEF TypeOK
      <3>3. QED
        BY <2>4, <3>1, <3>2, PollerBounds DEF TypeOK, Accept, telegram, worker
    <2>5. CASE HandOver
      <3>1. accepted \in Updates /\ accepted' = NoUpdate
        BY <2>5 DEF TypeOK, HandOver
      <3>2. /\ queues' \in [Chats -> Workers \cup {NoWorker}]
            /\ stage' \in [Workers -> {"gone", "waiting", "handling", "idle"}]
            /\ channel' \in [Workers -> Seq(Updates)]
            /\ \A w \in Workers : stage'[w] = "gone" => channel'[w] = <<>>
            /\ chat' \in [Workers -> Chats \cup {NoChat}]
        <4> DEFINE c == ChatOf[accepted]
        <4>1. CASE UNCHANGED <<queues, worker>>
          BY <4>1 DEF TypeOK, worker
        <4>2. CASE /\ c # NoChat
                   /\ Listening(queues[c])
                   /\ channel' = [channel EXCEPT ![queues[c]] = Append(@, accepted)]
                   /\ UNCHANGED <<queues, stage, chat>>
          <5>1. queues[c] \in Workers
            BY <3>1, <4>2, PollerBounds DEF TypeOK, Listening
          <5>2. Append(channel[queues[c]], accepted) \in Seq(Updates)
            BY <3>1, <5>1, AppendElems DEF TypeOK
          <5>3. stage[queues[c]] # "gone"
            BY <4>2 DEF Listening
          <5>4. QED
            BY <4>2, <5>1, <5>2, <5>3 DEF TypeOK
        <4>3. CASE /\ c # NoChat
                   /\ \E w \in Workers :
                         /\ queues' = [queues EXCEPT ![c] = w]
                         /\ stage' = [stage EXCEPT ![w] = "waiting"]
                         /\ channel' = [channel EXCEPT ![w] = <<accepted>>]
                         /\ chat' = [chat EXCEPT ![w] = c]
          <5>1. <<accepted>> \in Seq(Updates)
            BY <3>1
          <5>2. c \in Chats
            BY <3>1, <4>3, PollerBounds
          <5>3. QED
            BY <4>3, <5>1, <5>2 DEF TypeOK
        <4>4. QED
          BY <2>5, <4>1, <4>2, <4>3 DEF HandOver
      <3>3. QED
        BY <2>5, <3>1, <3>2 DEF TypeOK, HandOver, telegram, poll, pollerFaults
    <2>6. CASE \E w \in Workers : Handle(w)
      BY <2>6, BeginNextTypes DEF TypeOK, Handle, telegram, poll, pollerFaults
    <2>7. CASE \E w \in Workers : Finish(w)
      BY <2>7 DEF TypeOK, Finish, telegram, poll, pollerFaults
    <2>8. CASE \E w \in Workers : Panic(w)
      <3>1. <<>> \in Seq(Updates)
        OBVIOUS
      <3>2. QED
        BY <2>8, <3>1, PollerBounds DEF TypeOK, Panic, telegram, poll
    <2>9. CASE \E w \in Workers : FallSilent(w)
      BY <2>9 DEF TypeOK, FallSilent, telegram, poll, pollerFaults
    <2>10. CASE \E w \in Workers : Close(w)
      BY <2>10, BeginNextTypes, LeaveTypes
      DEF TypeOK, Close, CloseUnlessSomethingCame, telegram, poll, pollerFaults
    <2>11. CASE SweepClaims
      BY <2>11 DEF TypeOK, SweepClaims, telegram, poll, worker, pollerFaults
    <2>12. CASE Crash
      <3>1. <<>> \in Seq(Updates)
        OBVIOUS
      <3>2. QED
        BY <2>12, <3>1, PollerBounds
        DEF TypeOK, Crash, NoQueues, NoWorkers, NoChannels, NoChats, telegram
    <2>13. CASE UNCHANGED vars
      BY <2>13 DEF TypeOK, vars, telegram, poll, worker, pollerFaults
    <2>14. QED
      BY <2>1, <2>2, <2>3, <2>4, <2>5, <2>6, <2>7, <2>8, <2>9, <2>10, <2>11, <2>12, <2>13
      DEF Next
  <1>3. QED
    BY <1>1, <1>2, PTL DEF Spec

(***************************************************************************)
(* One task for each chat: a task that runs is the one the map names.      *)
(***************************************************************************)
KnownWorkers ==
    \A w \in Workers :
        stage[w] # "gone" => chat[w] \in Chats /\ queues[chat[w]] = w

(* A task leaves the map only when it ends, under the mutex. *)
LEMMA KnownWorkersStep ==
    ASSUME TypeOK, KnownWorkers, [Next]_vars
    PROVE  KnownWorkers'
  <1> SUFFICES ASSUME NEW w \in Workers, stage'[w] # "gone"
               PROVE  chat'[w] \in Chats /\ queues'[chat'[w]] = w
    BY DEF KnownWorkers
  <1>1. CASE UNCHANGED <<queues, worker>>
    BY <1>1 DEF KnownWorkers, worker
  <1>2. CASE HandOver
    <2>1. accepted \in Updates
      BY <1>2 DEF HandOver, TypeOK
    <2> DEFINE c == ChatOf[accepted]
    <2>2. CASE UNCHANGED <<queues, stage, chat>>
      BY <2>2 DEF KnownWorkers
    <2>3. CASE /\ c # NoChat
               /\ ~Listening(queues[c])
               /\ \E v \in Workers :
                     /\ stage[v] = "gone"
                     /\ queues' = [queues EXCEPT ![c] = v]
                     /\ stage' = [stage EXCEPT ![v] = "waiting"]
                     /\ chat' = [chat EXCEPT ![v] = c]
      <3>1. c \in Chats
        BY <2>1, <2>3, PollerBounds
      <3>2. PICK v \in Workers : /\ stage[v] = "gone"
                                 /\ queues' = [queues EXCEPT ![c] = v]
                                 /\ stage' = [stage EXCEPT ![v] = "waiting"]
                                 /\ chat' = [chat EXCEPT ![v] = c]
        BY <2>3
      <3>3. CASE w = v
        BY <3>1, <3>2, <3>3 DEF TypeOK
      <3>4. CASE w # v
        <4>1. stage[w] # "gone" /\ chat'[w] = chat[w]
          BY <3>2, <3>4 DEF TypeOK
        <4>2. chat[w] \in Chats /\ queues[chat[w]] = w
          BY <4>1 DEF KnownWorkers
        <4>3. chat[w] # c
          BY <2>3, <4>1, <4>2, PollerBounds DEF Listening
        <4>4. QED
          BY <3>1, <3>2, <4>1, <4>2, <4>3 DEF TypeOK
      <3>5. QED
        BY <3>3, <3>4
    <2>4. QED
      BY <1>2, <2>2, <2>3 DEF HandOver, worker
  <1>3. ASSUME NEW v \in Workers, UNCHANGED <<queues, chat>>,
               stage[v] # "gone", \E x : stage' = [stage EXCEPT ![v] = x]
        PROVE  chat'[w] \in Chats /\ queues'[chat'[w]] = w
    BY <1>3 DEF KnownWorkers, TypeOK
  <1>4. CASE \E v \in Workers : Handle(v) \/ Finish(v) \/ Panic(v) \/ FallSilent(v)
    BY <1>3, <1>4 DEF Handle, BeginNext, Finish, Panic, FallSilent
  <1>5. CASE \E v \in Workers : Close(v)
    <2>1. PICK v \in Workers : Close(v)
      BY <1>5
    <2>2. CASE BeginNext(v)
      BY <1>3, <2>1, <2>2 DEF Close, BeginNext
    <2>3. CASE Leave(v)
      <3>1. w # v /\ stage[w] # "gone"
        BY <2>3 DEF Leave, TypeOK
      <3>2. /\ chat[w] \in Chats /\ queues[chat[w]] = w
            /\ chat[v] \in Chats /\ queues[chat[v]] = v
        BY <2>1, <3>1 DEF KnownWorkers, Close
      <3>3. QED
        BY <2>3, <3>1, <3>2 DEF Leave, TypeOK
    <2>4. QED
      BY <2>1, <2>2, <2>3 DEF Close, CloseUnlessSomethingCame
  <1>6. CASE Crash
    BY <1>6 DEF Crash, NoWorkers
  <1>7. QED
    BY <1>1, <1>2, <1>4, <1>5, <1>6
    DEF Next, Send, PassDay, Poll, PollFails, AskTelegram, Accept, SweepClaims, vars

(* No two updates of one chat are handled at the same time, whatever *)
(* closes, dies or restarts meanwhile.                               *)
THEOREM ChatsHaveOneTask == Spec => []OneAtATime
  <1>1. Init => KnownWorkers
    BY DEF Init, KnownWorkers, NoWorkers
  <1>2. TypeOK /\ KnownWorkers /\ [Next]_vars => KnownWorkers'
    BY KnownWorkersStep
  <1>3. KnownWorkers => OneAtATime
    BY DEF KnownWorkers, OneAtATime
  <1>4. QED
    BY <1>1, <1>2, <1>3, PollerTyped, PTL DEF Spec

(***************************************************************************)
(* At most once.  An update that is waiting in a channel, accepted or      *)
(* begun is in one of these places only, and is kept from coming back by   *)
(* its claim, or, once that is swept, by Telegram having forgotten it.     *)
(***************************************************************************)
Waiting(w) == Elems(channel[w])
Started == Elems(begun)

OnePlace ==
    /\ Distinct(begun)
    /\ \A w \in Workers : Distinct(channel[w])
    /\ \A w \in Workers : Waiting(w) \cap Started = {}
    /\ \A v, w \in Workers : v # w => Waiting(v) \cap Waiting(w) = {}
    /\ \A w \in Workers : accepted \notin Waiting(w)
    /\ accepted \notin Started

Underway(u) == u = accepted \/ u \in Started \/ \E w \in Workers : u \in Waiting(w)

KeptAway(u) ==
    \/ claimedOn[u] # Never
    \/ sentOn[u] # Never /\ day - sentOn[u] > TelegramKeeps

Guarded == \A u \in Updates : Underway(u) => KeptAway(u)

\* Updates were sent by now, those of a batch are fresh, and a claim is no
\* older than its update.
KeptInTime ==
    /\ \A u \in Updates : sentOn[u] <= day
    /\ \A u \in batch : sentOn[u] # Never /\ day - sentOn[u] <= TelegramKeeps
    /\ \A u \in Updates :
          claimedOn[u] # Never => sentOn[u] # Never /\ sentOn[u] <= claimedOn[u]

OnceInvariant == OnePlace /\ Guarded /\ KeptInTime

(* The times of batches and claims stay as they should. *)
LEMMA KeptInTimeStep ==
    ASSUME TypeOK, KeptInTime, [Next]_vars
    PROVE  KeptInTime'
  <1>1. CASE \E u \in Updates : Send(u)
    <2>1. PICK u \in Updates : Send(u)
      BY <1>1
    <2>2. /\ sentOn[u] = Never /\ sentOn'[u] = day
          /\ \A x \in Updates \ {u} : sentOn'[x] = sentOn[x]
          /\ UNCHANGED <<day, claimedOn, batch>>
      BY <2>1 DEF Send, TypeOK, poll
    <2>3. day \in Nat /\ day # Never /\ day - day <= TelegramKeeps
      BY PollerBounds DEF TypeOK, Never
    <2>4. u \notin batch /\ claimedOn[u] = Never
      BY <2>2 DEF KeptInTime
    <2>5. ASSUME NEW x \in Updates
          PROVE  /\ sentOn'[x] <= day'
                 /\ claimedOn'[x] # Never => sentOn'[x] # Never /\ sentOn'[x] <= claimedOn'[x]
      <3>1. CASE x = u
        BY <2>2, <2>3, <2>4, <3>1
      <3>2. CASE x # u
        BY <2>2, <3>2 DEF KeptInTime
      <3>3. QED
        BY <3>1, <3>2
    <2>6. \A x \in batch' : sentOn'[x] # Never /\ day' - sentOn'[x] <= TelegramKeeps
      BY <2>2, <2>4 DEF KeptInTime, TypeOK
    <2>7. QED
      BY <2>5, <2>6 DEF KeptInTime
  <1>2. CASE PassDay
    <2>1. /\ day \in Nat /\ day' = day + 1 /\ batch' = {}
          /\ UNCHANGED <<sentOn, claimedOn>>
      BY <1>2, PollerBounds DEF PassDay, TypeOK, poll
    <2>2. \A u \in Updates : sentOn[u] \in Int
      BY DEF TypeOK, Never
    <2>3. QED
      BY <2>1, <2>2 DEF KeptInTime
  <1>3. CASE Poll \/ PollFails
    BY <1>3, PollerBounds DEF Poll, PollFails, AskTelegram, Deliverable, KeptInTime, TypeOK
  <1>4. CASE Accept
    <2>1. PICK u \in batch : batch' = batch \ {u} /\ Claim(u)
      BY <1>4 DEF Accept
    <2>2. claimedOn' = claimedOn \/ claimedOn' = [claimedOn EXCEPT ![u] = day]
      BY <2>1 DEF Claim
    <2>3. u \in Updates /\ day \in Nat /\ sentOn[u] # Never /\ sentOn[u] <= day
      BY <2>1 DEF KeptInTime, TypeOK, Never
    <2>4. UNCHANGED <<day, sentOn>>
      BY <1>4 DEF Accept, telegram
    <2>5. QED
      BY <2>1, <2>2, <2>3, <2>4 DEF KeptInTime, TypeOK
  <1>5. CASE SweepClaims
    BY <1>5 DEF SweepClaims, KeptInTime, TypeOK, telegram, poll
  <1>6. CASE Crash
    BY <1>6 DEF Crash, KeptInTime, telegram
  <1>7. CASE UNCHANGED <<day, sentOn, claimedOn, batch>>
    BY <1>7 DEF KeptInTime
  <1>8. QED
    BY <1>1, <1>2, <1>3, <1>4, <1>5, <1>6, <1>7
    DEF Next, HandOver, Handle, Finish, Panic, FallSilent, Close, vars, telegram, poll

(* Taking an update out of a channel into its handler moves it to another *)
(* place and no other update.                                             *)
LEMMA BeginNextPlaces ==
    ASSUME TypeOK, OnePlace, NEW w \in Workers, BeginNext(w), accepted' = accepted
    PROVE  OnePlace' /\ \A u : Underway(u)' => Underway(u)
  <1> DEFINE h == Head(channel[w])
             t == Tail(channel[w])
  <1>1. channel[w] \in Seq(Updates) /\ channel[w] # <<>> /\ begun \in Seq(Updates)
    BY DEF TypeOK, BeginNext
  <1>2. /\ h \in Updates
        /\ Waiting(w) = Elems(t) \cup {h}
        /\ Distinct(t) /\ h \notin Elems(t)
    BY <1>1, TailElems DEF OnePlace, Waiting
  <1>3. h \notin Started
    BY <1>2 DEF OnePlace
  <1>4. Started' = Started \cup {h} /\ Distinct(begun')
    BY <1>1, <1>2, <1>3, AppendElems DEF BeginNext, Started, OnePlace
  <1>5. channel'[w] = t /\ \A v \in Workers : v # w => channel'[v] = channel[v]
    BY DEF BeginNext, TypeOK
  <1> HIDE DEF h, t
  <1>6. Waiting(w)' = Elems(t) /\ \A v \in Workers : v # w => Waiting(v)' = Waiting(v)
    BY <1>5 DEF Waiting
  <1>7. \A v \in Workers : Distinct(channel'[v])
    BY <1>2, <1>5 DEF OnePlace
  <1>8. \A v \in Workers : Waiting(v)' \cap Started' = {}
    BY <1>2, <1>4, <1>6 DEF OnePlace
  <1>9. \A u, v \in Workers : u # v => Waiting(u)' \cap Waiting(v)' = {}
    BY <1>2, <1>6 DEF OnePlace
  <1>10. accepted' \notin Started' /\ \A v \in Workers : accepted' \notin Waiting(v)'
    BY <1>2, <1>4, <1>6 DEF OnePlace
  <1>11. \A u : Underway(u)' => Underway(u)
    BY <1>2, <1>4, <1>6 DEF Underway
  <1>12. QED
    BY <1>4, <1>7, <1>8, <1>9, <1>10, <1>11 DEF OnePlace

(* The id of no update is nowhere. *)
LEMMA NoUpdateNowhere ==
    ASSUME TypeOK
    PROVE  NoUpdate \notin Started /\ \A w \in Workers : NoUpdate \notin Waiting(w)
  BY PollerBounds DEF Started, Waiting, Elems, TypeOK

(* Emptying channels leaves every other update where it is. *)
LEMMA EmptiedPlaces ==
    ASSUME TypeOK, OnePlace,
           UNCHANGED begun, accepted' \in {accepted, NoUpdate},
           \A w \in Workers : channel'[w] \in {channel[w], <<>>}
    PROVE  OnePlace' /\ \A u \in Updates : Underway(u)' => Underway(u)
  <1>1. Started' = Started
    BY DEF Started
  <1>2. \A w \in Workers : Waiting(w)' \subseteq Waiting(w) /\ Distinct(channel'[w])
    BY ShortElems DEF Waiting, OnePlace
  <1>3. NoUpdate \notin Started /\ \A w \in Workers : NoUpdate \notin Waiting(w)
    BY NoUpdateNowhere
  <1>4. OnePlace'
    BY <1>1, <1>2, <1>3 DEF OnePlace
  <1>5. \A u \in Updates : Underway(u)' => Underway(u)
    BY <1>1, <1>2, PollerBounds DEF Underway
  <1>6. QED
    BY <1>4, <1>5

(* Handing an update over moves it from accepted into one channel. *)
LEMMA HandOverPlaces ==
    ASSUME TypeOK, OnePlace, HandOver
    PROVE  OnePlace' /\ \A u \in Updates : Underway(u)' => Underway(u)
  <1> DEFINE c == ChatOf[accepted]
  <1>1. accepted \in Updates /\ accepted' = NoUpdate /\ begun' = begun
    BY DEF HandOver, TypeOK
  <1>2. CASE UNCHANGED channel
    BY <1>1, <1>2, EmptiedPlaces
  <1>3. ASSUME NEW w \in Workers, NEW s \in Seq(Updates),
               channel' = [channel EXCEPT ![w] = s],
               Elems(s) \subseteq Waiting(w) \cup {accepted}, Distinct(s)
        PROVE  OnePlace' /\ \A u \in Updates : Underway(u)' => Underway(u)
    <2>1. channel'[w] = s /\ \A v \in Workers : v # w => channel'[v] = channel[v]
      BY <1>3 DEF TypeOK
    <2>2. /\ Waiting(w)' \subseteq Waiting(w) \cup {accepted}
          /\ \A v \in Workers : v # w => Waiting(v)' = Waiting(v)
          /\ \A v \in Workers : Distinct(channel'[v])
          /\ Started' = Started
      BY <1>1, <1>3, <2>1 DEF Waiting, Started, OnePlace
    <2>3. NoUpdate \notin Started /\ \A v \in Workers : NoUpdate \notin Waiting(v)
      BY NoUpdateNowhere
    <2>4. accepted' \notin Started' /\ \A v \in Workers : accepted' \notin Waiting(v)'
      BY <1>1, <2>2, <2>3, PollerBounds
    <2>5. \A v \in Workers : Waiting(v)' \cap Started' = {}
      BY <2>2 DEF OnePlace
    <2>6. \A u, v \in Workers : u # v => Waiting(u)' \cap Waiting(v)' = {}
      BY <2>2 DEF OnePlace
    <2>7. \A u \in Updates : Underway(u)' => Underway(u)
      BY <1>1, <2>2, PollerBounds DEF Underway
    <2>8. QED
      BY <1>1, <2>2, <2>4, <2>5, <2>6, <2>7 DEF OnePlace
  <1>4. CASE /\ Listening(queues[c])
             /\ c # NoChat
             /\ channel' = [channel EXCEPT ![queues[c]] = Append(@, accepted)]
    <2>1. queues[c] \in Workers
      BY <1>1, <1>4, PollerBounds DEF TypeOK, Listening
    <2>2. channel[queues[c]] \in Seq(Updates)
      BY <2>1 DEF TypeOK
    <2>3. /\ Append(channel[queues[c]], accepted) \in Seq(Updates)
          /\ Elems(Append(channel[queues[c]], accepted)) = Waiting(queues[c]) \cup {accepted}
          /\ Distinct(Append(channel[queues[c]], accepted))
      BY <1>1, <2>1, <2>2, AppendElems DEF OnePlace, Waiting
    <2>4. channel' = [channel EXCEPT ![queues[c]] = Append(channel[queues[c]], accepted)]
      BY <1>4
    <2>5. QED
      BY <1>3, <2>1, <2>3, <2>4
  <1>5. CASE \E w \in Workers : channel' = [channel EXCEPT ![w] = <<accepted>>]
    BY <1>1, <1>3, <1>5, ShortElems
  <1>6. QED
    BY <1>2, <1>4, <1>5 DEF HandOver, worker

(* An update stays guarded while its claim, its age and its place do. *)
LEMMA GuardedKept ==
    ASSUME TypeOK, Guarded, UNCHANGED <<sentOn, claimedOn, day>>,
           \A u \in Updates : Underway(u)' => Underway(u)
    PROVE  Guarded'
  BY DEF Guarded, KeptAway

(* Every step keeps each update in one place and guarded. *)
LEMMA OnceStep ==
    ASSUME TypeOK, OnceInvariant, [Next]_vars
    PROVE  (OnePlace /\ Guarded)'
  <1> USE DEF OnceInvariant
  <1>1. CASE UNCHANGED <<sentOn, claimedOn, day, accepted, channel, begun>>
    BY <1>1 DEF OnePlace, Guarded, KeptAway, Underway, Waiting, Started
  <1>2. CASE \E u \in Updates : Send(u)
    <2>1. UNCHANGED <<claimedOn, day, accepted, channel, begun>>
      BY <1>2 DEF Send, worker
    <2>2. \A u \in Updates : sentOn[u] # Never => sentOn'[u] = sentOn[u]
      BY <1>2 DEF Send, TypeOK
    <2>3. QED
      BY <2>1, <2>2 DEF OnePlace, Guarded, KeptAway, Underway, Waiting, Started
  <1>3. CASE PassDay
    <2>1. UNCHANGED <<claimedOn, sentOn, accepted, channel, begun>> /\ day' = day + 1
      BY <1>3 DEF PassDay, worker
    <2>2. \A u \in Updates : KeptAway(u) => KeptAway(u)'
      BY <2>1, PollerBounds DEF KeptAway, TypeOK, Never
    <2>3. QED
      BY <2>1, <2>2 DEF OnePlace, Guarded, Underway, Waiting, Started
  <1>4. CASE Accept
    <2>1. PICK u \in batch : Claim(u)
      BY <1>4 DEF Accept
    <2>2. u \in Updates /\ accepted = NoUpdate /\ UNCHANGED <<sentOn, day, channel, begun>>
      BY <1>4, <2>1 DEF Accept, TypeOK, telegram, worker
    <2>3. Started' = Started /\ \A w \in Workers : Waiting(w)' = Waiting(w)
      BY <2>2 DEF Started, Waiting
    <2>4. \A v \in Updates : claimedOn[v] # Never => claimedOn'[v] # Never
      BY <2>1, <2>2 DEF Claim, TypeOK, Never
    <2>5. CASE accepted' = accepted
      BY <2>2, <2>3, <2>4, <2>5 DEF OnePlace, Guarded, KeptAway, Underway
    <2>6. CASE accepted' = u /\ claimedOn[u] = Never /\ claimedOn' = [claimedOn EXCEPT ![u] = day]
      <3>1. ~KeptAway(u)
        BY <2>1, <2>2, <2>6, PollerBounds DEF KeptAway, KeptInTime, TypeOK, Never
      <3>2. ~Underway(u)
        BY <2>2, <3>1 DEF Guarded
      <3>3. OnePlace'
        BY <2>2, <2>3, <2>6, <3>2 DEF OnePlace, Underway
      <3>4. claimedOn'[u] # Never
        BY <2>2, <2>6 DEF TypeOK, Never
      <3>5. \A v \in Updates : Underway(v)' => v = u \/ Underway(v)
        BY <2>3, <2>6 DEF Underway
      <3>6. Guarded'
        BY <2>2, <2>4, <3>4, <3>5 DEF Guarded, KeptAway
      <3>7. QED
        BY <3>3, <3>6
    <2>7. QED
      BY <2>1, <2>5, <2>6 DEF Claim
  <1>5. CASE HandOver
    BY <1>5, HandOverPlaces, GuardedKept DEF HandOver, telegram
  <1>6. CASE \E w \in Workers : Handle(w)
    BY <1>6, BeginNextPlaces, GuardedKept DEF Handle, telegram
  <1>7. CASE \E w \in Workers : Panic(w)
    BY <1>7, EmptiedPlaces, GuardedKept DEF Panic, telegram, TypeOK
  <1>8. CASE \E w \in Workers : Close(w)
    <2>1. PICK w \in Workers : Close(w)
      BY <1>8
    <2>2. CASE BeginNext(w)
      BY <2>1, <2>2, BeginNextPlaces, GuardedKept DEF Close, telegram
    <2>3. CASE Leave(w)
      BY <2>1, <2>3, EmptiedPlaces, GuardedKept DEF Close, Leave, telegram, TypeOK
    <2>4. QED
      BY <2>1, <2>2, <2>3 DEF Close, CloseUnlessSomethingCame
  <1>9. CASE SweepClaims
    <2>1. UNCHANGED <<sentOn, day, accepted, channel, begun>>
      BY <1>9 DEF SweepClaims, telegram, worker
    <2>2. \A u \in Updates : KeptAway(u) => KeptAway(u)'
      <3> SUFFICES ASSUME NEW u \in Updates, KeptAway(u)
                   PROVE  KeptAway(u)'
        OBVIOUS
      <3>1. CASE u \in OldClaims
        <4>1. /\ claimedOn[u] \in Nat /\ sentOn[u] \in Nat /\ day \in Nat /\ sentOn[u] # Never
              /\ day - claimedOn[u] > ClaimsKept
              /\ sentOn[u] <= claimedOn[u]
          BY <3>1 DEF OldClaims, KeptInTime, TypeOK, Never
        <4>2. day - sentOn[u] > TelegramKeeps
          BY <4>1, PollerBounds
        <4>3. QED
          BY <2>1, <4>1, <4>2 DEF KeptAway
      <3>2. CASE u \notin OldClaims
        BY <1>9, <2>1, <3>2 DEF SweepClaims, KeptAway
      <3>3. QED
        BY <3>1, <3>2
    <2>3. QED
      BY <2>1, <2>2 DEF OnePlace, Guarded, Underway, Waiting, Started
  <1>10. CASE Crash
    BY <1>10, EmptiedPlaces, GuardedKept DEF Crash, NoChannels, telegram
  <1>11. QED
    BY <1>1, <1>2, <1>3, <1>4, <1>5, <1>6, <1>7, <1>8, <1>9, <1>10
    DEF Next, Poll, PollFails, AskTelegram, Finish, FallSilent, vars, telegram, worker

(* No update is handled twice, however often Telegram delivers it, *)
(* across restarts, failed claims and the sweep of old claims.     *)
THEOREM UpdatesHandledOnce == Spec => []HandledAtMostOnce
  <1>1. Init => OnceInvariant
    <2> SUFFICES ASSUME Init
                 PROVE  OnceInvariant
      OBVIOUS
    <2>1. Started = {} /\ Distinct(begun)
      BY ShortElems DEF Init, Started
    <2>2. \A w \in Workers : Waiting(w) = {} /\ Distinct(channel[w])
      BY ShortElems DEF Init, NoChannels, Waiting
    <2>3. OnePlace
      BY <2>1, <2>2 DEF OnePlace
    <2>4. Guarded
      BY <2>1, <2>2, PollerBounds DEF Init, Guarded, Underway
    <2>5. KeptInTime
      BY PollerBounds DEF Init, KeptInTime, Never
    <2>6. QED
      BY <2>3, <2>4, <2>5 DEF OnceInvariant
  <1>2. TypeOK /\ OnceInvariant /\ [Next]_vars => OnceInvariant'
    BY OnceStep, KeptInTimeStep DEF OnceInvariant
  <1>3. OnceInvariant => HandledAtMostOnce
    BY DEF OnceInvariant, OnePlace, Distinct, HandledAtMostOnce
  <1>4. QED
    BY <1>1, <1>2, <1>3, PollerTyped, PTL DEF Spec

(***************************************************************************)
(* The order of a chat.  What is underway was accepted after everything    *)
(* before it was settled: claimed, or out of Telegram's reach; so what is  *)
(* accepted next comes after all of it.  A chat's updates then keep their  *)
(* order from the loop to the channel and from the channel to the handler. *)
(***************************************************************************)
Ordered(s) == \A i, j \in 1..Len(s) :
                  i < j /\ ChatOf[s[i]] = ChatOf[s[j]] => s[i] <= s[j]

Settled(u) == KeptAway(u) \/ u <= confirmed

\* What holds whatever fails: updates wait in the channel of their chat, and
\* the updates of a poll are none that Telegram was told to forget.
OwnChat == \A w \in Workers : \A u \in Waiting(w) : ChatOf[u] = chat[w]
OwnQueue == \A c \in Chats : queues[c] \in Workers => chat[queues[c]] = c
BatchAhead == \A u \in batch : u > confirmed
SentInOrder == \A u, v \in Updates : v < u /\ sentOn[u] # Never => sentOn[v] # Never

RouteInvariant == OwnChat /\ OwnQueue /\ BatchAhead /\ SentInOrder

\* What holds while no claim has failed.
StartedFirst == \A w \in Workers : \A u \in Waiting(w), b \in Started :
                    ChatOf[b] = ChatOf[u] => b <= u
AcceptedLast == accepted # NoUpdate =>
                    \A u \in Updates :
                        u \in Started \/ (\E w \in Workers : u \in Waiting(w)) => u <= accepted
SettledBefore == \A u, v \in Updates : Underway(u) /\ v < u => Settled(v)
BatchFull == \A u \in batch, v \in Updates : v < u => v \in batch \/ Settled(v)

OrderInvariant ==
    /\ Ordered(begun) /\ \A w \in Workers : Ordered(channel[w])
    /\ StartedFirst /\ AcceptedLast /\ SettledBefore /\ BatchFull

(* Appending what comes after its chat keeps a sequence in order. *)
LEMMA AppendOrdered ==
    ASSUME NEW s \in Seq(Updates), NEW u \in Updates, Ordered(s),
           \A x \in Elems(s) : ChatOf[x] = ChatOf[u] => x <= u
    PROVE  Ordered(Append(s, u))
  <1> DEFINE t == Append(s, u)
  <1>1. /\ t \in Seq(Updates) /\ Len(t) = Len(s) + 1 /\ Len(s) \in Nat
        /\ \A i \in 1..Len(s) : t[i] = s[i]
        /\ t[Len(s) + 1] = u
    OBVIOUS
  <1> HIDE DEF t
  <1> SUFFICES ASSUME NEW i \in 1..Len(t), NEW j \in 1..Len(t), i < j,
                      ChatOf[t[i]] = ChatOf[t[j]]
               PROVE  t[i] <= t[j]
    BY DEF t, Ordered
  <1>2. i \in 1..Len(s) /\ t[i] = s[i] /\ s[i] \in Elems(s)
    BY <1>1 DEF Elems
  <1>3. CASE j \in 1..Len(s)
    BY <1>1, <1>2, <1>3 DEF Ordered
  <1>4. CASE j = Len(s) + 1
    BY <1>1, <1>2, <1>4
  <1>5. QED
    BY <1>1, <1>3, <1>4

(* The head of an ordered sequence comes before its chat's others. *)
LEMMA TailOrdered ==
    ASSUME NEW s \in Seq(Updates), s # <<>>, Ordered(s)
    PROVE  /\ Ordered(Tail(s))
           /\ \A x \in Elems(Tail(s)) : ChatOf[Head(s)] = ChatOf[x] => Head(s) <= x
  <1> DEFINE t == Tail(s)
             h == Head(s)
  <1>1. /\ t \in Seq(Updates) /\ Len(t) = Len(s) - 1 /\ Len(s) \in Nat \ {0}
        /\ \A i \in 1..Len(t) : t[i] = s[i + 1]
        /\ h = s[1]
    OBVIOUS
  <1> HIDE DEF t, h
  <1>2. \A i \in 1..Len(t) : i + 1 \in 1..Len(s) /\ 1 < i + 1 /\ 1 \in 1..Len(s)
    BY <1>1
  <1>3. Ordered(t)
    BY <1>1, <1>2 DEF Ordered
  <1>4. \A x \in Elems(t) : ChatOf[h] = ChatOf[x] => h <= x
    <2> SUFFICES ASSUME NEW i \in 1..Len(t), ChatOf[h] = ChatOf[t[i]]
                 PROVE  h <= t[i]
      BY DEF Elems
    <2>1. t[i] = s[i + 1] /\ 1 \in 1..Len(s) /\ i + 1 \in 1..Len(s) /\ 1 < i + 1
      BY <1>1, <1>2
    <2>2. s[1] <= s[i + 1]
      BY <1>1, <2>1 DEF Ordered
    <2>3. QED
      BY <1>1, <2>1, <2>2
  <1>5. QED
    BY <1>3, <1>4 DEF t, h

(* A channel of none or of one is in order. *)
LEMMA ShortOrdered ==
    /\ Ordered(<<>>)
    /\ \A u : Ordered(<<u>>)
  BY DEF Ordered

(* Where updates wait and what a poll brings, at every step. *)
LEMMA RouteStep ==
    ASSUME TypeOK, KnownWorkers, RouteInvariant, [Next]_vars
    PROVE  RouteInvariant'
  <1> USE DEF RouteInvariant
  <1>1. SentInOrder'
    <2>1. CASE \E u \in Updates : Send(u)
      BY <2>1, PollerBounds DEF Send, SentInOrder, TypeOK, Never
    <2>2. CASE UNCHANGED sentOn
      BY <2>2 DEF SentInOrder
    <2>3. QED
      BY <2>1, <2>2 DEF Next, vars, telegram, PassDay, Poll, PollFails, AskTelegram, Accept, HandOver,
                        Handle, Finish, Panic, FallSilent, Close, SweepClaims, Crash
  <1>2. BatchAhead'
    <2>1. CASE Poll \/ PollFails
      <3>1. confirmed' \in Nat /\ confirmed' = Confirmed
        BY <2>1 DEF Poll, PollFails, AskTelegram, Confirmed, TypeOK
      <3>2. \A u \in batch' : u \in Updates /\ u >= Confirmed + 1
        BY <2>1 DEF Poll, PollFails, Deliverable
      <3>3. \A u \in batch' : u > confirmed'
        BY <3>1, <3>2, PollerBounds
      <3>4. QED
        BY <3>3 DEF BatchAhead
    <2>2. CASE batch' \subseteq batch /\ UNCHANGED confirmed
      BY <2>2 DEF BatchAhead
    <2>3. QED
      BY <2>1, <2>2 DEF Next, vars, telegram, poll, Send, PassDay, Accept, HandOver,
                        Handle, Finish, Panic, FallSilent, Close, SweepClaims, Crash
  <1>3. OwnQueue'
    <2>4. CASE UNCHANGED <<queues, chat>>
      BY <2>4 DEF OwnQueue
    <2>1. CASE HandOver
      <3> DEFINE c == ChatOf[accepted]
      <3>1. accepted \in Updates
        BY <2>1 DEF HandOver, TypeOK
      <3>2. CASE \E w \in Workers :
                   /\ c # NoChat
                   /\ \A d \in Chats \ {c} : queues[d] # w
                   /\ queues' = [queues EXCEPT ![c] = w]
                   /\ chat' = [chat EXCEPT ![w] = c]
        <4>1. PICK w \in Workers :
                   /\ c # NoChat
                   /\ \A d \in Chats \ {c} : queues[d] # w
                   /\ queues' = [queues EXCEPT ![c] = w]
                   /\ chat' = [chat EXCEPT ![w] = c]
          BY <3>2
        <4>2. c \in Chats
          BY <3>1, <4>1, PollerBounds
        <4>3. /\ queues'[c] = w /\ chat'[w] = c
              /\ \A d \in Chats \ {c} : queues'[d] = queues[d] /\ queues[d] # w
              /\ \A v \in Workers \ {w} : chat'[v] = chat[v]
          BY <4>1, <4>2 DEF TypeOK
        <4>4. QED
          BY <4>2, <4>3 DEF OwnQueue
      <3>3. QED
        BY <2>1, <2>4, <3>2 DEF HandOver, worker
    <2>2. CASE Crash
      BY <2>2, PollerBounds DEF Crash, NoQueues, OwnQueue
    <2>3. ASSUME NEW w \in Workers, Leave(w) PROVE OwnQueue'
      <3>1. \A c \in Chats : queues'[c] \in {queues[c], NoWorker}
        BY <2>3 DEF Leave, TypeOK
      <3>2. UNCHANGED chat
        BY <2>3 DEF Leave
      <3>3. QED
        BY <3>1, <3>2, PollerBounds DEF OwnQueue
    <2>5. QED
      BY <2>1, <2>2, <2>3, <2>4
         DEF Next, vars, worker, Send, PassDay, Poll, PollFails, AskTelegram, Accept,
             Handle, BeginNext, Finish, Panic, FallSilent, SweepClaims, Close,
             CloseUnlessSomethingCame
  <1>4. OwnChat'
    <2>1. CASE HandOver
      <3> DEFINE c == ChatOf[accepted]
      <3>1. accepted \in Updates
        BY <2>1 DEF HandOver, TypeOK
      <3>2. CASE UNCHANGED worker
        BY <3>2 DEF OwnChat, Waiting, worker
      <3>3. CASE /\ c # NoChat /\ Listening(queues[c])
                 /\ channel' = [channel EXCEPT ![queues[c]] = Append(@, accepted)]
                 /\ UNCHANGED chat
        <4>1. PICK w \in Workers : w = queues[c] /\ chat[w] = c
          BY <3>1, <3>3, PollerBounds DEF TypeOK, Listening, OwnQueue
        <4>2. Elems(Append(channel[w], accepted)) = Waiting(w) \cup {accepted}
          BY <3>1, <4>1, AppendElems DEF TypeOK, Waiting
        <4>3. /\ channel'[w] = Append(channel[w], accepted)
              /\ \A v \in Workers \ {w} : channel'[v] = channel[v]
          BY <3>3, <4>1 DEF TypeOK
        <4>4. /\ Waiting(w)' = Waiting(w) \cup {accepted}
              /\ \A v \in Workers \ {w} : Waiting(v)' = Waiting(v)
          BY <4>2, <4>3 DEF Waiting
        <4>5. \A v \in Workers : \A u \in Waiting(v)' : ChatOf[u] = chat[v]
          BY <4>1, <4>4 DEF OwnChat
        <4>6. QED
          BY <3>3, <4>5 DEF OwnChat
      <3>4. CASE \E w \in Workers :
                   /\ stage[w] = "gone"
                   /\ channel' = [channel EXCEPT ![w] = <<accepted>>]
                   /\ chat' = [chat EXCEPT ![w] = c]
        <4>1. PICK w \in Workers :
                   /\ stage[w] = "gone"
                   /\ channel' = [channel EXCEPT ![w] = <<accepted>>]
                   /\ chat' = [chat EXCEPT ![w] = c]
          BY <3>4
        <4>2. /\ channel'[w] = <<accepted>> /\ chat'[w] = c
              /\ \A v \in Workers : v # w => channel'[v] = channel[v] /\ chat'[v] = chat[v]
          BY <4>1 DEF TypeOK
        <4>3. Elems(<<accepted>>) = {accepted}
          BY DEF Elems
        <4>4. QED
          BY <4>2, <4>3 DEF OwnChat, Waiting
      <3>5. QED
        BY <2>1, <3>2, <3>3, <3>4 DEF HandOver, worker
    <2>2. CASE UNCHANGED chat /\ \A w \in Workers : channel'[w] \in {channel[w], <<>>}
      <3>1. \A w \in Workers : Waiting(w)' \subseteq Waiting(w)
        BY <2>2, ShortElems DEF Waiting
      <3>2. QED
        BY <2>2, <3>1 DEF OwnChat
    <2>3. ASSUME NEW w \in Workers, BeginNext(w) PROVE OwnChat'
      <3>1. channel[w] \in Seq(Updates) /\ channel[w] # <<>>
        BY <2>3 DEF BeginNext, TypeOK
      <3>2. Elems(Tail(channel[w])) \subseteq Waiting(w)
        BY <3>1, TailElems DEF Waiting
      <3>3. /\ channel'[w] = Tail(channel[w]) /\ UNCHANGED chat
            /\ \A v \in Workers : v # w => channel'[v] = channel[v]
        BY <2>3 DEF BeginNext, TypeOK
      <3>4. \A v \in Workers : Waiting(v)' = Elems(channel'[v])
        BY DEF Waiting
      <3>5. \A v \in Workers : Waiting(v)' \subseteq Waiting(v)
        BY <3>2, <3>3, <3>4 DEF Waiting
      <3>6. QED
        BY <3>3, <3>5 DEF OwnChat
    <2>4. CASE Crash
      BY <2>4, ShortElems DEF Crash, NoChannels, OwnChat, Waiting
    <2>5. ASSUME NEW w \in Workers, Panic(w) \/ Leave(w) PROVE OwnChat'
      <3>1. UNCHANGED chat /\ \A v \in Workers : channel'[v] \in {channel[v], <<>>}
        BY <2>5 DEF Panic, Leave, TypeOK
      <3>2. QED
        BY <2>2, <3>1
    <2>6. CASE UNCHANGED <<chat, channel>>
      BY <2>6 DEF OwnChat, Waiting
    <2>7. QED
      BY <2>1, <2>3, <2>4, <2>5, <2>6
         DEF Next, vars, worker, Send, PassDay, Poll, PollFails, AskTelegram, Accept,
             Handle, Finish, FallSilent, Close, CloseUnlessSomethingCame, SweepClaims
  <1>5. QED
    BY <1>1, <1>2, <1>3, <1>4

(* What is settled stays settled. *)
LEMMA SettledStep ==
    ASSUME TypeOK, KeptInTime, [Next]_vars, NEW u \in Updates, Settled(u)
    PROVE  Settled(u)'
  <1> USE DEF Settled, KeptAway
  <1>1. /\ u \in Nat /\ sentOn[u] \in Int /\ claimedOn[u] \in Int /\ day \in Nat
        /\ confirmed \in Nat /\ offset \in Nat
    BY SMTT(30), PollerBounds DEF TypeOK, Never
  <1>2. CASE \E v \in Updates : Send(v)
    BY <1>1, <1>2 DEF Send, TypeOK
  <1>3. CASE PassDay
    BY <1>1, <1>3, PollerBounds DEF PassDay
  <1>4. CASE Poll \/ PollFails
    BY <1>1, <1>4 DEF Poll, PollFails, AskTelegram, Confirmed
  <1>5. CASE Accept
    <2>1. UNCHANGED <<day, sentOn, confirmed>> /\ \E v \in batch : Claim(v)
      BY <1>5 DEF Accept, telegram
    <2>2. claimedOn[u] # Never => claimedOn'[u] # Never
      BY <1>1, <2>1 DEF Claim, TypeOK, Never
    <2>3. QED
      BY <2>1, <2>2
  <1>6. CASE SweepClaims
    <2>1. UNCHANGED <<day, sentOn, confirmed>>
      BY <1>6 DEF SweepClaims, telegram
    <2>2. CASE u \in OldClaims
      <3>1. sentOn[u] # Never /\ sentOn[u] <= claimedOn[u] /\ day - claimedOn[u] > ClaimsKept
        BY <2>2 DEF OldClaims, KeptInTime
      <3>2. claimedOn[u] \in Nat /\ sentOn[u] \in Nat
        BY <1>1, <2>2, <3>1 DEF OldClaims, TypeOK, Never
      <3>3. day - sentOn[u] > TelegramKeeps
        BY <1>1, <3>1, <3>2, PollerBounds
      <3>4. QED
        BY <2>1, <3>1, <3>3
    <2>3. CASE u \notin OldClaims
      BY <1>6, <2>1, <2>3 DEF SweepClaims
    <2>4. QED
      BY <2>2, <2>3
  <1>7. CASE UNCHANGED <<day, sentOn, claimedOn, confirmed>>
    BY <1>7
  <1>8. QED
    BY <1>2, <1>3, <1>4, <1>5, <1>6, <1>7
       DEF Next, vars, telegram, HandOver, Handle, Finish, Panic, FallSilent, Close, Crash

(* A new state's update was underway before, or was accepted just now. *)
LEMMA UnderwayStep ==
    ASSUME TypeOK, OnePlace, [Next]_vars, NEW u \in Updates, Underway(u)'
    PROVE  Underway(u) \/ (Accept /\ accepted' = u)
  <1>1. CASE UNCHANGED <<accepted, channel, begun>>
    BY <1>1 DEF Underway, Waiting, Started
  <1>2. CASE Accept
    <2>1. UNCHANGED <<channel, begun>>
      BY <1>2 DEF Accept, worker
    <2>2. QED
      BY <1>2, <2>1 DEF Underway, Waiting, Started
  <1>3. CASE HandOver
    BY <1>3, HandOverPlaces
  <1>4. CASE \E w \in Workers : Handle(w) \/ (Close(w) /\ BeginNext(w))
    BY <1>4, BeginNextPlaces DEF Handle, Close
  <1>5. CASE /\ UNCHANGED begun /\ accepted' \in {accepted, NoUpdate}
             /\ \A w \in Workers : channel'[w] \in {channel[w], <<>>}
    BY <1>5, EmptiedPlaces
  <1>6. CASE \E w \in Workers : Panic(w) \/ (Close(w) /\ Leave(w))
    BY <1>5, <1>6 DEF Panic, Close, Leave, TypeOK
  <1>7. CASE Crash
    BY <1>5, <1>7 DEF Crash, NoChannels
  <1>8. QED
    BY <1>1, <1>2, <1>3, <1>4, <1>6, <1>7
       DEF Next, vars, telegram, worker, Send, PassDay, Poll, PollFails, AskTelegram,
           Finish, FallSilent, Close, CloseUnlessSomethingCame, SweepClaims

(* What is accepted was the first of its batch: all before it is settled,  *)
(* and nothing after it is underway.                                       *)
LEMMA AcceptStep ==
    ASSUME TypeOK, OnceInvariant, RouteInvariant, OrderInvariant, Accept,
           NEW u \in Updates, accepted' = u
    PROVE  /\ \A v \in Updates : v < u => Settled(v)
           /\ \A x \in Updates : Underway(x) => x <= u
  <1>1. PICK b \in batch : (\A v \in batch : b <= v) /\ Claim(b)
    BY DEF Accept
  <1>2. accepted = NoUpdate /\ b \in Updates /\ u # NoUpdate
    BY <1>1, PollerBounds DEF Accept, TypeOK
  <1>3. b = u /\ claimedOn[u] = Never
    BY <1>1, <1>2 DEF Claim
  <1>4. \A v \in Updates : v \in Nat
    BY PollerBounds
  <1>5. \A v \in Updates : v < u => Settled(v)
    BY <1>1, <1>3, <1>4 DEF OrderInvariant, BatchFull
  <1>6. sentOn[u] # Never /\ ~(day - sentOn[u] > TelegramKeeps)
    BY <1>1, <1>2, <1>3, PollerBounds DEF OnceInvariant, KeptInTime, TypeOK, Never
  <1>7. ~(u <= confirmed)
    BY <1>1, <1>3, <1>4 DEF RouteInvariant, BatchAhead, TypeOK
  <1>8. ~Settled(u)
    BY <1>3, <1>6, <1>7 DEF Settled, KeptAway
  <1>9. \A x \in Updates : Underway(x) => x <= u
    BY <1>4, <1>8 DEF OrderInvariant, SettledBefore
  <1>10. QED
    BY <1>5, <1>9

(* What is underway, and what a poll brought, stays behind what is settled. *)
LEMMA SettledOrderStep ==
    ASSUME TypeOK, OnceInvariant, RouteInvariant, OrderInvariant, [Next]_vars,
           errors' = errors
    PROVE  SettledBefore' /\ BatchFull'
  <1>1. SettledBefore'
    <2> SUFFICES ASSUME NEW u \in Updates, NEW v \in Updates, Underway(u)', v < u
                 PROVE  Settled(v)'
      BY DEF SettledBefore
    <2>1. Underway(u) \/ (Accept /\ accepted' = u)
      BY UnderwayStep DEF OnceInvariant
    <2>2. Settled(v)
      BY <2>1, AcceptStep DEF OrderInvariant, SettledBefore
    <2>3. QED
      BY <2>2, SettledStep DEF OnceInvariant
  <1>2. BatchFull'
    <2> SUFFICES ASSUME NEW u \in batch', NEW v \in Updates, v < u
                 PROVE  v \in batch' \/ Settled(v)'
      BY DEF BatchFull
    <2>1. CASE Poll \/ PollFails
      <3>1. /\ batch' = Deliverable(Confirmed + 1) /\ confirmed' = Confirmed
            /\ UNCHANGED <<day, sentOn, claimedOn>>
        BY <2>1 DEF Poll, PollFails, AskTelegram
      <3>2. u \in Updates /\ sentOn[u] # Never /\ sentOn[v] # Never
        BY <3>1 DEF Deliverable, RouteInvariant, SentInOrder
      <3>3. Confirmed \in Nat /\ v \in Nat
        BY PollerBounds DEF Confirmed, TypeOK
      <3>4. CASE v <= Confirmed
        BY <3>1, <3>4 DEF Settled
      <3>5. CASE v >= Confirmed + 1
        <4>1. CASE day - sentOn[v] <= TelegramKeeps
          BY <3>1, <3>2, <3>5, <4>1 DEF Deliverable
        <4>2. CASE ~(day - sentOn[v] <= TelegramKeeps)
          <5>1. day - sentOn[v] > TelegramKeeps
            BY <3>2, <4>2, PollerBounds DEF TypeOK, Never
          <5>2. QED
            BY <3>1, <3>2, <5>1 DEF Settled, KeptAway
        <4>3. QED
          BY <4>1, <4>2
      <3>6. QED
        BY <3>3, <3>4, <3>5
    <2>2. CASE Accept
      <3>1. PICK b \in batch : batch' = batch \ {b} /\ Claim(b)
        BY <2>2 DEF Accept
      <3>2. u \in batch /\ b \in Updates
        BY <3>1 DEF TypeOK
      <3>3. v \in batch \/ Settled(v)
        BY <3>2 DEF OrderInvariant, BatchFull
      <3>4. CASE Settled(v)
        BY <3>4, SettledStep DEF OnceInvariant
      <3>5. CASE v = b
        <4>1. claimedOn'[b] # Never
          BY <3>1, <3>2, PollerBounds DEF Claim, TypeOK, Never
        <4>2. QED
          BY <3>5, <4>1 DEF Settled, KeptAway
      <3>6. QED
        BY <3>1, <3>3, <3>4, <3>5
    <2>3. CASE batch' \in {batch, {}}
      <3>1. batch' = batch
        BY <2>3
      <3>2. QED
        BY <3>1, SettledStep DEF OnceInvariant, OrderInvariant, BatchFull
    <2>4. QED
      BY <2>1, <2>2, <2>3
         DEF Next, vars, telegram, poll, Send, PassDay, HandOver, Handle, Finish, Panic,
             FallSilent, Close, SweepClaims, Crash
  <1>3. QED
    BY <1>1, <1>2

(* Handing over and beginning keep the order of each chat. *)
LEMMA HandOverOrder ==
    ASSUME TypeOK, OrderInvariant, HandOver
    PROVE  (Ordered(begun) /\ (\A w \in Workers : Ordered(channel[w])) /\ StartedFirst)'
  <1>1. accepted \in Updates /\ UNCHANGED begun
    BY DEF HandOver, TypeOK
  <1>2. CASE UNCHANGED channel
    BY <1>1, <1>2 DEF OrderInvariant, StartedFirst, Started, Waiting
  <1>3. ASSUME NEW w \in Workers, NEW s \in Seq(Updates),
               channel' = [channel EXCEPT ![w] = s],
               Elems(s) \subseteq Waiting(w) \cup {accepted}, Ordered(s)
        PROVE  (Ordered(begun) /\ (\A v \in Workers : Ordered(channel[v])) /\ StartedFirst)'
    <2>1. channel'[w] = s /\ \A v \in Workers \ {w} : channel'[v] = channel[v]
      BY <1>3 DEF TypeOK
    <2>2. /\ Waiting(w)' \subseteq Waiting(w) \cup {accepted}
          /\ \A v \in Workers \ {w} : Waiting(v)' = Waiting(v)
          /\ Started' = Started
      BY <1>1, <1>3, <2>1 DEF Waiting, Started
    <2>3. Ordered(begun)' /\ \A v \in Workers : Ordered(channel'[v])
      BY <1>1, <1>3, <2>1 DEF OrderInvariant
    <2>4. \A b \in Started : b \in Updates /\ b <= accepted
      <3>1. \A b \in Started : b \in Updates
        BY DEF Started, Elems, TypeOK
      <3>2. accepted # NoUpdate
        BY <1>1, PollerBounds
      <3>3. QED
        BY <3>1, <3>2 DEF OrderInvariant, AcceptedLast
    <2>5. StartedFirst'
      BY <2>2, <2>4 DEF OrderInvariant, StartedFirst
    <2>6. QED
      BY <2>3, <2>5
  <1> DEFINE c == ChatOf[accepted]
  <1>4. CASE /\ c # NoChat /\ Listening(queues[c])
             /\ channel' = [channel EXCEPT ![queues[c]] = Append(@, accepted)]
    <2>1. PICK w \in Workers : w = queues[c]
      BY <1>1, <1>4, PollerBounds DEF TypeOK, Listening
    <2>2. channel[w] \in Seq(Updates) /\ Ordered(channel[w])
      BY DEF TypeOK, OrderInvariant
    <2>3. \A x \in Elems(channel[w]) : x <= accepted
      <3>1. \A x \in Elems(channel[w]) : x \in Updates
        BY <2>2 DEF Elems
      <3>2. accepted # NoUpdate
        BY <1>1, PollerBounds
      <3>3. QED
        BY <3>1, <3>2 DEF OrderInvariant, AcceptedLast, Waiting
    <2>4. Ordered(Append(channel[w], accepted))
      BY <1>1, <2>2, <2>3, AppendOrdered
    <2>5. /\ Append(channel[w], accepted) \in Seq(Updates)
          /\ Elems(Append(channel[w], accepted)) = Waiting(w) \cup {accepted}
      BY <1>1, <2>2, AppendElems DEF Waiting
    <2>6. channel' = [channel EXCEPT ![w] = Append(channel[w], accepted)]
      BY <1>4, <2>1
    <2>7. QED
      BY <1>3, <2>4, <2>5, <2>6
  <1>5. CASE \E w \in Workers : channel' = [channel EXCEPT ![w] = <<accepted>>]
    BY <1>1, <1>3, <1>5, ShortElems, ShortOrdered
  <1>6. QED
    BY <1>2, <1>4, <1>5 DEF HandOver, worker

(* What begins was the first that waited of its chat. *)
LEMMA BeginNextOrder ==
    ASSUME TypeOK, KnownWorkers, OwnChat, OrderInvariant, NEW w \in Workers, BeginNext(w)
    PROVE  (Ordered(begun) /\ (\A v \in Workers : Ordered(channel[v])) /\ StartedFirst)'
  <1> DEFINE h == Head(channel[w])
             t == Tail(channel[w])
  <1>1. channel[w] \in Seq(Updates) /\ channel[w] # <<>> /\ begun \in Seq(Updates)
    BY DEF TypeOK, BeginNext
  <1>2. h \in Updates /\ Waiting(w) = Elems(t) \cup {h}
    BY <1>1, TailElems DEF Waiting
  <1>3. /\ Ordered(t)
        /\ \A x \in Elems(t) : ChatOf[h] = ChatOf[x] => h <= x
    BY <1>1, TailOrdered DEF OrderInvariant
  <1>4. Started' = Started \cup {h} /\ Ordered(begun')
    <2>1. \A x \in Elems(begun) : ChatOf[x] = ChatOf[h] => x <= h
      BY <1>2 DEF OrderInvariant, StartedFirst, Started
    <2>2. begun' = Append(begun, h)
      BY DEF BeginNext
    <2>3. QED
      BY <1>1, <1>2, <2>1, <2>2, AppendElems, AppendOrdered DEF Started, OrderInvariant
  <1>5. channel'[w] = t /\ \A v \in Workers \ {w} : channel'[v] = channel[v]
    BY DEF BeginNext, TypeOK
  <1> HIDE DEF h, t
  <1>6. Waiting(w)' = Elems(t) /\ \A v \in Workers \ {w} : Waiting(v)' = Waiting(v)
    BY <1>5 DEF Waiting
  <1>7. \A v \in Workers : Ordered(channel'[v])
    BY <1>3, <1>5 DEF OrderInvariant
  <1>8. ASSUME NEW v \in Workers \ {w}, NEW x \in Waiting(v), ChatOf[h] = ChatOf[x]
        PROVE  FALSE
    <2>1. stage[w] # "gone" /\ stage[v] # "gone"
      BY <1>1, <1>8, ShortElems DEF TypeOK, Waiting
    <2>2. chat[w] = chat[v]
      BY <1>2, <1>8 DEF OwnChat
    <2>3. QED
      BY <1>8, <2>1, <2>2 DEF KnownWorkers
  <1>9. StartedFirst'
    <2> SUFFICES ASSUME NEW v \in Workers, NEW u \in Waiting(v)', NEW b \in Started',
                        ChatOf[b] = ChatOf[u]
                 PROVE  b <= u
      BY DEF StartedFirst
    <2>1. u \in Waiting(v)
      BY <1>2, <1>6
    <2>2. CASE b \in Started
      BY <2>1, <2>2 DEF OrderInvariant, StartedFirst
    <2>3. CASE b = h
      BY <1>3, <1>6, <1>8, <2>1, <2>3
    <2>4. QED
      BY <1>4, <2>2, <2>3
  <1>10. QED
    BY <1>4, <1>7, <1>9

(* Every step in which no claim fails keeps the order. *)
LEMMA OrderStep ==
    ASSUME TypeOK, KnownWorkers, OnceInvariant, RouteInvariant, OrderInvariant,
           [Next]_vars, errors' = errors
    PROVE  OrderInvariant'
  <1>1. SettledBefore' /\ BatchFull'
    BY SettledOrderStep
  <1>2. AcceptedLast'
    <2> SUFFICES ASSUME accepted' # NoUpdate, NEW u \in Updates,
                        u \in Started' \/ \E w \in Workers : u \in Waiting(w)'
                 PROVE  u <= accepted'
      BY DEF AcceptedLast
    <2>1. Underway(u)'
      BY DEF Underway
    <2>2. CASE Accept
      <3>1. accepted' \in Updates /\ UNCHANGED <<channel, begun>>
        BY <2>2 DEF Accept, Claim, TypeOK, worker
      <3>2. Underway(u)
        BY <3>1 DEF Underway, Started, Waiting
      <3>3. QED
        BY <2>2, <3>1, <3>2, AcceptStep
    <2>3. CASE accepted' = accepted
      <3>1. Underway(u) \/ Accept
        BY <2>1, UnderwayStep DEF OnceInvariant
      <3>2. CASE Underway(u)
        BY <2>3, <3>2, PollerBounds DEF Underway, OrderInvariant, AcceptedLast
      <3>3. QED
        BY <2>2, <3>1, <3>2
    <2>4. QED
      BY <2>2, <2>3
         DEF Next, vars, telegram, poll, Send, PassDay, Poll, PollFails, AskTelegram, HandOver,
             Handle, Finish, Panic, FallSilent, Close, SweepClaims, Crash
  <1>3. (Ordered(begun) /\ (\A w \in Workers : Ordered(channel[w])) /\ StartedFirst)'
    <2>1. CASE HandOver
      BY <2>1, HandOverOrder
    <2>2. CASE \E w \in Workers : BeginNext(w)
      BY <2>2, BeginNextOrder DEF RouteInvariant
    <2>3. CASE UNCHANGED begun /\ \A w \in Workers : channel'[w] \in {channel[w], <<>>}
      <3>1. \A w \in Workers : Waiting(w)' \subseteq Waiting(w) /\ Ordered(channel'[w])
        BY <2>3, ShortElems, ShortOrdered DEF Waiting, OrderInvariant
      <3>2. Started' = Started
        BY <2>3 DEF Started
      <3>3. QED
        BY <2>3, <3>1, <3>2 DEF OrderInvariant, StartedFirst
    <2>4. CASE Crash \/ \E w \in Workers : Panic(w) \/ Leave(w)
      <3>1. UNCHANGED begun /\ \A w \in Workers : channel'[w] \in {channel[w], <<>>}
        BY <2>4 DEF Crash, NoChannels, Panic, Leave, TypeOK
      <3>2. QED
        BY <2>3, <3>1
    <2>5. QED
      BY <2>1, <2>2, <2>3, <2>4
         DEF Next, vars, telegram, worker, Send, PassDay, Poll, PollFails, AskTelegram, Accept,
             Handle, Finish, FallSilent, Close, CloseUnlessSomethingCame, SweepClaims
  <1>4. QED
    BY <1>1, <1>2, <1>3 DEF OrderInvariant

(* The updates of one chat are handled in the order they were sent, across *)
(* restarts, panics and closing workers, as long as no claim has failed.   *)
THEOREM ChatsKeepOrder == Spec => []ChatsInOrder
  <1> DEFINE Kept == /\ KnownWorkers /\ OnceInvariant /\ RouteInvariant
                     /\ (errors = 0 => OrderInvariant)
  <1>1. Init => Kept
    <2> SUFFICES ASSUME Init PROVE Kept
      OBVIOUS
    <2>1. Started = {} /\ \A w \in Workers : Waiting(w) = {}
      BY ShortElems DEF Init, Started, NoChannels, Waiting
    <2>2. KnownWorkers
      BY DEF Init, KnownWorkers, NoWorkers
    <2>3. OnceInvariant
      <3>1. OnePlace
        BY <2>1, ShortElems DEF Init, NoChannels, OnePlace
      <3>2. Guarded /\ KeptInTime
        BY <2>1, PollerBounds DEF Init, Guarded, Underway, KeptInTime, Never
      <3>3. QED
        BY <3>1, <3>2 DEF OnceInvariant
    <2>4. RouteInvariant
      BY <2>1, PollerBounds
         DEF Init, RouteInvariant, OwnChat, OwnQueue, BatchAhead, SentInOrder, NoQueues, Never
    <2>5. OrderInvariant
      BY <2>1, ShortOrdered, PollerBounds
         DEF Init, OrderInvariant, StartedFirst, AcceptedLast, SettledBefore, BatchFull,
             Underway, NoChannels
    <2>6. QED
      BY <2>2, <2>3, <2>4, <2>5
  <1>2. TypeOK /\ Kept /\ [Next]_vars => Kept'
    <2> SUFFICES ASSUME TypeOK, Kept, [Next]_vars PROVE Kept'
      OBVIOUS
    <2>1. (KnownWorkers /\ OnceInvariant /\ RouteInvariant)'
      BY KnownWorkersStep, OnceStep, KeptInTimeStep, RouteStep DEF OnceInvariant
    <2>2. errors' \in {errors, errors + 1} /\ errors \in Nat
      BY PollerBounds DEF TypeOK, Next, vars, pollerFaults, Send, PassDay, Poll, PollFails, AskTelegram,
             Accept, Claim, HandOver, Handle, Finish, Panic, FallSilent, Close, SweepClaims, Crash
    <2>3. errors' = 0 => OrderInvariant'
      BY <2>2, OrderStep
    <2>4. QED
      BY <2>1, <2>3
  <1>3. Kept => ChatsInOrder
    BY DEF OrderInvariant, Ordered, ChatsInOrder
  <1>4. QED
    BY <1>1, <1>2, <1>3, PollerTyped, PTL DEF Spec

(***************************************************************************)
(* Messages about saved expenses.                                          *)
(***************************************************************************)
NoteTexts == Folders \cup {NoFolder, "deleted"}
Acts == {"file", "delete", "confirm", "keep"}
WaitingTap == [act : Acts, folder : Folders \cup {NoFolder}, text : NoteTexts]
HandledTap == [pc : {"do", "found", "filing", "build", "edit", "gone"}, act : Acts, folder : Folders \cup {NoFolder},
               text : NoteTexts]

MessagesShaped ==
    /\ SavedMessagesTypeOK
    /\ shown \subseteq {"choose", "confirm", "none"}
    /\ taps \in Seq(WaitingTap)
    /\ tap \in HandledTap \cup {NoTap}
    /\ hurried \in BOOLEAN /\ asked \in BOOLEAN
    /\ deletedBy \in {"nobody", "tap", "web"}

(* Nothing asks to confirm, or confirms, before the question was put.      *)
QuestionWasPut ==
    ~asked => /\ "confirm" \notin shown
              /\ \A i \in 1..Len(taps) : taps[i].act # "confirm"
              /\ tap.act # "confirm"
              /\ deletedBy # "tap"

(* While the expense is there, nothing says that it is not.                *)
LivesUnsaid ==
    expense.live => /\ note.text # "deleted"
                    /\ \A i \in 1..Len(taps) : taps[i].text # "deleted"
                    /\ tap.text # "deleted"
                    /\ tap.pc # "gone"
                    /\ tap.pc = "edit" => tap.act # "confirm"

(* A tap that is alone is about the text the message has.                  *)
AloneIsRight ==
    /\ tap.pc \in {"found", "filing"} => tap.act = "file" /\ tap.folder \in Folders
    /\ tap.pc = "build" => tap.act \in {"file", "keep"}
    /\ ~hurried /\ expense.live =>
          /\ tap # NoTap => taps = <<>>
          /\ taps # <<>> => Len(taps) = 1 /\ taps[1].text = expense.folder
          /\ tap = NoTap => note.text = expense.folder
          /\ tap.pc \in {"do", "found", "filing", "edit"} => tap.text = expense.folder
          /\ tap.pc \in {"do", "found", "filing"} => note.text = expense.folder

MessagesInv == MessagesShaped /\ QuestionWasPut /\ LivesUnsaid /\ AloneIsRight

LEMMA MessagesStart == SavedMessagesInit => MessagesInv
  <1> SUFFICES ASSUME SavedMessagesInit PROVE MessagesInv
    OBVIOUS
  <1>1. PICK f \in Folders \cup {NoFolder} :
           /\ expense = [live |-> TRUE, folder |-> f]
           /\ note = [text |-> f, keys |-> "choose"]
    BY DEF SavedMessagesInit
  <1>2. /\ folders = Folders
        /\ standing = "writer"
        /\ shown = {"choose"}
        /\ taps = <<>>
        /\ tap = NoTap
        /\ asked = FALSE
        /\ deletedBy = "nobody"
        /\ hurried = FALSE
    BY DEF SavedMessagesInit
  <1>3. f # "deleted"
    BY SavedMessagesAssumption
  <1>4. <<>> \in Seq(WaitingTap) /\ Len(<<>>) = 0
    OBVIOUS
  <1>5. MessagesShaped
    BY <1>1, <1>2, <1>4 DEF MessagesShaped, SavedMessagesTypeOK
  <1>6. QED
    BY <1>1, <1>2, <1>3, <1>4, <1>5, SavedMessagesAssumption
       DEF MessagesInv, QuestionWasPut, LivesUnsaid, AloneIsRight, NoTap

LEMMA TapFacts ==
    ASSUME MessagesShaped
    PROVE  /\ NoTap.pc = "idle" /\ NoTap.act = "none" /\ NoTap.text = NoFolder
           /\ tap # NoTap <=> tap \in HandledTap
           /\ tap.pc \in {"do", "found", "filing", "build", "edit", "gone"} => tap \in HandledTap
           /\ \A pc \in {"do", "found", "filing", "build", "edit", "gone"} :
                 tap \in HandledTap => /\ [tap EXCEPT !.pc = pc] \in HandledTap
                                       /\ [tap EXCEPT !.pc = pc].pc = pc
                                       /\ [tap EXCEPT !.pc = pc].act = tap.act
                                       /\ [tap EXCEPT !.pc = pc].folder = tap.folder
                                       /\ [tap EXCEPT !.pc = pc].text = tap.text
  <1>1. NoTap \notin HandledTap
    BY DEF NoTap, HandledTap
  <1>2. NoTap.pc = "idle" /\ NoTap.act = "none" /\ NoTap.text = NoFolder
    BY DEF NoTap
  <1>3. tap \in HandledTap \cup {NoTap}
    BY DEF MessagesShaped
  <1>4. \A pc \in {"do", "found", "filing", "build", "edit", "gone"} :
           tap \in HandledTap => /\ [tap EXCEPT !.pc = pc] \in HandledTap
                                 /\ [tap EXCEPT !.pc = pc].pc = pc
                                 /\ [tap EXCEPT !.pc = pc].act = tap.act
                                 /\ [tap EXCEPT !.pc = pc].folder = tap.folder
                                 /\ [tap EXCEPT !.pc = pc].text = tap.text
    BY DEF HandledTap
  <1>5. QED
    BY <1>1, <1>2, <1>3, <1>4

(* The handler goes on, and the rest is as it was.                         *)
LEMMA TapGoesOn ==
    ASSUME MessagesInv, NEW h \in HandledTap \cup {NoTap}, tap' = h, tap # NoTap,
           UNCHANGED <<expense, folders, standing, note, shown, taps, asked, deletedBy, hurried>>,
           h.act \in {tap.act, "none"},
           expense.live => /\ h.text # "deleted"
                           /\ h.pc # "gone"
                           /\ h.pc = "edit" => h.act # "confirm",
           h.pc = "build" => h.act \in {"file", "keep"},
           h.pc # "do",
           h.pc \in {"found", "filing"} => h.act = "file" /\ h.folder \in Folders,
           ~hurried /\ expense.live => /\ h.pc \in {"found", "filing", "edit"} => h.text = expense.folder
                                       /\ h.pc \in {"found", "filing"} => note.text = expense.folder
                                       /\ h = NoTap => note.text = expense.folder
    PROVE  MessagesInv'
  <1>1. MessagesShaped /\ QuestionWasPut /\ LivesUnsaid /\ AloneIsRight
    BY DEF MessagesInv
  <1>2. MessagesShaped'
    BY <1>1 DEF MessagesShaped, SavedMessagesTypeOK
  <1>3. QuestionWasPut' /\ LivesUnsaid'
    BY <1>1 DEF QuestionWasPut, LivesUnsaid
  <1>4. AloneIsRight'
    BY <1>1 DEF AloneIsRight
  <1>5. QED
    BY <1>2, <1>3, <1>4 DEF MessagesInv

LEMMA MessagesStep == MessagesInv /\ [SavedMessagesNext]_savedMessagesVars => MessagesInv'
  <1> SUFFICES ASSUME MessagesInv, [SavedMessagesNext]_savedMessagesVars PROVE MessagesInv'
    OBVIOUS
  <1>1. MessagesShaped /\ QuestionWasPut /\ LivesUnsaid /\ AloneIsRight
    BY DEF MessagesInv
  <1>2. /\ SavedMessagesTypeOK
        /\ taps \in Seq(WaitingTap)
        /\ Len(taps) \in Nat
    BY <1>1 DEF MessagesShaped
  <1>3. "deleted" \notin Folders \cup {NoFolder}
    BY SavedMessagesAssumption
  <1>4. ASSUME NEW b \in Buttons, Press(b)
        PROVE  MessagesInv'
    <2>1. PICK t : t = [act |-> b.act, folder |-> b.folder, text |-> note.text]
      OBVIOUS
    <2>2. /\ taps' = Append(taps, t)
          /\ hurried' = (hurried \/ taps # <<>> \/ tap # NoTap)
          /\ UNCHANGED <<expense, folders, standing, note, shown, tap, asked, deletedBy>>
      BY <1>4, <2>1 DEF Press
    <2>3. t \in WaitingTap /\ t.act = b.act /\ t.text = note.text
      BY <1>2, <2>1 DEF Buttons, WaitingTap, NoteTexts, Acts, SavedMessagesTypeOK
    <2>4. /\ taps' \in Seq(WaitingTap)
          /\ Len(taps') = Len(taps) + 1
          /\ \A i \in 1..Len(taps) : taps'[i] = taps[i]
          /\ taps'[Len(taps) + 1] = t
      BY <1>2, <2>2, <2>3
    <2>5. \A i \in 1..Len(taps') : i \in 1..Len(taps) \/ i = Len(taps) + 1
      BY <1>2, <2>4
    <2>6. hurried' \in BOOLEAN
      BY <1>1, <2>2 DEF MessagesShaped
    <2>7. MessagesShaped'
      BY <1>1, <2>2, <2>4, <2>6 DEF MessagesShaped, SavedMessagesTypeOK
    <2>8. QuestionWasPut'
      <3>1. SUFFICES ASSUME ~asked PROVE \A i \in 1..Len(taps') : taps'[i].act # "confirm"
        BY <1>1, <2>2 DEF QuestionWasPut
      <3>2. "confirm" \notin shown /\ shown \subseteq {"choose", "confirm", "none"}
        BY <1>1, <3>1 DEF QuestionWasPut, MessagesShaped
      <3>3. b.act # "confirm"
        BY <1>4, <3>2 DEF Press, Keyboard
      <3>4. \A i \in 1..Len(taps) : taps[i].act # "confirm"
        BY <1>1, <3>1 DEF QuestionWasPut
      <3>5. QED
        BY <2>3, <2>4, <2>5, <3>3, <3>4
    <2>9. LivesUnsaid'
      <3>1. expense.live => \A i \in 1..Len(taps') : taps'[i].text # "deleted"
        BY <1>1, <2>3, <2>4, <2>5 DEF LivesUnsaid
      <3>2. QED
        BY <1>1, <2>2, <3>1 DEF LivesUnsaid
    <2>10. AloneIsRight'
      <3>1. ~hurried' => ~hurried /\ taps = <<>> /\ tap = NoTap
        BY <2>2
      <3>2. taps = <<>> => Len(taps') = 1 /\ taps'[1] = t
        BY <2>4
      <3>3. NoTap.pc = "idle"
        BY DEF NoTap
      <3>4. QED
        BY <1>1, <2>2, <2>3, <3>1, <3>2, <3>3 DEF AloneIsRight
    <2>11. QED
      BY <2>7, <2>8, <2>9, <2>10 DEF MessagesInv
  <1>5. CASE TakeTap
    <2>1. /\ tap = NoTap
          /\ taps # <<>>
          /\ taps' = Tail(taps)
          /\ UNCHANGED <<expense, folders, note, shown, asked, deletedBy, hurried>>
      BY <1>5 DEF TakeTap
    <2>2. PICK t, h : /\ t = Head(taps)
                      /\ h = [pc |-> "do", act |-> t.act, folder |-> t.folder, text |-> t.text]
      OBVIOUS
    <2>3. tap' = h \/ tap' = NoTap
      BY <1>5, <2>2 DEF TakeTap
    <2>4. t = taps[1] /\ 1 \in 1..Len(taps) /\ t \in WaitingTap
      BY <1>2, <2>1, <2>2
    <2>5. /\ taps' \in Seq(WaitingTap)
          /\ Len(taps') = Len(taps) - 1
          /\ \A i \in 1..Len(taps') : i + 1 \in 1..Len(taps) /\ taps'[i] = taps[i + 1]
      BY <1>2, <2>1
    <2>6. h \in HandledTap /\ h.pc = "do" /\ h.act = t.act /\ h.text = t.text
      BY <2>2, <2>4 DEF WaitingTap, HandledTap
    <2>7. standing' \in {"writer", "reader", "left", "unlinked"}
      BY <1>2, <1>5 DEF TakeTap, SavedMessagesTypeOK
    <2>8. NoTap.pc = "idle" /\ NoTap.act = "none" /\ NoTap.text = NoFolder
      BY DEF NoTap
    <2>9. MessagesShaped'
      BY <1>1, <2>1, <2>3, <2>5, <2>6, <2>7 DEF MessagesShaped, SavedMessagesTypeOK
    <2>10. QuestionWasPut'
      BY <1>1, <2>1, <2>3, <2>4, <2>5, <2>6, <2>8 DEF QuestionWasPut
    <2>11. LivesUnsaid'
      BY <1>1, <1>3, <2>1, <2>3, <2>4, <2>5, <2>6, <2>8 DEF LivesUnsaid
    <2>12. AloneIsRight'
      <3>1. Len(taps) = 1 => taps' = <<>>
        BY <2>5
      <3>2. ~hurried /\ expense.live => Len(taps) = 1 /\ t.text = expense.folder /\ note.text = expense.folder
        BY <1>1, <2>1, <2>4 DEF AloneIsRight
      <3>3. QED
        BY <2>1, <2>3, <2>6, <2>8, <3>1, <3>2 DEF AloneIsRight
    <2>13. QED
      BY <2>9, <2>10, <2>11, <2>12 DEF MessagesInv
  <1>6. CASE File
    <2>1. /\ tap.pc = "filing"
          /\ UNCHANGED <<folders, standing, note, shown, taps, asked, deletedBy, hurried>>
      BY <1>6 DEF File
    <2>2. tap \in HandledTap /\ tap # NoTap /\ tap.folder \in Folders /\ tap.act = "file"
      BY <1>1, <2>1, TapFacts DEF AloneIsRight
    <2> DEFINE h == [tap EXCEPT !.pc = "build"]
    <2>3. /\ tap' = h
          /\ expense' = IF expense.live THEN [expense EXCEPT !.folder = tap.folder] ELSE expense
      BY <1>6 DEF File
    <2>4. h \in HandledTap /\ h.pc = "build" /\ h.act = "file" /\ h.text = tap.text
      BY <1>1, <2>2, TapFacts
    <2>5. h # NoTap
      BY <2>4 DEF NoTap
    <2> HIDE DEF h
    <2>6. expense' \in [live : BOOLEAN, folder : Folders \cup {NoFolder}] /\ expense'.live = expense.live
      BY <1>2, <2>2, <2>3 DEF SavedMessagesTypeOK
    <2>7. MessagesShaped'
      BY <1>1, <2>1, <2>3, <2>4, <2>6 DEF MessagesShaped, SavedMessagesTypeOK
    <2>8. QuestionWasPut' /\ LivesUnsaid'
      BY <1>1, <2>2, <2>1, <2>3, <2>4, <2>6 DEF QuestionWasPut, LivesUnsaid
    <2>9. AloneIsRight'
      BY <1>1, <2>1, <2>2, <2>3, <2>4, <2>5, <2>6 DEF AloneIsRight
    <2>10. QED
      BY <2>7, <2>8, <2>9 DEF MessagesInv
  <1>6a. ASSUME NEW pc \in {"do", "found"}, NEW next \in {"found", "filing"}, LookForFolder(pc, next)
         PROVE  MessagesInv'
    <2>1. /\ tap.pc = pc /\ tap.act = "file"
          /\ UNCHANGED <<expense, folders, standing, note, shown, taps, asked, deletedBy, hurried>>
      BY <1>6a DEF LookForFolder
    <2>2. tap \in HandledTap /\ tap # NoTap
      BY <1>1, <2>1, TapFacts
    <2>3. ~hurried /\ expense.live => note.text = expense.folder /\ tap.text = expense.folder
      BY <1>1, <2>1 DEF AloneIsRight
    <2>4. CASE tap.folder \notin folders
      <3>1. tap' = NoTap
        BY <1>6a, <2>4 DEF LookForFolder
      <3>2. NoTap.pc = "idle" /\ NoTap.act = "none" /\ NoTap.text = NoFolder
        BY DEF NoTap
      <3>3. QED
        BY <1>3, <2>1, <2>2, <2>3, <3>1, <3>2, TapGoesOn
    <2>5. CASE tap.folder \in folders
      <3> DEFINE h == [tap EXCEPT !.pc = next]
      <3>1. tap' = h /\ tap.folder \in Folders
        BY <1>2, <1>6a, <2>5 DEF LookForFolder, SavedMessagesTypeOK
      <3>2. h \in HandledTap /\ h.pc = next /\ h.act = "file" /\ h.folder = tap.folder /\ h.text = tap.text
        BY <1>1, <2>1, <2>2, TapFacts
      <3>3. h # NoTap
        BY <3>2 DEF NoTap
      <3>4. expense.live => h.text # "deleted"
        BY <1>1, <3>2 DEF LivesUnsaid
      <3> HIDE DEF h
      <3>5. QED
        BY <2>1, <2>2, <2>3, <3>1, <3>2, <3>3, <3>4, TapGoesOn
    <2>6. QED
      BY <2>4, <2>5
  <1>7. CASE FindExpense
    <2>1. PICK pc \in {"gone", "edit", "build"} :
             /\ tap' = [tap EXCEPT !.pc = pc]
             /\ pc = "gone" <=> ~expense.live
             /\ pc = "edit" => tap.act = "delete"
             /\ pc = "build" => tap.act = "keep"
      BY <1>7 DEF FindExpense
    <2>2. /\ tap.pc = "do"
          /\ UNCHANGED <<expense, folders, standing, note, shown, taps, asked, deletedBy, hurried>>
      BY <1>7 DEF FindExpense
    <2>3. tap \in HandledTap /\ tap # NoTap
      BY <1>1, <2>2, TapFacts
    <2> DEFINE h == [tap EXCEPT !.pc = pc]
    <2>4. h \in HandledTap /\ h.pc = pc /\ h.act = tap.act /\ h.text = tap.text
      BY <1>1, <2>3, TapFacts
    <2>5. h # NoTap
      BY <2>4 DEF NoTap
    <2>6. tap' = h
      BY <2>1
    <2> HIDE DEF h
    <2>7. expense.live => h.text # "deleted"
      BY <1>1, <2>4 DEF LivesUnsaid
    <2>8. ~hurried /\ expense.live => h.text = expense.folder
      BY <1>1, <2>2, <2>4 DEF AloneIsRight
    <2>9. QED
      BY <2>1, <2>2, <2>3, <2>4, <2>5, <2>6, <2>7, <2>8, TapGoesOn
  <1>8. CASE ConfirmDelete
    <2>1. /\ tap.pc = "do"
          /\ tap.act = "confirm"
          /\ UNCHANGED <<folders, standing, note, shown, taps, asked, hurried>>
      BY <1>8 DEF ConfirmDelete
    <2>2. tap \in HandledTap /\ tap # NoTap
      BY <1>1, <2>1, TapFacts
    <2>3. asked
      BY <1>1, <2>1 DEF QuestionWasPut
    <2>4. PICK pc \in {"gone", "edit"} : tap' = [tap EXCEPT !.pc = pc]
      BY <1>8 DEF ConfirmDelete
    <2>5. tap' \in HandledTap /\ tap'.pc = pc
      BY <1>1, <2>2, <2>4, TapFacts
    <2>6. /\ expense' \in [live : BOOLEAN, folder : Folders \cup {NoFolder}]
          /\ ~expense'.live
          /\ deletedBy' \in {"nobody", "tap", "web"}
          /\ deletedBy' # "nobody"
      BY <1>1, <1>2, <1>8 DEF ConfirmDelete, SavedMessagesTypeOK, MessagesShaped
    <2>7. MessagesShaped'
      BY <1>1, <2>1, <2>5, <2>6 DEF MessagesShaped, SavedMessagesTypeOK
    <2>8. QuestionWasPut' /\ LivesUnsaid' /\ AloneIsRight'
      BY <2>1, <2>3, <2>5, <2>6 DEF QuestionWasPut, LivesUnsaid, AloneIsRight
    <2>9. QED
      BY <2>7, <2>8 DEF MessagesInv
  <1>9. CASE BuildSaved
    <2>1. /\ tap.pc = "build"
          /\ UNCHANGED <<expense, folders, standing, note, shown, taps, asked, deletedBy, hurried>>
      BY <1>9 DEF BuildSaved
    <2>2. tap \in HandledTap /\ tap # NoTap /\ tap.act \in {"file", "keep"}
      BY <1>1, <2>1, TapFacts DEF AloneIsRight
    <2>3. CASE expense.live
      <3> DEFINE h == [tap EXCEPT !.pc = "edit", !.text = expense.folder]
      <3>1. tap' = h
        BY <1>9, <2>3 DEF BuildSaved
      <3>2. h \in HandledTap /\ h.pc = "edit" /\ h.act = tap.act /\ h.text = expense.folder
        BY <1>2, <2>2 DEF HandledTap, SavedMessagesTypeOK, NoteTexts
      <3>3. h # NoTap
        BY <3>2 DEF NoTap
      <3>4. h.text # "deleted"
        BY <1>2, <1>3, <3>2 DEF SavedMessagesTypeOK
      <3> HIDE DEF h
      <3>5. QED
        BY <2>1, <2>2, <3>1, <3>2, <3>3, <3>4, TapGoesOn
    <2>4. CASE ~expense.live
      <3>1. tap' = NoTap
        BY <1>9, <2>4 DEF BuildSaved
      <3>2. NoTap.pc = "idle" /\ NoTap.act = "none"
        BY DEF NoTap
      <3>3. QED
        BY <2>1, <2>2, <2>4, <3>1, <3>2, TapGoesOn
    <2>5. QED
      BY <2>3, <2>4
  <1>10. CASE EditMessage
    <2>1. /\ tap.pc \in {"edit", "gone"}
          /\ shown' = shown \cup {note'.keys}
          /\ asked' = (asked \/ note'.keys = "confirm")
          /\ tap' = NoTap
          /\ UNCHANGED <<expense, folders, standing, taps, deletedBy, hurried>>
      BY <1>10 DEF EditMessage
    <2>2. tap \in HandledTap /\ tap # NoTap
      BY <1>1, <2>1, TapFacts
    <2>3. PICK text, keys :
             /\ note' = [text |-> text, keys |-> keys]
             /\ keys \in {"none", "confirm", "choose"}
             /\ text = tap.text \/ (text = "deleted" /\ tap.pc = "edit" /\ tap.act = "confirm")
      BY <1>10 DEF EditMessage
    <2>4. note'.text = text /\ note'.keys = keys
      BY <2>3
    <2>5. text \in NoteTexts
      BY <2>2, <2>3 DEF HandledTap, NoteTexts
    <2>6. NoTap.pc = "idle" /\ NoTap.act = "none" /\ NoTap.text = NoFolder
      BY DEF NoTap
    <2>7. MessagesShaped'
      BY <1>1, <2>1, <2>3, <2>4, <2>5 DEF MessagesShaped, SavedMessagesTypeOK, NoteTexts
    <2>8. QuestionWasPut'
      BY <1>1, <2>1, <2>3, <2>4, <2>6 DEF QuestionWasPut
    <2>9. LivesUnsaid'
      BY <1>1, <1>3, <2>1, <2>3, <2>4, <2>6 DEF LivesUnsaid
    <2>10. AloneIsRight'
      <3>1. expense.live => tap.pc = "edit" /\ tap.act # "confirm" /\ text = tap.text
        BY <1>1, <2>1, <2>3 DEF LivesUnsaid
      <3>2. ~hurried /\ expense.live => taps = <<>> /\ tap.text = expense.folder
        BY <1>1, <2>2, <3>1 DEF AloneIsRight
      <3>3. QED
        BY <2>1, <2>4, <2>6, <3>1, <3>2 DEF AloneIsRight
    <2>11. QED
      BY <2>7, <2>8, <2>9, <2>10 DEF MessagesInv
  <1>11. CASE LoseTap
    <2>1. /\ tap' = NoTap
          /\ hurried' = TRUE
          /\ UNCHANGED <<expense, folders, standing, note, shown, taps, asked, deletedBy>>
      BY <1>11 DEF LoseTap
    <2>2. NoTap.pc = "idle" /\ NoTap.act = "none" /\ NoTap.text = NoFolder
      BY DEF NoTap
    <2>3. MessagesShaped'
      BY <1>1, <2>1 DEF MessagesShaped, SavedMessagesTypeOK
    <2>4. QuestionWasPut' /\ LivesUnsaid' /\ AloneIsRight'
      BY <1>1, <1>3, <2>1, <2>2 DEF QuestionWasPut, LivesUnsaid, AloneIsRight
    <2>5. QED
      BY <2>3, <2>4 DEF MessagesInv
  <1>12. CASE Elsewhere
    <2>1. hurried' = TRUE /\ UNCHANGED <<note, shown, taps, tap, asked>>
      BY <1>12 DEF Elsewhere, chatState
    <2>2. /\ expense' \in [live : BOOLEAN, folder : Folders \cup {NoFolder}]
          /\ folders' \subseteq Folders
          /\ standing' \in {"writer", "reader", "left", "unlinked"}
          /\ expense'.live => expense.live
          /\ deletedBy' \in {deletedBy, "web"}
          /\ deletedBy' = "nobody" <=> expense'.live
      BY <1>2, <1>12 DEF Elsewhere, SavedMessagesTypeOK
    <2>3. MessagesShaped'
      BY <1>1, <2>1, <2>2 DEF MessagesShaped, SavedMessagesTypeOK
    <2>4. QuestionWasPut' /\ LivesUnsaid' /\ AloneIsRight'
      BY <1>1, <2>1, <2>2 DEF QuestionWasPut, LivesUnsaid, AloneIsRight
    <2>5. QED
      BY <2>3, <2>4 DEF MessagesInv
  <1>13. CASE UNCHANGED savedMessagesVars
    <2>1. UNCHANGED <<expense, folders, standing, note, shown, taps, tap, asked, deletedBy, hurried>>
      BY <1>13 DEF savedMessagesVars, chatState
    <2>2. MessagesShaped'
      BY <1>1, <2>1 DEF MessagesShaped, SavedMessagesTypeOK
    <2>3. QED
      BY <1>1, <2>1, <2>2 DEF MessagesInv, QuestionWasPut, LivesUnsaid, AloneIsRight
  <1>14. QED
    BY <1>4, <1>5, <1>6, <1>6a, <1>7, <1>8, <1>9, <1>10, <1>11, <1>12, <1>13
    DEF SavedMessagesNext, FindCategory, RequireCategory

LEMMA MessagesAlways == SavedMessagesSpec => []MessagesInv
  BY MessagesStart, MessagesStep, PTL DEF SavedMessagesSpec

(* An expense is live until the bot or the web deleted it.                 *)
THEOREM MessagesAreTyped == SavedMessagesSpec => []SavedMessagesTypeOK
  <1>1. MessagesInv => SavedMessagesTypeOK
    BY DEF MessagesInv, MessagesShaped
  <1>2. QED
    BY <1>1, MessagesAlways, PTL

(* The bot deletes only after it asked, whichever of the buttons a phone   *)
(* still shows is tapped, and a message says what is stored as long as its *)
(* taps are alone (telegram/callback.rs).                                  *)
THEOREM MessagesAreTrue == SavedMessagesSpec => [](DeleteTakesTwoTaps /\ MessageSaysWhatIsStored)
  <1>1. MessagesInv => DeleteTakesTwoTaps /\ MessageSaysWhatIsStored
    BY DEF MessagesInv, QuestionWasPut, LivesUnsaid, AloneIsRight, DeleteTakesTwoTaps, MessageSaysWhatIsStored
  <1>2. QED
    BY <1>1, MessagesAlways, PTL

(***************************************************************************)
(* Links between chats and members.                                        *)
(*                                                                         *)
(* A handler holds the rows it ends, so they are live until it commits; a  *)
(* member who left while being linked is one of those who were crossed.    *)
(***************************************************************************)
Handlings == [pc : {"idle", "linked", "checked"} \cup Linking, member : LinkMembers \cup {Nobody},
              ends : SUBSET LinkRows, role : {"writer", "reader", "left"}]

Removals == [pc : {"none", "begun", "unlinked"}, ends : SUBSET LinkRows, met : BOOLEAN]

LinksShaped ==
    /\ links \subseteq LinkRows
    /\ belongs \in [LinkMembers -> {"writer", "reader", "left"}]
    /\ handling \in [LinkChats -> Handlings]
    /\ removal \in [LinkMembers -> Removals]
    /\ \A c \in LinkChats : handling[c].pc # "idle" => handling[c].member \in LinkMembers

EndsAreHeld ==
    /\ \A c \in LinkChats : handling[c].ends \subseteq links
    /\ \A c, d \in LinkChats : c # d => handling[c].ends \cap handling[d].ends = {}
    /\ \A m \in LinkMembers :
          /\ removal[m].ends \subseteq links
          /\ \A c \in LinkChats : removal[m].ends \cap handling[c].ends = {}
          /\ \A n \in LinkMembers \ {m} : removal[m].ends \cap removal[n].ends = {}

(* A removal that was not met by a chat being linked holds all the links   *)
(* of its member.                                                          *)
RemovalSees(m) ==
    removal[m].pc = "unlinked" /\ ~removal[m].met =>
       ~BeingLinked(m) /\ \A l \in links : l.member = m => l \in removal[m].ends
RemovalsSee == \A m \in LinkMembers : RemovalSees(m)

LeaversAreCrossed ==
    \A c \in LinkChats :
       handling[c].pc \in Linking /\ belongs[handling[c].member] = "left" =>
          handling[c].member \in crossed

LinksInv ==
    /\ LinksShaped /\ EndsAreHeld /\ RemovalsSee /\ LeaversAreCrossed
    /\ OneLinkEach /\ LeaversAreUnlinked

LEMMA LinksStart == LinksInit => LinksInv
  BY LinksAssumption
     DEF LinksInit, LinksInv, LinksShaped, EndsAreHeld, RemovalsSee, RemovalSees, LeaversAreCrossed,
         OneLinkEach, LeaversAreUnlinked, Handlings, Removals, AtRest, NoRemoval, LinkRows, Linking

(* One handler goes on and leaves the rows alone.                          *)
LEMMA HandlerGoesOn ==
    ASSUME LinksInv, NEW c \in LinkChats, NEW h \in Handlings,
           handling' = [handling EXCEPT ![c] = h],
           UNCHANGED <<links, belongs, removal, crossed>>,
           h.pc # "idle" => h.member \in LinkMembers,
           h.ends \subseteq links,
           \A d \in LinkChats \ {c} : h.ends \cap handling[d].ends = {},
           \A m \in LinkMembers : h.ends \cap removal[m].ends = {},
           h.pc \in Linking => handling[c].pc \in Linking /\ h.member = handling[c].member
    PROVE  LinksInv'
  <1>1. /\ LinksShaped /\ EndsAreHeld /\ RemovalsSee /\ LeaversAreCrossed
        /\ OneLinkEach /\ LeaversAreUnlinked
    BY DEF LinksInv
  <1>2. \A d \in LinkChats : handling'[d] = IF d = c THEN h ELSE handling[d]
    BY <1>1 DEF LinksShaped
  <1>3. LinksShaped'
    BY <1>1, <1>2 DEF LinksShaped, LinkRows, Handlings, Removals
  <1>4. EndsAreHeld'
    BY <1>1, <1>2 DEF EndsAreHeld
  <1>5. LeaversAreCrossed'
    BY <1>1, <1>2 DEF LeaversAreCrossed
  <1>6. OneLinkEach' /\ LeaversAreUnlinked'
    BY <1>1 DEF OneLinkEach, LeaversAreUnlinked
  <1>7. RemovalsSee'
    <2>1. \A m \in LinkMembers : BeingLinked(m)' => BeingLinked(m)
      BY <1>2 DEF BeingLinked
    <2>2. QED
      BY <1>1, <2>1 DEF RemovalsSee, RemovalSees
  <1>8. QED
    BY <1>3, <1>4, <1>5, <1>6, <1>7 DEF LinksInv

(* The removal of a member goes on and leaves the rows alone.              *)
LEMMA RemovalGoesOn ==
    ASSUME LinksInv, NEW m \in LinkMembers, NEW q \in Removals,
           removal' = [removal EXCEPT ![m] = q],
           UNCHANGED <<links, belongs, handling, crossed>>,
           q.ends \subseteq links,
           \A c \in LinkChats : q.ends \cap handling[c].ends = {},
           \A n \in LinkMembers \ {m} : q.ends \cap removal[n].ends = {},
           q.pc = "unlinked" /\ ~q.met =>
              ~BeingLinked(m) /\ \A l \in links : l.member = m => l \in q.ends
    PROVE  LinksInv'
  <1>1. /\ LinksShaped /\ EndsAreHeld /\ RemovalsSee /\ LeaversAreCrossed
        /\ OneLinkEach /\ LeaversAreUnlinked
    BY DEF LinksInv
  <1>2. \A n \in LinkMembers : removal'[n] = IF n = m THEN q ELSE removal[n]
    BY <1>1 DEF LinksShaped
  <1>3. LinksShaped' /\ EndsAreHeld'
    BY <1>1, <1>2 DEF LinksShaped, EndsAreHeld
  <1>4. RemovalsSee'
    BY <1>1, <1>2 DEF RemovalsSee, RemovalSees, BeingLinked
  <1>5. LeaversAreCrossed' /\ OneLinkEach' /\ LeaversAreUnlinked'
    BY <1>1 DEF LeaversAreCrossed, OneLinkEach, LeaversAreUnlinked
  <1>6. QED
    BY <1>3, <1>4, <1>5 DEF LinksInv

(* Rows that nobody is ending go.                                          *)
LEMMA RowsGo ==
    ASSUME LinksInv, NEW m, \A l \in links : l.member = m => LinkFree(l),
           links' = {l \in links : l.member # m}
    PROVE  /\ links' \subseteq links
           /\ \A c \in LinkChats : handling[c].ends \subseteq links'
           /\ \A n \in LinkMembers : removal[n].ends \subseteq links'
  BY DEF LinksInv, EndsAreHeld, LinkFree

LEMMA LinksStep == LinksInv /\ [LinksNext]_linksVars => LinksInv'
  <1> SUFFICES ASSUME LinksInv, [LinksNext]_linksVars PROVE LinksInv'
    OBVIOUS
  <1>1. /\ LinksShaped /\ EndsAreHeld /\ RemovalsSee /\ LeaversAreCrossed
        /\ OneLinkEach /\ LeaversAreUnlinked
    BY DEF LinksInv
  <1>2. /\ \A c \in LinkChats : handling[c] \in Handlings
        /\ \A m \in LinkMembers : removal[m] \in Removals
    BY <1>1 DEF LinksShaped
  <1>3. /\ AtRest \in Handlings /\ AtRest.pc = "idle" /\ AtRest.ends = {}
        /\ AtRest.pc \notin Linking
    BY DEF AtRest, Handlings, Linking
  <1>3a. NoRemoval \in Removals /\ NoRemoval.pc = "none" /\ NoRemoval.ends = {}
    BY DEF NoRemoval, Removals
  <1>4. ASSUME NEW c \in LinkChats, NEW m \in LinkMembers, StartLink(c, m)
        PROVE  LinksInv'
    <2> DEFINE h == [AtRest EXCEPT !.pc = "starting", !.member = m]
               q == [removal[m] EXCEPT !.met = removal[m].met \/ removal[m].pc = "unlinked"]
    <2>1. h \in Handlings /\ h.pc = "starting" /\ h.member = m /\ h.ends = {}
      BY DEF AtRest, Handlings, Linking
    <2>2. /\ belongs[m] # "left"
          /\ handling' = [handling EXCEPT ![c] = h]
          /\ removal' = [removal EXCEPT ![m] = q]
          /\ UNCHANGED <<links, belongs, crossed>>
      BY <1>1, <1>4 DEF StartLink, LinksShaped
    <2>3. /\ q \in Removals /\ q.pc = removal[m].pc /\ q.ends = removal[m].ends
          /\ q.pc = "unlinked" => q.met
      BY <1>2 DEF Removals
    <2> HIDE DEF h, q
    <2>4. /\ \A d \in LinkChats : handling'[d] = IF d = c THEN h ELSE handling[d]
          /\ \A n \in LinkMembers : removal'[n] = IF n = m THEN q ELSE removal[n]
      BY <1>1, <2>2 DEF LinksShaped
    <2>5. LinksShaped'
      BY <1>1, <2>1, <2>2, <2>3, <2>4 DEF LinksShaped
    <2>6. EndsAreHeld'
      BY <1>1, <2>1, <2>2, <2>3, <2>4 DEF EndsAreHeld
    <2>7. RemovalsSee'
      <3>1. ASSUME NEW n \in LinkMembers, n # m PROVE BeingLinked(n)' => BeingLinked(n)
        BY <2>1, <2>4, <3>1 DEF BeingLinked
      <3>2. ASSUME NEW n \in LinkMembers, n # m PROVE RemovalSees(n)'
        BY <1>1, <2>2, <2>4, <3>1, <3>2 DEF RemovalsSee, RemovalSees
      <3>3. RemovalSees(m)'
        BY <2>3, <2>4 DEF RemovalSees
      <3>4. QED
        BY <3>2, <3>3 DEF RemovalsSee
    <2>8. LeaversAreCrossed'
      BY <1>1, <2>1, <2>2, <2>4 DEF LeaversAreCrossed
    <2>9. QED
      BY <1>1, <2>2, <2>5, <2>6, <2>7, <2>8 DEF LinksInv, OneLinkEach, LeaversAreUnlinked
  <1>5. ASSUME NEW c \in LinkChats, EndOfChat(c) \/ EndOfMember(c)
        PROVE  LinksInv'
    <2>1. PICK pc \in {"moving", "ended"}, previous \in SUBSET links :
             /\ \A l \in previous : l \in links /\ (l \in handling[c].ends \/ LinkFree(l))
             /\ handling' = [handling EXCEPT ![c].pc = pc, ![c].ends = previous]
      <3>1. CASE EndOfChat(c)
        BY <3>1 DEF EndOfChat
      <3>2. CASE EndOfMember(c)
        <4> DEFINE others == {l \in links : l.member = handling[c].member} \ handling[c].ends
        <4>1. /\ \A l \in others : LinkFree(l) /\ l \in links
              /\ handling' = [handling EXCEPT ![c].pc = "ended", ![c].ends = handling[c].ends \cup others]
          BY <1>1, <3>2 DEF EndOfMember, LinksShaped
        <4>2. handling[c].ends \subseteq links
          BY <1>1 DEF EndsAreHeld
        <4> HIDE DEF others
        <4>3. QED
          BY <4>1, <4>2
      <3>3. QED
        BY <1>5, <3>1, <3>2
    <2> DEFINE h == [handling[c] EXCEPT !.pc = pc, !.ends = previous]
    <2>2. /\ handling[c].pc \in {"starting", "moving"}
          /\ UNCHANGED <<links, belongs, removal, crossed>>
      BY <1>5 DEF EndOfChat, EndOfMember
    <2>3. handling' = [handling EXCEPT ![c] = h]
      BY <1>1, <2>1 DEF LinksShaped
    <2>4. previous \subseteq LinkRows
      BY <1>1, <2>1 DEF LinksShaped
    <2>5. h \in Handlings /\ h.pc = pc /\ h.member = handling[c].member /\ h.ends = previous
      BY <1>2, <2>4 DEF Handlings, Linking
    <2> HIDE DEF h
    <2>6. /\ h.ends \subseteq links
          /\ \A d \in LinkChats \ {c} : h.ends \cap handling[d].ends = {}
          /\ \A m \in LinkMembers : h.ends \cap removal[m].ends = {}
      BY <1>1, <2>1, <2>5 DEF LinkFree, EndsAreHeld
    <2>7. h.member \in LinkMembers /\ handling[c].pc \in Linking
      BY <1>1, <2>2, <2>5 DEF LinksShaped, Linking
    <2>8. QED
      BY <2>2, <2>3, <2>5, <2>6, <2>7, HandlerGoesOn
  <1>6. ASSUME NEW c \in LinkChats, InsertLink(c)
        PROVE  LinksInv'
    <2>1. PICK l, m, ends :
             /\ m = handling[c].member
             /\ ends = handling[c].ends
             /\ l = [chat |-> c, member |-> m]
      OBVIOUS
    <2>2. /\ handling[c].pc = "ended"
          /\ Clashes(c) = {}
          /\ links' = (links \ ends) \cup {l}
          /\ handling' = [handling EXCEPT ![c] = AtRest]
          /\ UNCHANGED <<belongs, removal, crossed>>
      BY <1>6, <2>1 DEF InsertLink
    <2>3. m \in LinkMembers /\ l \in LinkRows /\ l.chat = c /\ l.member = m
      BY <1>1, <2>1, <2>2 DEF LinksShaped, LinkRows
    <2>4. \A d \in LinkChats : handling'[d] = IF d = c THEN AtRest ELSE handling[d]
      BY <1>1, <2>2 DEF LinksShaped
    <2>5. LinksShaped'
      BY <1>1, <1>3, <2>2, <2>3, <2>4 DEF LinksShaped
    <2>6. EndsAreHeld'
      <3>1. /\ \A d \in LinkChats : d # c => handling[d].ends \subseteq links \ ends
            /\ \A n \in LinkMembers : removal[n].ends \subseteq links \ ends
        BY <1>1, <2>1 DEF EndsAreHeld
      <3>2. QED
        BY <1>1, <1>3, <2>2, <2>4, <3>1 DEF EndsAreHeld
    <2>7. LeaversAreCrossed'
      BY <1>1, <1>3, <2>2, <2>4 DEF LeaversAreCrossed
    <2>7a. RemovalsSee'
      <3>1. BeingLinked(m)
        BY <2>1, <2>2 DEF BeingLinked, Linking
      <3>2. \A n \in LinkMembers : BeingLinked(n)' => BeingLinked(n)
        BY <1>3, <2>4 DEF BeingLinked
      <3>3. \A k \in links' : k \in links \/ k.member = m
        BY <2>2, <2>3
      <3>4. QED
        BY <1>1, <2>2, <3>1, <3>2, <3>3 DEF RemovalsSee, RemovalSees
    <2>8. \A k \in links \ ends : k.chat # c /\ k.member # m
      BY <2>1, <2>2 DEF Clashes
    <2>9. OneLinkEach'
      BY <1>1, <2>2, <2>3, <2>8 DEF OneLinkEach
    <2>10. LeaversAreUnlinked'
      BY <1>1, <2>1, <2>2, <2>3 DEF LeaversAreUnlinked, LeaversAreCrossed, Linking
    <2>11. QED
      BY <2>5, <2>6, <2>7, <2>7a, <2>9, <2>10 DEF LinksInv
  <1>7. ASSUME NEW c \in LinkChats, UndoStart(c) \/ AnswerMessage(c)
        PROVE  LinksInv'
    <2>1. handling' = [handling EXCEPT ![c] = AtRest] /\ UNCHANGED <<links, belongs, removal, crossed>>
      BY <1>7 DEF UndoStart, AnswerMessage
    <2>2. QED
      BY <1>3, <2>1, HandlerGoesOn
  <1>8. ASSUME NEW c \in LinkChats, NEW l \in links, LookUpLink(c, l)
        PROVE  LinksInv'
    <2> DEFINE h == [AtRest EXCEPT !.pc = "linked", !.member = l.member]
    <2>1. l.member \in LinkMembers
      BY <1>1 DEF LinksShaped, LinkRows
    <2>2. h \in Handlings /\ h.pc = "linked" /\ h.member = l.member /\ h.ends = {}
      BY <2>1 DEF AtRest, Handlings
    <2>2a. h.pc \notin Linking
      BY <2>2 DEF Linking
    <2>3. handling' = [handling EXCEPT ![c] = h] /\ UNCHANGED <<links, belongs, removal, crossed>>
      BY <1>8 DEF LookUpLink
    <2> HIDE DEF h
    <2>4. QED
      BY <2>1, <2>2, <2>2a, <2>3, HandlerGoesOn
  <1>9. ASSUME NEW c \in LinkChats, CurrentRole(c)
        PROVE  LinksInv'
    <2>1. PICK role : role = belongs[handling[c].member]
      OBVIOUS
    <2> DEFINE h == [handling[c] EXCEPT !.pc = "checked", !.role = role]
    <2>2. /\ handling[c].pc = "linked"
          /\ handling' = [handling EXCEPT ![c].pc = "checked", ![c].role = role]
          /\ UNCHANGED <<links, belongs, removal, crossed>>
      BY <1>9, <2>1 DEF CurrentRole
    <2>3. handling' = [handling EXCEPT ![c] = h]
      BY <1>1, <2>2 DEF LinksShaped
    <2>4. handling[c].member \in LinkMembers
      BY <1>1, <2>2 DEF LinksShaped
    <2>5. role \in {"writer", "reader", "left"}
      BY <1>1, <2>1, <2>4 DEF LinksShaped
    <2>6. /\ h \in Handlings
          /\ h.pc = "checked"
          /\ h.member = handling[c].member
          /\ h.ends = handling[c].ends
      BY <1>2, <2>5 DEF Handlings
    <2>7. /\ h.ends \subseteq links
          /\ \A d \in LinkChats \ {c} : h.ends \cap handling[d].ends = {}
          /\ \A m \in LinkMembers : h.ends \cap removal[m].ends = {}
          /\ h.pc \notin Linking
      BY <1>1, <2>6 DEF EndsAreHeld, Linking
    <2> HIDE DEF h
    <2>8. QED
      BY <2>2, <2>3, <2>4, <2>6, <2>7, HandlerGoesOn
  <1>10. ASSUME NEW c \in LinkChats, Revoke(c)
         PROVE  LinksInv'
    <2>1. /\ \A l \in links : l.member = handling[c].member => LinkFree(l)
          /\ links' = {l \in links : l.member # handling[c].member}
          /\ handling' = [handling EXCEPT ![c] = AtRest]
          /\ UNCHANGED <<belongs, removal, crossed>>
      BY <1>10 DEF Revoke
    <2>2. /\ links' \subseteq links
          /\ \A d \in LinkChats : handling[d].ends \subseteq links'
          /\ \A n \in LinkMembers : removal[n].ends \subseteq links'
      BY <2>1, RowsGo
    <2>3. \A d \in LinkChats : handling'[d] = IF d = c THEN AtRest ELSE handling[d]
      BY <1>1, <2>1 DEF LinksShaped
    <2>4. LinksShaped'
      BY <1>1, <1>3, <2>1, <2>2, <2>3 DEF LinksShaped
    <2>5. EndsAreHeld'
      BY <1>1, <1>3, <2>1, <2>2, <2>3 DEF EndsAreHeld
    <2>6. LeaversAreCrossed'
      BY <1>1, <1>3, <2>1, <2>3 DEF LeaversAreCrossed
    <2>7. OneLinkEach' /\ LeaversAreUnlinked'
      BY <1>1, <2>1, <2>2 DEF OneLinkEach, LeaversAreUnlinked
    <2>7a. RemovalsSee'
      <3>1. \A n \in LinkMembers : BeingLinked(n)' => BeingLinked(n)
        BY <1>3, <2>3 DEF BeingLinked
      <3>2. QED
        BY <1>1, <2>1, <2>2, <3>1 DEF RemovalsSee, RemovalSees
    <2>8. QED
      BY <2>4, <2>5, <2>6, <2>7, <2>7a DEF LinksInv
  <1>11. ASSUME NEW m \in LinkMembers, Unlink(m)
         PROVE  LinksInv'
    <2>1. /\ \A l \in links : l.member = m => LinkFree(l)
          /\ links' = {l \in links : l.member # m}
          /\ UNCHANGED <<belongs, handling, removal, crossed>>
      BY <1>11 DEF Unlink
    <2>2. /\ links' \subseteq links
          /\ \A d \in LinkChats : handling[d].ends \subseteq links'
          /\ \A n \in LinkMembers : removal[n].ends \subseteq links'
      BY <2>1, RowsGo
    <2>3. QED
      BY <1>1, <2>1, <2>2
         DEF LinksInv, LinksShaped, EndsAreHeld, RemovalsSee, RemovalSees, BeingLinked,
             LeaversAreCrossed, OneLinkEach, LeaversAreUnlinked
  <1>12. ASSUME NEW m \in LinkMembers, CommitRemoval(m)
         PROVE  LinksInv'
    <2>1. /\ removal[m].pc = "unlinked"
          /\ links' = links \ removal[m].ends
          /\ belongs' = [belongs EXCEPT ![m] = "left"]
          /\ crossed' = IF removal[m].met THEN crossed \cup {m} ELSE crossed
          /\ removal' = [removal EXCEPT ![m] = NoRemoval]
          /\ handling' = handling
      BY <1>12 DEF CommitRemoval
    <2>2. /\ \A n \in LinkMembers : belongs'[n] = IF n = m THEN "left" ELSE belongs[n]
          /\ \A n \in LinkMembers : removal'[n] = IF n = m THEN NoRemoval ELSE removal[n]
      BY <1>1, <2>1 DEF LinksShaped
    <2>3. LinksShaped'
      BY <1>1, <1>3a, <2>1 DEF LinksShaped
    <2>4. m \notin crossed' => ~BeingLinked(m) /\ \A l \in links : l.member = m => l \in removal[m].ends
      BY <1>1, <2>1 DEF RemovalsSee, RemovalSees
    <2>5. \A n \in LinkMembers : n # m => RemovalSees(n)'
      BY <1>1, <2>1, <2>2 DEF RemovalsSee, RemovalSees, BeingLinked
    <2>6. RemovalsSee'
      BY <1>3a, <2>2, <2>5 DEF RemovalsSee, RemovalSees
    <2>7. LeaversAreCrossed'
      <3>1. SUFFICES ASSUME NEW c \in LinkChats, handling[c].pc \in Linking,
                            belongs'[handling[c].member] = "left"
                     PROVE  handling[c].member \in crossed'
        BY <2>1 DEF LeaversAreCrossed
      <3>2. handling[c].member \in LinkMembers
        BY <1>1, <3>1 DEF LinksShaped, Linking
      <3>3. CASE handling[c].member = m
        BY <2>4, <3>1, <3>3 DEF BeingLinked
      <3>4. CASE handling[c].member # m
        BY <1>1, <2>1, <2>2, <3>1, <3>2, <3>4 DEF LeaversAreCrossed
      <3>5. QED
        BY <3>3, <3>4
    <2>8. LeaversAreUnlinked'
      <3>1. SUFFICES ASSUME NEW l \in links', belongs'[l.member] = "left" PROVE l.member \in crossed'
        BY DEF LeaversAreUnlinked
      <3>2. l \in links /\ l \notin removal[m].ends /\ l.member \in LinkMembers
        BY <1>1, <2>1, <3>1 DEF LinksShaped, LinkRows
      <3>3. CASE l.member = m
        BY <2>4, <3>2, <3>3
      <3>4. CASE l.member # m
        BY <1>1, <2>1, <2>2, <3>1, <3>2, <3>4 DEF LeaversAreUnlinked
      <3>5. QED
        BY <3>3, <3>4
    <2>9. EndsAreHeld'
      <3>1. \A n \in LinkMembers \ {m} : removal[n].ends \cap removal[m].ends = {}
        BY <1>1 DEF EndsAreHeld
      <3>2. /\ \A c \in LinkChats : handling[c].ends \subseteq links \ removal[m].ends
            /\ \A n \in LinkMembers \ {m} : removal[n].ends \subseteq links \ removal[m].ends
        BY <1>1, <3>1 DEF EndsAreHeld
      <3>3. QED
        BY <1>1, <1>3a, <2>1, <2>2, <3>2 DEF EndsAreHeld
    <2>10. OneLinkEach'
      BY <1>1, <2>1 DEF OneLinkEach
    <2>11. QED
      BY <2>3, <2>6, <2>7, <2>8, <2>9, <2>10 DEF LinksInv
  <1>12a. ASSUME NEW m \in LinkMembers, RemoveMember(m) \/ UndoRemoval(m)
          PROVE  LinksInv'
    <2>1. PICK q \in {[removal[m] EXCEPT !.pc = "begun"], NoRemoval} :
             removal' = [removal EXCEPT ![m] = q] /\ UNCHANGED <<links, belongs, handling, crossed>>
      BY <1>1, <1>12a DEF RemoveMember, UndoRemoval, LinksShaped
    <2>2. q \in Removals /\ q.pc # "unlinked" /\ q.ends \subseteq removal[m].ends
      BY <1>2, <1>3a, <2>1 DEF Removals
    <2>3. q.ends \subseteq links /\ \A c \in LinkChats : q.ends \cap handling[c].ends = {}
      BY <1>1, <2>2 DEF EndsAreHeld
    <2>4. \A n \in LinkMembers \ {m} : q.ends \cap removal[n].ends = {}
      BY <1>1, <2>2 DEF EndsAreHeld
    <2>5. QED
      BY <2>1, <2>2, <2>3, <2>4, RemovalGoesOn
  <1>12b. ASSUME NEW m \in LinkMembers, RevokeMember(m)
          PROVE  LinksInv'
    <2> DEFINE ends == {l \in links : l.member = m}
               q == [pc |-> "unlinked", ends |-> ends, met |-> BeingLinked(m)]
    <2>1. /\ \A l \in links : l.member = m => LinkFree(l)
          /\ removal' = [removal EXCEPT ![m] = q]
          /\ UNCHANGED <<links, belongs, handling, crossed>>
      BY <1>12b DEF RevokeMember
    <2>2. ends \in SUBSET LinkRows /\ BeingLinked(m) \in BOOLEAN
      BY <1>1 DEF LinksShaped, BeingLinked
    <2>3. q \in Removals /\ q.ends = ends /\ (q.met <=> BeingLinked(m))
      BY <2>2 DEF Removals
    <2>4. /\ ends \subseteq links
          /\ \A l \in links : l.member = m => l \in ends
          /\ \A l \in ends : LinkFree(l)
      BY <2>1
    <2> HIDE DEF ends, q
    <2>5. /\ \A c \in LinkChats : ends \cap handling[c].ends = {}
          /\ \A n \in LinkMembers \ {m} : ends \cap removal[n].ends = {}
      BY <2>4 DEF LinkFree
    <2>6. QED
      BY <2>1, <2>3, <2>4, <2>5, RemovalGoesOn
  <1>13. ASSUME NEW m \in LinkMembers, NEW role \in {"writer", "reader"}, SetRole(m, role)
         PROVE  LinksInv'
    <2>1. belongs' = [belongs EXCEPT ![m] = role] /\ UNCHANGED <<links, handling, removal, crossed>>
      BY <1>13 DEF SetRole
    <2>2. \A n \in LinkMembers : belongs'[n] = IF n = m THEN role ELSE belongs[n]
      BY <1>1, <2>1 DEF LinksShaped
    <2>3. belongs' \in [LinkMembers -> {"writer", "reader", "left"}]
      BY <1>1, <2>1 DEF LinksShaped
    <2>4. LinksShaped' /\ EndsAreHeld' /\ RemovalsSee' /\ OneLinkEach'
      BY <1>1, <2>1, <2>3
         DEF LinksShaped, EndsAreHeld, RemovalsSee, RemovalSees, BeingLinked, OneLinkEach
    <2>5. LeaversAreCrossed'
      <3>1. \A c \in LinkChats : handling[c].pc \in Linking => handling[c].member \in LinkMembers
        BY <1>1 DEF LinksShaped, Linking
      <3>2. QED
        BY <1>1, <2>1, <2>2, <3>1 DEF LeaversAreCrossed
    <2>6. LeaversAreUnlinked'
      <3>1. \A l \in links : l.member \in LinkMembers
        BY <1>1 DEF LinksShaped, LinkRows
      <3>2. QED
        BY <1>1, <2>1, <2>2, <3>1 DEF LeaversAreUnlinked
    <2>7. QED
      BY <2>4, <2>5, <2>6 DEF LinksInv
  <1>14. CASE UNCHANGED linksVars
    BY <1>1, <1>14
       DEF linksVars, LinksInv, LinksShaped, EndsAreHeld, RemovalsSee, RemovalSees, BeingLinked,
           LeaversAreCrossed, OneLinkEach, LeaversAreUnlinked
  <1>15. QED
    BY <1>4, <1>5, <1>6, <1>7, <1>8, <1>9, <1>10, <1>11, <1>12, <1>12a, <1>12b, <1>13, <1>14
    DEF LinksNext

LEMMA LinksAlways == LinksSpec => []LinksInv
  BY LinksStart, LinksStep, PTL DEF LinksSpec

(* No row is ended by two chats.                                           *)
THEOREM LinksAreTyped == LinksSpec => []LinksTypeOK
  <1>1. LinksInv => LinksTypeOK
    BY DEF LinksInv, LinksShaped, EndsAreHeld, Handlings, Removals, LinksTypeOK
  <1>2. QED
    BY <1>1, LinksAlways, PTL

(* A chat and a member have one link each, however many chats are linked   *)
(* at once, and a member who left keeps none (link.rs, on the two unique   *)
(* indexes of telegram_links).                                             *)
THEOREM LinksAreSingle == LinksSpec => [](OneLinkEach /\ LeaversAreUnlinked)
  <1>1. LinksInv => OneLinkEach /\ LeaversAreUnlinked
    BY DEF LinksInv
  <1>2. QED
    BY <1>1, LinksAlways, PTL

(***************************************************************************)
(* The check of a receipt that was read.                                   *)
(*                                                                         *)
(* A figure is settled by the figures that come before it: what is made of *)
(* a line, of the subtotal and of the total is what would be made of it    *)
(* again.                                                                  *)
(***************************************************************************)
Figures == Int \cup {NotStated}
RawLines == [amount : Int \cup {NotStated, Unreadable}, quantity : Figures, unit : Figures]
ReadLines == [amount : Figures, quantity : Figures, unit : Figures]

LEMMA DraftsBounds == Tolerance \in Nat /\ MaxItems \in Nat
  BY DraftsAssumption

LEMMA DecimalType ==
    /\ \A f \in Int \cup {NotStated, Unreadable} : Decimal(f) \in Figures
    /\ \A f \in Figures : Decimal(f) = f
  BY DraftsAssumption DEF Decimal, Figures

(* A figure is not apart from itself. *)
LEMMA ApartFrom ==
    ASSUME NEW a \in Int
    PROVE  ~Apart(a, a)
  BY DraftsBounds DEF Apart

LEMMA LineOnce ==
    ASSUME NEW raw \in RawLines
    PROVE  /\ CheckLine(raw) \in ReadLines
           /\ CheckLine(CheckLine(raw)) = CheckLine(raw)
           /\ CheckLine(raw).unit # NotStated /\ CheckLine(raw).quantity # NotStated =>
                ~Apart(CheckLine(raw).amount, CheckLine(raw).unit * CheckLine(raw).quantity)
  <1> DEFINE amount == Decimal(raw.amount)
             fixed == IF raw.unit = NotStated \/ raw.quantity = NotStated THEN amount
                      ELSE IF amount = NotStated THEN raw.unit * raw.quantity
                      ELSE IF Apart(amount, raw.unit * raw.quantity) THEN raw.unit * raw.quantity
                      ELSE amount
  <1>1. /\ raw.unit \in Figures /\ raw.quantity \in Figures /\ amount \in Figures
        /\ raw = [amount |-> raw.amount, quantity |-> raw.quantity, unit |-> raw.unit]
    BY DecimalType DEF RawLines
  <1>2. CheckLine(raw) = [amount |-> fixed, quantity |-> raw.quantity, unit |-> raw.unit]
    <2>1. CheckLine(raw) = [raw EXCEPT !.amount = fixed]
      BY DEF CheckLine
    <2> HIDE DEF fixed
    <2>2. QED
      BY <1>1, <2>1
  <1> HIDE DEF amount
  <1>3. fixed \in Figures
    <2>1. raw.unit # NotStated /\ raw.quantity # NotStated => raw.unit * raw.quantity \in Int
      BY <1>1 DEF Figures
    <2>2. QED
      BY <1>1, <2>1 DEF Figures
  <1>4. raw.unit # NotStated /\ raw.quantity # NotStated =>
            fixed \in Int /\ ~Apart(fixed, raw.unit * raw.quantity)
    <2> SUFFICES ASSUME raw.unit # NotStated, raw.quantity # NotStated
                 PROVE  fixed \in Int /\ ~Apart(fixed, raw.unit * raw.quantity)
      OBVIOUS
    <2>1. raw.unit * raw.quantity \in Int
      BY <1>1 DEF Figures
    <2>2. ~Apart(raw.unit * raw.quantity, raw.unit * raw.quantity)
      BY <2>1, ApartFrom
    <2>3. amount # NotStated => amount \in Int
      BY <1>1 DEF Figures
    <2>4. QED
      BY <2>1, <2>2, <2>3
  <1> HIDE DEF fixed
  <1>5. PICK once \in ReadLines : once = CheckLine(raw)
    BY <1>1, <1>2, <1>3 DEF ReadLines
  <1>6. once.amount = fixed /\ once.quantity = raw.quantity /\ once.unit = raw.unit
    BY <1>2, <1>5
  <1>7. CheckLine(once) = once
    <2>1. Decimal(once.amount) = fixed
      BY <1>3, <1>6, DecimalType
    <2>2. fixed = NotStated => fixed \notin Int
      BY DraftsAssumption
    <2>3. CheckLine(once) = [once EXCEPT !.amount = fixed]
      BY <1>4, <1>6, <2>1, <2>2 DEF CheckLine
    <2>4. [once EXCEPT !.amount = fixed] = once
      BY <1>5, <1>6 DEF ReadLines
    <2>5. QED
      BY <2>3, <2>4
  <1>8. QED
    BY <1>4, <1>5, <1>6, <1>7

(* The sum of the items is a figure. *)
LEMMA SumItemsType ==
    ASSUME NEW lines \in Seq(ReadLines)
    PROVE  SumItems(lines) \in Figures
  <1> DEFINE amounts == [i \in DOMAIN lines |-> lines[i].amount]
  <1>1. CASE WithAmount(lines) = {}
    BY <1>1 DEF SumItems, Figures
  <1>2. CASE WithAmount(lines) # {}
    <2>1. DOMAIN lines = 1..Len(lines) /\ Len(lines) \in Nat /\ \A i \in 1..Len(lines) : lines[i] \in ReadLines
      OBVIOUS
    <2>2. IsFiniteSet(WithAmount(lines))
      <3>1. IsFiniteSet(1..Len(lines))
        BY <2>1, FS_Interval
      <3>2. WithAmount(lines) \subseteq 1..Len(lines)
        BY <2>1 DEF WithAmount
      <3>3. QED
        BY <3>1, <3>2, FS_Subset
    <2>3. Numbers(amounts, WithAmount(lines))
      BY <2>1 DEF Numbers, WithAmount, ReadLines, Figures
    <2> HIDE DEF amounts
    <2>4. SumFunctionOnSet(amounts, WithAmount(lines)) \in Int
      BY <2>2, <2>3, SumType
    <2>5. QED
      BY <1>2, <2>4 DEF SumItems, Figures, amounts
  <1>3. QED
    BY <1>1, <1>2

LEMMA SubtotalOnce ==
    ASSUME NEW items \in Figures, NEW stated \in Figures
    PROVE  /\ Subtotal(items, stated) \in Figures
           /\ Subtotal(items, Subtotal(items, stated)) = Subtotal(items, stated)
           /\ items # NotStated =>
                /\ Subtotal(items, stated) # NotStated
                /\ ~Apart(Subtotal(items, stated), items)
  BY DraftsAssumption, ApartFrom DEF Subtotal, Figures

LEMMA TotalOnce ==
    ASSUME NEW subtotal \in Figures, NEW tax \in Figures, NEW stated \in Figures
    PROVE  /\ Total(subtotal, tax, stated) \in Figures
           /\ Total(subtotal, tax, Total(subtotal, tax, stated)) = Total(subtotal, tax, stated)
           /\ subtotal # NotStated =>
                ~Apart(Total(subtotal, tax, stated), subtotal + (IF tax = NotStated THEN 0 ELSE tax))
  <1>1. CASE subtotal = NotStated
    BY <1>1 DEF Total
  <1>2. CASE subtotal # NotStated
    <2>1. PICK sum \in Int : sum = subtotal + (IF tax = NotStated THEN 0 ELSE tax)
      BY <1>2 DEF Figures
    <2>2. \A given_ : Total(subtotal, tax, given_) =
              IF given_ = NotStated THEN sum ELSE IF Apart(given_, sum) THEN sum ELSE given_
      BY <1>2, <2>1 DEF Total
    <2>3. ~Apart(sum, sum)
      BY ApartFrom
    <2>4. sum # NotStated
      BY DraftsAssumption
    <2>5. QED
      BY <2>1, <2>2, <2>3, <2>4 DEF Figures
  <1>3. QED
    BY <1>1, <1>2

(* Lines that were read are read again as they are. *)
LinesRead(lines) ==
    LET counted == SubSeq(lines, 1, IF Len(lines) < MaxItems THEN Len(lines) ELSE MaxItems)
    IN  [i \in DOMAIN counted |-> CheckLine(counted[i])]

LEMMA LinesOnce ==
    ASSUME NEW lines \in Seq(RawLines)
    PROVE  /\ LinesRead(lines) \in Seq(ReadLines)
           /\ LinesRead(LinesRead(lines)) = LinesRead(lines)
           /\ \A i \in DOMAIN LinesRead(lines) : LET l == LinesRead(lines)[i] IN
                l.unit # NotStated /\ l.quantity # NotStated => ~Apart(l.amount, l.unit * l.quantity)
  <1> DEFINE n == IF Len(lines) < MaxItems THEN Len(lines) ELSE MaxItems
             counted == SubSeq(lines, 1, n)
             once == LinesRead(lines)
  <1>1. n \in Nat /\ n <= Len(lines) /\ n <= MaxItems
    BY DraftsBounds
  <1> HIDE DEF n
  <1>2. Len(counted) = n /\ DOMAIN counted = 1..n /\ \A i \in 1..n : counted[i] = lines[i]
    BY <1>1
  <1>3. \A i \in 1..n : lines[i] \in RawLines
    BY <1>1
  <1>4. once = [i \in 1..n |-> CheckLine(lines[i])]
    BY <1>2 DEF LinesRead, n
  <1>5. once \in Seq(ReadLines) /\ Len(once) = n
    <2>1. once \in [1..n -> ReadLines]
      BY <1>3, <1>4, LineOnce
    <2> HIDE DEF once
    <2>2. QED
      BY <1>1, <2>1
  <1> HIDE DEF once
  <1>6. LinesRead(once) = once
    <2>1. (IF Len(once) < MaxItems THEN Len(once) ELSE MaxItems) = n
      BY <1>1, <1>5, DraftsBounds
    <2>2. SubSeq(once, 1, n) = once
      BY <1>5
    <2>3. DOMAIN once = 1..n
      BY <1>5
    <2>4. LinesRead(once) = [i \in 1..n |-> CheckLine(once[i])]
      BY <2>1, <2>2, <2>3 DEF LinesRead
    <2>5. \A i \in 1..n : CheckLine(once[i]) = once[i]
      BY <1>3, <1>4, LineOnce
    <2>6. QED
      BY <1>4, <2>4, <2>5
  <1>7. ASSUME NEW i \in DOMAIN once,
               once[i].unit # NotStated, once[i].quantity # NotStated
        PROVE  ~Apart(once[i].amount, once[i].unit * once[i].quantity)
    <2>1. i \in 1..n /\ once[i] = CheckLine(lines[i])
      BY <1>4
    <2>2. QED
      BY <1>3, <1>7, <2>1, LineOnce
  <1>8. QED
    BY <1>5, <1>6, <1>7 DEF once

(* What is made of a receipt that was read. *)
LEMMA DraftOnce ==
    ASSUME NEW raw \in Givens
    PROVE  LET d == ReadDraft(raw)
               sum == SumItems(d.lines)
           IN /\ CheckDraft(d) = [draft |-> d, corrected |-> {}]
              /\ \A i \in DOMAIN d.lines : LET l == d.lines[i] IN
                   l.unit # NotStated /\ l.quantity # NotStated => ~Apart(l.amount, l.unit * l.quantity)
              /\ sum # NotStated => d.subtotal # NotStated /\ ~Apart(d.subtotal, sum)
              /\ d.subtotal # NotStated =>
                   ~Apart(d.total, d.subtotal + (IF d.tax = NotStated THEN 0 ELSE d.tax))
  <1> DEFINE d == ReadDraft(raw)
             lines == LinesRead(raw.lines)
             sum == SumItems(lines)
             subtotal == Subtotal(sum, Decimal(raw.subtotal))
             tax == Decimal(raw.tax)
             total == Total(subtotal, tax, Decimal(raw.total))
             date == IF raw.day = "past" THEN "past" ELSE NotStated
  <1>1. raw.lines \in Seq(RawLines)
    BY DraftsAssumption DEF Givens, RawLines, Figures
  <1>2. /\ Decimal(raw.subtotal) \in Figures /\ tax \in Figures
        /\ Decimal(raw.total) \in Figures
    BY DraftsAssumption, DecimalType DEF Givens
  <1>3. /\ lines \in Seq(ReadLines) /\ LinesRead(lines) = lines
        /\ \A i \in DOMAIN lines : LET l == lines[i] IN
             l.unit # NotStated /\ l.quantity # NotStated => ~Apart(l.amount, l.unit * l.quantity)
    BY <1>1, LinesOnce
  <1>4. d = [day |-> date, currency |-> "iso", lines |-> lines,
             subtotal |-> subtotal, tax |-> tax, total |-> total]
    BY DEF ReadDraft, LinesRead
  <1> HIDE DEF lines
  <1>5. sum \in Figures
    BY <1>3, SumItemsType
  <1> HIDE DEF sum, tax
  <1>6. /\ subtotal \in Figures /\ Subtotal(sum, subtotal) = subtotal
        /\ sum # NotStated => subtotal # NotStated /\ ~Apart(subtotal, sum)
    BY <1>2, <1>5, SubtotalOnce
  <1> HIDE DEF subtotal
  <1>7. /\ total \in Figures /\ Total(subtotal, tax, total) = total
        /\ subtotal # NotStated => ~Apart(total, subtotal + (IF tax = NotStated THEN 0 ELSE tax))
    BY <1>2, <1>6, TotalOnce
  <1>8. date \in {"past", NotStated} /\ (IF date = "past" THEN "past" ELSE NotStated) = date
    OBVIOUS
  <1> HIDE DEF total, date, d
  <1>9. /\ d.day = date /\ d.currency = "iso" /\ d.lines = lines
        /\ d.subtotal = subtotal /\ d.tax = tax /\ d.total = total
    BY <1>4
  <1>10. Decimal(d.subtotal) = subtotal /\ Decimal(d.tax) = tax /\ Decimal(d.total) = total
    BY <1>2, <1>6, <1>7, <1>9, DecimalType
  <1>11. ReadDraft(d) = d
    <2>1. LinesRead(d.lines) = lines
      BY <1>3, <1>9
    <2>2. ReadDraft(d) = [day |-> IF d.day = "past" THEN "past" ELSE NotStated, currency |-> "iso",
             lines |-> LinesRead(d.lines),
             subtotal |-> Subtotal(SumItems(LinesRead(d.lines)), Decimal(d.subtotal)),
             tax |-> Decimal(d.tax),
             total |-> Total(Subtotal(SumItems(LinesRead(d.lines)), Decimal(d.subtotal)),
                             Decimal(d.tax), Decimal(d.total))]
      BY DEF ReadDraft, LinesRead
    <2>3. Subtotal(SumItems(lines), subtotal) = subtotal
      BY <1>6 DEF sum
    <2>4. QED
      BY <1>4, <1>7, <1>8, <1>9, <1>10, <2>1, <2>2, <2>3
  <1>12. Corrections(d, d) = {}
    <2>1. d.day \notin {"future", "no day"} /\ d.currency # "other"
      BY <1>8, <1>9, DraftsAssumption
    <2>2. \A i \in DOMAIN d.lines : d.lines[i].amount = Decimal(d.lines[i].amount)
      <3>1. \A i \in DOMAIN lines : lines[i].amount \in Figures
        <4>1. \A i \in DOMAIN lines : lines[i] \in ReadLines
          BY <1>3
        <4>2. QED
          BY <4>1 DEF ReadLines
      <3>2. QED
        BY <1>9, <3>1, DecimalType
    <2>3. \A f \in {"subtotal", "total"} : d[f] = Decimal(d[f])
      BY <1>9, <1>10
    <2>4. {f \in {"subtotal", "total"} : d[f] # Decimal(d[f])} = {}
      BY <2>3
    <2>5. QED
      BY <2>1, <2>2, <2>4 DEF Corrections
  <1>13. CheckDraft(d) = [draft |-> d, corrected |-> {}]
    BY <1>11, <1>12 DEF CheckDraft
  <1>14. QED
    BY <1>3, <1>6, <1>7, <1>9, <1>13 DEF d, sum

(* What was checked is what the check makes of what was given.             *)
DraftsInv ==
    /\ given \in Givens
    /\ ReceiptChecked => checked = CheckDraft(given)

(* A receipt the API returns adds up, line by line, to its subtotal and to *)
(* its total, and checking it again replaces nothing: no fix undoes        *)
(* another (check() of domain/receipt.rs).                                 *)
THEOREM DraftsAreConsistent == DraftsSpec => []DraftAddsUp
  <1>1. DraftsInit => DraftsInv
    BY DEF DraftsInit, DraftsInv, ReceiptChecked
  <1>2. DraftsInv /\ [DraftsNext]_draftsVars => DraftsInv'
    BY DEF DraftsInv, ReceiptChecked, DraftsNext, ReadDocument, AskModel, CheckReceipt, RefuseDraft, draftsVars
  <1>3. DraftsInv => DraftAddsUp
    <2> SUFFICES ASSUME DraftsInv, ReceiptChecked PROVE DraftAddsUp
      BY DEF DraftAddsUp
    <2>1. given \in Givens /\ checked = [draft |-> ReadDraft(given), corrected |-> Corrections(given, ReadDraft(given))]
      BY DEF DraftsInv, CheckDraft
    <2>2. checked.draft = ReadDraft(given)
          /\ [checked EXCEPT !.corrected = {}] = [draft |-> ReadDraft(given), corrected |-> {}]
      BY <2>1
    <2>3. QED
      BY <2>1, <2>2, DraftOnce DEF DraftAddsUp
  <1>4. QED
    BY <1>1, <1>2, <1>3, PTL DEF DraftsSpec

(***************************************************************************)
(* The parts together.                                                      *)
(***************************************************************************)
(* A behaviour of the bot is a behaviour of each of its parts: the others   *)
(* leave a part's variables alone.                                          *)
LEMMA PartsOfTelegram ==
    TelegramSpec => QueueSpec /\ Spec /\ DraftsSpec /\ SavedMessagesSpec /\ LinksSpec
  <1>1. TelegramInit => QueueInit /\ Init /\ DraftsInit /\ SavedMessagesInit /\ LinksInit
    BY DEF TelegramInit
  <1>2. [TelegramNext]_telegramVars
            => [QueueNext]_queueVars /\ [Next]_vars /\ [DraftsNext]_draftsVars
               /\ [SavedMessagesNext]_savedMessagesVars /\ [LinksNext]_linksVars
    BY DEF TelegramNext, telegramVars
  <1>3. QED
    BY <1>1, <1>2, PTL DEF TelegramSpec, QueueSpec, Spec, DraftsSpec, SavedMessagesSpec, LinksSpec

(* The queue, the poller, the messages and the links are well typed.        *)
THEOREM TelegramTyped == TelegramSpec => []TelegramTypeOK
  <1>1. QueueTypeOK /\ TypeOK /\ SavedMessagesTypeOK /\ LinksTypeOK => TelegramTypeOK
    BY DEF TelegramTypeOK, Of
  <1>2. QED
    BY <1>1, PartsOfTelegram, TypeCorrect, PollerTyped, MessagesAreTyped, LinksAreTyped, PTL

(* What a chat shows and can do: updates one at a time and in order, an     *)
(* expense deleted by the second tap only, a message that says what is      *)
(* stored, one link for a chat and for a member, none for who left.         *)
THEOREM ChatsTell == TelegramSpec => []ChatsTellTheTruth
  <1>1. /\ OneAtATime /\ ChatsInOrder
        /\ DeleteTakesTwoTaps /\ MessageSaysWhatIsStored
        /\ OneLinkEach /\ LeaversAreUnlinked
        => ChatsTellTheTruth
    BY DEF ChatsTellTheTruth, Of
  <1>2. QED
    BY <1>1, PartsOfTelegram, ChatsHaveOneTask, ChatsKeepOrder, MessagesAreTrue, LinksAreSingle, PTL

(* A receipt that was checked adds up, and checking it again changes        *)
(* nothing.                                                                 *)
THEOREM DraftsAgree == TelegramSpec => []DraftsAddUp
  <1>1. DraftAddsUp => DraftsAddUp
    BY DEF DraftsAddUp, Of
  <1>2. QED
    BY <1>1, PartsOfTelegram, DraftsAreConsistent, PTL
=============================================================================
