----------------------------- MODULE MCLasting -----------------------------
(* Work that goes on after its caller is gone, on small instances: imports  *)
(* of statements, the reading of a statement's rows, and streams of the     *)
(* chat.  They share no state: a behaviour is about one, with the others at *)
(* their initial state.                                                     *)
EXTENDS Imports, Statements, ChatStream, TLC

CONSTANTS s1, s2, b1, pa, pb

VARIABLE part

OneRow(wallets, print, flaw) == [wallets |-> wallets, print |-> print, flaw |-> flaw]

\* A statement with a row that cannot be read, and two batches that take the
\* same two wallets in opposite orders; one of them meets a row the database
\* refuses.
ThreeFiles ==
    s1 :> <<OneRow({1}, pa, "unreadable"), OneRow({1}, pa, "none")>>
    @@ s2 :> <<OneRow({1}, pa, "none"), OneRow({1, 2}, pb, "none")>>
    @@ b1 :> <<OneRow({2}, pb, "none"), OneRow({1}, pa, "unstorable")>>

\* From a sum of millions to a few cents, in and out.
SmallMovements == {-123456789, 150000000, -5000000, 50000, -75, 1250}

lastingVars == <<part, importsVars, statementsVars, chatStreamVars>>

LastingInit ==
    /\ part \in {"imports", "rows", "stream"}
    /\ ImportsInit
    /\ StatementsInit /\ (part # "rows" => written = CHOOSE w \in WrittenRows : TRUE)
    /\ ChatStreamInit /\ (part # "stream" => canvas)
LastingNext ==
    /\ \/ part = "imports" /\ ImportsNext /\ UNCHANGED <<statementsVars, chatStreamVars>>
       \/ part = "rows" /\ Transform /\ UNCHANGED <<importsVars, chatStreamVars>>
       \/ part = "stream" /\ ChatStreamNext /\ UNCHANGED <<importsVars, statementsVars>>
    /\ UNCHANGED part

\* The fairness of the stream, in the behaviours about it.  At their initial
\* state the imports have nothing to go on with.
Stream(A) == part = "stream" /\ A
LastingFairness ==
    /\ ImportsFairness
    /\ WF_chatStreamVars(Stream(PumpSteps))
    /\ WF_chatStreamVars(Stream(Deadline))

LastingSpec == LastingInit /\ [][LastingNext]_lastingVars /\ LastingFairness

\* A fact about one part is looked at in the behaviours about it.
Of(name, fact) == part = name => fact

\* Every variable has a value the code can give it.
LastingTypeOK == Of("imports", ImportsTypeOK) /\ Of("stream", ChatStreamTypeOK)

\* A row that was read is the one the bank wrote.
RowsAreRead == Of("rows", RowsReadBack)

\* What is told of work that went on says what was done: a job what became of
\* its file, unless the transaction aborted under a row, and a stream what is
\* stored of its turn.
EndsTellTruth ==
    /\ Of("imports", JobTellsUnlessAborted)
    /\ Of("stream", OneLastEvent /\ ArtifactFollowsResult /\ StoredIsWhatWasSent)

\* A turn of the chat ends, unless its caller stays and never reads.
TurnEndsWhenBegun == part = "stream" => TurnEndsUnlessStuck
=============================================================================
