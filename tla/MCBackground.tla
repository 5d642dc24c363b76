----------------------------- MODULE MCBackground -----------------------------
(* The work of MCLasting, and the receipt queue while nobody deletes an      *)
(* expense or a file.  A behaviour is about the one or the other, with what  *)
(* it is not about at its initial state.                                     *)
EXTENDS MCLasting, MCReceiptQueue

VARIABLE about

BackgroundInit ==
    /\ LastingInit /\ QueueInit
    /\ about \in {"lasting", "receipts"}
    /\ about = "receipts" => part = "imports"
BackgroundNext ==
    /\ \/ about = "lasting" /\ LastingNext /\ UNCHANGED queueVars
       \/ about = "receipts" /\ KeptNext /\ UNCHANGED lastingVars
    /\ UNCHANGED about

\* The fairness of the queue, in the behaviours about it.
Receipts(A) == about = "receipts" /\ A
ReceiptsFairness ==
    /\ WF_queueVars(Receipts(PassMinute))
    /\ \A r \in Replicas : WF_queueVars(Receipts(Step(r)))
    /\ \A f \in Files : WF_queueVars(Receipts(ShowNotice(f)))

BackgroundSpec ==
    BackgroundInit /\ [][BackgroundNext]_<<about, lastingVars, queueVars>>
    /\ LastingFairness /\ ReceiptsFairness
=============================================================================
