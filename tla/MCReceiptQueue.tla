--------------------------- MODULE MCReceiptQueue ---------------------------
(* Small values for the receipt queue, and its steps where nobody deletes   *)
(* an expense or a file.                                                    *)
EXTENDS ReceiptQueue

OneWait == <<1>>

KeptNext ==
    \/ \E f \in Files : Enqueue(f) \/ SaveByHand(f) \/ ShowNotice(f)
    \/ \E r \in Replicas : Step(r) \/ MarkFails(r) \/ TellFails(r) \/ CrashLoop(r)
    \/ PassMinute
=============================================================================
