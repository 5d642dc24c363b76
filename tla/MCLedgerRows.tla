----------------------------- MODULE MCLedgerRows ----------------------------
(* Ledger where people write rows in two wallets and delete wallets, and    *)
(* convert the workspace once the second wallet is gone.                    *)
EXTENDS Ledger, TLC

CONSTANT eur

\* The sessions and the transactions are interchangeable.
Symmetry == Permutations(Sessions) \cup Permutations(Transactions)

\* While there are two wallets, requests write rows or delete a wallet; with
\* one left, conversions run beside the writes of it.
Fits(r) ==
    IF walletLive[2]
    THEN r.op # "convert"
    ELSE r.op # "walletDelete" /\ (r.shape = NoShape \/ WalletsOf(r.shape) = {1})

LedgerInit == Init /\ wsCurrency = eur /\ walletCurrency = [w \in Wallets |-> eur]

LedgerNext == \E p \in Sessions : (Begin(p) /\ Fits(req'[p])) \/ Proceed(p) \/ Disconnect(p)

LedgerSpec == LedgerInit /\ [][LedgerNext]_vars

\* Writes of rows never wait for each other in a circle.  (A conversion and
\* a delete may: PostgreSQL then breaks the circle.)
WritesNeverDeadlock == (\A p \in Sessions : req[p].op # "convert") => NoDeadlock
=============================================================================
