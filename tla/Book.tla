-------------------------------- MODULE Book --------------------------------
(***************************************************************************)
(* What the ledger promises: an account book of transactions in which a    *)
(* balance is never written on its own.  A transaction is recorded,        *)
(* amended or struck in one step, the balances are what the rows in the    *)
(* book add up to after it, and a struck transaction never returns.        *)
(***************************************************************************)
CONSTANTS Transactions,
          Shapes,       \* what a transaction in the book can say
          NoShape,      \* stands for a transaction that is not in the book
          Sums(_)       \* the balances that the rows of a book add up to

VARIABLES rows,         \* what every transaction says, or NoShape
          struck,       \* the transactions that were deleted
          balance       \* the balances of the wallets

bookVars == <<rows, struck, balance>>

Init ==
    /\ rows = [t \in Transactions |-> NoShape]
    /\ struck = {}
    /\ balance = Sums(rows)

Record(t, s) ==
    /\ rows[t] = NoShape
    /\ t \notin struck
    /\ rows' = [rows EXCEPT ![t] = s]
    /\ balance' = Sums(rows')
    /\ UNCHANGED struck

Amend(t, s) ==
    /\ rows[t] # NoShape
    /\ rows' = [rows EXCEPT ![t] = s]
    /\ balance' = Sums(rows')
    /\ UNCHANGED struck

Strike(S) ==
    /\ \A t \in S : rows[t] # NoShape
    /\ rows' = [t \in Transactions |-> IF t \in S THEN NoShape ELSE rows[t]]
    /\ struck' = struck \cup S
    /\ balance' = Sums(rows')

Next ==
    \/ \E t \in Transactions, s \in Shapes : Record(t, s) \/ Amend(t, s)
    \/ \E S \in SUBSET Transactions : Strike(S)

Spec == Init /\ [][Next]_bookVars
=============================================================================
