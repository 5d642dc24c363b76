------------------------------- MODULE Shapes -------------------------------
(***************************************************************************)
(* The money shape of a transaction and what it does to wallet balances,   *)
(* from crates/domain/src/ledger.rs.  A wallet identifier is a positive    *)
(* natural number, because the order of the identifiers is the order in    *)
(* which wallets are locked.                                               *)
(***************************************************************************)
EXTENDS Integers, Functions

CONSTANTS Wallets,      \* wallet identifiers, ordered like the text ids
          Amounts,      \* the amounts a request may carry
          ToAmounts     \* what a transfer may bring to its destination

ASSUME WalletsAssumption == Wallets \subseteq Nat \ {0}
ASSUME AmountsAssumption == Amounts \cup ToAmounts \subseteq Nat \ {0}

NoWallet == 0

(* What TransactionShape::validate lets through: an income or an expense   *)
(* names no destination, a transfer names another wallet and the amount    *)
(* that arrives there.                                                     *)
Entries == [kind : {"income", "expense"}, wallet : Wallets, to : {NoWallet},
            amount : Amounts, toAmount : {0}]

Transfers == {s \in [kind : {"transfer"}, wallet : Wallets, to : Wallets,
                     amount : Amounts, toAmount : ToAmounts] : s.to # s.wallet}

ValidShapes == Entries \cup Transfers

(* The shape of a row that is not there: it moves nothing. *)
NoShape == [kind |-> "none", wallet |-> NoWallet, to |-> NoWallet,
            amount |-> 0, toAmount |-> 0]

(* The wallets a shape names, on either leg. *)
WalletsOf(s) == {s.wallet, s.to} \ {NoWallet}

(* The movement a shape makes on wallet w: the entry of effect() for that  *)
(* wallet, and zero where effect() has none.                               *)
EffectOn(s, w) ==
    CASE w = s.wallet /\ s.kind = "income"              -> s.amount
      [] w = s.wallet /\ s.kind \in {"expense", "transfer"} -> -s.amount
      [] w = s.to     /\ s.kind = "transfer"            -> s.toAmount
      [] OTHER                                          -> 0

Total(f) == SumFunction(f)
=============================================================================
