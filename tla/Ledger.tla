------------------------------- MODULE Ledger -------------------------------
(***************************************************************************)
(* The write paths of the ledger, run by concurrent requests against one   *)
(* workspace in PostgreSQL at READ COMMITTED.                              *)
(*                                                                         *)
(* Each request is a session that takes the statements of its service      *)
(* function one at a time.  A plain SELECT reads the last committed state; *)
(* FOR UPDATE, FOR SHARE and UPDATE wait for the conflicting lock, hold it  *)
(* to the end and then see the newest committed row.  What a session has   *)
(* written becomes visible at its commit, in one step.                     *)
(*                                                                         *)
(* wallets.balance is kept as a formal sum: posted[w][t] is what requests  *)
(* on transaction t have added to the balance of w so far, and Balance(w)  *)
(* is the column.                                                          *)
(***************************************************************************)
EXTENDS Shapes, FiniteSets

CONSTANTS Sessions,      \* concurrent requests
          Transactions,  \* transaction identifiers
          Currencies,
          Ops,           \* the operations requests may ask for
          SharedRows,    \* rows that two requests in flight may both name
          MaxDrift       \* bound: a row posted beyond it is not updated again

AllOps == {"create", "update", "delete", "bulkDelete", "walletCurrency",
           "walletDelete", "workspaceCurrency", "convert"}

ASSUME OpsAssumption == Ops \subseteq AllOps
ASSUME SharedRowsAssumption == SharedRows \subseteq Transactions
ASSUME MaxDriftAssumption == MaxDrift \in Nat

VARIABLES
    wsCurrency,      \* workspaces.currency_code
    walletLive,      \* wallets.deleted_at IS NULL
    walletCurrency,  \* wallets.currency_code
    status,          \* transactions: no row, live, or soft-deleted
    shape,           \* type, wallets and amounts of a row
    pricedFrom,      \* the wallet currency base_rate converts from
    pricedIn,        \* the workspace currency base_amount is in
    posted,          \* wallets.balance, as a sum over transactions
    pc,              \* the statement a session executes next
    req,             \* the request it serves
    seenWs,          \* workspace currency read by prepare
    seenFrom,        \* wallet currency read by prepare
    old,             \* shapes of the rows read before the write
    walletsHeld,     \* wallet rows locked FOR UPDATE
    rowsHeld,        \* transaction rows written, hence locked
    wsHeld           \* mode in which the workspace row is locked

db    == <<wsCurrency, walletLive, walletCurrency, status, shape,
           pricedFrom, pricedIn, posted>>
snap  == <<seenWs, seenFrom, old>>
locks == <<walletsHeld, rowsHeld, wsHeld>>
vars  == <<db, pc, req, snap, locks>>

NoCurrency == "none"
MaybeCurrency == Currencies \cup {NoCurrency}
MaybeShape == ValidShapes \cup {NoShape}
Nothing == [t \in Transactions |-> NoShape]

(* What the clients may ask for. *)
RowRequests ==
    [op : {"create", "update"} \cap Ops, rows : {{t} : t \in Transactions},
     shape : ValidShapes, wallet : {NoWallet}, currency : {NoCurrency}]
    \cup
    [op : {"delete"} \cap Ops, rows : {{t} : t \in Transactions},
     shape : {NoShape}, wallet : {NoWallet}, currency : {NoCurrency}]
    \cup
    [op : {"bulkDelete"} \cap Ops, rows : SUBSET Transactions \ {{}},
     shape : {NoShape}, wallet : {NoWallet}, currency : {NoCurrency}]

OtherRequests ==
    [op : {"walletCurrency"} \cap Ops, rows : {{}}, shape : {NoShape},
     wallet : Wallets, currency : Currencies]
    \cup
    [op : {"walletDelete"} \cap Ops, rows : {{}}, shape : {NoShape},
     wallet : Wallets, currency : {NoCurrency}]
    \cup
    [op : {"workspaceCurrency", "convert"} \cap Ops, rows : {{}},
     shape : {NoShape}, wallet : {NoWallet}, currency : Currencies]

Requests == RowRequests \cup OtherRequests

NoRequest == [op |-> "none", rows |-> {}, shape |-> NoShape,
              wallet |-> NoWallet, currency |-> NoCurrency]

Steps == {"idle", "prepare", "ensure", "find", "lock", "check", "lockWs",
          "write", "commit"}

TypeOK ==
    /\ wsCurrency \in Currencies
    /\ walletLive \in [Wallets -> BOOLEAN]
    /\ walletCurrency \in [Wallets -> Currencies]
    /\ status \in [Transactions -> {"absent", "live", "deleted"}]
    /\ shape \in [Transactions -> MaybeShape]
    /\ pricedFrom \in [Transactions -> MaybeCurrency]
    /\ pricedIn \in [Transactions -> MaybeCurrency]
    /\ posted \in [Wallets -> [Transactions -> Int]]
    /\ pc \in [Sessions -> Steps]
    /\ req \in [Sessions -> Requests \cup {NoRequest}]
    /\ seenWs \in [Sessions -> MaybeCurrency]
    /\ seenFrom \in [Sessions -> MaybeCurrency]
    /\ old \in [Sessions -> [Transactions -> MaybeShape]]
    /\ walletsHeld \in [Sessions -> SUBSET Wallets]
    /\ rowsHeld \in [Sessions -> SUBSET Transactions]
    /\ wsHeld \in [Sessions -> {"none", "share", "noKeyUpdate", "update"}]
    /\ \A p \in Sessions : pc[p] = "idle" =>
           /\ req[p] = NoRequest
           /\ walletsHeld[p] = {}
           /\ rowsHeld[p] = {}
           /\ wsHeld[p] = "none"
    /\ \A p \in Sessions :
           /\ pc[p] = "prepare" => req[p].op \in {"create", "update"}
           /\ pc[p] = "lockWs" => req[p].op \in {"workspaceCurrency", "convert"}

(***************************************************************************)
(* The money of a row, of a wallet and of a request.                       *)
(***************************************************************************)
Balance(w) == Total(posted[w])

LiveShape(t) == IF status[t] = "live" THEN shape[t] ELSE NoShape

(* What the live rows say the balance of w is. *)
LedgerBalance(w) == Total([t \in Transactions |-> EffectOn(LiveShape(t), w)])

(* The shape a request leaves on row t, and the signed movement on w that  *)
(* reversing the old rows and applying the new one comes to.               *)
NewShape(p, t) ==
    IF req[p].op \in {"create", "update"} /\ t \in req[p].rows
    THEN req[p].shape ELSE NoShape

(* Mutation: an update or a delete that forgets the old effect. *)
MovesWithoutReversal(p, w) ==
    [t \in Transactions |-> EffectOn(NewShape(p, t), w)]

Moves(p, w) ==
    [t \in Transactions |-> EffectOn(NewShape(p, t), w) - EffectOn(old[p][t], w)]

(* net() drops a wallet whose movements cancel, so it is never locked. *)
MovedWallets(p) == {w \in Wallets : Total(Moves(p, w)) # 0}

(***************************************************************************)
(* Locks.                                                                  *)
(***************************************************************************)
Others(p) == Sessions \ {p}

WalletFree(p, w) == \A q \in Others(p) : w \notin walletsHeld[q]
RowFree(p, t)    == \A q \in Others(p) : t \notin rowsHeld[q]

(* Which modes held by another session make this one wait. *)
WsFree(p, modes) == \A q \in Others(p) : wsHeld[q] \notin modes

WsMode(op) == IF op = "convert" THEN "update" ELSE "noKeyUpdate"

WsConflicts(mode) == {"share", "noKeyUpdate", "update"} \
                         (IF mode = "share" THEN {"share"} ELSE {})

(* Mutation: update_wallet() reads its wallet without FOR UPDATE. *)
LockSetOfWrites(p) ==
    IF req[p].op = "walletDelete" THEN {w \in Wallets : walletLive[w]}
    ELSE MovedWallets(p)

(* The wallets a request locks, ascending, before it reads or writes one.  *)
LockSet(p) ==
    CASE req[p].op = "walletDelete"   -> {w \in Wallets : walletLive[w]}
      [] req[p].op = "walletCurrency" -> {req[p].wallet}
      [] OTHER                        -> MovedWallets(p)

ToLock(p) == {w \in LockSet(p) : walletLive[w] /\ w \notin walletsHeld[p]}

(* Mutation: lock_wallets without ORDER BY. *)
IsAnyWallet(p, w) == w \in ToLock(p)

IsNextWallet(p, w) == w \in ToLock(p) /\ \A v \in ToLock(p) : w <= v

(* The rows an UPDATE matches: its WHERE is evaluated on the newest row.   *)
Targets(p) ==
    CASE req[p].op \in {"update", "delete", "bulkDelete"} ->
             {t \in req[p].rows : status[t] = "live"}
      [] req[p].op = "convert" -> {t \in Transactions : status[t] # "absent"}
      [] OTHER -> {}

HasLiveRows(w) == \E t \in Transactions :
                      status[t] = "live" /\ w \in WalletsOf(shape[t])

(***************************************************************************)
(* Starting and ending a request.                                          *)
(***************************************************************************)
FirstStep(op) ==
    CASE op \in {"create", "update"}               -> "prepare"
      [] op \in {"delete", "bulkDelete"}           -> "find"
      [] op \in {"walletCurrency", "walletDelete"} -> "lock"
      [] op = "workspaceCurrency"                  -> "check"
      [] op = "convert"                            -> "lockWs"

(* A create makes a fresh identifier; every other request names rows that  *)
(* a client can have seen.                                                 *)
Admissible(p, r) ==
    /\ \A t \in r.rows : (status[t] = "absent") <=> (r.op = "create")
    /\ \A q \in Others(p) :
           r.rows \cap req[q].rows \subseteq
               IF r.op = "create" THEN {} ELSE SharedRows
    /\ r.op = "update" =>
           \A t \in r.rows, w \in Wallets : posted[w][t] \in -MaxDrift .. MaxDrift

Begin(p) ==
    /\ pc[p] = "idle"
    /\ \E r \in Requests :
           /\ Admissible(p, r)
           /\ req' = [req EXCEPT ![p] = r]
           /\ pc' = [pc EXCEPT ![p] = FirstStep(r.op)]
    /\ UNCHANGED <<db, snap, locks>>

(* Mutation: a session handed back to the pool inside its transaction. *)
EndKeepingWorkspace(p) ==
    /\ pc' = [pc EXCEPT ![p] = "idle"]
    /\ req' = [req EXCEPT ![p] = NoRequest]
    /\ seenWs' = [seenWs EXCEPT ![p] = NoCurrency]
    /\ seenFrom' = [seenFrom EXCEPT ![p] = NoCurrency]
    /\ old' = [old EXCEPT ![p] = Nothing]
    /\ walletsHeld' = [walletsHeld EXCEPT ![p] = {}]
    /\ rowsHeld' = [rowsHeld EXCEPT ![p] = {}]
    /\ UNCHANGED wsHeld

(* The database transaction ends: every lock is released and the session   *)
(* forgets what it read.                                                   *)
End(p) ==
    /\ pc' = [pc EXCEPT ![p] = "idle"]
    /\ req' = [req EXCEPT ![p] = NoRequest]
    /\ seenWs' = [seenWs EXCEPT ![p] = NoCurrency]
    /\ seenFrom' = [seenFrom EXCEPT ![p] = NoCurrency]
    /\ old' = [old EXCEPT ![p] = Nothing]
    /\ walletsHeld' = [walletsHeld EXCEPT ![p] = {}]
    /\ rowsHeld' = [rowsHeld EXCEPT ![p] = {}]
    /\ wsHeld' = [wsHeld EXCEPT ![p] = "none"]

(***************************************************************************)
(* The statements of a request.                                            *)
(***************************************************************************)

(* prepare(): on the pool, before the transaction opens. *)
Prepare(p) ==
    /\ pc[p] = "prepare"
    /\ \A w \in WalletsOf(req[p].shape) : walletLive[w]
    /\ seenWs' = [seenWs EXCEPT ![p] = wsCurrency]
    /\ seenFrom' = [seenFrom EXCEPT ![p] = walletCurrency[req[p].shape.wallet]]
    /\ pc' = [pc EXCEPT ![p] = "ensure"]
    /\ UNCHANGED <<db, req, old, locks>>

(* Mutation: the currency is locked but not compared. *)
EnsureNothing(p) ==
    /\ pc[p] = "ensure"
    /\ WsFree(p, WsConflicts("share"))
    /\ wsHeld' = [wsHeld EXCEPT ![p] = "share"]
    /\ pc' = [pc EXCEPT ![p] = IF req[p].op = "create" THEN "lock" ELSE "find"]
    /\ UNCHANGED <<db, req, snap, walletsHeld, rowsHeld>>

(* ensure_currency(): the workspace row FOR SHARE, compared with prepare's. *)
EnsureCurrency(p) ==
    /\ pc[p] = "ensure"
    /\ WsFree(p, WsConflicts("share"))
    /\ wsCurrency = seenWs[p]
    /\ wsHeld' = [wsHeld EXCEPT ![p] = "share"]
    /\ pc' = [pc EXCEPT ![p] = IF req[p].op = "create" THEN "lock" ELSE "find"]
    /\ UNCHANGED <<db, req, snap, walletsHeld, rowsHeld>>

(* Mutation: the SELECT without deleted_at IS NULL. *)
FindDeletedToo(p) ==
    /\ pc[p] = "find"
    /\ old' = [old EXCEPT ![p] = [t \in Transactions |->
                   IF t \in req[p].rows THEN shape[t] ELSE NoShape]]
    /\ pc' = [pc EXCEPT ![p] = "lock"]
    /\ UNCHANGED <<db, req, seenWs, seenFrom, locks>>

(* find() and find_many(): a plain SELECT of the live rows. *)
Find(p) ==
    /\ pc[p] = "find"
    /\ req[p].op # "bulkDelete" => \A t \in req[p].rows : status[t] = "live"
    /\ old' = [old EXCEPT ![p] = [t \in Transactions |->
                   IF t \in req[p].rows THEN LiveShape(t) ELSE NoShape]]
    /\ pc' = [pc EXCEPT ![p] = "lock"]
    /\ UNCHANGED <<db, req, seenWs, seenFrom, locks>>

(* lock_wallets(): one wallet after the other, in ascending order. *)
LockWallet(p) ==
    /\ pc[p] = "lock"
    /\ \E w \in Wallets :
           /\ IsNextWallet(p, w)
           /\ WalletFree(p, w)
           /\ walletsHeld' = [walletsHeld EXCEPT ![p] = @ \cup {w}]
    /\ UNCHANGED <<db, pc, req, snap, rowsHeld, wsHeld>>

(* Mutation: the locked wallets are not counted. *)
WalletsLockedUncounted(p) ==
    /\ pc[p] = "lock"
    /\ ToLock(p) = {}
    /\ req[p].op = "walletDelete" => walletLive[req[p].wallet]
    /\ pc' = [pc EXCEPT ![p] =
                  IF req[p].op \in {"walletCurrency", "walletDelete"}
                  THEN "check" ELSE "write"]
    /\ UNCHANGED <<db, req, snap, locks>>

(* The statement returns; a wallet it did not find is WalletNotFound. *)
WalletsLocked(p) ==
    /\ pc[p] = "lock"
    /\ ToLock(p) = {}
    /\ walletsHeld[p] = LockSet(p)
    /\ req[p].op = "walletDelete" => walletLive[req[p].wallet]
    /\ pc' = [pc EXCEPT ![p] =
                  IF req[p].op \in {"walletCurrency", "walletDelete"}
                  THEN "check" ELSE "write"]
    /\ UNCHANGED <<db, req, snap, locks>>

(* delete_wallet() is refused while a live transaction names the wallet on *)
(* either leg, and so is update_wallet() when it changes the currency.     *)
MayChangeWallet(p) ==
    \/ /\ req[p].op = "walletCurrency"
       /\ walletCurrency[req[p].wallet] = req[p].currency
    \/ /\ req[p].op \in {"walletCurrency", "walletDelete"}
       /\ ~HasLiveRows(req[p].wallet)

CheckWallet(p) ==
    /\ pc[p] = "check"
    /\ MayChangeWallet(p)
    /\ pc' = [pc EXCEPT ![p] = "commit"]
    /\ UNCHANGED <<db, req, snap, locks>>

(* update_workspace_currency(): refused once any row exists, deleted ones  *)
(* included; both reads take no lock.                                      *)
CheckWorkspace(p) ==
    /\ pc[p] = "check"
    /\ req[p].op = "workspaceCurrency"
    /\ wsCurrency # req[p].currency
    /\ \A t \in Transactions : status[t] = "absent"
    /\ pc' = [pc EXCEPT ![p] = "lockWs"]
    /\ UNCHANGED <<db, req, snap, locks>>

(* The UPDATE of the workspace row, or convert()'s SELECT ... FOR UPDATE.  *)
LockWorkspace(p) ==
    /\ pc[p] = "lockWs"
    /\ WsFree(p, WsConflicts(WsMode(req[p].op)))
    /\ req[p].op = "convert" => wsCurrency # req[p].currency
    /\ wsHeld' = [wsHeld EXCEPT ![p] = WsMode(req[p].op)]
    /\ pc' = [pc EXCEPT ![p] = IF req[p].op = "convert" THEN "write" ELSE "commit"]
    /\ UNCHANGED <<db, req, snap, walletsHeld, rowsHeld>>

(* The UPDATE of transactions reaches one more row it matches. *)
WriteRow(p) ==
    /\ pc[p] = "write"
    /\ \E t \in Targets(p) \ rowsHeld[p] :
           /\ RowFree(p, t)
           /\ rowsHeld' = [rowsHeld EXCEPT ![p] = @ \cup {t}]
    /\ UNCHANGED <<db, pc, req, snap, walletsHeld, wsHeld>>

(* Mutation: update() ignores that its UPDATE hit no row. *)
RowsWrittenUncounted(p) ==
    /\ pc[p] = "write"
    /\ Targets(p) \subseteq rowsHeld[p]
    /\ pc' = [pc EXCEPT ![p] = "commit"]
    /\ UNCHANGED <<db, req, snap, locks>>

(* The statement is done.  update() needs the row it names to be there;    *)
(* delete() and bulk_delete() ignore how many rows were hit.               *)
RowsWritten(p) ==
    /\ pc[p] = "write"
    /\ Targets(p) \subseteq rowsHeld[p]
    /\ req[p].op = "update" => req[p].rows \subseteq rowsHeld[p]
    /\ pc' = [pc EXCEPT ![p] = "commit"]
    /\ UNCHANGED <<db, req, snap, locks>>

(***************************************************************************)
(* Commits.  The audit row is the last statement before each of them, and  *)
(* its foreign key to workspaces waits for a conversion in progress.       *)
(***************************************************************************)
Ready(p, ops) ==
    /\ pc[p] = "commit"
    /\ req[p].op \in ops
    /\ WsFree(p, {"update"})
    /\ End(p)

ApplyMoves(p) ==
    posted' = [w \in Wallets |->
                  [t \in Transactions |-> posted[w][t] + Moves(p, w)[t]]]

(* repo::insert and repo::update leave the row the request carries, in the *)
(* currencies prepare() read.                                              *)
CommitRow(p) ==
    /\ Ready(p, {"create", "update"})
    /\ ApplyMoves(p)
    /\ \E t \in req[p].rows :
           /\ status' = [status EXCEPT ![t] = "live"]
           /\ shape' = [shape EXCEPT ![t] = req[p].shape]
           /\ pricedFrom' = [pricedFrom EXCEPT ![t] = seenFrom[p]]
           /\ pricedIn' = [pricedIn EXCEPT ![t] = seenWs[p]]
    /\ UNCHANGED <<wsCurrency, walletLive, walletCurrency>>

CommitDelete(p) ==
    /\ Ready(p, {"delete", "bulkDelete"})
    /\ ApplyMoves(p)
    /\ status' = [t \in Transactions |->
                     IF t \in rowsHeld[p] THEN "deleted" ELSE status[t]]
    /\ UNCHANGED <<wsCurrency, walletLive, walletCurrency, shape,
                   pricedFrom, pricedIn>>

CommitWalletCurrency(p) ==
    /\ Ready(p, {"walletCurrency"})
    /\ walletCurrency' = [walletCurrency EXCEPT ![req[p].wallet] = req[p].currency]
    /\ UNCHANGED <<wsCurrency, walletLive, status, shape, pricedFrom,
                   pricedIn, posted>>

CommitWalletDelete(p) ==
    /\ Ready(p, {"walletDelete"})
    /\ walletLive' = [walletLive EXCEPT ![req[p].wallet] = FALSE]
    /\ UNCHANGED <<wsCurrency, walletCurrency, status, shape, pricedFrom,
                   pricedIn, posted>>

CommitWorkspaceCurrency(p) ==
    /\ Ready(p, {"workspaceCurrency"})
    /\ wsCurrency' = req[p].currency
    /\ UNCHANGED <<walletLive, walletCurrency, status, shape, pricedFrom,
                   pricedIn, posted>>

(* convert_transactions() reprices the rows it reached, deleted ones too.  *)
CommitConvert(p) ==
    /\ Ready(p, {"convert"})
    /\ wsCurrency' = req[p].currency
    /\ pricedIn' = [t \in Transactions |->
                       IF t \in rowsHeld[p] THEN req[p].currency ELSE pricedIn[t]]
    /\ UNCHANGED <<walletLive, walletCurrency, status, shape, pricedFrom, posted>>

(***************************************************************************)
(* Requests that end without a write.                                      *)
(***************************************************************************)

(* The statement at pc finds what its function answers with an error, or,  *)
(* for a workspace currency that is already set, returns early.            *)
Refused(p) ==
    \/ /\ pc[p] = "prepare"
       /\ \E w \in WalletsOf(req[p].shape) : ~walletLive[w]
    \/ /\ pc[p] = "ensure"
       /\ WsFree(p, WsConflicts("share"))
       /\ wsCurrency # seenWs[p]
    \/ /\ pc[p] = "find"
       /\ req[p].op # "bulkDelete"
       /\ \E t \in req[p].rows : status[t] # "live"
    \/ /\ pc[p] = "lock"
       /\ ToLock(p) = {}
       /\ \/ walletsHeld[p] # LockSet(p)
          \/ req[p].op = "walletDelete" /\ ~walletLive[req[p].wallet]
    \/ /\ pc[p] = "check"
       /\ req[p].op \in {"walletCurrency", "walletDelete"}
       /\ ~MayChangeWallet(p)
    \/ /\ pc[p] = "check"
       /\ req[p].op = "workspaceCurrency"
       /\ \/ wsCurrency = req[p].currency
          \/ \E t \in Transactions : status[t] # "absent"
    \/ /\ pc[p] = "lockWs"
       /\ req[p].op = "convert"
       /\ WsFree(p, WsConflicts("update"))
       /\ wsCurrency = req[p].currency
    \/ /\ pc[p] = "write"
       /\ req[p].op = "update"
       /\ Targets(p) \subseteq rowsHeld[p]
       /\ ~(req[p].rows \subseteq rowsHeld[p])

Refuse(p) == Refused(p) /\ End(p) /\ UNCHANGED db

(* The handler is dropped or the process dies: the server rolls back. *)
Disconnect(p) == pc[p] # "idle" /\ End(p) /\ UNCHANGED db

(* p cannot go on before q ends. *)
WaitsFor(p, q) ==
    /\ p # q
    /\ \/ /\ pc[p] = "ensure"
          /\ wsHeld[q] \in WsConflicts("share")
       \/ /\ pc[p] = "lock"
          /\ \E w \in walletsHeld[q] : IsNextWallet(p, w)
       \/ /\ pc[p] = "lockWs"
          /\ wsHeld[q] \in WsConflicts(WsMode(req[p].op))
       \/ /\ pc[p] = "write"
          /\ (Targets(p) \ rowsHeld[p]) \cap rowsHeld[q] # {}
          /\ \A t \in Targets(p) \ rowsHeld[p] : ~RowFree(p, t)
       \/ /\ pc[p] = "commit"
          /\ wsHeld[q] = "update"

(* Sessions none of which can go on before another of them ends. *)
Deadlocked(S) == S # {} /\ \A p \in S : \E q \in S : WaitsFor(p, q)

(* PostgreSQL ends one of them with an error. *)
DeadlockVictim(p) ==
    /\ \E S \in SUBSET Sessions : p \in S /\ Deadlocked(S)
    /\ End(p)
    /\ UNCHANGED db

(***************************************************************************)
(* The specification.                                                      *)
(***************************************************************************)
Init ==
    /\ wsCurrency \in Currencies
    /\ walletLive = [w \in Wallets |-> TRUE]
    /\ walletCurrency \in [Wallets -> Currencies]
    /\ status = [t \in Transactions |-> "absent"]
    /\ shape = [t \in Transactions |-> NoShape]
    /\ pricedFrom = [t \in Transactions |-> NoCurrency]
    /\ pricedIn = [t \in Transactions |-> NoCurrency]
    /\ posted = [w \in Wallets |-> [t \in Transactions |-> 0]]
    /\ pc = [p \in Sessions |-> "idle"]
    /\ req = [p \in Sessions |-> NoRequest]
    /\ seenWs = [p \in Sessions |-> NoCurrency]
    /\ seenFrom = [p \in Sessions |-> NoCurrency]
    /\ old = [p \in Sessions |-> Nothing]
    /\ walletsHeld = [p \in Sessions |-> {}]
    /\ rowsHeld = [p \in Sessions |-> {}]
    /\ wsHeld = [p \in Sessions |-> "none"]

Commit(p) ==
    \/ CommitRow(p)
    \/ CommitDelete(p)
    \/ CommitWalletCurrency(p)
    \/ CommitWalletDelete(p)
    \/ CommitWorkspaceCurrency(p)
    \/ CommitConvert(p)

Proceed(p) ==
    \/ Prepare(p)
    \/ EnsureCurrency(p)
    \/ Find(p)
    \/ LockWallet(p)
    \/ WalletsLocked(p)
    \/ CheckWallet(p)
    \/ CheckWorkspace(p)
    \/ LockWorkspace(p)
    \/ WriteRow(p)
    \/ RowsWritten(p)
    \/ Commit(p)
    \/ Refuse(p)
    \/ DeadlockVictim(p)

Next == \E p \in Sessions : Begin(p) \/ Proceed(p) \/ Disconnect(p)

Spec == Init /\ [][Next]_vars

(* A request runs to its end: the server polls its future, and PostgreSQL  *)
(* grants a lock to its waiters in turn and breaks deadlocks.  Nothing     *)
(* makes a client send a request or drop one.                              *)
Fairness == \A p \in Sessions : SF_vars(Proceed(p))

FairSpec == Spec /\ Fairness

(***************************************************************************)
(* Properties.                                                             *)
(***************************************************************************)

(* The balance of every wallet is the sum of what its live transactions    *)
(* say: whatever was created, changed and deleted concurrently, every      *)
(* effect is counted once and every reversal takes back one effect.        *)
BalanceMatchesLedger ==
    \A w \in Wallets : Balance(w) = LedgerBalance(w)

(* No live transaction names a deleted wallet: the refusal in              *)
(* delete_wallet() and the wallet locks of the writes leave no gap.        *)
NoLiveRowOnDeletedWallet ==
    \A t \in Transactions :
        status[t] = "live" => \A w \in WalletsOf(shape[t]) : walletLive[w]

(* Every row's base_amount is in the workspace's currency, across          *)
(* conversions and currency changes that run beside the writes.            *)
RowsPricedInWorkspaceCurrency ==
    \A t \in Transactions : status[t] # "absent" => pricedIn[t] = wsCurrency

(* Not kept.  The wallet currency a live row was priced from is the        *)
(* currency of its wallet.                                                 *)
RowsPricedFromWalletCurrency ==
    \A t \in Transactions :
        status[t] = "live" => pricedFrom[t] = walletCurrency[shape[t].wallet]

(* The requests in flight never wait for each other in a circle.           *)
NoDeadlock == ~\E S \in SUBSET Sessions : Deadlocked(S)

(* The currency of a wallet moves only while no live row names the wallet: *)
(* the change and the writes agree on it through the lock of the wallet.   *)
WalletCurrencySettled ==
    [][\A w \in Wallets :
           walletCurrency'[w] # walletCurrency[w] => ~HasLiveRows(w)]_vars

(* A deleted row is final: an update that found the row before it was      *)
(* deleted does not bring it back or change what it says.                  *)
DeletedRowsStay ==
    [][\A t \in Transactions :
           status[t] = "deleted" =>
               /\ status'[t] = "deleted"
               /\ shape'[t] = shape[t]]_vars

\* A deleted row stays deleted, and a wallet with live rows keeps its currency.
WhatIsSettledStays == DeletedRowsStay /\ WalletCurrencySettled

(* The write paths implement the account book: every change of the ledger  *)
(* is one step that also moves the balances to what the live rows say.     *)
Sums(book) == [w \in Wallets |->
                  Total([t \in Transactions |-> EffectOn(book[t], w)])]

TheBook == INSTANCE Book WITH
               Shapes <- ValidShapes,
               rows <- [t \in Transactions |-> LiveShape(t)],
               struck <- {t \in Transactions : status[t] = "deleted"},
               balance <- [w \in Wallets |-> Balance(w)]

ImplementsBook == TheBook!Spec

(* Every request is answered: none waits for ever behind the others.       *)
RequestsEnd == \A p \in Sessions : pc[p] # "idle" ~> pc[p] = "idle"
=============================================================================
