---------------------------- MODULE LedgerProofs ----------------------------
(***************************************************************************)
(* What holds of Ledger for any number of sessions, wallets, transactions, *)
(* currencies and amounts.                                                 *)
(***************************************************************************)
EXTENDS MCLedgerRows, SumProofs

(* A shape moves an integer amount on every wallet. *)
LEMMA EffectType ==
    ASSUME NEW s \in MaybeShape, NEW w
    PROVE  EffectOn(s, w) \in Int
  BY AmountsAssumption
     DEF MaybeShape, ValidShapes, Entries, Transfers, NoShape, EffectOn

(* A row that is not there moves nothing. *)
LEMMA EffectOfNothing ==
    ASSUME NEW w \in Wallets
    PROVE  EffectOn(NoShape, w) = 0
  BY WalletsAssumption DEF NoShape, NoWallet, EffectOn

(* What a request is made of, by operation. *)
LEMMA RequestType ==
    ASSUME NEW r \in Requests \cup {NoRequest}
    PROVE  /\ r.op \in AllOps \cup {"none"}
           /\ r.rows \subseteq Transactions
           /\ r.shape \in MaybeShape
           /\ r.op \in {"create", "update"} =>
                  r.shape \in ValidShapes /\ \E t \in Transactions : r.rows = {t}
           /\ r.op \in {"walletCurrency", "walletDelete"} => r.wallet \in Wallets
           /\ r.op \in {"walletCurrency", "workspaceCurrency", "convert"} =>
                  r.currency \in Currencies
           /\ r # NoRequest => r.op \in AllOps
           /\ r.op = "none" <=> r = NoRequest
  BY OpsAssumption
     DEF Requests, RowRequests, OtherRequests, NoRequest, AllOps, MaybeShape

(* The first statement of an operation is a step of a session that is no   *)
(* longer idle.                                                            *)
LEMMA FirstStepType ==
    ASSUME NEW op \in AllOps
    PROVE  /\ FirstStep(op) \in Steps \ {"idle"}
           /\ FirstStep(op) = "prepare" => op \in {"create", "update"}
           /\ FirstStep(op) = "lockWs" => op = "convert"
  BY DEF AllOps, FirstStep, Steps

(* Ending a database transaction keeps the types of a session. *)
LEMMA EndType ==
    ASSUME TypeOK, NEW p \in Sessions, End(p),
           wsCurrency' \in Currencies,
           walletLive' \in [Wallets -> BOOLEAN],
           walletCurrency' \in [Wallets -> Currencies],
           status' \in [Transactions -> {"absent", "live", "deleted"}],
           shape' \in [Transactions -> MaybeShape],
           pricedFrom' \in [Transactions -> MaybeCurrency],
           pricedIn' \in [Transactions -> MaybeCurrency],
           posted' \in [Wallets -> [Transactions -> Int]]
    PROVE  TypeOK'
  <1>1. NoRequest \in Requests \cup {NoRequest}
    OBVIOUS
  <1>2. Nothing \in [Transactions -> MaybeShape]
    BY DEF Nothing, MaybeShape
  <1>3. QED
    BY <1>1, <1>2 DEF TypeOK, End, Steps, MaybeCurrency

(* The same when the database is left as it was. *)
LEMMA EndTypeSame ==
    ASSUME TypeOK, NEW p \in Sessions, End(p), UNCHANGED db
    PROVE  TypeOK'
  BY EndType DEF TypeOK, db

(* The postings a commit leaves are integers. *)
LEMMA MovesType ==
    ASSUME TypeOK, NEW p \in Sessions, ApplyMoves(p)
    PROVE  posted' \in [Wallets -> [Transactions -> Int]]
  <1>1. ASSUME NEW w \in Wallets, NEW t \in Transactions
        PROVE  posted[w][t] + Moves(p, w)[t] \in Int
    <2>1. NewShape(p, t) \in MaybeShape
      BY RequestType DEF TypeOK, NewShape, MaybeShape
    <2>2. old[p][t] \in MaybeShape
      BY DEF TypeOK
    <2>3. /\ EffectOn(NewShape(p, t), w) \in Int
          /\ EffectOn(old[p][t], w) \in Int
      BY <2>1, <2>2, EffectType
    <2>4. Moves(p, w)[t] \in Int
      BY <2>3 DEF Moves
    <2>5. QED
      BY <2>4 DEF TypeOK
  <1>2. QED
    BY <1>1 DEF ApplyMoves

(* Ledger is well typed, and a session at rest holds no lock. *)
THEOREM TypeCorrect == Spec => []TypeOK
  <1>1. Init => TypeOK
    BY DEF Init, TypeOK, Steps, NoRequest, Nothing, MaybeShape, MaybeCurrency
  <1>2. TypeOK /\ [Next]_vars => TypeOK'
    <2> SUFFICES ASSUME TypeOK, [Next]_vars PROVE TypeOK'
      OBVIOUS
    <2> USE DEF db, snap, locks
    <2>1. CASE UNCHANGED vars
      BY <2>1 DEF vars, TypeOK
    <2>2. ASSUME NEW p \in Sessions, Begin(p) PROVE TypeOK'
      <3>1. PICK r \in Requests :
                req' = [req EXCEPT ![p] = r] /\ pc' = [pc EXCEPT ![p] = FirstStep(r.op)]
        BY <2>2 DEF Begin
      <3>2. r # NoRequest
        BY OpsAssumption DEF Requests, RowRequests, OtherRequests, NoRequest, AllOps
      <3>3. /\ FirstStep(r.op) \in Steps \ {"idle"}
            /\ FirstStep(r.op) = "prepare" => r.op \in {"create", "update"}
            /\ FirstStep(r.op) = "lockWs" => r.op = "convert"
        BY <3>2, RequestType, FirstStepType
      <3>4. QED
        BY <2>2, <3>1, <3>3 DEF Begin, TypeOK
    <2>3. ASSUME NEW p \in Sessions, Prepare(p) PROVE TypeOK'
      <3>1. req[p].shape \in ValidShapes
        BY <2>3, RequestType DEF Prepare, TypeOK
      <3>2. walletCurrency[req[p].shape.wallet] \in MaybeCurrency
        BY <3>1 DEF TypeOK, ValidShapes, Entries, Transfers, MaybeCurrency
      <3>3. QED
        BY <2>3, <3>2 DEF Prepare, TypeOK, Steps, MaybeCurrency
    <2>4. ASSUME NEW p \in Sessions, EnsureCurrency(p) PROVE TypeOK'
      BY <2>4 DEF EnsureCurrency, TypeOK, Steps
    <2>5. ASSUME NEW p \in Sessions, Find(p) PROVE TypeOK'
      <3>1. [t \in Transactions |-> IF t \in req[p].rows THEN LiveShape(t) ELSE NoShape]
                \in [Transactions -> MaybeShape]
        BY DEF LiveShape, MaybeShape, TypeOK
      <3>2. QED
        BY <2>5, <3>1 DEF Find, TypeOK, Steps
    <2>6. ASSUME NEW p \in Sessions, LockWallet(p) PROVE TypeOK'
      <3>1. PICK w \in Wallets : walletsHeld' = [walletsHeld EXCEPT ![p] = @ \cup {w}]
        BY <2>6 DEF LockWallet
      <3>2. walletsHeld' \in [Sessions -> SUBSET Wallets]
        BY <3>1 DEF TypeOK
      <3>3. QED
        BY <2>6, <3>1, <3>2 DEF LockWallet, TypeOK
    <2>7. ASSUME NEW p \in Sessions, WalletsLocked(p) PROVE TypeOK'
      <3>1. PICK s \in {"check", "write"} : pc' = [pc EXCEPT ![p] = s]
        BY <2>7 DEF WalletsLocked
      <3>2. pc' \in [Sessions -> Steps]
        BY <3>1 DEF TypeOK, Steps
      <3>3. QED
        BY <2>7, <3>1, <3>2 DEF WalletsLocked, TypeOK
    <2>8. ASSUME NEW p \in Sessions, CheckWallet(p) \/ CheckWorkspace(p) PROVE TypeOK'
      <3>1. PICK s \in {"commit", "lockWs"} :
                /\ pc' = [pc EXCEPT ![p] = s]
                /\ s = "lockWs" => req[p].op = "workspaceCurrency"
                /\ UNCHANGED <<db, req, snap, locks>>
        BY <2>8 DEF CheckWallet, CheckWorkspace
      <3>2. pc' \in [Sessions -> Steps]
        BY <3>1 DEF TypeOK, Steps
      <3>3. QED
        BY <3>1, <3>2 DEF TypeOK
    <2>9. ASSUME NEW p \in Sessions, LockWorkspace(p) PROVE TypeOK'
      BY <2>9 DEF LockWorkspace, WsMode, TypeOK, Steps
    <2>10. ASSUME NEW p \in Sessions, WriteRow(p) PROVE TypeOK'
      <3>1. Targets(p) \subseteq Transactions
        BY RequestType DEF Targets, TypeOK
      <3>2. PICK t \in Transactions : rowsHeld' = [rowsHeld EXCEPT ![p] = @ \cup {t}]
        BY <2>10, <3>1 DEF WriteRow
      <3>3. QED
        BY <2>10, <3>2 DEF WriteRow, TypeOK
    <2>11. ASSUME NEW p \in Sessions, RowsWritten(p) PROVE TypeOK'
      BY <2>11 DEF RowsWritten, TypeOK, Steps
    <2>12. ASSUME NEW p \in Sessions, CommitRow(p) PROVE TypeOK'
      <3>1. End(p) /\ ApplyMoves(p)
        BY <2>12 DEF CommitRow, Ready
      <3>2. /\ req[p].shape \in MaybeShape
            /\ seenFrom[p] \in MaybeCurrency
            /\ seenWs[p] \in MaybeCurrency
        BY RequestType DEF TypeOK
      <3>3. /\ status' \in [Transactions -> {"absent", "live", "deleted"}]
            /\ shape' \in [Transactions -> MaybeShape]
            /\ pricedFrom' \in [Transactions -> MaybeCurrency]
            /\ pricedIn' \in [Transactions -> MaybeCurrency]
        <4>1. PICK t \in Transactions :
                  /\ status' = [status EXCEPT ![t] = "live"]
                  /\ shape' = [shape EXCEPT ![t] = req[p].shape]
                  /\ pricedFrom' = [pricedFrom EXCEPT ![t] = seenFrom[p]]
                  /\ pricedIn' = [pricedIn EXCEPT ![t] = seenWs[p]]
          BY <2>12, RequestType DEF CommitRow, TypeOK
        <4>2. QED
          BY <4>1, <3>2 DEF TypeOK
      <3>4. QED
        BY <2>12, <3>1, <3>3, EndType, MovesType DEF CommitRow, TypeOK
    <2>13. ASSUME NEW p \in Sessions, CommitDelete(p) PROVE TypeOK'
      <3>1. End(p) /\ ApplyMoves(p)
        BY <2>13 DEF CommitDelete, Ready
      <3>2. QED
        BY <2>13, <3>1, EndType, MovesType DEF CommitDelete, TypeOK
    <2>14. ASSUME NEW p \in Sessions, CommitWalletCurrency(p) PROVE TypeOK'
      <3>1. req[p].currency \in Currencies
        BY <2>14, RequestType DEF CommitWalletCurrency, Ready, TypeOK
      <3>2. QED
        BY <2>14, <3>1, EndType DEF CommitWalletCurrency, Ready, TypeOK
    <2>15. ASSUME NEW p \in Sessions, CommitWalletDelete(p) PROVE TypeOK'
      BY <2>15, EndType DEF CommitWalletDelete, Ready, TypeOK
    <2>16. ASSUME NEW p \in Sessions, CommitWorkspaceCurrency(p) PROVE TypeOK'
      <3>1. req[p].currency \in Currencies
        BY <2>16, RequestType DEF CommitWorkspaceCurrency, Ready, TypeOK
      <3>2. QED
        BY <2>16, <3>1, EndType DEF CommitWorkspaceCurrency, Ready, TypeOK
    <2>17. ASSUME NEW p \in Sessions, CommitConvert(p) PROVE TypeOK'
      <3>1. req[p].currency \in Currencies
        BY <2>17, RequestType DEF CommitConvert, Ready, TypeOK
      <3>2. QED
        BY <2>17, <3>1, EndType DEF CommitConvert, Ready, TypeOK, MaybeCurrency
    <2>18. ASSUME NEW p \in Sessions, Refuse(p) \/ DeadlockVictim(p) \/ Disconnect(p)
           PROVE  TypeOK'
      BY <2>18, EndTypeSame DEF Refuse, DeadlockVictim, Disconnect
    <2>19. QED
      BY <2>1, <2>2, <2>3, <2>4, <2>5, <2>6, <2>7, <2>8, <2>9, <2>10, <2>11,
         <2>12, <2>13, <2>14, <2>15, <2>16, <2>17, <2>18
         DEF Next, Proceed, Commit
  <1>3. QED
    BY <1>1, <1>2, PTL DEF Spec

(***************************************************************************)
(* The balance of a wallet is the sum of its live rows.                    *)
(*                                                                         *)
(* The invariant that carries it says that each row has posted exactly its *)
(* own effect, that no two requests in flight name the same row, and that  *)
(* what a session read of its rows is still what they say when it writes.  *)
(* The last part is what two requests on one row break.                    *)
(***************************************************************************)
Posted == \A w \in Wallets, t \in Transactions :
              posted[w][t] = EffectOn(LiveShape(t), w)

RequestsApart == \A p, q \in Sessions :
                     p # q => req[p].rows \cap req[q].rows = {}

CreatesFresh == \A p \in Sessions : req[p].op = "create" =>
                    \A t \in req[p].rows : status[t] = "absent"

RowWrites == {"update", "delete", "bulkDelete"}

OldNothing == \A p \in Sessions :
                  pc[p] = "idle" \/ req[p].op = "create" => old[p] = Nothing

OldCurrent == \A p \in Sessions :
    req[p].op \in RowWrites /\ pc[p] \in {"lock", "write", "commit"} =>
        \A t \in Transactions :
            old[p][t] = IF t \in req[p].rows THEN LiveShape(t) ELSE NoShape

HeldLive == \A p \in Sessions : req[p].op \in RowWrites =>
                \A t \in rowsHeld[p] : t \in req[p].rows /\ status[t] = "live"

HeldAll == \A p \in Sessions : req[p].op \in RowWrites /\ pc[p] = "commit" =>
               \A t \in req[p].rows :
                   req[p].op = "update" \/ status[t] = "live" => t \in rowsHeld[p]

SessionInv == RequestsApart /\ CreatesFresh /\ OldNothing /\ OldCurrent
                  /\ HeldLive /\ HeldAll

LiveValid == \A t \in Transactions : status[t] = "live" => shape[t] \in ValidShapes

LedgerInv == TypeOK /\ Posted /\ LiveValid /\ SessionInv

(* The sums agree because they add up the same terms. *)
LEMMA PostedGivesBalance == TypeOK /\ Posted => BalanceMatchesLedger
  <1> SUFFICES ASSUME TypeOK, Posted, NEW w \in Wallets
               PROVE  Balance(w) = LedgerBalance(w)
    BY DEF BalanceMatchesLedger
  <1>1. posted[w] = [t \in Transactions |-> EffectOn(LiveShape(t), w)]
    BY DEF TypeOK, Posted
  <1>2. QED
    BY <1>1 DEF Balance, LedgerBalance

(* A step that ends a request and leaves the rows of all others alone      *)
(* keeps what is known of those others.                                    *)
LEMMA EndKeepsSessions ==
    ASSUME TypeOK, SessionInv, NEW p \in Sessions, End(p),
           \A t \in Transactions : t \notin req[p].rows =>
               status'[t] = status[t] /\ shape'[t] = shape[t]
    PROVE  SessionInv'
  <1> DEFINE others == Sessions \ {p}
  <1>1. /\ pc'[p] = "idle"
        /\ req'[p] = NoRequest
        /\ old'[p] = Nothing
        /\ rowsHeld'[p] = {}
        /\ req[p].rows \subseteq Transactions
    BY RequestType DEF TypeOK, End
  <1>2. \A q \in others : /\ pc'[q] = pc[q]
                          /\ req'[q] = req[q]
                          /\ old'[q] = old[q]
                          /\ rowsHeld'[q] = rowsHeld[q]
    BY DEF TypeOK, End
  <1>3. NoRequest.op = "none" /\ NoRequest.rows = {}
    BY DEF NoRequest
  <1>4. \A q \in others : \A t \in req[q].rows :
            status'[t] = status[t] /\ shape'[t] = shape[t] /\ LiveShape(t)' = LiveShape(t)
    BY RequestType DEF SessionInv, RequestsApart, TypeOK, LiveShape
  <1>5. RequestsApart'
    BY <1>1, <1>2, <1>3 DEF SessionInv, RequestsApart
  <1>6. CreatesFresh'
    BY <1>1, <1>2, <1>3, <1>4 DEF SessionInv, CreatesFresh
  <1>7. OldNothing'
    BY <1>1, <1>2, <1>3 DEF SessionInv, OldNothing, Nothing
  <1>8. OldCurrent'
    BY <1>1, <1>2, <1>3, <1>4 DEF SessionInv, OldCurrent, RowWrites
  <1>9. HeldLive'
    BY <1>1, <1>2, <1>3, <1>4 DEF SessionInv, HeldLive, RowWrites
  <1>10. HeldAll'
    BY <1>1, <1>2, <1>3, <1>4 DEF SessionInv, HeldAll, RowWrites
  <1>11. QED
    BY <1>5, <1>6, <1>7, <1>8, <1>9, <1>10 DEF SessionInv

(* A step that only ends a request keeps the invariant. *)
LEMMA EndKeepsInv ==
    ASSUME LedgerInv, TypeOK', NEW p \in Sessions, End(p),
           UNCHANGED <<status, shape, posted>>
    PROVE  LedgerInv'
  <1>1. SessionInv'
    BY EndKeepsSessions DEF LedgerInv
  <1>2. Posted' /\ LiveValid'
    BY DEF LedgerInv, Posted, LiveValid, LiveShape
  <1>3. QED
    BY <1>1, <1>2 DEF LedgerInv

(* A created or updated row has posted the effect it now says. *)
LEMMA CommitRowKeepsInv ==
    ASSUME LedgerInv, TypeOK', NEW p \in Sessions, CommitRow(p)
    PROVE  LedgerInv'
  <1>1. /\ End(p) /\ ApplyMoves(p)
        /\ pc[p] = "commit" /\ req[p].op \in {"create", "update"}
    BY DEF CommitRow, Ready
  <1>2. PICK r \in Transactions : req[p].rows = {r} /\ req[p].shape \in ValidShapes
    <2>1. req[p] \in Requests \cup {NoRequest}
      BY DEF LedgerInv, TypeOK
    <2>2. QED
      BY <1>1, <2>1, RequestType
  <1>3. /\ status' = [status EXCEPT ![r] = "live"]
        /\ shape' = [shape EXCEPT ![r] = req[p].shape]
    BY <1>2 DEF CommitRow
  <1>4. \A t \in Transactions : t \notin req[p].rows =>
            status'[t] = status[t] /\ shape'[t] = shape[t]
    BY <1>2, <1>3 DEF LedgerInv, TypeOK
  <1>5. SessionInv'
    BY <1>1, <1>4, EndKeepsSessions DEF LedgerInv
  <1>6. \A t \in Transactions :
            old[p][t] = IF t = r THEN LiveShape(t) ELSE NoShape
    <2>1. CASE req[p].op = "create"
      BY <1>1, <1>2, <2>1
         DEF LedgerInv, SessionInv, OldNothing, CreatesFresh, Nothing, LiveShape
    <2>2. CASE req[p].op = "update"
      BY <1>1, <1>2, <2>2 DEF LedgerInv, SessionInv, OldCurrent, RowWrites
    <2>3. QED
      BY <1>1, <2>1, <2>2
  <1>7. ASSUME NEW w \in Wallets, NEW t \in Transactions
        PROVE  posted'[w][t] = EffectOn(LiveShape(t), w)'
    <2>1. /\ posted'[w][t] = posted[w][t]
                  + (EffectOn(NewShape(p, t), w) - EffectOn(old[p][t], w))
          /\ posted[w][t] = EffectOn(LiveShape(t), w)
      BY <1>1 DEF ApplyMoves, Moves, LedgerInv, Posted
    <2>2. LiveShape(t) \in MaybeShape /\ EffectOn(LiveShape(t), w) \in Int
      BY EffectType DEF LiveShape, LedgerInv, TypeOK, MaybeShape
    <2>3. CASE t = r
      <3>1. NewShape(p, t) = req[p].shape /\ LiveShape(t)' = req[p].shape
        BY <1>1, <1>2, <1>3, <2>3 DEF NewShape, LiveShape, LedgerInv, TypeOK
      <3>2. EffectOn(req[p].shape, w) \in Int
        BY <1>2, EffectType DEF MaybeShape
      <3>3. EffectOn(LiveShape(t), w)' = EffectOn(req[p].shape, w)
        BY <3>1 DEF EffectOn
      <3>4. QED
        BY <2>1, <2>2, <2>3, <1>6, <3>1, <3>2, <3>3
    <2>4. CASE t # r
      <3>1. NewShape(p, t) = NoShape /\ LiveShape(t)' = LiveShape(t)
        BY <1>2, <1>4, <2>4 DEF NewShape, LiveShape
      <3>2. EffectOn(LiveShape(t), w)' = EffectOn(LiveShape(t), w)
        BY <3>1 DEF EffectOn
      <3>3. QED
        BY <2>1, <2>2, <2>4, <1>6, <3>1, <3>2, EffectOfNothing
    <2>5. QED
      BY <2>3, <2>4
  <1>8. LiveValid'
    BY <1>2, <1>3 DEF LedgerInv, LiveValid, TypeOK
  <1>9. QED
    BY <1>5, <1>7, <1>8 DEF LedgerInv, Posted

(* A deleted row has posted nothing. *)
LEMMA CommitDeleteKeepsInv ==
    ASSUME LedgerInv, TypeOK', NEW p \in Sessions, CommitDelete(p)
    PROVE  LedgerInv'
  <1>1. /\ End(p) /\ ApplyMoves(p)
        /\ pc[p] = "commit" /\ req[p].op \in {"delete", "bulkDelete"}
        /\ status' = [t \in Transactions |->
                          IF t \in rowsHeld[p] THEN "deleted" ELSE status[t]]
        /\ shape' = shape
    BY DEF CommitDelete, Ready
  <1>2. /\ \A t \in rowsHeld[p] : t \in req[p].rows /\ status[t] = "live"
        /\ \A t \in req[p].rows : status[t] = "live" => t \in rowsHeld[p]
    BY <1>1 DEF LedgerInv, SessionInv, HeldLive, HeldAll, RowWrites
  <1>3. SessionInv'
    BY <1>1, <1>2, EndKeepsSessions DEF LedgerInv
  <1>4. \A t \in Transactions :
            old[p][t] = IF t \in req[p].rows THEN LiveShape(t) ELSE NoShape
    BY <1>1 DEF LedgerInv, SessionInv, OldCurrent, RowWrites
  <1>5. ASSUME NEW w \in Wallets, NEW t \in Transactions
        PROVE  posted'[w][t] = EffectOn(LiveShape(t), w)'
    <2>1. /\ posted'[w][t] = posted[w][t]
                  + (EffectOn(NoShape, w) - EffectOn(old[p][t], w))
          /\ posted[w][t] = EffectOn(LiveShape(t), w)
      BY <1>1 DEF ApplyMoves, Moves, NewShape, LedgerInv, Posted
    <2>2. LiveShape(t) \in MaybeShape /\ EffectOn(LiveShape(t), w) \in Int
      BY EffectType DEF LiveShape, LedgerInv, TypeOK, MaybeShape
    <2>3. EffectOn(NoShape, w) = 0
      BY EffectOfNothing
    <2>4. CASE t \in rowsHeld[p]
      <3>1. LiveShape(t)' = NoShape
        BY <1>1, <2>4 DEF LiveShape
      <3>2. EffectOn(LiveShape(t), w)' = 0
        BY <3>1, <2>3 DEF EffectOn
      <3>3. QED
        BY <1>2, <1>4, <2>1, <2>2, <2>3, <2>4, <3>2
    <2>5. CASE t \notin rowsHeld[p]
      <3>1. LiveShape(t)' = LiveShape(t)
        BY <1>1, <2>5 DEF LiveShape
      <3>2. EffectOn(LiveShape(t), w)' = EffectOn(LiveShape(t), w)
        BY <3>1 DEF EffectOn
      <3>3. old[p][t] = NoShape
        BY <1>2, <1>4, <2>5 DEF LiveShape
      <3>4. QED
        BY <2>1, <2>2, <2>3, <3>2, <3>3
    <2>6. QED
      BY <2>4, <2>5
  <1>6. LiveValid'
    BY <1>1 DEF LedgerInv, LiveValid
  <1>7. QED
    BY <1>3, <1>5, <1>6 DEF LedgerInv, Posted

(* A request begins with no lock and nothing read; when no row is shared,  *)
(* its rows are no other request's.                                        *)
LEMMA BeginKeepsInv ==
    ASSUME SharedRows = {}, LedgerInv, TypeOK', NEW p \in Sessions, Begin(p)
    PROVE  LedgerInv'
  <1>1. PICK r \in Requests :
            /\ Admissible(p, r)
            /\ req' = [req EXCEPT ![p] = r]
            /\ pc' = [pc EXCEPT ![p] = FirstStep(r.op)]
    BY DEF Begin
  <1>2. /\ UNCHANGED <<status, shape, posted, old, rowsHeld>>
        /\ pc[p] = "idle" /\ old[p] = Nothing /\ rowsHeld[p] = {}
    BY DEF Begin, db, snap, locks, LedgerInv, TypeOK, SessionInv, OldNothing
  <1>3. \A t \in Transactions : LiveShape(t)' = LiveShape(t)
    BY <1>2 DEF LiveShape
  <1>4. /\ req'[p] = r /\ pc'[p] = FirstStep(r.op)
        /\ \A q \in Sessions \ {p} : req'[q] = req[q] /\ pc'[q] = pc[q]
    BY <1>1 DEF LedgerInv, TypeOK
  <1>5. /\ \A q \in Sessions \ {p} : r.rows \cap req[q].rows = {}
        /\ r.op = "create" => \A t \in r.rows : status[t] = "absent"
    BY <1>1 DEF Admissible, Others
  <1>6. r.op \in RowWrites => FirstStep(r.op) \notin {"lock", "write", "commit"}
    BY DEF FirstStep, RowWrites
  <1>7. r.op \in RowWrites => FirstStep(r.op) # "commit"
    BY <1>6 DEF RowWrites
  <1>8. RequestsApart' /\ CreatesFresh'
    BY <1>2, <1>4, <1>5 DEF LedgerInv, SessionInv, RequestsApart, CreatesFresh
  <1>9. OldNothing'
    BY <1>2, <1>4 DEF LedgerInv, SessionInv, OldNothing, Nothing
  <1>10. OldCurrent'
    BY <1>2, <1>3, <1>4, <1>6 DEF LedgerInv, SessionInv, OldCurrent, RowWrites
  <1>11. HeldLive' /\ HeldAll'
    BY <1>2, <1>4, <1>7 DEF LedgerInv, SessionInv, HeldLive, HeldAll, RowWrites
  <1>12. Posted'
    <2>1. \A w \in Wallets, t \in Transactions :
              EffectOn(LiveShape(t), w)' = EffectOn(LiveShape(t), w)
      BY <1>3 DEF EffectOn
    <2>2. QED
      BY <1>2, <2>1 DEF LedgerInv, Posted
  <1>13. LiveValid'
    BY <1>2 DEF LedgerInv, LiveValid
  <1>14. QED
    BY <1>8, <1>9, <1>10, <1>11, <1>12, <1>13 DEF LedgerInv, SessionInv

(* The statements in between change no row and no posting. *)
LEMMA StatementKeepsInv ==
    ASSUME LedgerInv, TypeOK', NEW p \in Sessions,
           \/ Prepare(p) \/ EnsureCurrency(p) \/ Find(p) \/ LockWallet(p)
           \/ WalletsLocked(p) \/ CheckWallet(p) \/ CheckWorkspace(p)
           \/ LockWorkspace(p) \/ WriteRow(p) \/ RowsWritten(p)
    PROVE  LedgerInv'
  <1> USE DEF db, snap, locks, LedgerInv, SessionInv
  <1>1. UNCHANGED <<status, shape, posted, req>>
    BY DEF Prepare, EnsureCurrency, Find, LockWallet, WalletsLocked, CheckWallet,
           CheckWorkspace, LockWorkspace, WriteRow, RowsWritten
  <1>2. \A t \in Transactions : LiveShape(t)' = LiveShape(t)
    BY <1>1 DEF LiveShape
  <1>3. Posted'
    <2>1. \A w \in Wallets, t \in Transactions :
              EffectOn(LiveShape(t), w)' = EffectOn(LiveShape(t), w)
      BY <1>2 DEF EffectOn
    <2>2. QED
      BY <1>1, <2>1 DEF Posted
  <1>4. RequestsApart' /\ CreatesFresh'
    BY <1>1 DEF RequestsApart, CreatesFresh
  <1>5. OldNothing' /\ OldCurrent' /\ HeldLive' /\ HeldAll'
    <2>1. CASE Prepare(p)
      <3>1. /\ pc' = [pc EXCEPT ![p] = "ensure"] /\ pc[p] = "prepare"
            /\ UNCHANGED <<old, rowsHeld>>
        BY <2>1 DEF Prepare
      <3>2. QED
        BY <1>1, <1>2, <3>1
           DEF TypeOK, OldNothing, OldCurrent, HeldLive, HeldAll, Nothing
    <2>2. CASE EnsureCurrency(p)
      <3>1. PICK s \in {"lock", "find"} :
                /\ pc' = [pc EXCEPT ![p] = s] /\ pc[p] = "ensure"
                /\ UNCHANGED <<old, rowsHeld>>
                /\ s = "lock" => req[p].op = "create"
        BY <2>2 DEF EnsureCurrency
      <3>2. QED
        BY <1>1, <1>2, <3>1
           DEF TypeOK, OldNothing, OldCurrent, HeldLive, HeldAll, Nothing, RowWrites
    <2>3. CASE Find(p)
      <3>1. /\ pc' = [pc EXCEPT ![p] = "lock"] /\ pc[p] = "find"
            /\ old' = [old EXCEPT ![p] = [t \in Transactions |->
                          IF t \in req[p].rows THEN LiveShape(t) ELSE NoShape]]
            /\ UNCHANGED rowsHeld
        BY <2>3 DEF Find
      <3>2. req[p].op = "create" => old'[p] = Nothing
        BY <3>1 DEF TypeOK, CreatesFresh, LiveShape, Nothing
      <3>3. \A q \in Sessions : q # p => old'[q] = old[q] /\ pc'[q] = pc[q]
        BY <3>1 DEF TypeOK
      <3>4. pc'[p] = "lock" /\ \A t \in Transactions :
                old'[p][t] = IF t \in req[p].rows THEN LiveShape(t) ELSE NoShape
        BY <3>1 DEF TypeOK
      <3>5. OldNothing'
        BY <1>1, <3>2, <3>3, <3>4 DEF OldNothing, Nothing
      <3>6. OldCurrent'
        BY <1>1, <1>2, <3>3, <3>4 DEF OldCurrent
      <3>7. HeldLive' /\ HeldAll'
        BY <1>1, <3>1, <3>3, <3>4 DEF HeldLive, HeldAll
      <3>8. QED
        BY <3>5, <3>6, <3>7
    <2>4. CASE LockWallet(p)
      BY <1>1, <1>2, <2>4
         DEF LockWallet, OldNothing, OldCurrent, HeldLive, HeldAll, Nothing
    <2>5. CASE WalletsLocked(p) \/ CheckWallet(p) \/ CheckWorkspace(p) \/ LockWorkspace(p)
      <3>1. PICK s \in {"check", "write", "commit", "lockWs"} :
                /\ pc' = [pc EXCEPT ![p] = s]
                /\ UNCHANGED <<old, rowsHeld>>
                /\ s = "write" /\ req[p].op \in RowWrites => pc[p] = "lock"
                /\ s = "commit" => req[p].op \notin RowWrites
                /\ pc[p] # "idle"
        <4>1. CASE WalletsLocked(p)
          BY <4>1 DEF WalletsLocked
        <4>2. CASE CheckWallet(p)
          BY <4>2 DEF CheckWallet, MayChangeWallet, RowWrites
        <4>3. CASE CheckWorkspace(p)
          BY <4>3 DEF CheckWorkspace
        <4>4. CASE LockWorkspace(p)
          BY <4>4 DEF LockWorkspace, TypeOK, RowWrites
        <4>5. QED
          BY <2>5, <4>1, <4>2, <4>3, <4>4
      <3>2. QED
        BY <1>1, <1>2, <3>1
           DEF TypeOK, OldNothing, OldCurrent, HeldLive, HeldAll, Nothing, RowWrites
    <2>6. CASE WriteRow(p)
      <3>1. PICK t \in Targets(p) : rowsHeld' = [rowsHeld EXCEPT ![p] = @ \cup {t}]
        BY <2>6 DEF WriteRow
      <3>2. req[p].op \in RowWrites => t \in req[p].rows /\ status[t] = "live"
        BY DEF Targets, RowWrites
      <3>3. UNCHANGED <<pc, old>> /\ pc[p] = "write"
        BY <2>6 DEF WriteRow
      <3>4. HeldLive'
        BY <1>1, <3>1, <3>2 DEF HeldLive, TypeOK
      <3>5. HeldAll'
        BY <1>1, <3>1, <3>3 DEF HeldAll, TypeOK
      <3>6. QED
        BY <1>1, <1>2, <3>3, <3>4, <3>5 DEF OldNothing, OldCurrent, Nothing
    <2>7. CASE RowsWritten(p)
      <3>1. /\ pc' = [pc EXCEPT ![p] = "commit"] /\ pc[p] = "write"
            /\ Targets(p) \subseteq rowsHeld[p]
            /\ UNCHANGED <<old, rowsHeld>>
        BY <2>7 DEF RowsWritten
      <3>2. req[p].op \in {"delete", "bulkDelete"} =>
                \A t \in req[p].rows : status[t] = "live" => t \in rowsHeld[p]
        BY <3>1 DEF Targets
      <3>3. req[p].op = "update" => req[p].rows \subseteq rowsHeld[p]
        BY <2>7 DEF RowsWritten
      <3>4. QED
        BY <3>3, <1>1, <1>2, <3>1, <3>2
           DEF TypeOK, OldNothing, OldCurrent, HeldLive, HeldAll, Nothing, RowWrites
    <2>8. QED
      BY <2>1, <2>2, <2>3, <2>4, <2>5, <2>6, <2>7
  <1>6. LiveValid'
    BY <1>1 DEF LiveValid
  <1>7. QED
    BY <1>3, <1>4, <1>5, <1>6

(* With no row named by two requests at once, the balance of every wallet  *)
(* is the sum of its live rows, whatever the requests and the amounts.     *)
THEOREM LedgerInvariant ==
    ASSUME SharedRows = {}
    PROVE  Spec => []LedgerInv
  <1>1. Init => LedgerInv
    <2> SUFFICES ASSUME Init PROVE LedgerInv
      OBVIOUS
    <2>1. TypeOK
      BY DEF Init, TypeOK, Steps, NoRequest, Nothing, MaybeShape, MaybeCurrency
    <2>2. Posted
      BY EffectOfNothing DEF Init, Posted, LiveShape
    <2>3. SessionInv
      BY DEF Init, SessionInv, RequestsApart, CreatesFresh, OldNothing, OldCurrent,
             HeldLive, HeldAll, NoRequest, Nothing, RowWrites
    <2>4. LiveValid
      BY DEF Init, LiveValid
    <2>5. QED
      BY <2>1, <2>2, <2>3, <2>4 DEF LedgerInv
  <1>2. LedgerInv /\ TypeOK' /\ [Next]_vars => LedgerInv'
    <2> SUFFICES ASSUME LedgerInv, TypeOK', [Next]_vars PROVE LedgerInv'
      OBVIOUS
    <2>1. CASE UNCHANGED vars
      <3>1. UNCHANGED <<status, shape, posted, pc, req, old, rowsHeld>>
        BY <2>1 DEF vars, db, snap, locks
      <3>2. \A t \in Transactions : LiveShape(t)' = LiveShape(t)
        BY <3>1 DEF LiveShape
      <3>3. \A w \in Wallets, t \in Transactions :
                EffectOn(LiveShape(t), w)' = EffectOn(LiveShape(t), w)
        BY <3>2 DEF EffectOn
      <3>4. Posted'
        BY <3>1, <3>3 DEF LedgerInv, Posted
      <3>5. RequestsApart' /\ CreatesFresh' /\ OldNothing' /\ HeldLive' /\ HeldAll'
        BY <3>1 DEF LedgerInv, SessionInv, RequestsApart, CreatesFresh, OldNothing,
                    Nothing, HeldLive, HeldAll
      <3>6. OldCurrent'
        BY <3>1, <3>2 DEF LedgerInv, SessionInv, OldCurrent
      <3>7. LiveValid'
        BY <3>1 DEF LedgerInv, LiveValid
      <3>8. QED
        BY <3>4, <3>5, <3>6, <3>7 DEF LedgerInv, SessionInv
    <2>2. ASSUME NEW p \in Sessions, Begin(p) PROVE LedgerInv'
      BY <2>2, BeginKeepsInv
    <2>3. ASSUME NEW p \in Sessions, CommitRow(p) PROVE LedgerInv'
      BY <2>3, CommitRowKeepsInv
    <2>4. ASSUME NEW p \in Sessions, CommitDelete(p) PROVE LedgerInv'
      BY <2>4, CommitDeleteKeepsInv
    <2>5. ASSUME NEW p \in Sessions,
                 \/ CommitWalletCurrency(p) \/ CommitWalletDelete(p)
                 \/ CommitWorkspaceCurrency(p) \/ CommitConvert(p)
          PROVE  LedgerInv'
      <3>1. End(p) /\ UNCHANGED <<status, shape, posted>>
        BY <2>5 DEF CommitWalletCurrency, CommitWalletDelete,
                    CommitWorkspaceCurrency, CommitConvert, Ready
      <3>2. QED
        BY <3>1, EndKeepsInv
    <2>6. ASSUME NEW p \in Sessions, Refuse(p) \/ DeadlockVictim(p) \/ Disconnect(p)
          PROVE  LedgerInv'
      <3>1. End(p) /\ UNCHANGED <<status, shape, posted>>
        BY <2>6 DEF Refuse, DeadlockVictim, Disconnect, db
      <3>2. QED
        BY <3>1, EndKeepsInv
    <2>7. QED
      BY <2>1, <2>2, <2>3, <2>4, <2>5, <2>6, StatementKeepsInv
         DEF Next, Proceed, Commit
  <1>3. QED
    BY <1>1, <1>2, TypeCorrect, PTL DEF Spec

(* Every balance is the sum of the effects of its live rows, whatever     *)
(* fails or is undone, unless two requests in flight name one row.         *)
THEOREM BalancesMatch ==
    ASSUME SharedRows = {}
    PROVE  Spec => []BalanceMatchesLedger
  <1>1. LedgerInv => BalanceMatchesLedger
    BY PostedGivesBalance DEF LedgerInv
  <1>2. QED
    BY <1>1, LedgerInvariant, PTL

(***************************************************************************)
(* The account book.                                                       *)
(***************************************************************************)
BookRows == [t \in Transactions |-> LiveShape(t)]
BookStruck == {t \in Transactions : status[t] = "deleted"}
BookBalance == [w \in Wallets |-> Balance(w)]

(* The balances are what the rows of the book add up to. *)
LEMMA BookAddsUp ==
    ASSUME LedgerInv
    PROVE  BookBalance = Sums(BookRows)
  <1>1. ASSUME NEW w \in Wallets
        PROVE  Balance(w) = Total([t \in Transactions |-> EffectOn(BookRows[t], w)])
    <2>1. posted[w] = [t \in Transactions |-> EffectOn(BookRows[t], w)]
      BY DEF LedgerInv, TypeOK, Posted, BookRows
    <2>2. QED
      BY <2>1 DEF Balance
  <1>2. QED
    BY <1>1 DEF BookBalance, Sums

(* In every state the book's balances are the sums of its entries. *)
LEMMA BookAddsUpNext ==
    ASSUME LedgerInv'
    PROVE  BookBalance' = Sums(BookRows')
  <1>1. ASSUME NEW w \in Wallets
        PROVE  Balance(w)' = Total([t \in Transactions |-> EffectOn(BookRows'[t], w)])
    <2>1. posted'[w] = [t \in Transactions |-> EffectOn(BookRows'[t], w)]
      BY DEF LedgerInv, TypeOK, Posted, BookRows, EffectOn
    <2>2. QED
      BY <2>1 DEF Balance
  <1>2. QED
    BY <1>1 DEF BookBalance, Sums

(* A step that changes neither rows nor postings is none of the book's. *)
LEMMA BookStutters ==
    ASSUME UNCHANGED <<status, shape, posted>>
    PROVE  UNCHANGED <<BookRows, BookStruck, BookBalance>>
  BY DEF BookRows, BookStruck, BookBalance, LiveShape, Balance

(* A create records and an update amends. *)
LEMMA CommitRowIsEntry ==
    ASSUME LedgerInv, LedgerInv', NEW p \in Sessions, CommitRow(p)
    PROVE  \E t \in Transactions, s \in ValidShapes :
               TheBook!Record(t, s) \/ TheBook!Amend(t, s)
  <1>1. pc[p] = "commit" /\ req[p].op \in {"create", "update"}
    BY DEF CommitRow, Ready
  <1>2. PICK r \in Transactions : req[p].rows = {r} /\ req[p].shape \in ValidShapes
    <2>1. req[p] \in Requests \cup {NoRequest}
      BY DEF LedgerInv, TypeOK
    <2>2. QED
      BY <1>1, <2>1, RequestType
  <1>3. /\ status' = [status EXCEPT ![r] = "live"]
        /\ shape' = [shape EXCEPT ![r] = req[p].shape]
    BY <1>2 DEF CommitRow
  <1>4. BookRows' = [BookRows EXCEPT ![r] = req[p].shape]
    BY <1>3 DEF BookRows, LiveShape, LedgerInv, TypeOK
  <1>5. BookBalance' = Sums(BookRows')
    BY BookAddsUpNext
  <1>6. ASSUME status[r] \in {"absent", "live"}
        PROVE  BookStruck' = BookStruck
    BY <1>3, <1>6 DEF BookStruck, LedgerInv, TypeOK
  <1>7. CASE req[p].op = "create"
    <2>1. status[r] = "absent"
      BY <1>2, <1>7 DEF LedgerInv, SessionInv, CreatesFresh
    <2>2. BookRows[r] = NoShape /\ r \notin BookStruck
      BY <2>1 DEF BookRows, BookStruck, LiveShape
    <2>3. TheBook!Record(r, req[p].shape)
      BY <1>4, <1>5, <1>6, <2>1, <2>2
         DEF TheBook!Record, BookRows, BookStruck, BookBalance
    <2>4. QED
      BY <1>2, <2>3
  <1>8. CASE req[p].op = "update"
    <2>1. status[r] = "live"
      BY <1>1, <1>2, <1>8 DEF LedgerInv, SessionInv, HeldAll, HeldLive, RowWrites
    <2>2. BookRows[r] # NoShape
      BY <2>1 DEF BookRows, LiveShape, LedgerInv, LiveValid, ValidShapes, Entries,
                  Transfers, NoShape
    <2>3. TheBook!Amend(r, req[p].shape)
      BY <1>4, <1>5, <1>6, <2>1, <2>2
         DEF TheBook!Amend, BookRows, BookStruck, BookBalance
    <2>4. QED
      BY <1>2, <2>3
  <1>9. QED
    BY <1>1, <1>7, <1>8

(* A delete strikes the rows it hit. *)
LEMMA CommitDeleteIsStrike ==
    ASSUME LedgerInv, LedgerInv', NEW p \in Sessions, CommitDelete(p)
    PROVE  \E S \in SUBSET Transactions : TheBook!Strike(S)
  <1>1. /\ req[p].op \in {"delete", "bulkDelete"}
        /\ status' = [t \in Transactions |->
                          IF t \in rowsHeld[p] THEN "deleted" ELSE status[t]]
        /\ shape' = shape
    BY DEF CommitDelete, Ready
  <1>. PICK S \in SUBSET Transactions : S = rowsHeld[p]
    BY DEF LedgerInv, TypeOK
  <1>2. \A t \in S : status[t] = "live"
    BY <1>1 DEF LedgerInv, TypeOK, SessionInv, HeldLive, RowWrites
  <1>3. \A t \in S : BookRows[t] # NoShape
    BY <1>2 DEF BookRows, LiveShape, LedgerInv, LiveValid, ValidShapes, Entries,
                Transfers, NoShape
  <1>4. BookRows' = [t \in Transactions |->
                        IF t \in S THEN NoShape ELSE BookRows[t]]
    BY <1>1 DEF BookRows, LiveShape
  <1>5. BookStruck' = BookStruck \cup S
    BY <1>1, <1>2 DEF BookStruck, LedgerInv, TypeOK
  <1>6. BookBalance' = Sums(BookRows')
    BY BookAddsUpNext
  <1>7. TheBook!Strike(S)
    BY <1>3, <1>4, <1>5, <1>6
       DEF TheBook!Strike, BookRows, BookStruck, BookBalance
  <1>8. QED
    BY <1>7

(* With no row named by two requests at once, the write paths implement    *)
(* the account book.                                                       *)
THEOREM LedgerImplementsBook ==
    ASSUME SharedRows = {}
    PROVE  Spec => ImplementsBook
  <1>1. Init => TheBook!Init
    <2> SUFFICES ASSUME Init PROVE TheBook!Init
      OBVIOUS
    <2>1. BookRows = [t \in Transactions |-> NoShape] /\ BookStruck = {}
      BY DEF Init, BookRows, BookStruck, LiveShape
    <2>2. ASSUME NEW w \in Wallets
          PROVE  Balance(w) = Total([t \in Transactions |-> EffectOn(BookRows[t], w)])
      <3>1. posted[w] = [t \in Transactions |-> EffectOn(BookRows[t], w)]
        BY <2>1, EffectOfNothing DEF Init
      <3>2. QED
        BY <3>1 DEF Balance
    <2>3. BookBalance = Sums(BookRows)
      BY <2>2 DEF BookBalance, Sums
    <2>4. QED
      BY <2>1, <2>3 DEF TheBook!Init, BookRows, BookStruck, BookBalance
  <1>2. LedgerInv /\ LedgerInv' /\ [Next]_vars => [TheBook!Next]_(TheBook!bookVars)
    <2> SUFFICES ASSUME LedgerInv, LedgerInv', [Next]_vars
                 PROVE  TheBook!Next \/ UNCHANGED TheBook!bookVars
      OBVIOUS
    <2>1. CASE UNCHANGED <<status, shape, posted>>
      BY <2>1, BookStutters
         DEF TheBook!bookVars, BookRows, BookStruck, BookBalance
    <2>2. ASSUME NEW p \in Sessions, CommitRow(p) PROVE TheBook!Next
      BY <2>2, CommitRowIsEntry DEF TheBook!Next
    <2>3. ASSUME NEW p \in Sessions, CommitDelete(p) PROVE TheBook!Next
      BY <2>3, CommitDeleteIsStrike DEF TheBook!Next
    <2>4. \/ UNCHANGED <<status, shape, posted>>
          \/ \E p \in Sessions : CommitRow(p) \/ CommitDelete(p)
      BY DEF Next, Proceed, Commit, vars, db, Begin, Prepare, EnsureCurrency, Find,
             LockWallet, WalletsLocked, CheckWallet, CheckWorkspace, LockWorkspace,
             WriteRow, RowsWritten, CommitWalletCurrency, CommitWalletDelete,
             CommitWorkspaceCurrency, CommitConvert, Refuse, DeadlockVictim,
             Disconnect
    <2>5. QED
      BY <2>1, <2>2, <2>3, <2>4
  <1>3. QED
    BY <1>1, <1>2, LedgerInvariant, PTL DEF Spec, ImplementsBook, TheBook!Spec

(***************************************************************************)
(* The currency of the base amounts.                                       *)
(*                                                                         *)
(* A conversion holds the workspace row alone from before it reads the     *)
(* rows to its commit, and a write shares it from its look at the currency *)
(* to its own; so a write that commits saw the currency there is, and a    *)
(* conversion that commits has reached every row there is.  The change of  *)
(* a workspace's currency takes part in none of this.                      *)
(***************************************************************************)
Modes == \A p \in Sessions : wsHeld[p] \in {"none", "share", "update"}

ConverterAlone == \A p, q \in Sessions :
    p # q /\ wsHeld[p] = "update" => wsHeld[q] = "none"

WriterUpToDate == \A p \in Sessions :
    req[p].op \in {"create", "update"} /\ pc[p] \in {"find", "lock", "write", "commit"} =>
        wsHeld[p] = "share" /\ seenWs[p] = wsCurrency

ConverterHolds == \A p \in Sessions :
    req[p].op = "convert" =>
        \/ pc[p] = "lockWs"
        \/ pc[p] \in {"write", "commit"} /\ wsHeld[p] = "update"

ConverterReached == \A p \in Sessions :
    req[p].op = "convert" /\ pc[p] = "commit" =>
        \A t \in Transactions : status[t] # "absent" => t \in rowsHeld[p]

HeldThere == \A p \in Sessions : \A t \in rowsHeld[p] : status[t] # "absent"

NoCurrencyChange == \A p \in Sessions : req[p].op # "workspaceCurrency"

HoldersInv == /\ Modes /\ ConverterAlone /\ WriterUpToDate
              /\ ConverterHolds /\ ConverterReached /\ HeldThere /\ NoCurrencyChange

PricingInv == HoldersInv /\ RowsPricedInWorkspaceCurrency

(* A session that ends leaves the others what they hold, if it leaves them *)
(* the currency they saw and the rows they reached.                        *)
LEMMA EndKeepsHolders ==
    ASSUME TypeOK, HoldersInv, NEW p \in Sessions, End(p),
           \A q \in Sessions \ {p} : wsHeld[q] = "share" => wsCurrency' = wsCurrency,
           \A t \in Transactions : status[t] # "absent" => status'[t] # "absent",
           \A q \in Sessions \ {p} : wsHeld[q] = "update" =>
               \A t \in Transactions : status'[t] # "absent" => status[t] # "absent"
    PROVE  HoldersInv'
  <1>1. /\ pc'[p] = "idle" /\ req'[p] = NoRequest /\ wsHeld'[p] = "none" /\ rowsHeld'[p] = {}
        /\ \A q \in Sessions \ {p} : /\ pc'[q] = pc[q]
                                     /\ req'[q] = req[q]
                                     /\ wsHeld'[q] = wsHeld[q]
                                     /\ seenWs'[q] = seenWs[q]
                                     /\ rowsHeld'[q] = rowsHeld[q]
    BY DEF TypeOK, End
  <1>2. NoRequest.op = "none"
    BY DEF NoRequest
  <1>3. Modes' /\ ConverterAlone' /\ NoCurrencyChange'
    BY <1>1, <1>2 DEF HoldersInv, Modes, ConverterAlone, NoCurrencyChange
  <1>4. WriterUpToDate'
    BY <1>1, <1>2 DEF HoldersInv, WriterUpToDate
  <1>5. ConverterHolds'
    BY <1>1, <1>2 DEF HoldersInv, ConverterHolds
  <1>6. ConverterReached'
    BY <1>1, <1>2 DEF HoldersInv, ConverterHolds, ConverterReached
  <1>7. HeldThere'
    BY SMTT(30), <1>1 DEF TypeOK, HoldersInv, HeldThere
  <1>8. QED
    BY <1>3, <1>4, <1>5, <1>6, <1>7 DEF HoldersInv

(* The same when nothing of the database changes. *)
LEMMA EndKeepsPricing ==
    ASSUME TypeOK, PricingInv, NEW p \in Sessions, End(p),
           UNCHANGED <<wsCurrency, status, pricedIn>>
    PROVE  PricingInv'
  <1>1. HoldersInv'
    BY EndKeepsHolders DEF PricingInv
  <1>2. QED
    BY <1>1 DEF PricingInv, RowsPricedInWorkspaceCurrency

(* A write prices its row in the currency it saw, which is still the       *)
(* workspace's.                                                            *)
LEMMA CommitRowKeepsPricing ==
    ASSUME TypeOK, PricingInv, NEW p \in Sessions, CommitRow(p)
    PROVE  PricingInv'
  <1>1. /\ End(p) /\ UNCHANGED wsCurrency
        /\ pc[p] = "commit" /\ req[p].op \in {"create", "update"}
        /\ \A q \in Sessions \ {p} : wsHeld[q] # "update"
    BY DEF CommitRow, Ready, WsFree, Others
  <1>2. seenWs[p] = wsCurrency
    BY <1>1 DEF PricingInv, HoldersInv, WriterUpToDate
  <1>3. PICK r \in Transactions : req[p].rows = {r}
    BY <1>1, RequestType DEF TypeOK
  <1>4. /\ status' = [status EXCEPT ![r] = "live"]
        /\ pricedIn' = [pricedIn EXCEPT ![r] = seenWs[p]]
    BY <1>3 DEF CommitRow
  <1>5. HoldersInv'
    BY <1>1, <1>4, EndKeepsHolders DEF PricingInv, TypeOK
  <1>6. RowsPricedInWorkspaceCurrency'
    BY <1>1, <1>2, <1>4 DEF PricingInv, RowsPricedInWorkspaceCurrency, TypeOK
  <1>7. QED
    BY <1>5, <1>6 DEF PricingInv

(* A conversion reprices every row there is, deleted ones too.             *)
LEMMA CommitConvertKeepsPricing ==
    ASSUME TypeOK, PricingInv, NEW p \in Sessions, CommitConvert(p)
    PROVE  PricingInv'
  <1>1. /\ End(p) /\ UNCHANGED status
        /\ pc[p] = "commit" /\ req[p].op = "convert"
        /\ wsCurrency' = req[p].currency
        /\ pricedIn' = [t \in Transactions |->
                           IF t \in rowsHeld[p] THEN req[p].currency ELSE pricedIn[t]]
    BY DEF CommitConvert, Ready
  <1>2. \A t \in Transactions : status[t] # "absent" => t \in rowsHeld[p]
    BY <1>1 DEF PricingInv, HoldersInv, ConverterReached
  <1>3. \A q \in Sessions \ {p} : wsHeld[q] = "none"
    BY <1>1 DEF PricingInv, HoldersInv, ConverterHolds, ConverterAlone
  <1>4. HoldersInv'
    BY <1>1, <1>3, EndKeepsHolders DEF PricingInv
  <1>5. RowsPricedInWorkspaceCurrency'
    BY <1>1, <1>2 DEF RowsPricedInWorkspaceCurrency
  <1>6. QED
    BY <1>4, <1>5 DEF PricingInv

(* A delete leaves the rows there, and the other commits touch no price. *)
LEMMA OtherCommitKeepsPricing ==
    ASSUME TypeOK, PricingInv, NEW p \in Sessions,
           \/ CommitDelete(p) \/ CommitWalletCurrency(p) \/ CommitWalletDelete(p)
    PROVE  PricingInv'
  <1>1. /\ End(p) /\ UNCHANGED <<wsCurrency, pricedIn>>
        /\ \A t \in Transactions : status'[t] # "absent" <=> status[t] # "absent"
    <2>1. CASE CommitDelete(p)
      <3>1. /\ End(p) /\ UNCHANGED <<wsCurrency, pricedIn>>
            /\ req[p].op \in RowWrites
            /\ status' = [t \in Transactions |->
                             IF t \in rowsHeld[p] THEN "deleted" ELSE status[t]]
        BY <2>1 DEF CommitDelete, Ready, RowWrites
      <3>2. QED
        BY <3>1 DEF PricingInv, HoldersInv, HeldThere
    <2>2. CASE CommitWalletCurrency(p) \/ CommitWalletDelete(p)
      BY <2>2 DEF CommitWalletCurrency, CommitWalletDelete, Ready
    <2>3. QED
      BY <2>1, <2>2
  <1>2. HoldersInv'
    BY <1>1, EndKeepsHolders DEF PricingInv
  <1>3. QED
    BY <1>1, <1>2 DEF PricingInv, RowsPricedInWorkspaceCurrency

(* The statements before a commit change no price and no currency. *)
LEMMA StatementKeepsPricing ==
    ASSUME TypeOK, PricingInv, NEW p \in Sessions,
           \/ Prepare(p) \/ EnsureCurrency(p) \/ Find(p) \/ LockWallet(p)
           \/ WalletsLocked(p) \/ CheckWallet(p) \/ CheckWorkspace(p)
           \/ LockWorkspace(p) \/ WriteRow(p) \/ RowsWritten(p)
    PROVE  PricingInv'
  <1> USE DEF db, snap, locks, PricingInv, HoldersInv
  <1>1. /\ UNCHANGED <<wsCurrency, status, pricedIn, req>>
        /\ \A q \in Sessions \ {p} : /\ pc'[q] = pc[q]
                                     /\ wsHeld'[q] = wsHeld[q]
                                     /\ seenWs'[q] = seenWs[q]
                                     /\ rowsHeld'[q] = rowsHeld[q]
    BY DEF Prepare, EnsureCurrency, Find, LockWallet, WalletsLocked, CheckWallet,
           CheckWorkspace, LockWorkspace, WriteRow, RowsWritten, TypeOK
  <1>2. NoCurrencyChange' /\ RowsPricedInWorkspaceCurrency'
    BY <1>1 DEF NoCurrencyChange, RowsPricedInWorkspaceCurrency
  <1>3. CASE Prepare(p)
    <2>1. /\ pc'[p] = "ensure" /\ UNCHANGED <<wsHeld, rowsHeld>>
          /\ req[p].op # "convert"
      BY <1>3 DEF Prepare, TypeOK, ConverterHolds
    <2>2. QED
      BY <1>1, <1>2, <2>1
         DEF Modes, ConverterAlone, WriterUpToDate, ConverterHolds, ConverterReached, HeldThere
  <1>4. CASE EnsureCurrency(p)
    <2>1. /\ pc'[p] \in {"lock", "find"} /\ wsHeld'[p] = "share" /\ seenWs'[p] = wsCurrency
          /\ UNCHANGED rowsHeld /\ req[p].op # "convert"
          /\ \A q \in Sessions \ {p} : wsHeld[q] # "update"
      BY <1>4 DEF EnsureCurrency, WsFree, WsConflicts, Others, TypeOK, ConverterHolds
    <2>2. QED
      BY <1>1, <1>2, <2>1
         DEF Modes, ConverterAlone, WriterUpToDate, ConverterHolds, ConverterReached, HeldThere
  <1>5. CASE Find(p) \/ LockWallet(p) \/ WalletsLocked(p) \/ CheckWallet(p) \/ CheckWorkspace(p)
    <2>1. /\ UNCHANGED <<wsHeld, rowsHeld, seenWs>>
          /\ req[p].op \in {"create", "update"} /\ pc'[p] \in {"find", "lock", "write", "commit"}
                 => pc[p] \in {"find", "lock", "write", "commit"}
          /\ req[p].op # "convert"
      BY <1>5 DEF Find, LockWallet, WalletsLocked, CheckWallet, CheckWorkspace, MayChangeWallet,
                  TypeOK, ConverterHolds
    <2>2. QED
      BY <1>1, <1>2, <2>1
         DEF Modes, ConverterAlone, WriterUpToDate, ConverterHolds, ConverterReached, HeldThere
  <1>6. CASE LockWorkspace(p)
    <2>1. req[p].op = "convert"
      BY <1>6 DEF LockWorkspace, TypeOK, NoCurrencyChange
    <2>2. /\ pc'[p] = "write" /\ wsHeld'[p] = "update" /\ UNCHANGED <<rowsHeld, seenWs>>
          /\ \A q \in Sessions \ {p} : wsHeld[q] = "none"
      BY <1>6, <2>1 DEF LockWorkspace, WsFree, WsConflicts, WsMode, Others, TypeOK, Modes
    <2>3. QED
      BY <1>1, <1>2, <2>1, <2>2
         DEF Modes, ConverterAlone, WriterUpToDate, ConverterHolds, ConverterReached, HeldThere
  <1>7. CASE WriteRow(p)
    <2>1. PICK t \in Targets(p) : rowsHeld' = [rowsHeld EXCEPT ![p] = @ \cup {t}]
      BY <1>7 DEF WriteRow
    <2>2. status[t] # "absent"
      BY DEF Targets
    <2>3. pc[p] = "write" /\ UNCHANGED <<pc, wsHeld, seenWs>>
      BY <1>7 DEF WriteRow
    <2>4. HeldThere'
      BY <1>1, <2>1, <2>2 DEF HeldThere, TypeOK
    <2>5. QED
      BY <1>1, <1>2, <2>3, <2>4
         DEF Modes, ConverterAlone, WriterUpToDate, ConverterHolds, ConverterReached
  <1>8. CASE RowsWritten(p)
    <2>1. /\ pc[p] = "write" /\ pc'[p] = "commit" /\ UNCHANGED <<wsHeld, rowsHeld, seenWs>>
          /\ Targets(p) \subseteq rowsHeld[p]
      BY <1>8 DEF RowsWritten, TypeOK
    <2>2. req[p].op = "convert" =>
              \A t \in Transactions : status[t] # "absent" => t \in rowsHeld[p]
      BY <2>1 DEF Targets
    <2>3. QED
      BY <1>1, <1>2, <2>1, <2>2
         DEF Modes, ConverterAlone, WriterUpToDate, ConverterHolds, ConverterReached, HeldThere
  <1>9. QED
    BY <1>3, <1>4, <1>5, <1>6, <1>7, <1>8

(* Where conversions are the only way to another currency, every row is    *)
(* priced in the workspace's currency, however many conversions and writes *)
(* run beside each other and whichever of them fail.                       *)
THEOREM RowsArePriced ==
    ASSUME "workspaceCurrency" \notin Ops
    PROVE  Spec => []RowsPricedInWorkspaceCurrency
  <1>1. TypeOK => NoCurrencyChange
    BY DEF TypeOK, NoCurrencyChange, Requests, RowRequests, OtherRequests, NoRequest
  <1>2. Init => PricingInv
    BY DEF Init, PricingInv, HoldersInv, Modes, ConverterAlone, WriterUpToDate, ConverterHolds,
           ConverterReached, HeldThere, NoCurrencyChange, NoRequest, RowsPricedInWorkspaceCurrency
  <1>3. TypeOK /\ TypeOK' /\ PricingInv /\ [Next]_vars => PricingInv'
    <2> SUFFICES ASSUME TypeOK, TypeOK', PricingInv, [Next]_vars PROVE PricingInv'
      OBVIOUS
    <2>1. CASE UNCHANGED vars
      <3>1. UNCHANGED <<wsCurrency, status, pricedIn, pc, req, seenWs, rowsHeld, wsHeld>>
        BY <2>1 DEF vars, db, snap, locks
      <3>2. QED
        BY <3>1 DEF PricingInv, HoldersInv, Modes, ConverterAlone, WriterUpToDate, ConverterHolds,
                    ConverterReached, HeldThere, NoCurrencyChange, RowsPricedInWorkspaceCurrency
    <2>2. ASSUME NEW p \in Sessions, Begin(p) PROVE PricingInv'
      <3>1. PICK r \in Requests :
                req' = [req EXCEPT ![p] = r] /\ pc' = [pc EXCEPT ![p] = FirstStep(r.op)]
        BY <2>2 DEF Begin
      <3>2. /\ UNCHANGED <<wsCurrency, status, pricedIn, seenWs, rowsHeld, wsHeld>>
            /\ req'[p] = r /\ pc'[p] = FirstStep(r.op)
            /\ \A q \in Sessions \ {p} : req'[q] = req[q] /\ pc'[q] = pc[q]
        BY <2>2, <3>1 DEF Begin, db, snap, locks, TypeOK
      <3>3. /\ r.op \in {"create", "update"} => FirstStep(r.op) = "prepare"
            /\ r.op = "convert" => FirstStep(r.op) = "lockWs"
        BY DEF FirstStep
      <3>4. NoCurrencyChange'
        BY <1>1 DEF TypeOK, NoCurrencyChange, Requests, RowRequests, OtherRequests, NoRequest
      <3>5. Modes' /\ ConverterAlone' /\ HeldThere' /\ RowsPricedInWorkspaceCurrency'
        BY <3>2 DEF PricingInv, HoldersInv, Modes, ConverterAlone, HeldThere,
                    RowsPricedInWorkspaceCurrency
      <3>6. WriterUpToDate' /\ ConverterHolds' /\ ConverterReached'
        BY <3>2, <3>3 DEF PricingInv, HoldersInv, WriterUpToDate, ConverterHolds, ConverterReached
      <3>7. QED
        BY <3>4, <3>5, <3>6 DEF PricingInv, HoldersInv
    <2>3. ASSUME NEW p \in Sessions, Commit(p) PROVE PricingInv'
      <3>1. ~CommitWorkspaceCurrency(p)
        BY DEF CommitWorkspaceCurrency, Ready, PricingInv, HoldersInv, NoCurrencyChange
      <3>2. QED
        BY <2>3, <3>1, CommitRowKeepsPricing, CommitConvertKeepsPricing, OtherCommitKeepsPricing
           DEF Commit
    <2>4. ASSUME NEW p \in Sessions, Refuse(p) \/ DeadlockVictim(p) \/ Disconnect(p)
          PROVE  PricingInv'
      BY <2>4, EndKeepsPricing DEF Refuse, DeadlockVictim, Disconnect, db
    <2>5. QED
      BY <2>1, <2>2, <2>3, <2>4, StatementKeepsPricing DEF Next, Proceed
  <1>4. PricingInv => RowsPricedInWorkspaceCurrency
    BY DEF PricingInv
  <1>5. QED
    BY <1>2, <1>3, <1>4, TypeCorrect, PTL DEF Spec

(* A total all of whose terms but one are zero is that term.               *)
LEMMA TotalOfOne ==
    ASSUME NEW T, IsFiniteSet(T), NEW f \in [T -> Int], NEW r \in T,
           \A t \in T : t # r => f[t] = 0
    PROVE  Total(f) = f[r]
  <1>1. Numbers(f, T)
    BY DEF Numbers
  <1>2. SumFunctionOnSet(f, T) = f[r]
    BY <1>1, SumOfOne
  <1>3. QED
    BY <1>2 DEF Total, SumFunction

(***************************************************************************)
(* Wallets that go, and wallets whose currency changes.                    *)
(*                                                                         *)
(* A wallet that is locked is live and locked by one; a session holds none *)
(* before it locks, and locks them in ascending order.                     *)
(***************************************************************************)
WalletLocksApart == \A p, q \in Sessions : p # q => walletsHeld[p] \cap walletsHeld[q] = {}

LockedAreLive == \A p \in Sessions : \A w \in walletsHeld[p] : walletLive[w]

BeforeLocking == {"idle", "prepare", "ensure", "find", "lockWs"}

LocksAscending == \A p \in Sessions :
    /\ pc[p] \in BeforeLocking \/ req[p].op = "workspaceCurrency" => walletsHeld[p] = {}
    /\ pc[p] = "lock" => \A v \in walletsHeld[p], w \in ToLock(p) : v < w
    /\ pc[p] \in {"ensure", "find", "lock"} => req[p].op \notin {"workspaceCurrency", "convert"}

(* What a session has locked when it has locked its wallets. *)
WalletOps == {"walletCurrency", "walletDelete"}

LockedAll == \A p \in Sessions :
    /\ pc[p] \in {"write", "commit"} /\ req[p].op \in {"create", "update"} =>
          MovedWallets(p) \subseteq walletsHeld[p]
    /\ pc[p] = "write" => req[p].op \notin WalletOps
    /\ pc[p] \in {"check", "commit"} /\ req[p].op \in WalletOps => req[p].wallet \in walletsHeld[p]

(* What a change of a wallet was checked for still holds when it commits. *)
CheckHolds == \A p \in Sessions :
    pc[p] = "commit" /\ req[p].op \in WalletOps => MayChangeWallet(p)

LocksInv == WalletLocksApart /\ LockedAreLive /\ LocksAscending /\ LockedAll
WardInv == LocksInv /\ CheckHolds /\ NoLiveRowOnDeletedWallet

(* A step of one session leaves what another does and holds. *)
LEMMA OthersStand ==
    ASSUME TypeOK, NEW p \in Sessions, Begin(p) \/ Proceed(p) \/ Disconnect(p), NEW q \in Sessions, q # p
    PROVE  /\ pc'[q] = pc[q] /\ req'[q] = req[q] /\ old'[q] = old[q]
           /\ walletsHeld'[q] = walletsHeld[q] /\ rowsHeld'[q] = rowsHeld[q] /\ wsHeld'[q] = wsHeld[q]
  <1> USE DEF TypeOK
  <1>1. CASE End(p)
    BY <1>1 DEF End
  <1>2. CASE Begin(p)
    BY <1>2 DEF Begin, snap, locks
  <1>3. CASE Prepare(p) \/ EnsureCurrency(p) \/ Find(p)
    BY <1>3 DEF Prepare, EnsureCurrency, Find, snap, locks
  <1>4. CASE LockWallet(p) \/ WalletsLocked(p) \/ CheckWallet(p) \/ CheckWorkspace(p)
    BY <1>4 DEF LockWallet, WalletsLocked, CheckWallet, CheckWorkspace, snap, locks
  <1>5. CASE LockWorkspace(p) \/ WriteRow(p) \/ RowsWritten(p)
    BY <1>5 DEF LockWorkspace, WriteRow, RowsWritten, snap, locks
  <1>6. QED
    BY <1>1, <1>2, <1>3, <1>4, <1>5
       DEF Proceed, Commit, CommitRow, CommitDelete, CommitWalletCurrency, CommitWalletDelete,
           CommitWorkspaceCurrency, CommitConvert, Ready, Refuse, DeadlockVictim, Disconnect

(* While a session's request and rows stand, it has no more wallets to     *)
(* lock than before.                                                       *)
LEMMA LeftToLock ==
    ASSUME TypeOK, NEW q \in Sessions, req'[q] = req[q], old'[q] = old[q],
           \A w \in Wallets : walletLive'[w] => walletLive[w],
           walletsHeld[q] \subseteq walletsHeld'[q]
    PROVE  MovedWallets(q)' = MovedWallets(q) /\ ToLock(q)' \subseteq ToLock(q)
  <1>1. \A w, t : NewShape(q, t)' = NewShape(q, t)
    BY DEF NewShape
  <1>2. \A w \in Wallets : Moves(q, w)' = Moves(q, w)
    BY <1>1 DEF Moves
  <1>3. MovedWallets(q)' = MovedWallets(q)
    BY <1>2 DEF MovedWallets
  <1>4. MovedWallets(q) \subseteq Wallets
    BY DEF MovedWallets
  <1>5. CASE req[q].op = "walletDelete"
    <2>1. /\ LockSet(q) = {w \in Wallets : walletLive[w]}
          /\ LockSet(q)' = {w \in Wallets : walletLive'[w]}
      BY <1>5 DEF LockSet
    <2>2. QED
      BY <1>3, <2>1 DEF ToLock
  <1>6. CASE req[q].op = "walletCurrency"
    <2>1. req[q].wallet \in Wallets
      BY <1>6, RequestType DEF TypeOK
    <2>2. LockSet(q) = {req[q].wallet} /\ LockSet(q)' = {req[q].wallet}
      BY <1>6 DEF LockSet
    <2>3. QED
      BY <1>3, <2>1, <2>2 DEF ToLock
  <1>7. CASE req[q].op \notin WalletOps
    BY <1>3, <1>4, <1>7 DEF ToLock, LockSet, WalletOps
  <1>8. QED
    BY <1>3, <1>5, <1>6, <1>7 DEF WalletOps

(* A request that ends and deletes no wallet of another keeps the locks.   *)
LEMMA EndKeepsLocks ==
    ASSUME TypeOK, LocksInv, NEW p \in Sessions, End(p),
           \A q \in Sessions \ {p} :
              /\ pc'[q] = pc[q] /\ req'[q] = req[q] /\ old'[q] = old[q]
              /\ walletsHeld'[q] = walletsHeld[q],
           \A w \in Wallets : walletLive'[w] => walletLive[w],
           \A q \in Sessions \ {p} : \A w \in walletsHeld[q] : walletLive'[w]
    PROVE  LocksInv'
  <1>1. pc'[p] = "idle" /\ walletsHeld'[p] = {}
    BY DEF End, TypeOK
  <1>2. \A q \in Sessions \ {p} : MovedWallets(q)' = MovedWallets(q) /\ ToLock(q)' \subseteq ToLock(q)
    BY LeftToLock
  <1>3. WalletLocksApart' /\ LockedAreLive'
    BY <1>1 DEF LocksInv, WalletLocksApart, LockedAreLive
  <1>4. LocksAscending'
    BY <1>1, <1>2 DEF LocksInv, LocksAscending
  <1>5. LockedAll'
    BY <1>1, <1>2 DEF LocksInv, LockedAll
  <1>6. QED
    BY <1>3, <1>4, <1>5 DEF LocksInv

(* A step that locks no wallet and changes no row of the database keeps the *)
(* invariant if it does for the session that takes it.                      *)
LEMMA StandKeepsWards ==
    ASSUME TypeOK, WardInv, NEW p \in Sessions, UNCHANGED <<db, walletsHeld>>,
           \A q \in Sessions \ {p} : pc'[q] = pc[q] /\ req'[q] = req[q] /\ old'[q] = old[q],
           pc'[p] \in BeforeLocking \cup {"lock"} \/ req'[p].op = "workspaceCurrency" =>
              walletsHeld[p] = {},
           pc'[p] \in {"ensure", "find", "lock"} =>
              req'[p].op \notin {"workspaceCurrency", "convert"},
           /\ pc'[p] \in {"write", "commit"} /\ req'[p].op \in {"create", "update"} =>
                 MovedWallets(p)' \subseteq walletsHeld[p]
           /\ pc'[p] = "write" => req'[p].op \notin WalletOps
           /\ pc'[p] \in {"check", "commit"} /\ req'[p].op \in WalletOps =>
                 req'[p].wallet \in walletsHeld[p],
           pc'[p] = "commit" /\ req'[p].op \in WalletOps => MayChangeWallet(p)'
    PROVE  WardInv'
  <1>1. \A q \in Sessions \ {p} : MovedWallets(q)' = MovedWallets(q) /\ ToLock(q)' \subseteq ToLock(q)
    BY LeftToLock DEF db
  <1>2. WalletLocksApart' /\ LockedAreLive'
    BY DEF WardInv, LocksInv, WalletLocksApart, LockedAreLive, db
  <1>3. LocksAscending'
    BY <1>1 DEF WardInv, LocksInv, LocksAscending
  <1>4. LockedAll'
    BY <1>1 DEF WardInv, LocksInv, LockedAll
  <1>5. \A q \in Sessions \ {p} : MayChangeWallet(q)' <=> MayChangeWallet(q)
    BY DEF MayChangeWallet, HasLiveRows, db
  <1>6. CheckHolds'
    BY <1>5 DEF WardInv, CheckHolds
  <1>7. NoLiveRowOnDeletedWallet'
    BY DEF WardInv, NoLiveRowOnDeletedWallet, db
  <1>8. QED
    BY <1>2, <1>3, <1>4, <1>6, <1>7 DEF WardInv, LocksInv

(* Statements that lock no wallet. *)
LEMMA StatementKeepsWards ==
    ASSUME TypeOK, WardInv, NEW p \in Sessions,
           \/ Begin(p) \/ Prepare(p) \/ EnsureCurrency(p) \/ Find(p) \/ WalletsLocked(p)
           \/ CheckWallet(p) \/ CheckWorkspace(p) \/ LockWorkspace(p) \/ WriteRow(p) \/ RowsWritten(p)
    PROVE  WardInv'
  <1>1. \A q \in Sessions \ {p} : pc'[q] = pc[q] /\ req'[q] = req[q] /\ old'[q] = old[q]
    BY OthersStand DEF Proceed
  <1>2. UNCHANGED <<db, walletsHeld>>
    BY DEF Begin, Prepare, EnsureCurrency, Find, WalletsLocked, CheckWallet, CheckWorkspace,
           LockWorkspace, WriteRow, RowsWritten, locks
  <1>3. /\ pc[p] \in BeforeLocking \/ req[p].op = "workspaceCurrency" => walletsHeld[p] = {}
        /\ pc[p] \in {"write", "commit"} /\ req[p].op \in {"create", "update"} =>
              MovedWallets(p) \subseteq walletsHeld[p]
        /\ pc[p] = "write" => req[p].op \notin WalletOps
        /\ pc[p] \in {"check", "commit"} /\ req[p].op \in WalletOps => req[p].wallet \in walletsHeld[p]
    BY DEF WardInv, LocksInv, LocksAscending, LockedAll
  <1> DEFINE Suits(at) ==
                 /\ at \in BeforeLocking \cup {"lock"} \/ req'[p].op = "workspaceCurrency" =>
                       walletsHeld[p] = {}
                 /\ at \in {"ensure", "find", "lock"} =>
                       req'[p].op \notin {"workspaceCurrency", "convert"}
                 /\ /\ at \in {"write", "commit"} /\ req'[p].op \in {"create", "update"} =>
                          MovedWallets(p)' \subseteq walletsHeld[p]
                    /\ at = "write" => req'[p].op \notin WalletOps
                    /\ at \in {"check", "commit"} /\ req'[p].op \in WalletOps =>
                          req'[p].wallet \in walletsHeld[p]
                 /\ at = "commit" /\ req'[p].op \in WalletOps => MayChangeWallet(p)'
  <1>4. ASSUME Suits(pc'[p]) PROVE WardInv'
    BY <1>1, <1>2, <1>4, StandKeepsWards
  <1>5. CASE Begin(p)
    <2>1. PICK r \in Requests : /\ pc' = [pc EXCEPT ![p] = FirstStep(r.op)]
                                /\ req' = [req EXCEPT ![p] = r] /\ pc[p] = "idle"
      BY <1>5 DEF Begin
    <2>2. r.op \in AllOps
      BY OpsAssumption DEF Requests, RowRequests, OtherRequests, AllOps
    <2>3. pc'[p] = FirstStep(r.op) /\ req'[p] = r
      BY <2>1 DEF TypeOK
    <2>4. /\ FirstStep(r.op) \in {"prepare", "find", "lock", "check", "lockWs"}
          /\ FirstStep(r.op) \in {"find", "lock"} => r.op \notin {"workspaceCurrency", "convert"}
          /\ FirstStep(r.op) = "check" => r.op \notin WalletOps
      BY <2>2 DEF AllOps, FirstStep, WalletOps
    <2>5. Suits(pc'[p])
      BY <1>3, <2>1, <2>3, <2>4 DEF BeforeLocking
    <2>6. QED
      BY <1>4, <2>5
  <1>6. CASE Prepare(p) \/ EnsureCurrency(p) \/ Find(p)
    <2>1. pc'[p] \in {"ensure", "find", "lock"} /\ pc[p] \in BeforeLocking
      BY <1>6 DEF Prepare, EnsureCurrency, Find, TypeOK, BeforeLocking
    <2>2. req'[p] = req[p] /\ req[p].op \notin {"workspaceCurrency", "convert"}
      BY <1>6 DEF Prepare, EnsureCurrency, Find, TypeOK, WardInv, LocksInv, LocksAscending
    <2>4. Suits(pc'[p])
      BY <1>3, <2>1, <2>2
    <2>3. QED
      BY <1>4, <2>4
  <1> SUFFICES ASSUME \/ WalletsLocked(p) \/ CheckWallet(p) \/ CheckWorkspace(p) \/ LockWorkspace(p)
                      \/ WriteRow(p) \/ RowsWritten(p)
               PROVE  WardInv'
    BY <1>5, <1>6
  <1>7. req' = req /\ old' = old /\ UNCHANGED <<walletLive, walletCurrency, status, shape>>
    BY <1>2 DEF WalletsLocked, CheckWallet, CheckWorkspace, LockWorkspace, WriteRow, RowsWritten, snap, db
  <1>8. MovedWallets(p)' = MovedWallets(p)
    BY <1>2, <1>7, LeftToLock
  <1>9. MayChangeWallet(p)' <=> MayChangeWallet(p)
    BY <1>7 DEF MayChangeWallet, HasLiveRows
  <1>10. CASE WalletsLocked(p)
    <2>1. /\ pc'[p] \in {"check", "write"}
          /\ pc'[p] = "check" <=> req[p].op \in WalletOps
          /\ walletsHeld[p] = LockSet(p)
          /\ req[p].op = "walletDelete" => walletLive[req[p].wallet]
      BY <1>10 DEF WalletsLocked, TypeOK, WalletOps
    <2>2. req[p].op \in {"create", "update"} => LockSet(p) = MovedWallets(p)
      BY DEF LockSet
    <2>3. req[p].op = "walletCurrency" => LockSet(p) = {req[p].wallet}
      BY DEF LockSet
    <2>4. req[p].op = "walletDelete" => req[p].wallet \in LockSet(p)
      BY <2>1, RequestType DEF LockSet, TypeOK
    <2>5. Suits(pc'[p])
      BY <1>3, <1>7, <1>8, <2>1, <2>2, <2>3, <2>4 DEF WalletOps, BeforeLocking
    <2>6. QED
      BY <1>4, <2>5
  <1>11. CASE CheckWallet(p)
    <2>1. pc[p] = "check" /\ pc'[p] = "commit" /\ MayChangeWallet(p) /\ req[p].op \in WalletOps
      BY <1>11 DEF CheckWallet, TypeOK, MayChangeWallet, WalletOps
    <2>2. Suits(pc'[p])
      BY <1>3, <1>7, <1>9, <2>1 DEF BeforeLocking, WalletOps
    <2>3. QED
      BY <1>4, <2>2
  <1>12. CASE CheckWorkspace(p)
    <2>1. pc[p] = "check" /\ pc'[p] = "lockWs"
      BY <1>12 DEF CheckWorkspace, TypeOK
    <2>2. walletsHeld[p] = {}
      BY <1>12 DEF CheckWorkspace, WardInv, LocksInv, LocksAscending
    <2>3. Suits(pc'[p])
      BY <1>7, <2>1, <2>2 DEF BeforeLocking
    <2>4. QED
      BY <1>4, <2>3
  <1>13. CASE LockWorkspace(p)
    <2>1. /\ pc[p] = "lockWs" /\ pc'[p] \in {"write", "commit"}
          /\ req[p].op \in {"workspaceCurrency", "convert"}
      BY <1>13 DEF LockWorkspace, TypeOK
    <2>2. Suits(pc'[p])
      BY <1>3, <1>7, <2>1 DEF BeforeLocking, WalletOps
    <2>3. QED
      BY <1>4, <2>2
  <1>14. CASE WriteRow(p)
    <2>1. pc[p] = "write" /\ pc'[p] = "write"
      BY <1>14 DEF WriteRow, TypeOK
    <2>2. Suits(pc'[p])
      BY <1>3, <1>7, <1>8, <2>1 DEF BeforeLocking
    <2>3. QED
      BY <1>4, <2>2
  <1>15. CASE RowsWritten(p)
    <2>1. pc[p] = "write" /\ pc'[p] = "commit"
      BY <1>15 DEF RowsWritten, TypeOK
    <2>2. Suits(pc'[p])
      BY <1>3, <1>7, <1>8, <2>1 DEF BeforeLocking
    <2>3. QED
      BY <1>4, <2>2
  <1>16. QED
    BY <1>10, <1>11, <1>12, <1>13, <1>14, <1>15
(* Locking the next wallet. *)
LEMMA LockingKeepsWards ==
    ASSUME TypeOK, WardInv, NEW p \in Sessions, LockWallet(p)
    PROVE  WardInv'
  <1>1. PICK w \in Wallets : /\ IsNextWallet(p, w) /\ WalletFree(p, w)
                             /\ walletsHeld' = [walletsHeld EXCEPT ![p] = @ \cup {w}]
    BY DEF LockWallet
  <1>2. /\ pc[p] = "lock"
        /\ UNCHANGED <<walletLive, walletCurrency, status, shape, pc, req, old>>
    BY DEF LockWallet, db, snap
  <1>3. /\ walletsHeld'[p] = walletsHeld[p] \cup {w}
        /\ \A q \in Sessions \ {p} : walletsHeld'[q] = walletsHeld[q]
    BY <1>1 DEF TypeOK
  <1>4. \A q \in Sessions : MovedWallets(q)' = MovedWallets(q) /\ ToLock(q)' \subseteq ToLock(q)
    BY <1>2, <1>3, LeftToLock
  <1>5. w \in ToLock(p) /\ walletLive[w] /\ \A v \in ToLock(p) : w <= v
    BY <1>1 DEF IsNextWallet, ToLock
  <1>6. w \notin ToLock(p)'
    BY <1>3 DEF ToLock
  <1>7. WalletLocksApart'
    BY <1>1, <1>3 DEF WardInv, LocksInv, WalletLocksApart, WalletFree, Others
  <1>8. LockedAreLive'
    BY <1>2, <1>3, <1>5 DEF WardInv, LocksInv, LockedAreLive
  <1>9. ASSUME NEW v \in walletsHeld'[p], NEW x \in ToLock(p)' PROVE v < x
    <2>1. x \in ToLock(p) /\ x # w /\ w <= x
      BY <1>4, <1>5, <1>6
    <2>2. w \in Nat /\ x \in Nat
      <3>1. ToLock(p) \subseteq Wallets
        BY RequestType DEF ToLock, LockSet, MovedWallets, TypeOK
      <3>2. QED
        BY <2>1, <3>1, WalletsAssumption
    <2>3. v = w \/ v < x
      BY <1>2, <1>3, <2>1 DEF WardInv, LocksInv, LocksAscending
    <2>4. QED
      BY <2>1, <2>2, <2>3
  <1>10. req[p].op # "workspaceCurrency"
    BY <1>2 DEF WardInv, LocksInv, LocksAscending
  <1>11. LocksAscending'
    BY <1>2, <1>3, <1>4, <1>9, <1>10 DEF WardInv, LocksInv, LocksAscending, BeforeLocking
  <1>12. LockedAll'
    BY <1>2, <1>3, <1>4 DEF WardInv, LocksInv, LockedAll
  <1>13. \A q \in Sessions : MayChangeWallet(q)' <=> MayChangeWallet(q)
    BY <1>2 DEF MayChangeWallet, HasLiveRows
  <1>14. CheckHolds'
    BY <1>2, <1>13 DEF WardInv, CheckHolds
  <1>15. NoLiveRowOnDeletedWallet'
    BY <1>2 DEF WardInv, NoLiveRowOnDeletedWallet
  <1>16. QED
    BY <1>7, <1>8, <1>11, <1>12, <1>14, <1>15 DEF WardInv, LocksInv

(* A request that ends keeps the invariant, if what it leaves in the       *)
(* database suits the wallets the others have locked.                      *)
LEMMA EndKeepsWards ==
    ASSUME TypeOK, WardInv, NEW p \in Sessions, End(p), Proceed(p) \/ Disconnect(p),
           \A w \in Wallets : walletLive'[w] => walletLive[w],
           \A q \in Sessions \ {p} : \A w \in walletsHeld[q] : walletLive'[w],
           \A q \in Sessions \ {p} :
              MayChangeWallet(q) /\ req[q].wallet \in walletsHeld[q] => MayChangeWallet(q)',
           NoLiveRowOnDeletedWallet'
    PROVE  WardInv'
  <1>1. \A q \in Sessions \ {p} :
            /\ pc'[q] = pc[q] /\ req'[q] = req[q] /\ old'[q] = old[q]
            /\ walletsHeld'[q] = walletsHeld[q]
    BY OthersStand
  <1>2. LocksInv'
    BY <1>1, EndKeepsLocks DEF WardInv
  <1>3. pc'[p] = "idle"
    BY DEF End, TypeOK
  <1>4. \A q \in Sessions :
            pc[q] = "commit" /\ req[q].op \in WalletOps =>
                MayChangeWallet(q) /\ req[q].wallet \in walletsHeld[q]
    BY DEF WardInv, LocksInv, LockedAll, CheckHolds
  <1>5. ASSUME NEW q \in Sessions, pc'[q] = "commit", req'[q].op \in WalletOps
        PROVE  MayChangeWallet(q)'
    <2>1. q # p
      BY <1>3, <1>5
    <2>2. pc[q] = "commit" /\ req[q].op \in WalletOps
      BY <1>1, <1>5, <2>1
    <2>3. QED
      BY <1>4, <2>1, <2>2
  <1>6. CheckHolds'
    BY <1>5 DEF CheckHolds
  <1>7. QED
    BY <1>2, <1>6 DEF WardInv

(* A request that ends without a change of wallets or rows. *)
LEMMA PlainEndKeepsWards ==
    ASSUME TypeOK, WardInv, NEW p \in Sessions,
           \/ Refuse(p) \/ DeadlockVictim(p) \/ Disconnect(p)
           \/ CommitWorkspaceCurrency(p) \/ CommitConvert(p)
    PROVE  WardInv'
  <1>1. Proceed(p) \/ Disconnect(p)
    BY DEF Proceed, Commit
  <1>2. End(p) /\ UNCHANGED <<walletLive, walletCurrency, status, shape>>
    BY DEF Refuse, DeadlockVictim, Disconnect, CommitWorkspaceCurrency, CommitConvert, Ready, db
  <1>3. \A q \in Sessions \ {p} : req'[q] = req[q]
    BY <1>1, OthersStand
  <1>4. \A q \in Sessions \ {p} : MayChangeWallet(q) => MayChangeWallet(q)'
    BY <1>2, <1>3 DEF MayChangeWallet, HasLiveRows
  <1>5. NoLiveRowOnDeletedWallet'
    BY <1>2 DEF WardInv, NoLiveRowOnDeletedWallet
  <1>6. \A q \in Sessions : \A w \in walletsHeld[q] : walletLive'[w]
    BY <1>2 DEF WardInv, LocksInv, LockedAreLive
  <1>7. QED
    BY <1>1, <1>2, <1>4, <1>5, <1>6, EndKeepsWards

(* Deleting rows frees wallets and takes none. *)
LEMMA CommitDeleteKeepsWards ==
    ASSUME TypeOK, WardInv, NEW p \in Sessions, CommitDelete(p)
    PROVE  WardInv'
  <1>1. Proceed(p) \/ Disconnect(p)
    BY DEF Proceed, Commit
  <1>2. End(p) /\ UNCHANGED <<walletLive, walletCurrency, shape>>
    BY DEF CommitDelete, Ready
  <1>3. \A t \in Transactions : status'[t] = "live" => status[t] = "live"
    BY DEF CommitDelete
  <1>4. \A q \in Sessions \ {p} : req'[q] = req[q]
    BY <1>1, OthersStand
  <1>5. \A q \in Sessions \ {p} : MayChangeWallet(q) => MayChangeWallet(q)'
    BY <1>2, <1>3, <1>4 DEF MayChangeWallet, HasLiveRows
  <1>6. NoLiveRowOnDeletedWallet'
    BY <1>2, <1>3 DEF WardInv, NoLiveRowOnDeletedWallet
  <1>7. \A q \in Sessions : \A w \in walletsHeld[q] : walletLive'[w]
    BY <1>2 DEF WardInv, LocksInv, LockedAreLive
  <1>8. QED
    BY <1>1, <1>2, <1>5, <1>6, <1>7, EndKeepsWards

(* A wallet that is deleted or changes its currency is locked by the       *)
(* request that does it, and has been checked under that lock.             *)
LEMMA CommitWalletKeepsWards ==
    ASSUME TypeOK, WardInv, NEW p \in Sessions, CommitWalletCurrency(p) \/ CommitWalletDelete(p)
    PROVE  WardInv'
  <1> DEFINE gone == req[p].wallet
  <1>1. Proceed(p) \/ Disconnect(p)
    BY DEF Proceed, Commit
  <1>2. End(p) /\ UNCHANGED <<status, shape>>
    BY DEF CommitWalletCurrency, CommitWalletDelete, Ready
  <1>3. /\ \A w \in Wallets \ {gone} : walletLive'[w] = walletLive[w] /\ walletCurrency'[w] = walletCurrency[w]
        /\ \A w \in Wallets : walletLive'[w] => walletLive[w]
        /\ CommitWalletCurrency(p) => walletLive' = walletLive
    BY DEF CommitWalletCurrency, CommitWalletDelete, TypeOK
  <1>4. gone \in walletsHeld[p] /\ MayChangeWallet(p)
    BY DEF CommitWalletCurrency, CommitWalletDelete, Ready, WardInv, LocksInv, LockedAll, CheckHolds, WalletOps
  <1>5. \A q \in Sessions \ {p} : gone \notin walletsHeld[q] /\ walletsHeld[q] \subseteq Wallets
    BY <1>4 DEF WardInv, LocksInv, WalletLocksApart, TypeOK
  <1>6. \A q \in Sessions \ {p} : \A w \in walletsHeld[q] : walletLive'[w]
    BY <1>3, <1>5 DEF WardInv, LocksInv, LockedAreLive
  <1>7. \A q \in Sessions \ {p} : req'[q] = req[q]
    BY <1>1, OthersStand
  <1>8. ASSUME NEW q \in Sessions \ {p}, MayChangeWallet(q), req[q].wallet \in walletsHeld[q]
        PROVE  MayChangeWallet(q)'
    <2>1. req[q].wallet \in Wallets \ {gone}
      BY <1>5, <1>8
    <2>2. walletCurrency'[req[q].wallet] = walletCurrency[req[q].wallet]
      BY <1>3, <2>1
    <2>3. QED
      BY <1>2, <1>7, <1>8, <2>2 DEF MayChangeWallet, HasLiveRows
  <1>9. NoLiveRowOnDeletedWallet'
    <2> SUFFICES ASSUME NEW t \in Transactions, status[t] = "live", NEW w \in WalletsOf(shape[t])
                 PROVE  walletLive'[w]
      BY <1>2 DEF NoLiveRowOnDeletedWallet
    <2>1. walletLive[w]
      BY DEF WardInv, NoLiveRowOnDeletedWallet
    <2>2. CASE CommitWalletCurrency(p)
      BY <1>3, <2>1, <2>2
    <2>3. CASE CommitWalletDelete(p)
      <3>1. ~HasLiveRows(gone)
        BY <1>4, <2>3 DEF MayChangeWallet, CommitWalletDelete, Ready
      <3>2. w # gone
        BY <3>1 DEF HasLiveRows
      <3>3. QED
        BY <2>1, <2>3, <3>2 DEF CommitWalletDelete, TypeOK
    <2>4. QED
      BY <2>2, <2>3
  <1>10. QED
    BY <1>1, <1>2, <1>3, <1>6, <1>8, <1>9, EndKeepsWards

(* A shape moves something on each wallet it names, and on no other. *)
LEMMA EffectOnNamed ==
    /\ \A s \in ValidShapes : \A w \in WalletsOf(s) : w \in Wallets /\ EffectOn(s, w) # 0
    /\ \A s \in MaybeShape : \A w \in Wallets \ WalletsOf(s) : EffectOn(s, w) = 0
  <1>1. ASSUME NEW s \in ValidShapes, NEW w \in WalletsOf(s)
        PROVE  w \in Wallets /\ EffectOn(s, w) # 0
    <2>1. CASE s \in Entries
      <3>1. w = s.wallet /\ w \in Wallets /\ s.amount \in Nat \ {0} /\ s.kind \in {"income", "expense"}
        BY <2>1, AmountsAssumption DEF Entries, WalletsOf
      <3>2. QED
        BY <3>1 DEF EffectOn
    <2>2. CASE s \in Transfers
      <3>1. /\ w \in {s.wallet, s.to} /\ s.wallet \in Wallets /\ s.to \in Wallets /\ s.to # s.wallet
            /\ s.amount \in Nat \ {0} /\ s.toAmount \in Nat \ {0} /\ s.kind = "transfer"
        BY <2>2, AmountsAssumption DEF Transfers, WalletsOf
      <3>2. CASE w = s.wallet
        <4>1. EffectOn(s, w) = -s.amount
          BY <3>1, <3>2 DEF EffectOn
        <4>2. QED
          BY <3>1, <3>2, <4>1
      <3>3. CASE w = s.to
        <4>1. EffectOn(s, w) = s.toAmount
          BY <3>1, <3>3 DEF EffectOn
        <4>2. QED
          BY <3>1, <3>3, <4>1
      <3>4. QED
        BY <3>1, <3>2, <3>3
    <2>3. QED
      BY <2>1, <2>2 DEF ValidShapes
  <1>2. ASSUME NEW s \in MaybeShape, NEW w \in Wallets \ WalletsOf(s)
        PROVE  EffectOn(s, w) = 0
    <2>1. w # NoWallet /\ w # s.wallet /\ w # s.to
      BY WalletsAssumption DEF WalletsOf, NoWallet
    <2>2. QED
      BY <2>1 DEF EffectOn
  <1>3. QED
    BY <1>1, <1>2

(* A wallet that a written row names is locked, or was named by the row    *)
(* before: the write moved the balance of no other.                        *)
LEMMA NamedIsLockedOrOld ==
    ASSUME LedgerInv, WardInv, IsFiniteSet(Transactions), NEW p \in Sessions, pc[p] = "commit",
           req[p].op \in {"create", "update"}, NEW r \in Transactions, req[p].rows = {r},
           NEW w \in WalletsOf(req[p].shape)
    PROVE  /\ w \in Wallets
           /\ w \in walletsHeld[p] \/ (status[r] = "live" /\ w \in WalletsOf(shape[r]))
  <1>1. req[p].shape \in ValidShapes
    <2>1. req[p] \in Requests \cup {NoRequest}
      BY DEF LedgerInv, TypeOK
    <2>2. QED
      BY <2>1, RequestType
  <1>2. w \in Wallets /\ EffectOn(req[p].shape, w) # 0
    BY <1>1, EffectOnNamed
  <1>3. \A t \in Transactions : old[p][t] = IF req[p].op = "update" /\ t = r THEN LiveShape(t) ELSE NoShape
    <2>1. CASE req[p].op = "create"
      BY <2>1 DEF LedgerInv, SessionInv, OldNothing, Nothing
    <2>2. CASE req[p].op = "update"
      BY <2>2 DEF LedgerInv, SessionInv, OldCurrent, RowWrites
    <2>3. QED
      BY <2>1, <2>2
  <1>4. \A t \in Transactions : NewShape(p, t) = IF t = r THEN req[p].shape ELSE NoShape
    BY DEF NewShape
  <1>5. /\ EffectOn(NoShape, w) = 0
        /\ EffectOn(req[p].shape, w) \in Int
        /\ EffectOn(old[p][r], w) \in Int
    <2>1. req[p].shape \in MaybeShape /\ old[p][r] \in MaybeShape
      BY <1>1 DEF LedgerInv, TypeOK, MaybeShape
    <2>2. QED
      BY <1>2, <2>1, EffectType, EffectOfNothing
  <1>6. /\ Moves(p, w) \in [Transactions -> Int]
        /\ Moves(p, w)[r] = EffectOn(req[p].shape, w) - EffectOn(old[p][r], w)
        /\ \A t \in Transactions : t # r => Moves(p, w)[t] = 0
    <2>1. \A t \in Transactions :
              EffectOn(NewShape(p, t), w) - EffectOn(old[p][t], w) =
                  IF t = r THEN EffectOn(req[p].shape, w) - EffectOn(old[p][r], w) ELSE 0
      BY <1>3, <1>4, <1>5
    <2>2. QED
      BY <1>5, <2>1 DEF Moves
  <1>7. Total(Moves(p, w)) = Moves(p, w)[r]
    BY <1>6, TotalOfOne
  <1>8. CASE w \in MovedWallets(p)
    BY <1>2, <1>8 DEF WardInv, LocksInv, LockedAll
  <1>9. CASE w \notin MovedWallets(p)
    <2>1. Total(Moves(p, w)) = 0
      BY <1>2, <1>9 DEF MovedWallets
    <2>2. EffectOn(old[p][r], w) # 0
      BY <1>2, <1>5, <1>6, <1>7, <2>1
    <2>3. req[p].op = "update" /\ old[p][r] = LiveShape(r)
      BY <1>3, <1>5, <2>2
    <2>4. status[r] = "live" /\ old[p][r] = shape[r]
      BY <1>5, <2>2, <2>3 DEF LiveShape
    <2>5. w \in WalletsOf(shape[r])
      BY <1>2, <2>2, <2>4, EffectOnNamed DEF LedgerInv, TypeOK
    <2>6. QED
      BY <1>2, <2>4, <2>5
  <1>10. QED
    BY <1>8, <1>9

(* A row is written on wallets that are there and stay. *)
LEMMA CommitRowKeepsWards ==
    ASSUME LedgerInv, WardInv, IsFiniteSet(Transactions), NEW p \in Sessions, CommitRow(p)
    PROVE  WardInv'
  <1>1. TypeOK /\ (Proceed(p) \/ Disconnect(p))
    BY DEF LedgerInv, Proceed, Commit
  <1>2. /\ End(p) /\ UNCHANGED <<walletLive, walletCurrency>>
        /\ pc[p] = "commit" /\ req[p].op \in {"create", "update"}
    BY DEF CommitRow, Ready
  <1>3. PICK r \in Transactions : req[p].rows = {r}
    <2>1. req[p] \in Requests \cup {NoRequest}
      BY <1>1 DEF TypeOK
    <2>2. QED
      BY <1>2, <2>1, RequestType
  <1>4. /\ status' = [status EXCEPT ![r] = "live"]
        /\ shape' = [shape EXCEPT ![r] = req[p].shape]
    BY <1>3 DEF CommitRow
  <1>5. /\ shape'[r] = req[p].shape
        /\ \A t \in Transactions \ {r} : status'[t] = status[t] /\ shape'[t] = shape[t]
    BY <1>1, <1>4 DEF TypeOK
  <1>6. \A w \in WalletsOf(req[p].shape) : w \in Wallets /\ (w \in walletsHeld[p] \/ HasLiveRows(w))
    BY <1>2, <1>3, NamedIsLockedOrOld DEF HasLiveRows
  <1>7. \A w \in Wallets : HasLiveRows(w)' => HasLiveRows(w) \/ w \in walletsHeld[p]
    <2> SUFFICES ASSUME NEW w \in Wallets, NEW t \in Transactions, status'[t] = "live", w \in WalletsOf(shape'[t])
                 PROVE  HasLiveRows(w) \/ w \in walletsHeld[p]
      BY DEF HasLiveRows
    <2>1. CASE t = r
      BY <1>5, <1>6, <2>1
    <2>2. CASE t # r
      BY <1>5, <2>2 DEF HasLiveRows
    <2>3. QED
      BY <2>1, <2>2
  <1>8. NoLiveRowOnDeletedWallet'
    <2> SUFFICES ASSUME NEW t \in Transactions, status'[t] = "live", NEW w \in WalletsOf(shape'[t])
                 PROVE  walletLive[w]
      BY <1>2 DEF NoLiveRowOnDeletedWallet
    <2>1. HasLiveRows(w) => walletLive[w]
      BY DEF HasLiveRows, WardInv, NoLiveRowOnDeletedWallet
    <2>2. CASE t = r
      <3>1. w \in walletsHeld[p] \/ HasLiveRows(w)
        BY <1>5, <1>6, <2>2
      <3>2. QED
        BY <2>1, <3>1 DEF WardInv, LocksInv, LockedAreLive
    <2>3. CASE t # r
      <3>1. HasLiveRows(w)
        BY <1>5, <2>3 DEF HasLiveRows
      <3>2. QED
        BY <2>1, <3>1
    <2>4. QED
      BY <2>2, <2>3
  <1>9. \A q \in Sessions \ {p} : req'[q] = req[q]
    BY <1>1, OthersStand
  <1>10. ASSUME NEW q \in Sessions \ {p}, MayChangeWallet(q), req[q].wallet \in walletsHeld[q]
         PROVE  MayChangeWallet(q)'
    <2>1. req[q].wallet \in Wallets /\ req[q].wallet \notin walletsHeld[p]
      BY <1>1, <1>10 DEF WardInv, LocksInv, WalletLocksApart, TypeOK
    <2>2. HasLiveRows(req[q].wallet)' => HasLiveRows(req[q].wallet)
      <3>1. HasLiveRows(req[q].wallet)' <=>
               \E t \in Transactions : status'[t] = "live" /\ req[q].wallet \in WalletsOf(shape'[t])
        BY <1>9 DEF HasLiveRows
      <3>2. QED
        BY <1>7, <2>1, <3>1 DEF HasLiveRows
    <2>3. QED
      BY <1>2, <1>9, <1>10, <2>2 DEF MayChangeWallet
  <1>11. \A q \in Sessions : \A w \in walletsHeld[q] : walletLive'[w]
    BY <1>2 DEF WardInv, LocksInv, LockedAreLive
  <1>12. QED
    BY <1>1, <1>2, <1>8, <1>10, <1>11, EndKeepsWards

(* The wards of the wallets. *)
THEOREM WardInvariant ==
    ASSUME SharedRows = {}, IsFiniteSet(Transactions)
    PROVE  Spec => [](LedgerInv /\ WardInv)
  <1>1. Init => WardInv
    <2> SUFFICES ASSUME Init PROVE WardInv
      OBVIOUS
    <2>1. LocksInv
      BY DEF Init, LocksInv, WalletLocksApart, LockedAreLive, LocksAscending, LockedAll
    <2>2. CheckHolds /\ NoLiveRowOnDeletedWallet
      BY DEF Init, CheckHolds, NoLiveRowOnDeletedWallet
    <2>3. QED
      BY <2>1, <2>2 DEF WardInv
  <1>2. LedgerInv /\ WardInv /\ [Next]_vars => WardInv'
    <2> SUFFICES ASSUME LedgerInv, WardInv, [Next]_vars PROVE WardInv'
      OBVIOUS
    <2>1. TypeOK
      BY DEF LedgerInv
    <2>2. CASE UNCHANGED vars
      <3>1. UNCHANGED <<walletLive, walletCurrency, status, shape, pc, req, old, walletsHeld>>
        BY <2>2 DEF vars, db, snap, locks
      <3>2. \A q \in Sessions : MovedWallets(q)' = MovedWallets(q) /\ ToLock(q)' \subseteq ToLock(q)
        BY <2>1, <3>1, LeftToLock
      <3>3. LocksInv'
        BY <3>1, <3>2 DEF WardInv, LocksInv, WalletLocksApart, LockedAreLive, LocksAscending, LockedAll
      <3>4. CheckHolds' /\ NoLiveRowOnDeletedWallet'
        BY <3>1 DEF WardInv, CheckHolds, MayChangeWallet, HasLiveRows, NoLiveRowOnDeletedWallet
      <3>5. QED
        BY <3>3, <3>4 DEF WardInv
    <2>3. ASSUME NEW p \in Sessions, Begin(p) \/ Proceed(p) \/ Disconnect(p) PROVE WardInv'
      BY <2>1, <2>3, StatementKeepsWards, LockingKeepsWards, PlainEndKeepsWards, CommitRowKeepsWards,
         CommitDeleteKeepsWards, CommitWalletKeepsWards DEF Proceed, Commit
    <2>4. QED
      BY <2>2, <2>3 DEF Next
  <1>3. QED
    BY <1>1, <1>2, LedgerInvariant, PTL DEF Spec

(* No live transaction names a wallet that was deleted, whatever runs at   *)
(* once, unless two requests in flight name one row.                       *)
THEOREM LiveRowsHaveWallets ==
    ASSUME SharedRows = {}, IsFiniteSet(Transactions)
    PROVE  Spec => []NoLiveRowOnDeletedWallet
  <1>1. WardInv => NoLiveRowOnDeletedWallet
    BY DEF WardInv
  <1>2. QED
    BY <1>1, WardInvariant, PTL
(* A wallet changes its currency only while no live row names it, whatever *)
(* runs at once, unless two requests in flight name one row.               *)
THEOREM WalletCurrencyStays ==
    ASSUME SharedRows = {}, IsFiniteSet(Transactions)
    PROVE  Spec => WalletCurrencySettled
  <1>1. TypeOK /\ WardInv /\ [Next]_vars =>
            [\A w \in Wallets : walletCurrency'[w] # walletCurrency[w] => ~HasLiveRows(w)]_vars
    <2> SUFFICES ASSUME TypeOK, WardInv, NEW p \in Sessions, Begin(p) \/ Proceed(p) \/ Disconnect(p),
                        NEW w \in Wallets, walletCurrency'[w] # walletCurrency[w]
                 PROVE  ~HasLiveRows(w)
      BY DEF Next
    <2>1. CommitWalletCurrency(p)
      BY DEF Begin, Disconnect, Proceed, Prepare, EnsureCurrency, Find, LockWallet, WalletsLocked, CheckWallet,
             CheckWorkspace, LockWorkspace, WriteRow, RowsWritten, Commit, CommitRow, CommitDelete,
             CommitWalletDelete, CommitWorkspaceCurrency, CommitConvert, Refuse, DeadlockVictim, db
    <2>2. w = req[p].wallet /\ walletCurrency'[w] = req[p].currency
      BY <2>1 DEF CommitWalletCurrency, TypeOK
    <2>3. MayChangeWallet(p)
      BY <2>1 DEF WardInv, CheckHolds, CommitWalletCurrency, Ready, WalletOps
    <2>4. QED
      BY <2>2, <2>3 DEF MayChangeWallet
  <1>2. QED
    BY <1>1, WardInvariant, TypeCorrect, PTL DEF Spec, WalletCurrencySettled

(***************************************************************************)
(* Rows that were deleted.                                                 *)
(*                                                                         *)
(* A row is locked by one, nobody names the row of a create but the create *)
(* itself, and an update has locked its row, live, before it commits.      *)
(***************************************************************************)
RowLocksApart == \A p, q \in Sessions : p # q => rowsHeld[p] \cap rowsHeld[q] = {}

CreatesApart == \A p, q \in Sessions :
    p # q /\ req[p].op = "create" => req[p].rows \cap req[q].rows = {}

UpdateHolds == \A p \in Sessions :
    req[p].op = "update" /\ pc[p] = "commit" => req[p].rows \subseteq rowsHeld[p]

RowsInv == RowLocksApart /\ CreatesFresh /\ CreatesApart /\ HeldLive /\ UpdateHolds

(* A step that changes no row. *)
LEMMA StatementKeepsRows ==
    ASSUME TypeOK, RowsInv, NEW p \in Sessions, UNCHANGED status,
           \A q \in Sessions \ {p} : pc'[q] = pc[q] /\ req'[q] = req[q] /\ rowsHeld'[q] = rowsHeld[q],
           \/ req'[p] = req[p] /\ (pc'[p] # "commit" \/ pc[p] = "commit") /\ rowsHeld'[p] = rowsHeld[p]
           \/ RowsWritten(p)
           \/ WriteRow(p)
           \/ LockWorkspace(p)
           \/ CheckWallet(p)
    PROVE  RowsInv'
  <1>1. req'[p] = req[p]
    BY DEF RowsWritten, WriteRow, LockWorkspace, CheckWallet
  <1>2. CreatesFresh' /\ CreatesApart'
    BY <1>1 DEF RowsInv, CreatesFresh, CreatesApart
  <1>3. CASE WriteRow(p)
    <2>1. PICK t \in Targets(p) : RowFree(p, t) /\ rowsHeld' = [rowsHeld EXCEPT ![p] = @ \cup {t}]
      BY <1>3 DEF WriteRow
    <2>2. pc'[p] = "write" /\ rowsHeld'[p] = rowsHeld[p] \cup {t}
      BY <1>3, <2>1 DEF WriteRow, TypeOK
    <2>3. RowLocksApart'
      BY <2>1, <2>2 DEF RowsInv, RowLocksApart, RowFree, Others
    <2>4. req[p].op \in RowWrites => t \in req[p].rows /\ status[t] = "live"
      BY <2>1 DEF Targets, RowWrites
    <2>5. HeldLive' /\ UpdateHolds'
      BY <1>1, <2>2, <2>4 DEF RowsInv, HeldLive, UpdateHolds
    <2>6. QED
      BY <1>2, <2>3, <2>5 DEF RowsInv
  <1>4. CASE ~WriteRow(p)
    <2>1. rowsHeld'[p] = rowsHeld[p]
      BY <1>4 DEF RowsWritten, LockWorkspace, CheckWallet, locks
    <2>2. RowLocksApart' /\ HeldLive'
      BY <1>1, <2>1 DEF RowsInv, RowLocksApart, HeldLive
    <2>3. req[p].op = "update" /\ pc'[p] = "commit" => req[p].rows \subseteq rowsHeld[p]
      <3>1. CASE CheckWallet(p) \/ LockWorkspace(p)
        <4>1. req[p].op # "update"
          BY <3>1 DEF CheckWallet, MayChangeWallet, LockWorkspace, TypeOK
        <4>2. QED
          BY <4>1
      <3>2. CASE RowsWritten(p)
        BY <3>2 DEF RowsWritten
      <3>3. QED
        BY <1>4, <3>1, <3>2 DEF RowsInv, UpdateHolds
    <2>4. UpdateHolds'
      BY <1>1, <2>1, <2>3 DEF RowsInv, UpdateHolds
    <2>5. QED
      BY <1>2, <2>2, <2>4 DEF RowsInv
  <1>5. QED
    BY <1>3, <1>4

(* A request that ends changes rows that it has locked or created. *)
LEMMA EndKeepsRows ==
    ASSUME TypeOK, RowsInv, NEW p \in Sessions, End(p),
           \A q \in Sessions \ {p} : pc'[q] = pc[q] /\ req'[q] = req[q] /\ rowsHeld'[q] = rowsHeld[q],
           \A t \in Transactions :
              \/ status'[t] = status[t]
              \/ t \in rowsHeld[p] /\ req[p].op \in RowWrites
              \/ t \in req[p].rows /\ req[p].op = "create"
    PROVE  RowsInv'
  <1>1. pc'[p] = "idle" /\ req'[p] = NoRequest /\ rowsHeld'[p] = {}
    BY DEF End, TypeOK
  <1>2. \A q \in Sessions : req[q].rows \subseteq Transactions
    BY RequestType DEF TypeOK
  <1>3. NoRequest.op = "none" /\ NoRequest.rows = {}
    BY DEF NoRequest
  <1>4. \A q \in Sessions \ {p} : req[q].op = "create" => \A t \in req[q].rows : status'[t] = status[t]
    <2> SUFFICES ASSUME NEW q \in Sessions \ {p}, req[q].op = "create", NEW t \in req[q].rows
                 PROVE  status'[t] = status[t]
      OBVIOUS
    <2>1. t \notin req[p].rows
      BY DEF RowsInv, CreatesApart
    <2>2. req[p].op \in RowWrites => t \notin rowsHeld[p]
      BY <2>1 DEF RowsInv, HeldLive
    <2>3. QED
      BY <1>2, <2>1, <2>2
  <1>5. \A q \in Sessions \ {p} : req[q].op \in RowWrites => \A t \in rowsHeld[q] : status'[t] = status[t]
    <2> SUFFICES ASSUME NEW q \in Sessions \ {p}, req[q].op \in RowWrites, NEW t \in rowsHeld[q]
                 PROVE  status'[t] = status[t]
      OBVIOUS
    <2>1. t \in req[q].rows /\ t \in Transactions
      BY <1>2 DEF RowsInv, HeldLive
    <2>2. t \notin rowsHeld[p]
      BY DEF RowsInv, RowLocksApart
    <2>3. req[p].op = "create" => t \notin req[p].rows
      BY <2>1 DEF RowsInv, CreatesApart
    <2>4. QED
      BY <2>1, <2>2, <2>3
  <1>6. RowLocksApart' /\ UpdateHolds' /\ CreatesApart'
    BY <1>1, <1>3 DEF RowsInv, RowLocksApart, UpdateHolds, CreatesApart
  <1>7. CreatesFresh' /\ HeldLive'
    BY <1>1, <1>3, <1>4, <1>5 DEF RowsInv, CreatesFresh, HeldLive, RowWrites
  <1>8. QED
    BY <1>6, <1>7 DEF RowsInv

(* The row of a create or an update, when it is written. *)
LEMMA RowIsFreshOrHeld ==
    ASSUME TypeOK, RowsInv, NEW p \in Sessions, CommitRow(p)
    PROVE  \E r \in Transactions :
              /\ req[p].rows = {r}
              /\ status' = [status EXCEPT ![r] = "live"]
              /\ shape' = [shape EXCEPT ![r] = req[p].shape]
              /\ status[r] \in {"absent", "live"}
              /\ req[p].op = "create" \/ (req[p].op = "update" /\ r \in rowsHeld[p])
  <1>1. pc[p] = "commit" /\ req[p].op \in {"create", "update"}
    BY DEF CommitRow, Ready
  <1>2. PICK r \in Transactions : req[p].rows = {r}
    <2>1. req[p] \in Requests \cup {NoRequest}
      BY DEF TypeOK
    <2>2. QED
      BY <1>1, <2>1, RequestType
  <1>3. status' = [status EXCEPT ![r] = "live"] /\ shape' = [shape EXCEPT ![r] = req[p].shape]
    BY <1>2 DEF CommitRow
  <1>4. CASE req[p].op = "create"
    BY <1>2, <1>3, <1>4 DEF RowsInv, CreatesFresh
  <1>5. CASE req[p].op = "update"
    <2>1. r \in rowsHeld[p]
      BY <1>1, <1>2, <1>5 DEF RowsInv, UpdateHolds
    <2>2. status[r] = "live"
      BY <1>5, <2>1 DEF RowsInv, HeldLive, RowWrites
    <2>3. QED
      BY <1>2, <1>3, <1>5, <2>1, <2>2
  <1>6. QED
    BY <1>1, <1>4, <1>5

(* Who has locked and who may write a row. *)
THEOREM RowsInvariant == Spec => []RowsInv
  <1>1. Init => RowsInv
    BY DEF Init, RowsInv, RowLocksApart, CreatesFresh, CreatesApart, HeldLive, UpdateHolds, NoRequest, RowWrites
  <1>2. TypeOK /\ RowsInv /\ [Next]_vars => RowsInv'
    <2> SUFFICES ASSUME TypeOK, RowsInv, [Next]_vars PROVE RowsInv'
      OBVIOUS
    <2>1. CASE UNCHANGED vars
      BY <2>1 DEF vars, db, locks, RowsInv, RowLocksApart, CreatesFresh, CreatesApart, HeldLive, UpdateHolds
    <2>2. ASSUME NEW p \in Sessions, Begin(p) \/ Proceed(p) \/ Disconnect(p) PROVE RowsInv'
      <3>1. \A q \in Sessions \ {p} : pc'[q] = pc[q] /\ req'[q] = req[q] /\ rowsHeld'[q] = rowsHeld[q]
        BY <2>2, OthersStand
      <3>2. CASE Begin(p)
        <4>1. PICK r \in Requests : /\ Admissible(p, r) /\ pc[p] = "idle"
                                    /\ req' = [req EXCEPT ![p] = r]
                                    /\ pc' = [pc EXCEPT ![p] = FirstStep(r.op)]
          BY <3>2 DEF Begin
        <4>2. /\ req'[p] = r /\ pc'[p] = FirstStep(r.op) /\ rowsHeld[p] = {} /\ UNCHANGED <<status, rowsHeld>>
          BY <3>2, <4>1 DEF Begin, TypeOK, db, locks
        <4>3. r.op \in AllOps /\ r.rows \subseteq Transactions
          BY OpsAssumption DEF Requests, RowRequests, OtherRequests, AllOps
        <4>4. pc'[p] # "commit"
          BY <4>2, <4>3 DEF FirstStep, AllOps
        <4>5. RowLocksApart' /\ HeldLive' /\ UpdateHolds'
          BY <3>1, <4>2, <4>4 DEF RowsInv, RowLocksApart, HeldLive, UpdateHolds
        <4>6. /\ \A t \in r.rows : (status[t] = "absent") <=> (r.op = "create")
              /\ r.op = "create" => \A q \in Sessions \ {p} : r.rows \cap req[q].rows = {}
          BY <4>1 DEF Admissible, Others
        <4>7. \A q \in Sessions \ {p} :
                  r.op = "create" \/ req[q].op = "create" => r.rows \cap req[q].rows = {}
          BY <4>6 DEF RowsInv, CreatesFresh
        <4>8. CreatesFresh' /\ CreatesApart'
          BY <3>1, <4>2, <4>6, <4>7 DEF RowsInv, CreatesFresh, CreatesApart
        <4>9. QED
          BY <4>5, <4>8 DEF RowsInv
      <3>3. CASE Prepare(p) \/ EnsureCurrency(p) \/ Find(p) \/ LockWallet(p) \/ WalletsLocked(p) \/ CheckWorkspace(p)
        <4>1. UNCHANGED status /\ req'[p] = req[p] /\ pc'[p] # "commit" /\ rowsHeld'[p] = rowsHeld[p]
          BY <3>3 DEF Prepare, EnsureCurrency, Find, LockWallet, WalletsLocked, CheckWorkspace, db, locks, TypeOK
        <4>2. QED
          BY <3>1, <4>1, StatementKeepsRows
      <3>4. CASE CheckWallet(p) \/ LockWorkspace(p) \/ WriteRow(p) \/ RowsWritten(p)
        <4>1. UNCHANGED status
          BY <3>4 DEF CheckWallet, LockWorkspace, WriteRow, RowsWritten, db
        <4>2. QED
          BY <3>1, <3>4, <4>1, StatementKeepsRows
      <3>5. CASE CommitRow(p)
        <4>1. PICK r \in Transactions :
                  /\ req[p].rows = {r} /\ status' = [status EXCEPT ![r] = "live"]
                  /\ req[p].op = "create" \/ (req[p].op = "update" /\ r \in rowsHeld[p])
          BY <3>5, RowIsFreshOrHeld
        <4>2. \A t \in Transactions : t # r => status'[t] = status[t]
          BY <4>1 DEF TypeOK
        <4>3. End(p)
          BY <3>5 DEF CommitRow, Ready
        <4>4. QED
          BY <3>1, <4>1, <4>2, <4>3, EndKeepsRows DEF RowWrites
      <3>6. CASE CommitDelete(p)
        <4>1. /\ End(p) /\ req[p].op \in RowWrites
              /\ \A t \in Transactions : t \notin rowsHeld[p] => status'[t] = status[t]
          BY <3>6 DEF CommitDelete, Ready, RowWrites
        <4>2. QED
          BY <3>1, <4>1, EndKeepsRows
      <3>7. CASE \/ CommitWalletCurrency(p) \/ CommitWalletDelete(p) \/ CommitWorkspaceCurrency(p)
                 \/ CommitConvert(p) \/ Refuse(p) \/ DeadlockVictim(p) \/ Disconnect(p)
        <4>1. End(p) /\ UNCHANGED status
          BY <3>7 DEF CommitWalletCurrency, CommitWalletDelete, CommitWorkspaceCurrency, CommitConvert,
                      Refuse, DeadlockVictim, Disconnect, Ready, db
        <4>2. QED
          BY <3>1, <4>1, EndKeepsRows
      <3>8. QED
        BY <2>2, <3>2, <3>3, <3>4, <3>5, <3>6, <3>7 DEF Proceed, Commit
    <2>3. QED
      BY <2>1, <2>2 DEF Next
  <1>3. QED
    BY <1>1, <1>2, TypeCorrect, PTL DEF Spec

(* A deleted row stays as it was, also when two requests name it: an       *)
(* update that found it before it was deleted does not bring it back.      *)
THEOREM DeletedRowsStand == Spec => DeletedRowsStay
  <1>1. TypeOK /\ RowsInv /\ [Next]_vars =>
            [\A t \in Transactions : status[t] = "deleted" =>
                 /\ status'[t] = "deleted"
                 /\ shape'[t] = shape[t]]_vars
    <2> SUFFICES ASSUME TypeOK, RowsInv, NEW p \in Sessions, Begin(p) \/ Proceed(p) \/ Disconnect(p),
                        NEW t \in Transactions, status[t] = "deleted"
                 PROVE  status'[t] = "deleted" /\ shape'[t] = shape[t]
      BY DEF Next
    <2>1. CASE CommitRow(p)
      <3>1. PICK r \in Transactions : /\ status' = [status EXCEPT ![r] = "live"]
                                      /\ shape' = [shape EXCEPT ![r] = req[p].shape]
                                      /\ status[r] \in {"absent", "live"}
        BY <2>1, RowIsFreshOrHeld
      <3>2. QED
        BY <3>1 DEF TypeOK
    <2>2. CASE CommitDelete(p)
      BY <2>2 DEF CommitDelete
    <2>3. CASE ~CommitRow(p) /\ ~CommitDelete(p)
      BY <2>3 DEF Begin, Disconnect, Proceed, Prepare, EnsureCurrency, Find, LockWallet, WalletsLocked, CheckWallet,
             CheckWorkspace, LockWorkspace, WriteRow, RowsWritten, Commit, CommitWalletCurrency,
             CommitWalletDelete, CommitWorkspaceCurrency, CommitConvert, Refuse, DeadlockVictim, db
    <2>4. QED
      BY <2>1, <2>2, <2>3
  <1>2. QED
    BY <1>1, RowsInvariant, TypeCorrect, PTL DEF Spec, DeletedRowsStay

(* What is settled stays: deleted rows, and the currency of a wallet that  *)
(* live rows name.                                                         *)
THEOREM SettledStays ==
    ASSUME SharedRows = {}, IsFiniteSet(Transactions)
    PROVE  Spec => WhatIsSettledStays
  BY WalletCurrencyStays, DeletedRowsStand, PTL DEF WhatIsSettledStays
(***************************************************************************)
(* Writes never wait in a circle.                                          *)
(*                                                                         *)
(* Without a conversion nobody waits at a commit or for a row, who waits    *)
(* for the workspace waits for one that locks wallets, and who waits for a *)
(* wallet waits for one that waits for a greater one.                      *)
(***************************************************************************)
LockHolders == \A p \in Sessions :
    /\ pc[p] = "ensure" => req[p].op \in {"create", "update"}
    /\ wsHeld[p] = "share" =>
          req[p].op \in {"create", "update"} /\ pc[p] \in {"find", "lock", "write", "commit"}
    /\ wsHeld[p] = "noKeyUpdate" => pc[p] = "commit"
    /\ wsHeld[p] = "update" => req[p].op = "convert"
    /\ rowsHeld[p] # {} => req[p].op \in RowWrites \cup {"convert"}

LEMMA StatementKeepsHolding ==
    ASSUME TypeOK, LockHolders, NEW p \in Sessions, Begin(p) \/ Proceed(p) \/ Disconnect(p)
    PROVE  LockHolders'
  <1>1. \A q \in Sessions \ {p} : /\ pc'[q] = pc[q] /\ req'[q] = req[q]
                                  /\ rowsHeld'[q] = rowsHeld[q] /\ wsHeld'[q] = wsHeld[q]
    BY OthersStand
  <1> DEFINE Holding(r) ==
                 /\ pc'[p] = "ensure" => r.op \in {"create", "update"}
                 /\ wsHeld'[p] = "share" =>
                       r.op \in {"create", "update"} /\ pc'[p] \in {"find", "lock", "write", "commit"}
                 /\ wsHeld'[p] = "noKeyUpdate" => pc'[p] = "commit"
                 /\ wsHeld'[p] = "update" => r.op = "convert"
                 /\ rowsHeld'[p] # {} => r.op \in RowWrites \cup {"convert"}
  <1> SUFFICES Holding(req'[p])
    BY <1>1 DEF LockHolders
  <1>2. Holding(req[p]) /\ req'[p] = req[p] => Holding(req'[p])
    OBVIOUS
  <1>3. CASE Begin(p)
    <2>1. PICK r \in Requests : req' = [req EXCEPT ![p] = r] /\ pc' = [pc EXCEPT ![p] = FirstStep(r.op)]
      BY <1>3 DEF Begin
    <2>2. FirstStep(r.op) # "ensure"
      BY OpsAssumption DEF Requests, RowRequests, OtherRequests, AllOps, FirstStep
    <2>3. QED
      BY <1>3, <2>1, <2>2 DEF Begin, locks, TypeOK
  <1>4. CASE Prepare(p) \/ EnsureCurrency(p) \/ Find(p) \/ LockWallet(p) \/ WalletsLocked(p)
    <2>1. /\ req'[p] = req[p] /\ rowsHeld'[p] = rowsHeld[p]
          /\ wsHeld'[p] = wsHeld[p] \/ (wsHeld'[p] = "share" /\ pc[p] = "ensure")
          /\ pc'[p] \in {"ensure", "find", "lock", "check", "write"}
      BY <1>4 DEF Prepare, EnsureCurrency, Find, LockWallet, WalletsLocked, locks, TypeOK
    <2>2. /\ pc[p] # "commit"
          /\ pc'[p] = "ensure" => pc[p] = "prepare" /\ req[p].op \in {"create", "update"}
          /\ pc'[p] = "check" => req[p].op \notin {"create", "update"}
          /\ pc[p] = "ensure" => pc'[p] \in {"find", "lock"}
      BY <1>4 DEF Prepare, EnsureCurrency, Find, LockWallet, WalletsLocked, TypeOK
    <2>3. QED
      BY <2>1, <2>2 DEF LockHolders
  <1>5. CASE CheckWallet(p) \/ CheckWorkspace(p) \/ RowsWritten(p)
    <2>1. /\ req'[p] = req[p] /\ rowsHeld'[p] = rowsHeld[p] /\ wsHeld'[p] = wsHeld[p]
          /\ pc'[p] \in {"commit", "lockWs"} /\ pc[p] \in {"check", "write"}
          /\ pc'[p] = "lockWs" => pc[p] = "check"
      BY <1>5 DEF CheckWallet, CheckWorkspace, RowsWritten, locks, TypeOK
    <2>2. QED
      BY <2>1 DEF LockHolders
  <1>6. CASE LockWorkspace(p)
    <2>1. /\ req'[p] = req[p] /\ rowsHeld'[p] = rowsHeld[p]
          /\ wsHeld'[p] = WsMode(req[p].op) /\ pc'[p] = IF req[p].op = "convert" THEN "write" ELSE "commit"
      BY <1>6 DEF LockWorkspace, TypeOK
    <2>2. QED
      BY <2>1 DEF WsMode, LockHolders
  <1>7. CASE WriteRow(p)
    <2>1. /\ pc[p] = "write" /\ pc'[p] = "write" /\ req'[p] = req[p] /\ wsHeld'[p] = wsHeld[p]
          /\ Targets(p) # {}
      BY <1>7 DEF WriteRow
    <2>2. req[p].op \in RowWrites \cup {"convert"}
      BY <2>1 DEF Targets, RowWrites
    <2>3. QED
      BY <2>1, <2>2 DEF LockHolders
  <1>8. CASE End(p)
    BY <1>8 DEF End, TypeOK
  <1>9. QED
    BY <1>3, <1>4, <1>5, <1>6, <1>7, <1>8
       DEF Proceed, Commit, CommitRow, CommitDelete, CommitWalletCurrency, CommitWalletDelete,
           CommitWorkspaceCurrency, CommitConvert, Ready, Refuse, DeadlockVictim, Disconnect

(* What sessions hold, and at which statement. *)
THEOREM HoldingInvariant == Spec => []LockHolders
  <1>1. Init => LockHolders
    BY DEF Init, LockHolders
  <1>2. TypeOK /\ LockHolders /\ [Next]_vars => LockHolders'
    <2>1. LockHolders /\ UNCHANGED vars => LockHolders'
      BY DEF vars, locks, LockHolders
    <2>2. QED
      BY <2>1, StatementKeepsHolding DEF Next
  <1>3. QED
    BY <1>1, <1>2, TypeCorrect, PTL DEF Spec

(* There is no end to numbers each of which is below another. *)
LEMMA SomeIsGreatest ==
    ASSUME NEW F \in SUBSET Nat, IsFiniteSet(F), F # {}
    PROVE  \E n \in F : \A m \in F : m <= n
  <1> DEFINE Endless(T) == T # {} /\ \A a \in T : \E b \in T : a < b
             Bad == {n \in Nat : \E T \in SUBSET F : Cardinality(T) = n /\ Endless(T)}
  <1>1. Bad = {}
    <2> SUFFICES ASSUME Bad # {} PROVE FALSE
      OBVIOUS
    <2>1. PICK n \in Bad : \A m \in Bad : n <= m
      <3>1. Bad \in SUBSET Nat
        OBVIOUS
      <3> HIDE DEF Bad
      <3>2. QED
        BY <3>1, LeastNumber
    <2>2. PICK T \in SUBSET F : Cardinality(T) = n /\ Endless(T)
      OBVIOUS
    <2>3. PICK a \in T : \A b \in T : a <= b
      <3>1. T \in SUBSET Nat /\ T # {}
        BY <2>2
      <3>2. QED
        BY <3>1, LeastNumber
    <2>4. Endless(T \ {a})
      <3>1. \A c \in T : \E d \in T : c < d
        BY <2>2
      <3>2. T \ {a} # {}
        BY <2>3, <3>1
      <3>3. ASSUME NEW c \in T \ {a} PROVE \E d \in T \ {a} : c < d
        <4>1. PICK d \in T : c < d
          BY <3>1
        <4>2. a <= c /\ a \in Nat /\ c \in Nat /\ d \in Nat
          BY <2>3
        <4>3. QED
          BY <4>1, <4>2
      <3>4. QED
        BY <3>2, <3>3
    <2>5. IsFiniteSet(T)
      BY FS_Subset
    <2>6. Cardinality(T \ {a}) = n - 1 /\ Cardinality(T \ {a}) \in Nat /\ n \in Nat
      <3>1. IsFiniteSet(T \ {a})
        BY <2>5, FS_Subset
      <3>2. QED
        BY <2>2, <2>5, <3>1, FS_RemoveElement, FS_CardinalityType
    <2>7. n - 1 \in Bad
      BY <2>4, <2>6
    <2>8. QED
      BY <2>1, <2>6, <2>7
  <1>2. Cardinality(F) \in Nat
    BY FS_CardinalityType
  <1>3. ~Endless(F)
    BY <1>1, <1>2
  <1>4. QED
    BY <1>3

(* What a session waits for while nobody converts. *)
LEMMA WhatTheyWaitFor ==
    ASSUME TypeOK, LockHolders, RowsInv, RequestsApart, \A q \in Sessions : req[q].op # "convert",
           NEW p \in Sessions, NEW q \in Sessions, WaitsFor(p, q)
    PROVE  \/ pc[p] = "ensure" /\ pc[q] = "commit"
           \/ pc[p] = "lock" /\ \E w \in walletsHeld[q] : IsNextWallet(p, w)
           \/ pc[p] = "lockWs" /\ pc[q] \in {"find", "lock", "write", "commit"}
  <1>1. wsHeld[q] # "update" /\ req[p].op # "convert"
    BY DEF LockHolders
  <1>2. CASE pc[p] = "commit"
    BY <1>1, <1>2 DEF WaitsFor
  <1>3. CASE pc[p] = "write"
    <2>1. (Targets(p) \ rowsHeld[p]) \cap rowsHeld[q] # {} /\ p # q
      BY <1>3 DEF WaitsFor
    <2>2. Targets(p) \subseteq req[p].rows
      BY <1>1 DEF Targets
    <2>3. rowsHeld[q] \subseteq req[q].rows
      BY DEF LockHolders, RowsInv, HeldLive
    <2>4. req[p].rows \cap req[q].rows = {}
      BY <2>1 DEF RequestsApart
    <2>5. QED
      BY <2>1, <2>2, <2>3, <2>4
  <1>4. CASE pc[p] = "ensure"
    <2>1. wsHeld[q] \in {"noKeyUpdate", "update"}
      BY <1>4 DEF WaitsFor, WsConflicts
    <2>2. QED
      BY <1>1, <1>4, <2>1 DEF LockHolders
  <1>5. CASE pc[p] = "lockWs"
    <2>1. wsHeld[q] \in {"share", "noKeyUpdate", "update"}
      BY <1>5 DEF WaitsFor, WsConflicts, WsMode
    <2>2. QED
      BY <1>1, <1>5, <2>1 DEF LockHolders
  <1>6. QED
    BY <1>2, <1>3, <1>4, <1>5 DEF WaitsFor

(* Without a conversion there is no circle. *)
LEMMA NoCircle ==
    ASSUME TypeOK, LocksInv, LockHolders, RowsInv, RequestsApart, IsFiniteSet(Wallets)
    PROVE  WritesNeverDeadlock
  <1> SUFFICES ASSUME \A q \in Sessions : req[q].op # "convert",
                      NEW S \in SUBSET Sessions, Deadlocked(S)
               PROVE  FALSE
    BY DEF WritesNeverDeadlock, NoDeadlock
  <1>1. S # {} /\ \A p \in S : \E q \in S : WaitsFor(p, q)
    BY DEF Deadlocked
  <1>2. ASSUME NEW p \in S, NEW q \in S, WaitsFor(p, q)
        PROVE  \/ pc[p] = "ensure" /\ pc[q] = "commit"
               \/ pc[p] = "lock" /\ \E w \in walletsHeld[q] : IsNextWallet(p, w)
               \/ pc[p] = "lockWs" /\ pc[q] \in {"find", "lock", "write", "commit"}
    BY <1>2, WhatTheyWaitFor
  <1>3. \A p \in S : pc[p] \in {"ensure", "lock", "lockWs"}
    BY <1>1, <1>2
  <1>4. \A p \in S : pc[p] \in {"lock", "lockWs"}
    BY <1>1, <1>2, <1>3
  <1>5. ASSUME NEW p \in S, pc[p] = "lock"
        PROVE  \E q \in S : pc[q] = "lock" /\ \E w \in walletsHeld[q] : IsNextWallet(p, w)
    <2>1. PICK q \in S : WaitsFor(p, q)
      BY <1>1
    <2>2. PICK w \in walletsHeld[q] : IsNextWallet(p, w)
      BY <1>2, <1>5, <2>1
    <2>3. pc[q] # "lockWs"
      BY <2>2 DEF LocksInv, LocksAscending, BeforeLocking
    <2>4. QED
      BY <1>4, <2>2, <2>3
  <1> DEFINE Awaited == {w \in Wallets : \E p \in S : pc[p] = "lock" /\ IsNextWallet(p, w)}
  <1>6. Awaited \in SUBSET Nat /\ IsFiniteSet(Awaited)
    BY WalletsAssumption, FS_Subset
  <1>7. walletsHeld \in [Sessions -> SUBSET Wallets]
    BY DEF TypeOK
  <1>8. Awaited # {}
    <2>1. PICK p \in S : pc[p] = "lock"
      BY <1>1, <1>2, <1>4
    <2>2. PICK q \in S : \E w \in walletsHeld[q] : IsNextWallet(p, w)
      BY <1>5, <2>1
    <2>3. QED
      BY <1>7, <2>1, <2>2
  <1>9. PICK n \in Awaited : \A m \in Awaited : m <= n
    <2> HIDE DEF Awaited
    <2>1. QED
      BY <1>6, <1>8, SomeIsGreatest
  <1>10. PICK p \in S : pc[p] = "lock" /\ IsNextWallet(p, n)
    OBVIOUS
  <1>11. PICK q \in S : pc[q] = "lock" /\ n \in walletsHeld[q]
    <2>1. PICK q \in S : pc[q] = "lock" /\ \E w \in walletsHeld[q] : IsNextWallet(p, w)
      BY <1>5, <1>10
    <2>2. PICK w \in walletsHeld[q] : IsNextWallet(p, w)
      BY <2>1
    <2>3. w \in ToLock(p) /\ n \in ToLock(p) /\ w <= n /\ n <= w
      BY <1>10, <2>2 DEF IsNextWallet
    <2>4. w \in Nat /\ n \in Nat
      BY <1>6, <1>7, WalletsAssumption
    <2>5. w = n
      BY <2>3, <2>4
    <2>6. QED
      BY <2>1, <2>2, <2>5
  <1>12. PICK r \in S : \E w \in walletsHeld[r] : IsNextWallet(q, w)
    BY <1>5, <1>11
  <1>13. PICK m \in walletsHeld[r] : IsNextWallet(q, m)
    BY <1>12
  <1>14. m \in Awaited
    BY <1>7, <1>11, <1>13
  <1>15. n < m
    BY <1>11, <1>13 DEF LocksInv, LocksAscending, IsNextWallet
  <1>16. m \in Nat /\ n \in Nat
    BY <1>6, <1>14
  <1>17. QED
    BY <1>9, <1>14, <1>15, <1>16

(* The writes of rows and the deletions and changes of wallets never wait  *)
(* for each other in a circle, however many run at once: only a conversion *)
(* can close one.                                                          *)
THEOREM NoWriteDeadlock ==
    ASSUME SharedRows = {}, IsFiniteSet(Transactions), IsFiniteSet(Wallets)
    PROVE  Spec => []WritesNeverDeadlock
  <1>1. LedgerInv /\ WardInv /\ LockHolders /\ RowsInv => WritesNeverDeadlock
    BY NoCircle DEF LedgerInv, SessionInv, WardInv
  <1>2. QED
    BY <1>1, WardInvariant, HoldingInvariant, RowsInvariant, PTL
=============================================================================
