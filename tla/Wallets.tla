------------------------------- MODULE Wallets -------------------------------
(***************************************************************************)
(* Wallet groups and the default wallet of one workspace                   *)
(* (accounts/service.rs).  Requests are transactions whose statements      *)
(* interleave under READ COMMITTED: a statement reads what is committed    *)
(* when it starts, waits for a row another transaction has locked, and     *)
(* then looks at the row again.  The transactions that write a wallet's    *)
(* money are in Ledger.                                                    *)
(***************************************************************************)
EXTENDS Integers, FiniteSets

CONSTANTS
    WalletIds,       \* naturals: their order is the order of lock_wallets
    SeededWallets,   \* what a new workspace starts with
    WalletGroups,
    NoGroup,
    WalletRequests,
    NoRequest

ASSUME WalletsAssumption ==
    /\ WalletIds \subseteq Nat /\ IsFiniteSet(WalletIds)
    /\ SeededWallets \subseteq WalletIds /\ SeededWallets # {}
    /\ NoGroup \notin WalletGroups
    /\ NoRequest \notin WalletRequests

VARIABLES
    wallet,   \* the committed rows: state, group, default flag
    group,    \* the committed groups: live or not
    holder,   \* the transaction that has locked a wallet's row
    req       \* what each request is doing

walletsVars == <<wallet, group, holder, req>>

Least(S) == CHOOSE w \in S : \A v \in S : w <= v
LiveWallets == {w \in WalletIds : wallet[w].state = "live"}
Defaults == {w \in LiveWallets : wallet[w].isDefault}

WalletOps == {"create", "update", "set_default", "delete", "delete_group"}

\* what: the wallet asked for.  grp: the group asked for.  todo: rows still to
\* lock.  cleared: rows whose flag this transaction has taken.  goal: the
\* wallet that gets the flag.  seen: the wallets the search for an heir saw.
Idle == [pc |-> "idle", op |-> "update", what |-> Least(WalletIds), grp |-> NoGroup,
         todo |-> {}, cleared |-> {}, goal |-> {}, seen |-> {}]

WalletsInit ==
    /\ \E g \in WalletGroups :
          wallet = [w \in WalletIds |->
                      [state |-> IF w \in SeededWallets THEN "live" ELSE "none",
                       group |-> IF w \in SeededWallets THEN g ELSE NoGroup,
                       isDefault |-> w = Least(SeededWallets)]]
    /\ group = [g \in WalletGroups |-> TRUE]
    /\ holder = [w \in WalletIds |-> NoRequest]
    /\ req = [r \in WalletRequests |-> Idle]

At(r, pc) == req[r].pc = pc
Goto(r, changes) == req' = [req EXCEPT ![r] = changes]
Free(r, w) == holder[w] \in {NoRequest, r}

(* Mutation: the request ends and keeps its rows. *)
EndHoldingRows(r) ==
    /\ UNCHANGED holder
    /\ Goto(r, Idle)

\* Commit or rollback: every row the transaction holds is let go.
End(r) ==
    /\ holder' = [w \in WalletIds |-> IF holder[w] = r THEN NoRequest ELSE holder[w]]
    /\ Goto(r, Idle)

\* An error answer at any await, or the connection is gone: rolled back.
RollBackWallet(r) ==
    /\ ~At(r, "idle")
    /\ End(r)
    /\ UNCHANGED <<wallet, group>>

(***************************************************************************)
(* Requests.  A client names only wallets it has been shown.               *)
(***************************************************************************)
AskWallet(r, op, w, g) ==
    /\ At(r, "idle")
    /\ IF op \in {"create", "delete_group"} THEN TRUE ELSE wallet[w].state # "none"
    /\ op = "create" => wallet[w].state = "none"
    /\ op = "delete_group" => w = Least(WalletIds)
    /\ op = "delete_group" => g \in WalletGroups
    /\ op \in {"set_default", "delete"} => g = NoGroup
    /\ Goto(r, [Idle EXCEPT !.op = op, !.what = w, !.grp = g,
                   !.pc = CASE op = "create" -> "require_group"
                            [] op = "update" -> "lock_one"
                            [] op = "delete_group" -> "find_group"
                            [] OTHER -> "lock_all"])
    /\ UNCHANGED <<wallet, group, holder>>

(***************************************************************************)
(* create_wallet and update_wallet.                                        *)
(***************************************************************************)
LockWallet(r) ==
    /\ At(r, "lock_one")
    /\ Free(r, req[r].what)
    /\ wallet[req[r].what].state = "live"
    /\ holder' = [holder EXCEPT ![req[r].what] = r]
    /\ Goto(r, [req[r] EXCEPT !.pc = "require_group"])
    /\ UNCHANGED <<wallet, group>>

RequireGroup(r) ==
    /\ At(r, "require_group")
    /\ req[r].grp # NoGroup => group[req[r].grp]
    /\ Goto(r, [req[r] EXCEPT !.pc = IF req[r].op = "create" THEN "insert" ELSE "move"])
    /\ UNCHANGED <<wallet, group, holder>>

InsertWallet(r) ==
    /\ At(r, "insert")
    /\ wallet[req[r].what].state = "none"
    /\ wallet' = [wallet EXCEPT ![req[r].what] =
                     [state |-> "live", group |-> req[r].grp, isDefault |-> FALSE]]
    /\ End(r)
    /\ UNCHANGED group

UpdateWallet(r) ==
    /\ At(r, "move")
    /\ wallet' = [wallet EXCEPT ![req[r].what].group = req[r].grp]
    /\ End(r)
    /\ UNCHANGED group

(***************************************************************************)
(* The default flag: every live wallet is locked, in the order of ids,     *)
(* before either path looks.                                               *)
(***************************************************************************)
\* Mutation: the rows are not locked before the flag moves.
LockNothing(r) ==
    /\ At(r, "lock_all")
    /\ Goto(r, [req[r] EXCEPT !.pc = "locking"])
    /\ UNCHANGED <<wallet, group, holder>>

\* SELECT .. ORDER BY id FOR UPDATE: its snapshot decides which rows it waits for.
LockWallets(r) ==
    /\ At(r, "lock_all")
    /\ Goto(r, [req[r] EXCEPT !.todo = LiveWallets, !.pc = "locking"])
    /\ UNCHANGED <<wallet, group, holder>>

\* A row that was deleted or moved away while the statement waited is skipped.
LockRow(r, w) ==
    /\ req[r].op # "delete_group" => w = Least(req[r].todo)
    /\ Free(r, w)
    /\ holder' = IF \/ wallet[w].state # "live"
                    \/ req[r].op = "delete_group" /\ wallet[w].group # req[r].grp
                 THEN holder ELSE [holder EXCEPT ![w] = r]
    /\ Goto(r, [req[r] EXCEPT !.todo = @ \ {w}])
    /\ UNCHANGED <<wallet, group>>

\* The wallet, and for a deletion whether rows of the ledger name it; if they
\* do the answer is RollBackWallet.
FindWallet(r) ==
    LET w == req[r].what
    IN  /\ At(r, "locking")
        /\ req[r].todo = {}
        /\ req[r].op # "delete_group"
        /\ wallet[w].state = "live"
        /\ Goto(r, [req[r] EXCEPT
                 !.pc = IF req[r].op = "delete" THEN "remove" ELSE "clear",
                 !.cleared = IF req[r].op = "delete" /\ wallet[w].isDefault THEN {w} ELSE {}])
        /\ UNCHANGED <<wallet, group, holder>>

ClearDefault(r) ==
    /\ At(r, "clear")
    /\ \A d \in Defaults : Free(r, d)
    /\ holder' = [w \in WalletIds |-> IF w \in Defaults THEN r ELSE holder[w]]
    /\ Goto(r, [req[r] EXCEPT !.pc = "mark", !.cleared = Defaults, !.goal = {req[r].what}])
    /\ UNCHANGED <<wallet, group>>

(* Mutation: the flag goes with the wallet. *)
SoftDeleteAlone(r) ==
    /\ At(r, "remove")
    /\ Free(r, req[r].what)
    /\ holder' = [holder EXCEPT ![req[r].what] = r]
    /\ Goto(r, [req[r] EXCEPT !.pc = "mark", !.seen = LiveWallets \ {req[r].what}])
    /\ UNCHANGED <<wallet, group>>

\* The row goes; if it was the default, the next in order inherits the flag.
SoftDelete(r) ==
    LET w == req[r].what
        others == IF req[r].cleared = {} THEN {} ELSE LiveWallets \ {w}
    IN  /\ At(r, "remove")
        /\ Free(r, w)
        /\ holder' = [holder EXCEPT ![w] = r]
        /\ Goto(r, [req[r] EXCEPT
                 !.pc = "mark",
                 !.seen = others,
                 !.goal = IF others = {} THEN {} ELSE {Least(others)}])
        /\ UNCHANGED <<wallet, group>>

\* wallets_one_default_idx: the flag is free for this transaction to set.
FlagIsFree(r) == Defaults \subseteq req[r].cleared \cup req[r].goal

(* Mutation: a deleted wallet keeps its flag. *)
MarkLeavingFlag(r) ==
    /\ At(r, "mark")
    /\ \A w \in req[r].goal : Free(r, w)
    /\ req[r].goal # {} => FlagIsFree(r)
    /\ wallet' = [w \in WalletIds |->
          [state |-> IF req[r].op = "delete" /\ w = req[r].what
                     THEN "deleted" ELSE wallet[w].state,
           group |-> wallet[w].group,
           isDefault |-> \/ w \in req[r].goal /\ wallet[w].state = "live"
                         \/ /\ wallet[w].isDefault
                            /\ req[r].op = "delete" \/ w \notin req[r].cleared]]
    /\ End(r)
    /\ UNCHANGED group

\* The flag is set if there is a wallet to give it to, and the transaction
\* commits.
MarkDefault(r) ==
    /\ At(r, "mark")
    /\ \A w \in req[r].goal : Free(r, w)
    /\ req[r].goal # {} => FlagIsFree(r)
    /\ wallet' = [w \in WalletIds |->
          [state |-> IF req[r].op = "delete" /\ w = req[r].what
                     THEN "deleted" ELSE wallet[w].state,
           group |-> wallet[w].group,
           isDefault |-> \/ w \in req[r].goal /\ wallet[w].state = "live"
                         \/ wallet[w].isDefault /\ w \notin req[r].cleared]]
    /\ End(r)
    /\ UNCHANGED group

(***************************************************************************)
(* delete_group: the group's wallets are let go, not deleted.              *)
(***************************************************************************)
FindGroup(r) ==
    /\ At(r, "find_group")
    /\ group[req[r].grp]
    /\ Goto(r, [req[r] EXCEPT !.pc = "locking",
                   !.todo = {w \in LiveWallets : wallet[w].group = req[r].grp}])
    /\ UNCHANGED <<wallet, group, holder>>

DropGroup(r) ==
    /\ At(r, "locking")
    /\ req[r].todo = {}
    /\ req[r].op = "delete_group"
    /\ wallet' = [w \in WalletIds |->
                    IF holder[w] = r THEN [wallet[w] EXCEPT !.group = NoGroup] ELSE wallet[w]]
    /\ group' = [group EXCEPT ![req[r].grp] = FALSE]
    /\ End(r)

WalletsNext ==
    \E r \in WalletRequests :
          \/ \E op \in WalletOps, w \in WalletIds, g \in WalletGroups \cup {NoGroup} : AskWallet(r, op, w, g)
          \/ RequireGroup(r) \/ InsertWallet(r) \/ LockWallet(r) \/ UpdateWallet(r)
          \/ LockWallets(r) \/ FindWallet(r) \/ ClearDefault(r)
          \/ \E w \in req[r].todo : LockRow(r, w)
          \/ SoftDelete(r) \/ MarkDefault(r)
          \/ FindGroup(r) \/ DropGroup(r) \/ RollBackWallet(r)

WalletsSpec == WalletsInit /\ [][WalletsNext]_walletsVars

(***************************************************************************)
(* Properties.                                                             *)
(***************************************************************************)
\* Rows, locks and requests hold what their declarations say; a request that
\* is over holds no row.
WalletsTypeOK ==
    /\ wallet \in [WalletIds -> [state : {"none", "live", "deleted"},
                                 group : WalletGroups \cup {NoGroup}, isDefault : BOOLEAN]]
    /\ group \in [WalletGroups -> BOOLEAN]
    /\ holder \in [WalletIds -> WalletRequests \cup {NoRequest}]
    /\ \A r \in WalletRequests :
          /\ req[r].what \in WalletIds
          /\ req[r].op \in WalletOps
          /\ req[r].todo \cup req[r].cleared \cup req[r].goal \cup req[r].seen \subseteq WalletIds
          /\ At(r, "idle") => \A w \in WalletIds : holder[w] # r

\* At most one row of the table is the default, deleted rows included.
OneDefault == Cardinality({w \in WalletIds : wallet[w].isDefault}) <= 1

\* Two requests that move the flag wait for each other: neither is ever
\* answered with a violation of the index instead.
IndexNeverTrips ==
    \A r \in WalletRequests : At(r, "mark") /\ req[r].goal # {} => FlagIsFree(r)

\* The flag is lost only with the last wallet: when a deletion leaves no
\* default, each wallet there is was created after it looked for an heir.
DefaultHandedOn ==
    [][Defaults # {} /\ Defaults' = {} =>
          \E r \in WalletRequests :
             At(r, "mark") /\ LiveWallets' \cap req[r].seen = {}]_walletsVars
=============================================================================
