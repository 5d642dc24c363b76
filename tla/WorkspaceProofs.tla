--------------------------- MODULE WorkspaceProofs ---------------------------
(***************************************************************************)
(* For every set of users, wallets, categories, budgets, files, line items *)
(* and transactions, and any number of requests on each: what the people   *)
(* of a workspace change at the same time keeps an owner, one default      *)
(* wallet and one budget of a category; what is stored tells the truth;    *)
(* and a deletion lets go of what named the row.                           *)
(***************************************************************************)
EXTENDS MCWorkspace, SumProofs, SequenceTheorems

(***************************************************************************)
(* Members and invitations.                                                *)
(***************************************************************************)
(* A request that has counted the owners holds the row of another than the *)
(* one it is about, and nobody else writes that row until it ends.         *)
AnotherIsHeld ==
    \A p \in Admins :
        stage[p] = "counted" =>
            \E v \in Users : v # target[p] /\ rowLock[v] = p /\ role[v] = "owner"

(* Whoever invites offers a role. *)
RolesAreOffered == \A p \in Admins : stage[p] = "inviting" => wanted[p] \in Roles

MembersInv == MembersTypeOK /\ AnotherIsHeld /\ RolesAreOffered /\ OwnersRemainUnlessRaced

USE MembersAssumption

(* A workspace starts with its owner and nothing in flight. *)
LEMMA MembersStart == MembersInit => MembersInv
  <1> SUFFICES ASSUME MembersInit PROVE MembersInv
    OBVIOUS
  <1>1. MembersTypeOK
    BY DEF MembersInit, MembersTypeOK, Roles
  <1>2. AnotherIsHeld /\ RolesAreOffered
    BY DEF MembersInit, AnotherIsHeld, RolesAreOffered
  <1>3. Creator \in Owners
    BY DEF MembersInit, Owners
  <1> QED
    BY <1>1, <1>2, <1>3 DEF MembersInv, OwnersRemainUnlessRaced

(* A request that ends leaves the locks and the progress of the others. *)
LEMMA DoneOne ==
    ASSUME MembersTypeOK, NEW p \in Admins, Done(p)
    PROVE  /\ stage' \in [Admins -> {"idle", "read", "counted", "inviting"}]
           /\ stage' = [stage EXCEPT ![p] = "idle"]
           /\ target' \in [Admins -> Users \cup {NoUser}]
           /\ target' = [target EXCEPT ![p] = NoUser]
           /\ wanted' \in [Admins -> Roles \cup {Gone}]
           /\ seen' \in [Admins -> Roles \cup {Gone}]
           /\ rowLock' \in [Users -> Admins \cup {NoAdmin}]
           /\ \A u \in Users : rowLock'[u] = IF rowLock[u] = p THEN NoAdmin ELSE rowLock[u]
  BY DEF Done, MembersTypeOK

(* Of more than one owner, one is not the person a request is about. *)
LEMMA MoreThanOne ==
    ASSUME NEW u, Cardinality(Owners) > 1
    PROVE  \E v \in Owners : v # u
  <1> SUFFICES ASSUME Owners \subseteq {u}
               PROVE  FALSE
    OBVIOUS
  <1>1. IsFiniteSet({u}) /\ Cardinality({u}) = 1
    BY FS_Singleton
  <1>2. Cardinality(Owners) <= 1 /\ Cardinality(Owners) \in Nat
    BY <1>1, FS_Subset, FS_CardinalityType
  <1> QED
    BY <1>2

(* A request that is asked for reads, and writes nothing yet. *)
LEMMA AskKeeps ==
    ASSUME MembersInv, NEW p \in Admins, NEW u \in Users, NEW r \in Roles \cup {Gone}, Ask(p, u, r)
    PROVE  MembersInv'
  <1> USE DEF MembersInv, Ask, roles, invitations
  <1>1. MembersTypeOK'
    BY DEF MembersTypeOK
  <1>2. AnotherIsHeld' /\ OwnersRemainUnlessRaced'
    BY DEF AnotherIsHeld, OwnersRemainUnlessRaced, Owners, MembersTypeOK
  <1>3. RolesAreOffered'
    BY DEF RolesAreOffered, MembersTypeOK
  <1> QED
    BY <1>1, <1>2, <1>3

(* The owners that are counted are locked until the request is over. *)
LEMMA CountKeeps ==
    ASSUME MembersInv, NEW p \in Admins, CountOwners(p)
    PROVE  MembersInv'
  <1> USE DEF MembersInv, CountOwners, invitations
  <1>1. CASE Cardinality(Owners) > 1 /\ stage' = [stage EXCEPT ![p] = "counted"]
    <2>1. rowLock' = [u \in Users |-> IF u \in Owners THEN p ELSE rowLock[u]]
          /\ UNCHANGED <<target, wanted, seen>>
      BY <1>1, DoneOne DEF MembersTypeOK
    <2>2. MembersTypeOK'
      BY <1>1, <2>1 DEF MembersTypeOK
    <2>3. AnotherIsHeld'
      <3> SUFFICES ASSUME NEW q \in Admins, stage'[q] = "counted"
                   PROVE  \E v \in Users : v # target[q] /\ rowLock'[v] = q /\ role[v] = "owner"
        BY <2>1 DEF AnotherIsHeld
      <3>1. CASE q = p
        BY <3>1, <1>1, <2>1, MoreThanOne DEF Owners
      <3>2. CASE q # p
        BY <3>2, <1>1, <2>1 DEF AnotherIsHeld, MembersTypeOK, Owners
      <3> QED
        BY <3>1, <3>2
    <2>4. RolesAreOffered'
      BY <1>1, <2>1 DEF RolesAreOffered, MembersTypeOK
    <2> QED
      BY <2>2, <2>3, <2>4 DEF OwnersRemainUnlessRaced, Owners
  <1>2. CASE Done(p)
    <2>1. MembersTypeOK'
      BY <1>2, DoneOne DEF MembersTypeOK
    <2>2. AnotherIsHeld'
      BY <1>2, DoneOne DEF AnotherIsHeld, MembersTypeOK
    <2>3. RolesAreOffered'
      BY <1>2, DoneOne DEF RolesAreOffered, Done, MembersTypeOK
    <2> QED
      BY <2>1, <2>2, <2>3 DEF OwnersRemainUnlessRaced, Owners
  <1> QED
    BY <1>1, <1>2

(* The write: the owner whose row the request holds stays one. *)
LEMMA WriteKeeps ==
    ASSUME MembersInv, NEW p \in Admins, Write(p)
    PROVE  MembersInv'
  <1> USE DEF MembersInv, Write, invitations
  <1>1. Done(p) /\ target[p] \in Users
    BY DEF MembersTypeOK
  <1>2. MembersTypeOK'
    BY <1>1, DoneOne DEF MembersTypeOK
  <1>3. AnotherIsHeld'
    <2> SUFFICES ASSUME NEW q \in Admins, stage'[q] = "counted"
                 PROVE  \E v \in Users : v # target'[q] /\ rowLock'[v] = q /\ role'[v] = "owner"
      BY DEF AnotherIsHeld
    <2>1. q # p /\ stage[q] = "counted"
      BY <1>1, DoneOne DEF MembersTypeOK
    <2>2. PICK v \in Users : v # target[q] /\ rowLock[v] = q /\ role[v] = "owner"
      BY <2>1 DEF AnotherIsHeld
    <2>3. v # target[p]
      BY <2>1, <2>2
    <2> QED
      BY <2>1, <2>2, <2>3, <1>1, DoneOne DEF MembersTypeOK
  <1>4. OwnersRemainUnlessRaced'
    <2>1. CASE stage[p] = "counted"
      <3>1. PICK v \in Users : v # target[p] /\ role[v] = "owner"
        BY <2>1 DEF AnotherIsHeld
      <3> QED
        BY <3>1 DEF OwnersRemainUnlessRaced, Owners, MembersTypeOK
    <2>2. CASE ~StepsDown(p)
      <3>1. CASE role[target[p]] = "owner" /\ wanted[p] # "owner"
        BY <2>2, <3>1 DEF OwnersRemainUnlessRaced, StepsDown
      <3>2. CASE role[target[p]] # "owner" \/ wanted[p] = "owner"
        <4>1. Owners \subseteq Owners'
          BY <3>2 DEF Owners, MembersTypeOK, Gone
        <4> QED
          BY <4>1 DEF OwnersRemainUnlessRaced
      <3> QED
        BY <3>1, <3>2
    <2> QED
      BY <2>1, <2>2
  <1>5. RolesAreOffered'
    BY <1>1, DoneOne DEF RolesAreOffered, Done, MembersTypeOK
  <1> QED
    BY <1>2, <1>3, <1>4, <1>5

(* A request that is undone leaves the members as they were. *)
LEMMA RollBackKeeps ==
    ASSUME MembersInv, NEW p \in Admins, RollBack(p)
    PROVE  MembersInv'
  <1> USE DEF MembersInv, RollBack, invitations
  <1>1. MembersTypeOK'
    BY DoneOne DEF MembersTypeOK
  <1>2. AnotherIsHeld' /\ OwnersRemainUnlessRaced'
    BY DoneOne DEF AnotherIsHeld, OwnersRemainUnlessRaced, Owners, MembersTypeOK
  <1>3. RolesAreOffered'
    BY DoneOne DEF RolesAreOffered, Done, MembersTypeOK
  <1> QED
    BY <1>1, <1>2, <1>3

(* Inviting writes no role. *)
LEMMA InviteKeeps ==
    ASSUME MembersInv, NEW p \in Admins, NEW u \in Users, NEW r \in Roles, Invite(p, u, r)
    PROVE  MembersInv'
  <1> USE DEF MembersInv, Invite, invitations, roles
  <1>1. MembersTypeOK'
    BY DEF MembersTypeOK
  <1>2. AnotherIsHeld' /\ OwnersRemainUnlessRaced'
    BY DEF AnotherIsHeld, OwnersRemainUnlessRaced, Owners, MembersTypeOK
  <1>3. RolesAreOffered'
    BY DEF RolesAreOffered, MembersTypeOK
  <1> QED
    BY <1>1, <1>2, <1>3

(* Inserting an invitation writes no role. *)
LEMMA InsertKeeps ==
    ASSUME MembersInv, NEW p \in Admins, InsertInvitation(p)
    PROVE  MembersInv'
  <1> USE DEF MembersInv, InsertInvitation
  <1>1. MembersTypeOK'
    BY DoneOne DEF MembersTypeOK, RolesAreOffered, Roles, Gone
  <1>2. AnotherIsHeld' /\ OwnersRemainUnlessRaced'
    BY DoneOne DEF AnotherIsHeld, OwnersRemainUnlessRaced, Owners, MembersTypeOK
  <1>3. RolesAreOffered'
    BY DoneOne DEF RolesAreOffered, Done, MembersTypeOK
  <1> QED
    BY <1>1, <1>2, <1>3

(* Closing an invitation writes no role. *)
LEMMA CloseKeeps ==
    ASSUME MembersInv, NEW i \in Invitations, CloseInvitation(i)
    PROVE  MembersInv'
  BY DEF MembersInv, CloseInvitation, roles, change, MembersTypeOK, AnotherIsHeld, RolesAreOffered, OwnersRemainUnlessRaced, Owners

(* Joining makes nobody less than they were. *)
LEMMA AcceptKeeps ==
    ASSUME MembersInv, NEW i \in Invitations, Accept(i)
    PROVE  MembersInv'
  <1> USE DEF MembersInv, Accept, change
  <1>1. MembersTypeOK'
    BY DEF MembersTypeOK
  <1>2. \A u \in Users : role[u] = "owner" => role'[u] = "owner"
    BY DEF MembersTypeOK, Gone
  <1>3. AnotherIsHeld' /\ OwnersRemainUnlessRaced'
    BY <1>2 DEF AnotherIsHeld, OwnersRemainUnlessRaced, Owners
  <1>4. RolesAreOffered'
    BY DEF RolesAreOffered
  <1> QED
    BY <1>1, <1>3, <1>4

(* Every step keeps the invariant. *)
LEMMA MembersStep == MembersInv /\ [MembersNext]_membersVars => MembersInv'
  <1> SUFFICES ASSUME MembersInv, [MembersNext]_membersVars
               PROVE  MembersInv'
    OBVIOUS
  <1>1. ASSUME NEW p \in Admins, \E u \in Users, r \in Roles \cup {Gone} : Ask(p, u, r)
        PROVE  MembersInv'
    BY <1>1, AskKeeps
  <1>2. ASSUME NEW p \in Admins, CountOwners(p) \/ Write(p) \/ RollBack(p)
        PROVE  MembersInv'
    BY <1>2, CountKeeps, WriteKeeps, RollBackKeeps
  <1>3. ASSUME NEW p \in Admins, InsertInvitation(p) \/ \E u \in Users, r \in Roles : Invite(p, u, r)
        PROVE  MembersInv'
    BY <1>3, InviteKeeps, InsertKeeps
  <1>4. ASSUME NEW i \in Invitations, CloseInvitation(i) \/ Accept(i)
        PROVE  MembersInv'
    BY <1>4, CloseKeeps, AcceptKeeps
  <1>5. CASE UNCHANGED membersVars
    BY <1>5 DEF membersVars, roles, change, invitations, MembersInv, MembersTypeOK, AnotherIsHeld,
                RolesAreOffered, OwnersRemainUnlessRaced, Owners
  <1> QED
    BY <1>1, <1>2, <1>3, <1>4, <1>5 DEF MembersNext

(* The invariant holds in every reachable state. *)
THEOREM MembersAlways == MembersSpec => []MembersInv
  BY MembersStart, MembersStep, PTL DEF MembersSpec

(* Every reachable state of the memberships is well typed. *)
THEOREM MembersTypedAlways == MembersSpec => []MembersTypeOK
  <1>1. MembersInv => MembersTypeOK
    BY DEF MembersInv
  <1> QED
    BY <1>1, MembersAlways, PTL

(* However many requests demote and remove owners at once, the workspace   *)
(* keeps one, unless a member was made an owner after the request that     *)
(* takes the role away had read it.                                        *)
THEOREM OwnersRemain == MembersSpec => []OwnersRemainUnlessRaced
  <1>1. MembersInv => OwnersRemainUnlessRaced
    BY DEF MembersInv
  <1> QED
    BY <1>1, MembersAlways, PTL

(* Nobody stops being an owner but through a request that read an owner    *)
(* and had counted another; late invitations take nothing away.            *)
THEOREM StepDownKnowingly == MembersSpec => OwnersStepDownKnowingly
  <1>1. MembersInv /\ [MembersNext]_membersVars =>
          [\A u \in Users : role[u] = "owner" /\ role'[u] # "owner" =>
             raced' \/ \E p \in Admins : target[p] = u /\ stage[p] = "counted"]_membersVars
    <2> SUFFICES ASSUME MembersInv, MembersNext,
                        NEW u \in Users, role[u] = "owner", role'[u] # "owner"
                 PROVE  raced' \/ \E p \in Admins : target[p] = u /\ stage[p] = "counted"
      OBVIOUS
    <2>1. \A p \in Admins : /\ \A v \in Users, r \in Roles \cup {Gone} : ~Ask(p, v, r)
                            /\ \A v \in Users, r \in Roles : ~Invite(p, v, r)
                            /\ ~CountOwners(p) /\ ~RollBack(p) /\ ~InsertInvitation(p)
      BY DEF Ask, Invite, CountOwners, RollBack, InsertInvitation, roles
    <2>2. \A i \in Invitations : ~CloseInvitation(i) /\ ~Accept(i)
      BY DEF CloseInvitation, Accept, roles, MembersInv, MembersTypeOK, Gone
    <2>3. PICK p \in Admins : Write(p)
      BY <2>1, <2>2 DEF MembersNext
    <2>4. target[p] = u /\ wanted[p] # "owner"
      BY <2>3 DEF Write, MembersInv, MembersTypeOK, Gone
    <2> QED
      BY <2>3, <2>4 DEF Write, StepsDown
  <1> QED
    BY <1>1, MembersAlways, PTL DEF MembersSpec, OwnersStepDownKnowingly

HIDE MembersAssumption

(***************************************************************************)
(* The default wallet.                                                     *)
(***************************************************************************)
(***************************************************************************)
(* Wallets: the default flag.                                              *)
(***************************************************************************)
WalletStages ==
    {"idle", "lock_one", "require_group", "insert", "move", "lock_all", "locking", "clear",
     "remove", "mark", "find_group"}

WalletWork ==
    [pc : WalletStages, op : WalletOps, what : WalletIds, grp : WalletGroups \cup {NoGroup},
     todo : SUBSET WalletIds, cleared : SUBSET WalletIds, goal : SUBSET WalletIds,
     seen : SUBSET WalletIds]

LiveNow(w) == wallet[w].state = "live"

(* Requests that move the flag: those that have read which rows to lock,   *)
(* and those that have locked them all and found their wallet.             *)
MovesFlag(r) == req[r].op \in {"set_default", "delete"}
HasLooked(r) == MovesFlag(r) /\ req[r].pc \in {"locking", "clear", "remove", "mark"}
Critical(r) == req[r].pc \in {"clear", "remove", "mark"}

(* A row a request has locked or is going to. *)
Reaches(r, w) == w \in req[r].todo \/ holder[w] = r

(* A wallet that is asked for was there. *)
NamesWallet(r) == ~At(r, "idle") /\ MovesFlag(r) => wallet[req[r].what].state # "none"

(* Who looked while the wallet was there locks it, or is going to.         *)
ReachesOwn(r) == HasLooked(r) /\ LiveNow(req[r].what) => Reaches(r, req[r].what)

(* Of two requests, the one that looked last saw the wallet of the other.  *)
OneReachesOther(r, q) ==
    r # q /\ HasLooked(r) /\ HasLooked(q) /\ LiveNow(req[r].what) /\ LiveNow(req[q].what) =>
       Reaches(r, req[q].what) \/ Reaches(q, req[r].what)

(* Who moves the flag has locked its wallet, which is live. *)
HoldsOwn(r) ==
    Critical(r) =>
       HasLooked(r) /\ req[r].todo = {} /\ LiveNow(req[r].what) /\ holder[req[r].what] = r

(* What a request is about to do to the flag fits the rows as they are.    *)
PlanFits(r) ==
    /\ At(r, "idle") => req[r].todo = {}
    /\ At(r, "lock_all") => MovesFlag(r)
    /\ At(r, "locking") => MovesFlag(r) \/ req[r].op = "delete_group"
    /\ At(r, "find_group") => req[r].op = "delete_group"
    /\ At(r, "clear") => req[r].op = "set_default"
    /\ At(r, "remove") => req[r].op = "delete" /\ req[r].cleared = Defaults \cap {req[r].what}
    /\ At(r, "mark") /\ req[r].op = "set_default" =>
          req[r].cleared = Defaults /\ req[r].goal = {req[r].what}
    /\ At(r, "mark") /\ req[r].op = "delete" =>
          /\ req[r].cleared = Defaults \cap {req[r].what}
          /\ req[r].cleared = {} => req[r].goal = {}
          /\ req[r].goal = {} => req[r].cleared = {} \/ req[r].seen = {}
          /\ \A g, h \in req[r].goal : g = h
          /\ \A h \in req[r].goal : LiveNow(h) /\ h # req[r].what

WalletsTyped ==
    /\ wallet \in [WalletIds -> [state : {"none", "live", "deleted"},
                                 group : WalletGroups \cup {NoGroup}, isDefault : BOOLEAN]]
    /\ group \in [WalletGroups -> BOOLEAN]
    /\ holder \in [WalletIds -> WalletRequests \cup {NoRequest}]
    /\ req \in [WalletRequests -> WalletWork]
    /\ \A r \in WalletRequests : At(r, "idle") => \A w \in WalletIds : holder[w] # r

(* A deleted wallet has no flag, and one of the others has. *)
OneFlag ==
    /\ \A w \in WalletIds : wallet[w].isDefault => LiveNow(w)
    /\ \A v, w \in WalletIds : wallet[v].isDefault /\ wallet[w].isDefault => v = w

RequestsFit ==
    \A r \in WalletRequests :
       /\ NamesWallet(r) /\ ReachesOwn(r) /\ HoldsOwn(r) /\ PlanFits(r)
       /\ \A q \in WalletRequests : OneReachesOther(r, q)

WalletsInv == WalletsTyped /\ OneFlag /\ RequestsFit

USE WalletsAssumption

(* Of some wallets one is the least. *)
LEMMA LeastIsOne ==
    ASSUME NEW S \in SUBSET WalletIds, S # {}
    PROVE  Least(S) \in S /\ \A w \in S : Least(S) <= w
  <1>1. PICK v \in S : \A w \in S : ~(<<w, v>> \in OpToRel(<, Nat))
    BY NatLessThanWellFounded, WFMin
  <1>2. \A w \in S : w \in Nat /\ v \in Nat /\ ~(w < v)
    BY <1>1 DEF OpToRel
  <1>3. \A w \in S : v <= w
    BY <1>2
  <1> QED
    BY <1>3 DEF Least

LEMMA IdleTyped == Idle \in WalletWork /\ Idle.pc = "idle" /\ Idle.op = "update" /\ Idle.todo = {}
  <1>1. WalletIds # {} /\ Least(WalletIds) \in WalletIds
    BY LeastIsOne
  <1> QED
    BY <1>1 DEF Idle, WalletWork, WalletStages, WalletOps

LEMMA WalletsStart == WalletsInit => WalletsInv
  <1> SUFFICES ASSUME WalletsInit PROVE WalletsInv
    OBVIOUS
  <1>1. Least(SeededWallets) \in SeededWallets
    BY LeastIsOne
  <1>2. PICK g \in WalletGroups :
          wallet = [w \in WalletIds |->
                      [state |-> IF w \in SeededWallets THEN "live" ELSE "none",
                       group |-> IF w \in SeededWallets THEN g ELSE NoGroup,
                       isDefault |-> w = Least(SeededWallets)]]
    BY DEF WalletsInit
  <1>3. WalletsTyped
    BY <1>2, IdleTyped DEF WalletsInit, WalletsTyped, At
  <1>4. OneFlag
    BY <1>1, <1>2 DEF OneFlag, LiveNow
  <1>5. \A r \in WalletRequests : req[r].pc = "idle" /\ req[r].todo = {}
    BY IdleTyped DEF WalletsInit
  <1>6. RequestsFit
    BY <1>5 DEF RequestsFit, NamesWallet, ReachesOwn, HoldsOwn, PlanFits, OneReachesOther, HasLooked, Critical, At
  <1> QED
    BY <1>3, <1>4, <1>6 DEF WalletsInv

(* One request at a time moves the flag: of two, one would wait for the    *)
(* wallet of the other.                                                    *)
LEMMA CriticalAlone ==
    ASSUME WalletsInv, NEW r \in WalletRequests, NEW q \in WalletRequests, Critical(r), Critical(q)
    PROVE  r = q
  <1> SUFFICES ASSUME r # q PROVE FALSE
    OBVIOUS
  <1>1. HoldsOwn(r) /\ HoldsOwn(q) /\ OneReachesOther(r, q)
    BY DEF WalletsInv, RequestsFit
  <1> QED
    BY <1>1 DEF HoldsOwn, OneReachesOther, Reaches

(* What a request reaches it goes on reaching while it keeps its rows and  *)
(* its work.                                                               *)
LEMMA StillReaches ==
    ASSUME NEW p \in WalletRequests, NEW q \in WalletRequests,
           req'[p] = req[p], req'[q].what = req[q].what, req[q].what \in WalletIds,
           \A w \in WalletIds : holder[w] = p => holder'[w] = p,
           Reaches(p, req[q].what)
    PROVE  Reaches(p, req[q].what)'
  <1>1. PICK w \in WalletIds : w = req[q].what
    OBVIOUS
  <1>2. Reaches(p, w)'
    BY <1>1 DEF Reaches
  <1>3. w = req'[q].what
    BY <1>1
  <1> QED
    BY <1>2, <1>3 DEF Reaches

(* A request that takes a step and leaves flags and states alone, keeps    *)
(* the rows others hold and those it reaches.                              *)
LEMMA StepFits ==
    ASSUME WalletsInv, WalletsTyped', NEW r \in WalletRequests,
           \A w \in WalletIds : /\ wallet'[w].state = wallet[w].state
                                /\ wallet'[w].isDefault = wallet[w].isDefault,
           \A q \in WalletRequests : q # r => req'[q] = req[q],
           \A q \in WalletRequests, w \in WalletIds : q # r /\ holder[w] = q => holder'[w] = q,
           NamesWallet(r)', HoldsOwn(r)', PlanFits(r)',
           HasLooked(r)' =>
              \/ \A w \in WalletIds : LiveNow(w) => Reaches(r, w)'
              \/ /\ HasLooked(r) /\ req'[r].what = req[r].what
                 /\ \A w \in WalletIds : LiveNow(w) /\ Reaches(r, w) => Reaches(r, w)'
    PROVE  WalletsInv'
  <1>1. Defaults' = Defaults /\ \A w \in WalletIds : LiveNow(w)' <=> LiveNow(w)
    BY DEF Defaults, LiveWallets, LiveNow
  <1>2. OneFlag'
    BY <1>1 DEF WalletsInv, OneFlag
  <1>3. \A q \in WalletRequests : req[q].what \in WalletIds /\ req'[q].what \in WalletIds
    BY DEF WalletsInv, WalletsTyped, WalletWork
  <1>4. \A q \in WalletRequests, w \in WalletIds : q # r /\ Reaches(q, w) => Reaches(q, w)'
    BY DEF Reaches
  <1>5. ASSUME NEW q \in WalletRequests
        PROVE  NamesWallet(q)' /\ ReachesOwn(q)' /\ HoldsOwn(q)' /\ PlanFits(q)'
    <2>1. CASE q = r
      BY <2>1, <1>1, <1>3 DEF ReachesOwn, WalletsInv, RequestsFit
    <2>2. CASE q # r
      <3>1. NamesWallet(q) /\ ReachesOwn(q) /\ HoldsOwn(q) /\ PlanFits(q)
        BY DEF WalletsInv, RequestsFit
      <3>2. req'[q] = req[q] /\ (HasLooked(q)' <=> HasLooked(q)) /\ (Critical(q)' <=> Critical(q))
        BY <2>2 DEF HasLooked, MovesFlag, Critical
      <3>3. NamesWallet(q)'
        BY <3>1, <3>2, <1>3 DEF NamesWallet, At, MovesFlag
      <3>4. ReachesOwn(q)' /\ HoldsOwn(q)'
        BY <2>2, <3>1, <3>2, <1>1, <1>3, <1>4 DEF ReachesOwn, HoldsOwn
      <3>5. PlanFits(q)'
        <4>1. \A h \in req[q].goal : h \in WalletIds
          BY DEF WalletsInv, WalletsTyped, WalletWork
        <4> QED
          BY ZenonT(30), <4>1, <3>1, <3>2, <1>1 DEF PlanFits, At, MovesFlag
      <3> QED
        BY <3>3, <3>4, <3>5
    <2> QED
      BY <2>1, <2>2
  <1>6. ASSUME NEW p \in WalletRequests, NEW q \in WalletRequests
        PROVE  OneReachesOther(p, q)'
    <2> SUFFICES ASSUME p # q, HasLooked(p)', HasLooked(q)', LiveNow(req[p].what)', LiveNow(req[q].what)'
                 PROVE  Reaches(p, req[q].what)' \/ Reaches(q, req[p].what)'
      BY DEF OneReachesOther
    <2>1. CASE p # r /\ q # r
      <3>1. HasLooked(p) /\ HasLooked(q) /\ req'[p] = req[p] /\ req'[q] = req[q]
        BY <2>1 DEF HasLooked, MovesFlag
      <3>2. Reaches(p, req[q].what) \/ Reaches(q, req[p].what)
        BY <3>1, <1>1, <1>3 DEF WalletsInv, RequestsFit, OneReachesOther
      <3> QED
        BY <2>1, <3>1, <3>2, <1>3, <1>4 DEF Reaches
    <2>2. CASE p = r \/ q = r
      <3>1. PICK o \in {p, q} : o # r
        BY <2>2
      <3>2. HasLooked(o) /\ req'[o] = req[o] /\ req[o].what \in WalletIds /\ LiveNow(req[o].what)
        BY <3>1, <1>1, <1>3 DEF HasLooked, MovesFlag
      <3>3. CASE Reaches(r, req[o].what)'
        BY <3>1, <3>2, <3>3, <2>2 DEF Reaches
      <3>4. CASE /\ HasLooked(r) /\ req'[r].what = req[r].what
                 /\ \A w \in WalletIds : LiveNow(w) /\ Reaches(r, w) => Reaches(r, w)'
        <4>1. LiveNow(req[r].what)
          BY <2>2, <3>4, <1>1, <1>3
        <4>2. Reaches(r, req[o].what) \/ Reaches(o, req[r].what)
          BY <3>1, <3>2, <3>4, <4>1 DEF WalletsInv, RequestsFit, OneReachesOther
        <4>3. CASE Reaches(r, req[o].what)
          <5>1. Reaches(r, req[o].what)'
            BY <4>3, <3>2, <3>4 DEF Reaches
          <5> QED
            BY <5>1, <3>3
        <4>4. CASE Reaches(o, req[r].what)
          <5>1. o \in WalletRequests /\ Reaches(o, req[r].what)'
            BY <4>4, <3>1, <3>2, <3>4, <1>3, StillReaches
          <5> QED
            BY <5>1, <3>1, <2>2
        <4> QED
          BY <4>2, <4>3, <4>4
      <3> QED
        BY <2>2, <3>2, <3>3, <3>4 DEF Reaches
    <2> QED
      BY <2>1, <2>2
  <1> QED
    BY <1>2, <1>5, <1>6 DEF WalletsInv, RequestsFit

(* The transaction that ends lets its rows go, and nobody else's. *)
LEMMA EndLetsGo ==
    ASSUME WalletsTyped, NEW r \in WalletRequests, End(r)
    PROVE  /\ holder' \in [WalletIds -> WalletRequests \cup {NoRequest}]
           /\ \A w \in WalletIds : holder'[w] = IF holder[w] = r THEN NoRequest ELSE holder[w]
           /\ req' \in [WalletRequests -> WalletWork]
           /\ req'[r].pc = "idle" /\ req'[r].todo = {}
           /\ \A q \in WalletRequests : q # r => req'[q] = req[q]
           /\ \A q \in WalletRequests : req'[q].pc = "idle" => \A w \in WalletIds : holder'[w] # q
  BY IdleTyped DEF WalletsTyped, End, Goto, At

(* Whoever is idle fits. *)
LEMMA IdleFits ==
    ASSUME NEW r \in WalletRequests, req'[r].pc = "idle", req'[r].todo = {}
    PROVE  NamesWallet(r)' /\ HoldsOwn(r)' /\ PlanFits(r)' /\ ~HasLooked(r)'
  BY DEF NamesWallet, HoldsOwn, PlanFits, HasLooked, Critical, At

LEMMA AskWalletKeeps ==
    ASSUME WalletsInv, NEW r \in WalletRequests, NEW op \in WalletOps, NEW w \in WalletIds,
           NEW g \in WalletGroups \cup {NoGroup}, AskWallet(r, op, w, g)
    PROVE  WalletsInv'
  <1> DEFINE next == CASE op = "create" -> "require_group"
                       [] op = "update" -> "lock_one"
                       [] op = "delete_group" -> "find_group"
                       [] OTHER -> "lock_all"
  <1>1. req' = [req EXCEPT ![r] = [Idle EXCEPT !.op = op, !.what = w, !.grp = g, !.pc = next]]
        /\ UNCHANGED <<wallet, group, holder>>
    BY DEF AskWallet, Goto
  <1>2. next \in {"require_group", "lock_one", "find_group", "lock_all"}
        /\ (next = "lock_all" => op \in {"set_default", "delete"})
        /\ (next = "find_group" => op = "delete_group")
        /\ (op \in {"set_default", "delete"} => wallet[w].state # "none")
    BY DEF AskWallet, WalletOps
  <1> HIDE DEF next
  <1>3. req' \in [WalletRequests -> WalletWork] /\ req'[r].pc = next /\ req'[r].op = op /\ req'[r].what = w
        /\ \A q \in WalletRequests : q # r => req'[q] = req[q]
    BY <1>1, <1>2, IdleTyped DEF WalletWork, WalletStages, WalletsInv, WalletsTyped
  <1>4. WalletsTyped'
    BY <1>1, <1>2, <1>3 DEF WalletsInv, WalletsTyped, At
  <1>5. NamesWallet(r)' /\ HoldsOwn(r)' /\ PlanFits(r)' /\ ~HasLooked(r)'
    BY <1>1, <1>2, <1>3 DEF NamesWallet, HoldsOwn, PlanFits, HasLooked, Critical, At, MovesFlag
  <1> QED
    BY <1>1, <1>3, <1>4, <1>5, StepFits

LEMMA LockWalletKeeps ==
    ASSUME WalletsInv, NEW r \in WalletRequests, LockWallet(r) \/ RequireGroup(r) \/ FindGroup(r)
    PROVE  WalletsInv'
  <1>1. req[r] \in WalletWork
    BY DEF WalletsInv, WalletsTyped
  <1>0. PlanFits(r)
    BY DEF WalletsInv, RequestsFit
  <1>2. PICK phase \in {"require_group", "insert", "move", "locking"}, S \in SUBSET WalletIds :
          /\ req' = [req EXCEPT ![r] = [req[r] EXCEPT !.pc = phase, !.todo = S]]
          /\ phase = "locking" => req[r].op = "delete_group"
    <2>1. CASE LockWallet(r) \/ RequireGroup(r)
      <3>1. PICK phase \in {"require_group", "insert", "move"} : req' = [req EXCEPT ![r] = [req[r] EXCEPT !.pc = phase]]
        BY <2>1 DEF LockWallet, RequireGroup, Goto
      <3>2. [req[r] EXCEPT !.pc = phase] = [req[r] EXCEPT !.pc = phase, !.todo = req[r].todo]
        BY <1>1 DEF WalletWork
      <3> QED
        BY ZenonT(30), <3>1, <3>2, <1>1 DEF WalletWork
    <2>2. CASE FindGroup(r)
      <3>1. {w \in LiveWallets : wallet[w].group = req[r].grp} \in SUBSET WalletIds
        BY DEF LiveWallets
      <3> QED
        BY <2>2, <3>1, <1>0 DEF FindGroup, Goto, PlanFits
    <2> QED
      BY <2>1, <2>2
  <1>3. req' \in [WalletRequests -> WalletWork] /\ req'[r].pc = phase /\ req'[r].op = req[r].op
        /\ req'[r].what = req[r].what /\ \A q \in WalletRequests : q # r => req'[q] = req[q]
    BY <1>1, <1>2 DEF WalletWork, WalletStages, WalletsInv, WalletsTyped
  <1>4. /\ UNCHANGED <<wallet, group>>
        /\ holder' \in [WalletIds -> WalletRequests \cup {NoRequest}]
        /\ \A q \in WalletRequests, w \in WalletIds : q # r => (holder[w] = q <=> holder'[w] = q)
    BY DEF LockWallet, RequireGroup, FindGroup, Free, WalletsInv, WalletsTyped
  <1>5. WalletsTyped'
    BY <1>2, <1>3, <1>4 DEF WalletsInv, WalletsTyped, At
  <1>6. NamesWallet(r)
    BY DEF WalletsInv, RequestsFit
  <1>7. ~At(r, "idle")
    BY DEF LockWallet, RequireGroup, FindGroup, At
  <1>8. NamesWallet(r)' /\ HoldsOwn(r)' /\ PlanFits(r)' /\ ~HasLooked(r)'
    BY <1>2, <1>3, <1>4, <1>6, <1>7
       DEF NamesWallet, HoldsOwn, PlanFits, HasLooked, Critical, At, MovesFlag
  <1> QED
    BY <1>3, <1>4, <1>5, <1>8, StepFits

(* A request that ends without writing flags. *)
LEMMA EndKeeps ==
    ASSUME WalletsInv, NEW r \in WalletRequests, UpdateWallet(r) \/ DropGroup(r) \/ RollBackWallet(r)
    PROVE  WalletsInv'
  <1>1. End(r)
    BY DEF UpdateWallet, DropGroup, RollBackWallet
  <1>2. req[r].what \in WalletIds /\ req[r].grp \in WalletGroups \cup {NoGroup}
    BY DEF WalletsInv, WalletsTyped, WalletWork
  <1>3. /\ wallet' \in [WalletIds -> [state : {"none", "live", "deleted"},
                                      group : WalletGroups \cup {NoGroup}, isDefault : BOOLEAN]]
        /\ group' \in [WalletGroups -> BOOLEAN]
        /\ \A w \in WalletIds : /\ wallet'[w].state = wallet[w].state
                                /\ wallet'[w].isDefault = wallet[w].isDefault
    <2>1. CASE UpdateWallet(r)
      BY <2>1, <1>2 DEF UpdateWallet, WalletsInv, WalletsTyped
    <2>2. CASE DropGroup(r)
      <3>1. wallet' \in [WalletIds -> [state : {"none", "live", "deleted"},
                                      group : WalletGroups \cup {NoGroup}, isDefault : BOOLEAN]]
            /\ \A w \in WalletIds : /\ wallet'[w].state = wallet[w].state
                                    /\ wallet'[w].isDefault = wallet[w].isDefault
        BY <2>2 DEF DropGroup, WalletsInv, WalletsTyped
      <3>2. group' \in [WalletGroups -> BOOLEAN]
        BY <2>2 DEF DropGroup, WalletsInv, WalletsTyped
      <3> QED
        BY <3>1, <3>2
    <2>3. CASE RollBackWallet(r)
      BY <2>3 DEF RollBackWallet, WalletsInv, WalletsTyped
    <2> QED
      BY <2>1, <2>2, <2>3
  <1>4. WalletsTyped'
    BY <1>1, <1>3, EndLetsGo DEF WalletsInv, WalletsTyped, At
  <1>5. \A q \in WalletRequests, w \in WalletIds : q # r /\ holder[w] = q => holder'[w] = q
    BY <1>1, EndLetsGo DEF WalletsInv
  <1>6. req'[r].pc = "idle" /\ req'[r].todo = {} /\ \A q \in WalletRequests : q # r => req'[q] = req[q]
    BY <1>1, EndLetsGo DEF WalletsInv
  <1> QED
    BY <1>3, <1>4, <1>5, <1>6, IdleFits, StepFits

(* A statement that locks looks at the rows as they are, or waits in turn. *)
LEMMA LockWalletsKeeps ==
    ASSUME WalletsInv, NEW r \in WalletRequests, LockWallets(r)
    PROVE  WalletsInv'
  <1>1. req' = [req EXCEPT ![r] = [req[r] EXCEPT !.todo = LiveWallets, !.pc = "locking"]]
        /\ UNCHANGED <<wallet, group, holder>> /\ At(r, "lock_all")
    BY DEF LockWallets, Goto
  <1>2. LiveWallets \in SUBSET WalletIds /\ req[r] \in WalletWork
    BY DEF LiveWallets, WalletsInv, WalletsTyped
  <1>3. req' \in [WalletRequests -> WalletWork] /\ req'[r].pc = "locking" /\ req'[r].op = req[r].op
        /\ req'[r].todo = LiveWallets
        /\ req'[r].what = req[r].what /\ \A q \in WalletRequests : q # r => req'[q] = req[q]
    BY <1>1, <1>2 DEF WalletWork, WalletStages, WalletsInv, WalletsTyped
  <1>4. WalletsTyped'
    BY <1>1, <1>3 DEF WalletsInv, WalletsTyped, At
  <1>5. NamesWallet(r) /\ PlanFits(r)
    BY DEF WalletsInv, RequestsFit
  <1>6. NamesWallet(r)' /\ HoldsOwn(r)' /\ PlanFits(r)'
    BY <1>1, <1>3, <1>5 DEF NamesWallet, HoldsOwn, PlanFits, Critical, At, MovesFlag
  <1>7. \A w \in WalletIds : LiveNow(w) => Reaches(r, w)'
    BY <1>3 DEF LiveNow, LiveWallets, Reaches
  <1> QED
    BY <1>1, <1>3, <1>4, <1>6, <1>7, StepFits

LEMMA LockRowKeeps ==
    ASSUME WalletsInv, NEW r \in WalletRequests, NEW v \in req[r].todo, LockRow(r, v)
    PROVE  WalletsInv'
  <1>1. req' = [req EXCEPT ![r] = [req[r] EXCEPT !.todo = req[r].todo \ {v}]] /\ UNCHANGED <<wallet, group>>
    BY DEF LockRow, Goto
  <1>2. req[r] \in WalletWork /\ v \in WalletIds
    BY DEF WalletsInv, WalletsTyped, WalletWork
  <1>3. req' \in [WalletRequests -> WalletWork] /\ req'[r].pc = req[r].pc /\ req'[r].op = req[r].op
        /\ req'[r].todo = req[r].todo \ {v} /\ req'[r].cleared = req[r].cleared
        /\ req'[r].goal = req[r].goal /\ req'[r].seen = req[r].seen
        /\ req'[r].what = req[r].what /\ \A q \in WalletRequests : q # r => req'[q] = req[q]
    BY <1>1, <1>2 DEF WalletWork, WalletStages, WalletsInv, WalletsTyped
  <1>4. /\ holder' \in [WalletIds -> WalletRequests \cup {NoRequest}]
        /\ \A q \in WalletRequests, w \in WalletIds : q # r => (holder[w] = q <=> holder'[w] = q)
        /\ \A w \in WalletIds : holder[w] = r => holder'[w] = r
    BY <1>2 DEF LockRow, Free, WalletsInv, WalletsTyped
  <1>5. NamesWallet(r) /\ PlanFits(r) /\ HoldsOwn(r)
    BY DEF WalletsInv, RequestsFit
  <1>6. ~Critical(r) /\ (At(r, "idle") => FALSE)
    <2>1. req[r].todo # {}
      OBVIOUS
    <2> QED
      BY <2>1, <1>5 DEF HoldsOwn, PlanFits
  <1>7. WalletsTyped'
    BY <1>1, <1>3, <1>4, <1>6 DEF WalletsInv, WalletsTyped, At
  <1>8. NamesWallet(r)' /\ HoldsOwn(r)' /\ PlanFits(r)'
    BY <1>1, <1>3, <1>5, <1>6 DEF NamesWallet, HoldsOwn, PlanFits, Critical, At, MovesFlag
  <1>9. HasLooked(r)' => HasLooked(r) /\ \A w \in WalletIds : LiveNow(w) /\ Reaches(r, w) => Reaches(r, w)'
    BY <1>2, <1>3, <1>4 DEF HasLooked, MovesFlag, LiveNow, Reaches, LockRow, WalletsInv, WalletsTyped
  <1> QED
    BY <1>1, <1>3, <1>4, <1>7, <1>8, <1>9, StepFits

(* Who holds its wallet, live, goes on to move the flag. *)
LEMMA FindWalletKeeps ==
    ASSUME WalletsInv, NEW r \in WalletRequests, FindWallet(r)
    PROVE  WalletsInv'
  <1> DEFINE w == req[r].what
             phase == IF req[r].op = "delete" THEN "remove" ELSE "clear"
             taken == IF req[r].op = "delete" /\ wallet[w].isDefault THEN {w} ELSE {}
  <1>1. req' = [req EXCEPT ![r] = [req[r] EXCEPT !.pc = phase, !.cleared = taken]]
        /\ UNCHANGED <<wallet, group, holder>> /\ At(r, "locking")
    BY DEF FindWallet, Goto
  <1>2. req[r] \in WalletWork /\ w \in WalletIds
    BY DEF WalletsInv, WalletsTyped, WalletWork
  <1>3. req' \in [WalletRequests -> WalletWork] /\ req'[r].pc = phase /\ req'[r].op = req[r].op
        /\ req'[r].todo = req[r].todo /\ req'[r].cleared = taken
        /\ req'[r].what = w /\ \A q \in WalletRequests : q # r => req'[q] = req[q]
    BY ZenonT(30), <1>1, <1>2 DEF WalletWork, WalletStages, WalletsInv, WalletsTyped
  <1>4. PlanFits(r) /\ NamesWallet(r) /\ ReachesOwn(r)
    BY DEF WalletsInv, RequestsFit
  <1>5. HasLooked(r) /\ LiveNow(w) /\ holder[w] = r /\ req[r].todo = {}
    BY <1>4 DEF FindWallet, PlanFits, HasLooked, MovesFlag, At, ReachesOwn, Reaches, LiveNow
  <1>6. WalletsTyped'
    BY <1>1, <1>3 DEF WalletsInv, WalletsTyped, At
  <1>7. HoldsOwn(r)'
    BY <1>1, <1>3, <1>5 DEF HoldsOwn, HasLooked, MovesFlag, LiveNow
  <1>8. taken = Defaults \cap {w} \/ req[r].op # "delete"
    BY <1>2, <1>5 DEF Defaults, LiveWallets, LiveNow
  <1>9. NamesWallet(r)' /\ PlanFits(r)'
    <2>1. Defaults' = Defaults
      BY <1>1 DEF Defaults, LiveWallets
    <2>2. NamesWallet(r)'
      BY <1>1, <1>3, <1>5 DEF NamesWallet, At, LiveNow, MovesFlag
    <2> HIDE DEF taken
    <2>3. PlanFits(r)'
      BY <1>1, <1>3, <1>5, <1>8, <2>1 DEF PlanFits, HasLooked, At, MovesFlag
    <2> QED
      BY <2>2, <2>3
  <1>10. \A v \in WalletIds : Reaches(r, v) => Reaches(r, v)'
    BY <1>1, <1>3 DEF Reaches
  <1> QED
    BY <1>1, <1>3, <1>5, <1>6, <1>7, <1>9, <1>10, StepFits

LEMMA ClearDefaultKeeps ==
    ASSUME WalletsInv, NEW r \in WalletRequests, ClearDefault(r)
    PROVE  WalletsInv'
  <1> DEFINE w == req[r].what
  <1>1. req' = [req EXCEPT ![r] = [req[r] EXCEPT !.pc = "mark", !.cleared = Defaults, !.goal = {w}]]
        /\ UNCHANGED <<wallet, group>> /\ At(r, "clear")
    BY DEF ClearDefault, Goto
  <1>2. req[r] \in WalletWork /\ w \in WalletIds /\ Defaults \in SUBSET WalletIds
    BY DEF WalletsInv, WalletsTyped, WalletWork, Defaults, LiveWallets
  <1>3. req' \in [WalletRequests -> WalletWork] /\ req'[r].pc = "mark" /\ req'[r].op = req[r].op
        /\ req'[r].todo = req[r].todo /\ req'[r].cleared = Defaults /\ req'[r].goal = {w}
        /\ req'[r].what = w /\ \A q \in WalletRequests : q # r => req'[q] = req[q]
    BY <1>1, <1>2 DEF WalletWork, WalletStages, WalletsInv, WalletsTyped
  <1>4. PlanFits(r) /\ NamesWallet(r) /\ HoldsOwn(r)
    BY DEF WalletsInv, RequestsFit
  <1>5. /\ holder' \in [WalletIds -> WalletRequests \cup {NoRequest}]
        /\ \A q \in WalletRequests, v \in WalletIds : q # r => (holder[v] = q <=> holder'[v] = q)
        /\ \A v \in WalletIds : holder[v] = r => holder'[v] = r
    BY <1>2 DEF ClearDefault, Free, WalletsInv, WalletsTyped
  <1>6. WalletsTyped'
    BY <1>1, <1>3, <1>5 DEF WalletsInv, WalletsTyped, At
  <1>7. HoldsOwn(r)' /\ HasLooked(r) /\ req[r].op = "set_default"
    <2>1. HasLooked(r) /\ req[r].op = "set_default" /\ req[r].todo = {} /\ LiveNow(w) /\ holder[w] = r
      BY <1>1, <1>4 DEF HoldsOwn, PlanFits, Critical, At
    <2>2. HasLooked(r)' /\ req'[r].todo = {} /\ req'[r].what = w
      BY <1>3, <2>1 DEF HasLooked, MovesFlag
    <2>3. LiveNow(w)' /\ holder'[w] = r
      BY <1>1, <1>2, <1>5, <2>1 DEF LiveNow
    <2> QED
      BY <2>1, <2>2, <2>3 DEF HoldsOwn, LiveNow
  <1>8. NamesWallet(r)' /\ PlanFits(r)'
    <2>1. Defaults' = Defaults
      BY <1>1 DEF Defaults, LiveWallets
    <2> QED
      BY <1>1, <1>3, <1>4, <1>7, <2>1 DEF NamesWallet, PlanFits, At, MovesFlag
  <1>9. \A v \in WalletIds : Reaches(r, v) => Reaches(r, v)'
    <2>1. req'[r].todo = req[r].todo
      BY <1>3
    <2>2. \A v \in WalletIds : holder[v] = r => holder'[v] = r
      BY <1>5
    <2> QED
      BY <2>1, <2>2 DEF Reaches
  <1> QED
    BY <1>1, <1>3, <1>5, <1>6, <1>7, <1>8, <1>9, StepFits

(* A new wallet has no flag, and nobody who moves the flag asked for it. *)
LEMMA InsertWalletKeeps ==
    ASSUME WalletsInv, NEW r \in WalletRequests, InsertWallet(r)
    PROVE  WalletsInv'
  <1> DEFINE new == req[r].what
  <1>1. new \in WalletIds /\ req[r].grp \in WalletGroups \cup {NoGroup} /\ wallet[new].state = "none"
        /\ wallet' = [wallet EXCEPT ![new] = [state |-> "live", group |-> req[r].grp, isDefault |-> FALSE]]
        /\ End(r) /\ group' = group
    BY DEF InsertWallet, WalletsInv, WalletsTyped, WalletWork
  <1>2. WalletsTyped'
    BY <1>1, EndLetsGo DEF WalletsInv, WalletsTyped, At
  <1>3. /\ req'[r].pc = "idle" /\ req'[r].todo = {}
        /\ \A q \in WalletRequests : q # r => req'[q] = req[q]
        /\ \A q \in WalletRequests, w \in WalletIds : q # r => (holder[w] = q <=> holder'[w] = q)
    BY <1>1, EndLetsGo DEF WalletsInv, WalletsTyped
  <1>4. ~wallet[new].isDefault
    BY <1>1 DEF WalletsInv, OneFlag, LiveNow
  <1>5. /\ \A w \in WalletIds : wallet'[w].isDefault <=> wallet[w].isDefault
        /\ \A w \in WalletIds : w # new => wallet'[w] = wallet[w]
    BY <1>1, <1>4 DEF WalletsInv, WalletsTyped
  <1>6. OneFlag'
    BY <1>1, <1>4, <1>5 DEF WalletsInv, OneFlag, LiveNow
  <1>7. \A w \in WalletIds : w # new => (LiveNow(w)' <=> LiveNow(w))
    BY <1>5 DEF LiveNow
  <1>8. Defaults' = Defaults
    BY <1>4, <1>5 DEF Defaults, LiveWallets
  <1>9. ASSUME NEW q \in WalletRequests, q # r
        PROVE  /\ NamesWallet(q)' /\ ReachesOwn(q)' /\ HoldsOwn(q)' /\ PlanFits(q)'
               /\ HasLooked(q)' => HasLooked(q) /\ req[q].what # new
    <2>1. NamesWallet(q) /\ ReachesOwn(q) /\ HoldsOwn(q) /\ PlanFits(q)
      BY DEF WalletsInv, RequestsFit
    <2>2. req'[q] = req[q] /\ (HasLooked(q)' <=> HasLooked(q)) /\ (Critical(q)' <=> Critical(q))
      BY <1>3, <1>9 DEF HasLooked, MovesFlag, Critical
    <2>3. ~At(q, "idle") /\ MovesFlag(q) => req[q].what # new
      BY <1>1, <2>1 DEF NamesWallet
    <2>4. HasLooked(q) => req[q].what # new
      BY <2>3 DEF HasLooked, At
    <2>5. req[q].what \in WalletIds /\ \A h \in req[q].goal : h \in WalletIds
      BY DEF WalletsInv, WalletsTyped, WalletWork
    <2>6. NamesWallet(q)'
      BY <1>5, <2>1, <2>2, <2>3, <2>5 DEF NamesWallet, At, MovesFlag
    <2>7. ReachesOwn(q)' /\ HoldsOwn(q)'
      BY <1>3, <1>7, <1>9, <2>1, <2>2, <2>4, <2>5 DEF ReachesOwn, HoldsOwn, Reaches, HasLooked, WalletsInv, WalletsTyped, WalletWork
    <2>8. PlanFits(q)'
      <3>1. \A h \in req[q].goal : LiveNow(h) => LiveNow(h)'
        BY <1>1, <1>7, <2>5 DEF LiveNow, WalletsInv, WalletsTyped
      <3> QED
        BY <3>1, <1>8, <2>1, <2>2 DEF PlanFits, At, MovesFlag
    <2> QED
      BY <2>2, <2>4, <2>6, <2>7, <2>8
  <1>10. ASSUME NEW p \in WalletRequests, NEW q \in WalletRequests
         PROVE  OneReachesOther(p, q)'
    <2> SUFFICES ASSUME p # q, HasLooked(p)', HasLooked(q)', LiveNow(req[p].what)', LiveNow(req[q].what)'
                 PROVE  Reaches(p, req[q].what)' \/ Reaches(q, req[p].what)'
      BY DEF OneReachesOther
    <2>1. p # r /\ q # r
      BY <1>3, IdleFits
    <2>2. HasLooked(p) /\ HasLooked(q) /\ req[p].what # new /\ req[q].what # new
      BY <2>1, <1>9
    <2>3. req'[p] = req[p] /\ req'[q] = req[q] /\ req[p].what \in WalletIds /\ req[q].what \in WalletIds
      BY <2>1, <1>3 DEF WalletsInv, WalletsTyped, WalletWork
    <2>4. LiveNow(req[p].what) /\ LiveNow(req[q].what)
      BY <2>2, <2>3, <1>7 DEF LiveNow
    <2>5. Reaches(p, req[q].what) \/ Reaches(q, req[p].what)
      BY <2>2, <2>4 DEF WalletsInv, RequestsFit, OneReachesOther
    <2> QED
      BY <2>1, <2>3, <2>5, <1>3, StillReaches
  <1>11. NamesWallet(r)' /\ ReachesOwn(r)' /\ HoldsOwn(r)' /\ PlanFits(r)'
    BY <1>3, IdleFits DEF ReachesOwn
  <1> QED
    BY <1>2, <1>6, <1>9, <1>10, <1>11 DEF WalletsInv, RequestsFit

(* The heir is the least of the others, if the flag went at all. *)
LEMMA SoftDeleteKeeps ==
    ASSUME WalletsInv, NEW r \in WalletRequests, SoftDelete(r)
    PROVE  WalletsInv'
  <1> DEFINE w == req[r].what
             others == IF req[r].cleared = {} THEN {} ELSE LiveWallets \ {w}
             heir == IF others = {} THEN {} ELSE {Least(others)}
  <1>1. req' = [req EXCEPT ![r] = [req[r] EXCEPT !.pc = "mark", !.seen = others, !.goal = heir]]
        /\ UNCHANGED <<wallet, group>> /\ At(r, "remove")
    BY DEF SoftDelete, Goto
  <1>2. req[r] \in WalletWork /\ w \in WalletIds /\ others \in SUBSET WalletIds
    BY DEF WalletsInv, WalletsTyped, WalletWork, LiveWallets
  <1>3. heir \subseteq others /\ (heir = {} <=> others = {}) /\ \A g, h \in heir : g = h
    BY <1>2, LeastIsOne
  <1>4. \A h \in heir : LiveNow(h) /\ h # w
    <2> HIDE DEF heir
    <2> QED
      BY <1>3 DEF LiveWallets, LiveNow
  <1> HIDE DEF heir
  <1>5. req' \in [WalletRequests -> WalletWork] /\ req'[r].pc = "mark" /\ req'[r].op = req[r].op
        /\ req'[r].todo = req[r].todo /\ req'[r].cleared = req[r].cleared /\ req'[r].goal = heir
        /\ req'[r].seen = others
        /\ req'[r].what = w /\ \A q \in WalletRequests : q # r => req'[q] = req[q]
    BY <1>1, <1>2, <1>3 DEF WalletWork, WalletStages, WalletsInv, WalletsTyped
  <1>6. PlanFits(r) /\ NamesWallet(r) /\ HoldsOwn(r)
    BY DEF WalletsInv, RequestsFit
  <1>7. /\ holder' \in [WalletIds -> WalletRequests \cup {NoRequest}]
        /\ \A q \in WalletRequests, v \in WalletIds : q # r => (holder[v] = q <=> holder'[v] = q)
        /\ \A v \in WalletIds : holder[v] = r => holder'[v] = r
    BY <1>2 DEF SoftDelete, Free, WalletsInv, WalletsTyped
  <1>8. WalletsTyped'
    BY <1>1, <1>5, <1>7 DEF WalletsInv, WalletsTyped, At
  <1>9. req[r].op = "delete" /\ req[r].cleared = Defaults \cap {w}
        /\ HasLooked(r) /\ req[r].todo = {} /\ LiveNow(w) /\ holder[w] = r
    BY <1>1, <1>6 DEF HoldsOwn, PlanFits, Critical, At
  <1>10. HoldsOwn(r)' /\ NamesWallet(r)'
    <2>1. HasLooked(r)' /\ req'[r].todo = {} /\ req'[r].what = w
      BY <1>5, <1>9 DEF HasLooked, MovesFlag
    <2>2. LiveNow(w)' /\ holder'[w] = r
      BY <1>1, <1>2, <1>7, <1>9 DEF LiveNow
    <2> QED
      BY <2>1, <2>2 DEF HoldsOwn, LiveNow, NamesWallet
  <1>11. PlanFits(r)'
    <2>1. Defaults' = Defaults /\ \A h \in heir : LiveNow(h)'
      BY <1>1, <1>4 DEF Defaults, LiveWallets, LiveNow
    <2>2. At(r, "mark")' /\ ~At(r, "idle")' /\ ~At(r, "lock_all")' /\ ~At(r, "locking")'
          /\ ~At(r, "find_group")' /\ ~At(r, "clear")' /\ ~At(r, "remove")' /\ req'[r].op = "delete"
      BY <1>5, <1>9 DEF At
    <2>3. req[r].cleared = {} => heir = {}
      BY <1>3
    <2>4. heir = {} => others = {}
      BY <1>3
    <2> HIDE DEF others
    <2> QED
      BY <2>1, <2>2, <2>3, <2>4, <1>3, <1>4, <1>5, <1>9 DEF PlanFits
  <1>12. \A v \in WalletIds : Reaches(r, v) => Reaches(r, v)'
    <2>1. req'[r].todo = req[r].todo
      BY <1>5
    <2>2. \A v \in WalletIds : holder[v] = r => holder'[v] = r
      BY <1>7
    <2> QED
      BY <2>1, <2>2 DEF Reaches
  <1> QED
    <2> HIDE DEF others
    <2>1. \A v \in WalletIds : wallet'[v].state = wallet[v].state /\ (wallet'[v].isDefault = wallet[v].isDefault)
      BY <1>1
    <2>2. \A q \in WalletRequests, v \in WalletIds : q # r /\ holder[v] = q => holder'[v] = q
      BY <1>7
    <2>3. HasLooked(r) /\ req'[r].what = req[r].what
      BY <1>5, <1>9
    <2>4. \A q \in WalletRequests : q # r => req'[q] = req[q]
      BY <1>5
    <2> QED
      BY <2>1, <2>2, <2>3, <2>4, <1>8, <1>10, <1>11, <1>12, StepFits

(* Whoever sets the flag is alone at it, and took it from who had it. *)
LEMMA FlagFree ==
    ASSUME WalletsInv, NEW r \in WalletRequests, At(r, "mark"), req[r].goal # {}
    PROVE  FlagIsFree(r)
  <1>1. PlanFits(r) /\ HoldsOwn(r)
    BY DEF WalletsInv, RequestsFit
  <1>2. req[r].op \in {"set_default", "delete"}
    BY <1>1 DEF HoldsOwn, Critical, At, HasLooked, MovesFlag
  <1>3. \A v, w \in Defaults : v = w
    BY DEF WalletsInv, OneFlag, Defaults, LiveWallets
  <1> QED
    BY <1>1, <1>2, <1>3 DEF PlanFits, FlagIsFree

LEMMA FlagGoes ==
    ASSUME NEW r \in WalletRequests, MarkDefault(r)
    PROVE  \A w \in WalletIds : wallet'[w].isDefault <=> \/ w \in req[r].goal /\ wallet[w].state = "live"
                                                         \/ wallet[w].isDefault /\ w \notin req[r].cleared
  <1> TAKE w \in WalletIds
  <1>1. wallet'[w].isDefault = (\/ w \in req[r].goal /\ wallet[w].state = "live"
                                \/ wallet[w].isDefault /\ w \notin req[r].cleared)
    BY DEF MarkDefault
  <1> QED
    BY <1>1

LEMMA MarkDefaultKeeps ==
    ASSUME WalletsInv, NEW r \in WalletRequests, MarkDefault(r)
    PROVE  WalletsInv'
  <1> DEFINE gone(w) == req[r].op = "delete" /\ w = req[r].what
  <1>1. /\ wallet' = [w \in WalletIds |->
              [state |-> IF gone(w) THEN "deleted" ELSE wallet[w].state,
               group |-> wallet[w].group,
               isDefault |-> \/ w \in req[r].goal /\ wallet[w].state = "live"
                             \/ wallet[w].isDefault /\ w \notin req[r].cleared]]
        /\ End(r) /\ group' = group /\ At(r, "mark")
    BY DEF MarkDefault
  <1>2. req[r].what \in WalletIds /\ req[r].goal \in SUBSET WalletIds
    BY DEF WalletsInv, WalletsTyped, WalletWork
  <1>3. \A w \in WalletIds : /\ wallet'[w].state = IF gone(w) THEN "deleted" ELSE wallet[w].state
                             /\ wallet'[w].isDefault <=> \/ w \in req[r].goal /\ wallet[w].state = "live"
                                                         \/ wallet[w].isDefault /\ w \notin req[r].cleared
    <2>1. \A w \in WalletIds : wallet'[w].state = IF gone(w) THEN "deleted" ELSE wallet[w].state
      BY <1>1
    <2>2. \A w \in WalletIds : wallet'[w].isDefault <=> \/ w \in req[r].goal /\ wallet[w].state = "live"
                                                        \/ wallet[w].isDefault /\ w \notin req[r].cleared
      BY FlagGoes
    <2> QED
      BY <2>1, <2>2
  <1>4. WalletsTyped'
    <2>1. wallet' \in [WalletIds -> [state : {"none", "live", "deleted"},
                                     group : WalletGroups \cup {NoGroup}, isDefault : BOOLEAN]]
      BY <1>1 DEF WalletsInv, WalletsTyped
    <2> QED
      BY <2>1, <1>1, EndLetsGo DEF WalletsInv, WalletsTyped, At
  <1>5. /\ req'[r].pc = "idle" /\ req'[r].todo = {}
        /\ \A q \in WalletRequests : q # r => req'[q] = req[q]
        /\ \A q \in WalletRequests, w \in WalletIds : q # r => (holder[w] = q <=> holder'[w] = q)
    BY <1>1, EndLetsGo DEF WalletsInv, WalletsTyped
  <1>6. PlanFits(r) /\ HoldsOwn(r)
    BY DEF WalletsInv, RequestsFit
  <1>7. Critical(r) /\ req[r].op \in {"set_default", "delete"} /\ LiveNow(req[r].what)
    BY <1>1, <1>6 DEF HoldsOwn, Critical, At, HasLooked, MovesFlag
  <1>8. \A q \in WalletRequests : q # r => ~Critical(q)
    BY <1>7, CriticalAlone
  <1>9. OneFlag'
    <2>1. \A w \in WalletIds : wallet[w].isDefault <=> w \in Defaults
      BY DEF WalletsInv, OneFlag, Defaults, LiveWallets, LiveNow
    <2>2. \A g, h \in req[r].goal : g = h
      BY <1>1, <1>6, <1>7 DEF PlanFits
    <2>3. \A h \in req[r].goal : LiveNow(h) /\ ~gone(h)
      BY <1>1, <1>6, <1>7 DEF PlanFits
    <2>4. req[r].goal # {} => FlagIsFree(r)
      BY <1>1, FlagFree
    <2>5. gone(req[r].what) => req[r].cleared = Defaults \cap {req[r].what}
      BY <1>1, <1>6 DEF PlanFits
    <2>6. ASSUME NEW w \in WalletIds, wallet'[w].isDefault PROVE LiveNow(w)'
      <3>1. CASE w \in req[r].goal
        BY <3>1, <2>3, <1>3 DEF LiveNow
      <3>2. CASE w \notin req[r].goal
        <4>1. wallet[w].isDefault /\ w \notin req[r].cleared
          BY <3>2, <2>6, <1>3
        <4>2. ~gone(w)
          BY <4>1, <2>1, <2>5
        <4> QED
          BY <4>1, <4>2, <1>3 DEF WalletsInv, OneFlag, LiveNow
      <3> QED
        BY <3>1, <3>2
    <2>7. ASSUME NEW v \in WalletIds, NEW w \in WalletIds, wallet'[v].isDefault, wallet'[w].isDefault
          PROVE  v = w
      <3>1. CASE req[r].goal = {}
        BY <3>1, <2>7, <1>3 DEF WalletsInv, OneFlag
      <3>2. CASE req[r].goal # {}
        <4>1. \A u \in WalletIds : wallet'[u].isDefault => u \in req[r].goal
          BY <3>2, <2>1, <2>4, <1>3 DEF FlagIsFree
        <4> QED
          BY <4>1, <2>2, <2>7
      <3> QED
        BY <3>1, <3>2
    <2> QED
      BY <2>6, <2>7 DEF OneFlag
  <1>10. \A w \in WalletIds : LiveNow(w)' => LiveNow(w)
    BY <1>3 DEF LiveNow
  <1>11. ASSUME NEW q \in WalletRequests, q # r
         PROVE  /\ NamesWallet(q)' /\ ReachesOwn(q)' /\ HoldsOwn(q)' /\ PlanFits(q)'
                /\ HasLooked(q)' => HasLooked(q)
    <2>1. NamesWallet(q) /\ ReachesOwn(q) /\ HoldsOwn(q) /\ PlanFits(q) /\ ~Critical(q)
      BY <1>8, <1>11 DEF WalletsInv, RequestsFit
    <2>2. req'[q] = req[q] /\ (HasLooked(q)' <=> HasLooked(q)) /\ ~Critical(q)'
      BY <1>5, <1>11, <2>1 DEF HasLooked, MovesFlag, Critical
    <2>3. req[q].what \in WalletIds
      BY DEF WalletsInv, WalletsTyped, WalletWork
    <2>4. NamesWallet(q)'
      BY <1>3, <2>1, <2>2, <2>3 DEF NamesWallet, At, MovesFlag
    <2>5. ReachesOwn(q)' /\ HoldsOwn(q)'
      BY <1>5, <1>10, <1>11, <2>1, <2>2, <2>3 DEF ReachesOwn, HoldsOwn, Reaches
    <2>6. PlanFits(q)'
      BY <2>1, <2>2 DEF PlanFits, At, MovesFlag, Critical
    <2> QED
      BY <2>2, <2>4, <2>5, <2>6
  <1>12. ASSUME NEW p \in WalletRequests, NEW q \in WalletRequests
         PROVE  OneReachesOther(p, q)'
    <2> SUFFICES ASSUME p # q, HasLooked(p)', HasLooked(q)', LiveNow(req[p].what)', LiveNow(req[q].what)'
                 PROVE  Reaches(p, req[q].what)' \/ Reaches(q, req[p].what)'
      BY DEF OneReachesOther
    <2>1. p # r /\ q # r
      BY <1>5, IdleFits
    <2>2. HasLooked(p) /\ HasLooked(q)
      BY <2>1, <1>11
    <2>3. req'[p] = req[p] /\ req'[q] = req[q] /\ req[p].what \in WalletIds /\ req[q].what \in WalletIds
      BY <2>1, <1>5 DEF WalletsInv, WalletsTyped, WalletWork
    <2>4. LiveNow(req[p].what) /\ LiveNow(req[q].what)
      BY <2>3, <1>10 DEF LiveNow
    <2>5. Reaches(p, req[q].what) \/ Reaches(q, req[p].what)
      BY <2>2, <2>4 DEF WalletsInv, RequestsFit, OneReachesOther
    <2> QED
      BY <2>1, <2>3, <2>5, <1>5, StillReaches
  <1>13. NamesWallet(r)' /\ ReachesOwn(r)' /\ HoldsOwn(r)' /\ PlanFits(r)'
    BY <1>5, IdleFits DEF ReachesOwn
  <1> QED
    BY <1>4, <1>9, <1>11, <1>12, <1>13 DEF WalletsInv, RequestsFit

LEMMA WalletsAlways == WalletsSpec => []WalletsInv
  <1>1. WalletsInv /\ [WalletsNext]_walletsVars => WalletsInv'
    <2> SUFFICES ASSUME WalletsInv, [WalletsNext]_walletsVars PROVE WalletsInv'
      OBVIOUS
    <2>1. CASE UNCHANGED walletsVars
      BY <2>1 DEF walletsVars, WalletsInv, WalletsTyped, OneFlag, RequestsFit, NamesWallet, ReachesOwn,
                  HoldsOwn, PlanFits, OneReachesOther, HasLooked, Critical, MovesFlag, Reaches, LiveNow, At,
                  Defaults, LiveWallets
    <2>2. CASE WalletsNext
      <3>1. PICK r \in WalletRequests :
              \/ \E op \in WalletOps, w \in WalletIds, g \in WalletGroups \cup {NoGroup} : AskWallet(r, op, w, g)
              \/ RequireGroup(r) \/ InsertWallet(r) \/ LockWallet(r) \/ UpdateWallet(r)
              \/ LockWallets(r) \/ FindWallet(r) \/ ClearDefault(r)
              \/ \E w \in req[r].todo : LockRow(r, w)
              \/ SoftDelete(r) \/ MarkDefault(r)
              \/ FindGroup(r) \/ DropGroup(r) \/ RollBackWallet(r)
        BY <2>2 DEF WalletsNext
      <3> QED
        BY <3>1, AskWalletKeeps, LockWalletKeeps, InsertWalletKeeps, EndKeeps, LockWalletsKeeps, LockRowKeeps,
           FindWalletKeeps, ClearDefaultKeeps, SoftDeleteKeeps, MarkDefaultKeeps
    <2> QED
      BY <2>1, <2>2
  <1> QED
    BY <1>1, WalletsStart, PTL DEF WalletsSpec

\* Wallets and the requests about them are well typed.
THEOREM WalletsTypedAlways == WalletsSpec => []WalletsTypeOK
  <1>1. WalletsInv => WalletsTypeOK
    BY DEF WalletsInv, WalletsTyped, WalletsTypeOK, WalletWork
  <1> QED
    BY <1>1, WalletsAlways, PTL

LEMMA AtMostOne ==
    ASSUME NEW S, \A v, w \in S : v = w
    PROVE  IsFiniteSet(S) /\ Cardinality(S) <= 1
  <1>1. CASE S = {}
    BY <1>1, FS_EmptySet
  <1>2. CASE S # {}
    <2>1. PICK s : S = {s}
      BY <1>2
    <2> QED
      <3>1. IsFiniteSet({s}) /\ Cardinality({s}) = 1
        BY FS_Singleton
      <3> QED
        BY <2>1, <3>1
  <1> QED
    BY <1>1, <1>2

\* A workspace never has two default wallets, although requests that
\* create, choose and delete wallets move the flag beside each other.
THEOREM OneDefaultAlways == WalletsSpec => []OneDefault
  <1>1. WalletsInv => OneDefault
    BY AtMostOne DEF WalletsInv, OneFlag, OneDefault
  <1> QED
    BY <1>1, WalletsAlways, PTL

\* A request that sets the flag finds it free: who moves it holds the row of
\* the workspace, so the unique index never refuses.
THEOREM FlagMoversWait == WalletsSpec => []IndexNeverTrips
  <1>1. WalletsInv => IndexNeverTrips
    BY FlagFree DEF IndexNeverTrips
  <1> QED
    BY <1>1, WalletsAlways, PTL

\* The default is lost only with the last wallet the request that moves the
\* flag could see: every wallet left was created after it looked.
THEOREM FlagIsHandedOn == WalletsSpec => DefaultHandedOn
  <1>1. ASSUME WalletsInv, WalletsInv', [WalletsNext]_walletsVars, Defaults # {}, Defaults' = {}
        PROVE  \E r \in WalletRequests : At(r, "mark") /\ LiveWallets' \cap req[r].seen = {}
    <2>1. PICK d \in WalletIds : wallet[d].isDefault /\ LiveNow(d)
      BY <1>1 DEF Defaults, LiveWallets, LiveNow
    <2>2. ~wallet'[d].isDefault
      BY <1>1, <2>1 DEF WalletsInv, OneFlag, Defaults, LiveWallets, LiveNow
    <2>3. PICK r \in WalletRequests :
            \/ \E op \in WalletOps, w \in WalletIds, g \in WalletGroups \cup {NoGroup} : AskWallet(r, op, w, g)
            \/ RequireGroup(r) \/ InsertWallet(r) \/ LockWallet(r) \/ UpdateWallet(r)
            \/ LockWallets(r) \/ FindWallet(r) \/ ClearDefault(r)
            \/ \E w \in req[r].todo : LockRow(r, w)
            \/ SoftDelete(r) \/ MarkDefault(r)
            \/ FindGroup(r) \/ DropGroup(r) \/ RollBackWallet(r)
      BY <2>1, <2>2, <1>1 DEF WalletsNext, walletsVars
    <2>4. MarkDefault(r)
      <3>1. CASE InsertWallet(r) \/ UpdateWallet(r) \/ DropGroup(r)
        <4>1. \A w \in WalletIds : wallet'[w].isDefault = wallet[w].isDefault \/ InsertWallet(r)
          BY <3>1, <1>1 DEF UpdateWallet, DropGroup, WalletsInv, WalletsTyped
        <4>2. InsertWallet(r) /\ wallet[req[r].what].state = "none"
          BY <2>1, <2>2, <4>1 DEF InsertWallet
        <4>3. req[r].what # d
          BY <2>1, <4>2 DEF LiveNow
        <4>4. wallet'[d] = wallet[d]
          BY <2>1, <4>2, <4>3, <1>1 DEF InsertWallet, WalletsInv, WalletsTyped
        <4> QED
          BY <2>1, <2>2, <4>4
      <3>2. wallet' # wallet
        BY <2>1, <2>2
      <3> QED
        BY <2>3, <3>1, <3>2 DEF AskWallet, RequireGroup, LockWallet, LockWallets, FindWallet, ClearDefault, LockRow,
                                SoftDelete, FindGroup, RollBackWallet
    <2>5. At(r, "mark") /\ PlanFits(r) /\ HoldsOwn(r) /\ req[r].goal \in SUBSET WalletIds
          /\ req[r].what \in WalletIds
      BY <2>4, <1>1 DEF MarkDefault, WalletsInv, RequestsFit, WalletsTyped, WalletWork
    <2>6. req[r].op \in {"set_default", "delete"} /\ LiveNow(req[r].what)
      BY <2>5 DEF HoldsOwn, Critical, At, HasLooked, MovesFlag
    <2>7. \A h \in req[r].goal : LiveNow(h)
      BY <2>5, <2>6 DEF PlanFits
    <2>8. \A w \in WalletIds : wallet'[w].isDefault <=> \/ w \in req[r].goal /\ wallet[w].state = "live"
                                                        \/ wallet[w].isDefault /\ w \notin req[r].cleared
      BY <2>4, <1>1, FlagGoes
    <2>9. req[r].goal = {}
      <3> SUFFICES ASSUME NEW h \in req[r].goal PROVE FALSE
        OBVIOUS
      <3>1. h \in WalletIds /\ wallet'[h].isDefault
        <4>1. h \in WalletIds
          BY <2>5
        <4>2. wallet[h].state = "live"
          BY <2>7 DEF LiveNow
        <4> QED
          BY <2>8, <4>1, <4>2
      <3> QED
        BY <3>1, <1>1 DEF WalletsInv, OneFlag, Defaults, LiveWallets, LiveNow
    <2>10. d \in req[r].cleared
      BY <2>1, <2>2, <2>8
    <2>11. req[r].seen = {}
      BY <2>5, <2>6, <2>9, <2>10 DEF PlanFits
    <2> QED
      BY <2>5, <2>11
  <1> QED
    BY <1>1, WalletsAlways, PTL DEF WalletsSpec, DefaultHandedOn

HIDE WalletsAssumption

(***************************************************************************)
(* Categories and budgets.                                                 *)
(***************************************************************************)
(***************************************************************************)
(* Categories: budgets and deletions.                                      *)
(***************************************************************************)
CategoryStages ==
    {"idle", "check", "write", "look", "rows", "items", "category", "budget", "commit"}
CategoryOps == {"label", "create_budget", "update_budget", "delete_budget", "delete_category"}

CategoryWork ==
    [pc : CategoryStages, op : CategoryOps, what : Categories \cup {NoCategory},
     which : SUBSET (BudgetIds \cup Rows \cup Items), found : SUBSET (Rows \cup Items),
     seen : SUBSET BudgetIds]

CategoriesTyped ==
    /\ category \in [Categories -> Kinds \cup {"deleted"}]
    /\ budget \in [BudgetIds -> [state : {"none", "live", "deleted"},
                                 on : Categories \cup {NoCategory}]]
    /\ label \in [Rows \cup Items -> Categories \cup {NoCategory}]
    /\ touched \in [CategoryRequests -> SUBSET (Rows \cup Items)]
    /\ ask \in [CategoryRequests -> CategoryWork]

(* A row is cleared by one open deletion. *)
ClearedByOne ==
    /\ \A r, q \in CategoryRequests : r # q => touched[r] \cap touched[q] = {}
    /\ \A r \in CategoryRequests : In(r, "idle") => touched[r] = {}

(* What a request works on. *)
WorksOn(r) ==
    /\ ask[r].op = "create_budget" => ask[r].what \in Categories /\ \E b \in BudgetIds : ask[r].which = {b}
    /\ ask[r].pc \in {"look", "write"} /\ ask[r].op = "create_budget" => ask[r].what \in Categories
    /\ ask[r].pc \in {"rows", "items", "category", "budget", "commit"} =>
          ask[r].op = "delete_category" /\ ask[r].what \in Categories
    /\ ask[r].pc \in {"items", "category", "budget", "commit"} => ask[r].found = touched[r]
    /\ In(r, "commit") => ask[r].which = ask[r].seen

(* Of the live budgets no two are on one category. *)
OnePerCategory ==
    \A a, b \in BudgetIds :
       budget[a].state = "live" /\ budget[b].state = "live" /\ budget[a].on = budget[b].on => a = b

CategoriesInv ==
    /\ CategoriesTyped /\ ClearedByOne /\ OnePerCategory
    /\ \A r \in CategoryRequests : WorksOn(r)

USE CategoriesAssumption

LEMMA WaitingTyped == Waiting \in CategoryWork /\ Waiting.pc = "idle" /\ Waiting.op = "label"
  BY DEF Waiting, CategoryWork, CategoryStages, CategoryOps

LEMMA CategoriesStart == CategoriesInit => CategoriesInv
  <1> SUFFICES ASSUME CategoriesInit PROVE CategoriesInv
    OBVIOUS
  <1>1. CategoriesTyped
    BY WaitingTyped DEF CategoriesInit, CategoriesTyped, Kinds
  <1>2. ClearedByOne /\ OnePerCategory
    BY DEF CategoriesInit, ClearedByOne, OnePerCategory
  <1>3. \A r \in CategoryRequests : WorksOn(r)
    BY WaitingTyped DEF CategoriesInit, WorksOn, In
  <1> QED
    BY <1>1, <1>2, <1>3 DEF CategoriesInv

(* A step of one request, whose own record fits what it has cleared. *)
LEMMA AskFits ==
    ASSUME CategoriesInv, NEW r \in CategoryRequests, NEW work \in CategoryWork,
           ask' = [ask EXCEPT ![r] = work],
           touched' \in [CategoryRequests -> SUBSET (Rows \cup Items)],
           \A q \in CategoryRequests : q # r => touched'[q] = touched[q],
           \A q \in CategoryRequests : q # r => touched'[r] \cap touched[q] = {},
           work.pc = "idle" => touched'[r] = {},
           work.op = "create_budget" => work.what \in Categories /\ \E b \in BudgetIds : work.which = {b},
           work.pc \in {"rows", "items", "category", "budget", "commit"} =>
              work.op = "delete_category" /\ work.what \in Categories,
           work.pc \in {"items", "category", "budget", "commit"} => work.found = touched'[r],
           work.pc = "commit" => work.which = work.seen,
           category' \in [Categories -> Kinds \cup {"deleted"}],
           label' \in [Rows \cup Items -> Categories \cup {NoCategory}],
           budget' \in [BudgetIds -> [state : {"none", "live", "deleted"}, on : Categories \cup {NoCategory}]],
           OnePerCategory'
    PROVE  CategoriesInv'
  <1>1. ask \in [CategoryRequests -> CategoryWork]
    BY DEF CategoriesInv, CategoriesTyped
  <1>2. ask'[r] = work /\ \A q \in CategoryRequests : q # r => ask'[q] = ask[q]
    BY <1>1
  <1>3. CategoriesTyped'
    BY <1>1 DEF CategoriesTyped
  <1>4. ClearedByOne'
    BY <1>2 DEF CategoriesInv, ClearedByOne, In
  <1>5. \A q \in CategoryRequests : WorksOn(q)'
    <2> TAKE q \in CategoryRequests
    <2>1. CASE q = r
      BY <2>1, <1>2 DEF WorksOn, In
    <2>2. CASE q # r
      <3>1. WorksOn(q) /\ ask'[q] = ask[q] /\ touched'[q] = touched[q]
        BY <2>2, <1>2 DEF CategoriesInv
      <3> QED
        BY <3>1 DEF WorksOn, In
    <2> QED
      BY <2>1, <2>2
  <1> QED
    BY <1>3, <1>4, <1>5 DEF CategoriesInv

(* The request ends, and lets go of what it has cleared. *)
LEMMA OverFits ==
    ASSUME CategoriesInv, NEW r \in CategoryRequests, Over(r),
           category' \in [Categories -> Kinds \cup {"deleted"}],
           label' \in [Rows \cup Items -> Categories \cup {NoCategory}],
           budget' \in [BudgetIds -> [state : {"none", "live", "deleted"}, on : Categories \cup {NoCategory}]],
           OnePerCategory'
    PROVE  CategoriesInv'
  <1>1. ask' = [ask EXCEPT ![r] = Waiting] /\ touched' = [touched EXCEPT ![r] = {}]
    BY DEF Over, Now
  <1>2. touched' \in [CategoryRequests -> SUBSET (Rows \cup Items)] /\ touched'[r] = {}
        /\ \A q \in CategoryRequests : q # r => touched'[q] = touched[q]
    BY <1>1 DEF CategoriesInv, CategoriesTyped
  <1>3. \A q \in CategoryRequests : q # r => touched'[r] \cap touched[q] = {}
    BY <1>2
  <1> DEFINE work == Waiting
  <1>4. work \in CategoryWork /\ work.op # "create_budget" /\ ask' = [ask EXCEPT ![r] = work]
        /\ work.pc \notin {"rows", "items", "category", "budget", "commit"}
    BY <1>1, WaitingTyped
  <1> HIDE DEF work
  <1> QED
    BY <1>2, <1>3, <1>4, AskFits

(* A request begins: nothing is cleared, nothing written. *)
LEMMA BeginFits ==
    ASSUME CategoriesInv, NEW r \in CategoryRequests, In(r, "idle"), NEW work \in CategoryWork,
           work.pc \in {"check", "write", "rows"},
           work.op = "create_budget" => work.what \in Categories /\ \E b \in BudgetIds : work.which = {b},
           work.pc = "rows" => work.op = "delete_category" /\ work.what \in Categories,
           ask' = [ask EXCEPT ![r] = work], UNCHANGED <<category, budget, label, touched>>
    PROVE  CategoriesInv'
  <1>1. /\ category' \in [Categories -> Kinds \cup {"deleted"}]
        /\ label' \in [Rows \cup Items -> Categories \cup {NoCategory}]
        /\ budget' \in [BudgetIds -> [state : {"none", "live", "deleted"}, on : Categories \cup {NoCategory}]]
        /\ touched' \in [CategoryRequests -> SUBSET (Rows \cup Items)]
    BY DEF CategoriesInv, CategoriesTyped
  <1>2. \A q \in CategoryRequests : q # r => touched'[r] \cap touched[q] = {}
    BY DEF CategoriesInv, ClearedByOne
  <1>3. OnePerCategory'
    BY DEF CategoriesInv, OnePerCategory
  <1> QED
    BY <1>1, <1>2, <1>3, AskFits

LEMMA CategoriesStep == CategoriesInv /\ [CategoriesNext]_categoriesVars => CategoriesInv'
  <1> SUFFICES ASSUME CategoriesInv, [CategoriesNext]_categoriesVars PROVE CategoriesInv'
    OBVIOUS
  <1>0. /\ category \in [Categories -> Kinds \cup {"deleted"}]
        /\ label \in [Rows \cup Items -> Categories \cup {NoCategory}]
        /\ budget \in [BudgetIds -> [state : {"none", "live", "deleted"}, on : Categories \cup {NoCategory}]]
        /\ touched \in [CategoryRequests -> SUBSET (Rows \cup Items)]
        /\ ask \in [CategoryRequests -> CategoryWork]
        /\ OnePerCategory
    BY DEF CategoriesInv, CategoriesTyped
  <1>1. ASSUME NEW r \in CategoryRequests, NEW l \in Rows \cup Items, NEW c \in Categories \cup {NoCategory},
               AskLabel(r, l, c)
        PROVE  CategoriesInv'
    <2> DEFINE work == [Waiting EXCEPT !.op = "label", !.pc = "check", !.what = c, !.which = {l}]
    <2>1. work \in CategoryWork /\ work.pc = "check" /\ work.op = "label"
      BY DEF Waiting, CategoryWork, CategoryStages, CategoryOps
    <2>2. In(r, "idle") /\ ask' = [ask EXCEPT ![r] = work] /\ UNCHANGED <<category, budget, label, touched>>
      BY <1>1 DEF AskLabel, Now
    <2> HIDE DEF work
    <2> QED
      BY <2>1, <2>2, BeginFits
  <1>2. ASSUME NEW r \in CategoryRequests, NEW c \in Categories, NEW b \in BudgetIds, AskCreateBudget(r, c, b)
        PROVE  CategoriesInv'
    <2> DEFINE work == [Waiting EXCEPT !.op = "create_budget", !.pc = "check", !.what = c, !.which = {b}]
    <2>1. work \in CategoryWork /\ work.pc = "check" /\ work.what = c /\ work.which = {b}
      BY DEF Waiting, CategoryWork, CategoryStages, CategoryOps
    <2>2. In(r, "idle") /\ ask' = [ask EXCEPT ![r] = work] /\ UNCHANGED <<category, budget, label, touched>>
      BY <1>2 DEF AskCreateBudget, Now
    <2> HIDE DEF work
    <2> QED
      BY <2>1, <2>2, BeginFits
  <1>3. ASSUME NEW r \in CategoryRequests, NEW b \in BudgetIds, NEW op \in {"update_budget", "delete_budget"},
               AskBudget(r, op, b)
        PROVE  CategoriesInv'
    <2> DEFINE work == [Waiting EXCEPT !.op = op, !.pc = "write", !.which = {b}]
    <2>1. work \in CategoryWork /\ work.pc = "write" /\ work.op # "create_budget"
      BY DEF Waiting, CategoryWork, CategoryStages, CategoryOps
    <2>2. In(r, "idle") /\ ask' = [ask EXCEPT ![r] = work] /\ UNCHANGED <<category, budget, label, touched>>
      BY <1>3 DEF AskBudget, Now
    <2> HIDE DEF work
    <2> QED
      BY <2>1, <2>2, BeginFits
  <1>4. ASSUME NEW r \in CategoryRequests, NEW c \in Categories, AskDeleteCategory(r, c)
        PROVE  CategoriesInv'
    <2> DEFINE work == [Waiting EXCEPT !.op = "delete_category", !.pc = "rows", !.what = c]
    <2>1. work \in CategoryWork /\ work.pc = "rows" /\ work.op = "delete_category" /\ work.what = c
      BY DEF Waiting, CategoryWork, CategoryStages, CategoryOps
    <2>2. In(r, "idle") /\ ask' = [ask EXCEPT ![r] = work] /\ UNCHANGED <<category, budget, label, touched>>
      BY <1>4 DEF AskDeleteCategory, Now
    <2> HIDE DEF work
    <2> QED
      BY <2>1, <2>2, BeginFits
  <1>5. ASSUME NEW r \in CategoryRequests, RequireCategory(r) \/ FindExpense(r) \/ FindForCategory(r) \/ MarkDeleted(r)
        PROVE  CategoriesInv'
    <2>1. PICK phase \in {"write", "look", "budget"} :
            /\ ask' = [ask EXCEPT ![r] = [ask[r] EXCEPT !.pc = phase]]
            /\ phase = "budget" => In(r, "category")
      BY <1>5 DEF RequireCategory, FindExpense, FindForCategory, MarkDeleted, Now
    <2> DEFINE work == [ask[r] EXCEPT !.pc = phase]
    <2>2. work \in CategoryWork /\ work.pc = phase /\ work.op = ask[r].op /\ work.what = ask[r].what
          /\ work.which = ask[r].which /\ work.found = ask[r].found
      BY <1>0 DEF CategoryWork, CategoryStages
    <2>3. UNCHANGED <<category, budget, label, touched>>
      BY <1>5 DEF RequireCategory, FindExpense, FindForCategory, MarkDeleted
    <2>4. WorksOn(r)
      BY DEF CategoriesInv
    <2>5. \A q \in CategoryRequests : q # r => touched'[r] \cap touched[q] = {}
      BY <2>3 DEF CategoriesInv, ClearedByOne
    <2>6. OnePerCategory'
      BY <1>0, <2>3 DEF OnePerCategory
    <2>7. work.pc = "budget" => work.op = "delete_category" /\ work.what \in Categories /\ work.found = touched'[r]
      BY <2>1, <2>2, <2>3, <2>4 DEF WorksOn, In
    <2>8. work.op = "create_budget" => work.what \in Categories /\ \E b \in BudgetIds : work.which = {b}
      BY <2>2, <2>4 DEF WorksOn
    <2> HIDE DEF work
    <2> QED
      BY <1>0, <2>1, <2>2, <2>3, <2>5, <2>6, <2>7, <2>8, AskFits DEF work
  <1>6. ASSUME NEW r \in CategoryRequests, ClearRows(r) \/ ClearItems(r)
        PROVE  CategoriesInv'
    <2>1. PICK S \in SUBSET (Rows \cup Items), phase \in {"items", "category"} :
            /\ ask' = [ask EXCEPT ![r] = [ask[r] EXCEPT !.pc = phase, !.found = S]]
            /\ touched' = [touched EXCEPT ![r] = S]
            /\ \A q \in CategoryRequests : q # r => S \cap touched[q] = {}
            /\ ask[r].pc \in {"rows", "items"}
      <3>1. CASE ClearRows(r)
        <4>1. Named(Rows, ask[r].what) \in SUBSET (Rows \cup Items)
          BY DEF Named
        <4> QED
          BY <3>1, <4>1 DEF ClearRows, Now, Unlocked, In
      <3>2. CASE ClearItems(r)
        <4> DEFINE new == Named(Items, ask[r].what)
        <4>1. new \in SUBSET (Rows \cup Items)
          BY DEF Named
        <4>2. ask[r].found = touched[r]
          BY <3>2 DEF CategoriesInv, WorksOn, ClearItems, In
        <4>3. touched[r] \cup new \in SUBSET (Rows \cup Items)
          BY <1>0, <4>1
        <4>4. /\ ask' = [ask EXCEPT ![r] = [ask[r] EXCEPT !.pc = "category", !.found = touched[r] \cup new]]
              /\ touched' = [touched EXCEPT ![r] = touched[r] \cup new]
              /\ Unlocked(new) /\ ask[r].pc = "items"
          BY <3>2, <4>2 DEF ClearItems, Now, In
        <4>5. \A q \in CategoryRequests : q # r => (touched[r] \cup new) \cap touched[q] = {}
          BY <4>4 DEF Unlocked, CategoriesInv, ClearedByOne
        <4> HIDE DEF new
        <4> QED
          BY <4>3, <4>4, <4>5
      <3> QED
        BY <1>6, <3>1, <3>2
    <2> DEFINE work == [ask[r] EXCEPT !.pc = phase, !.found = S]
    <2>2. work \in CategoryWork /\ work.pc = phase /\ work.op = ask[r].op /\ work.what = ask[r].what
          /\ work.found = S
      BY ZenonT(30), <1>0 DEF CategoryWork, CategoryStages
    <2>3. WorksOn(r) /\ UNCHANGED <<category, budget, label>>
      BY <1>6 DEF CategoriesInv, ClearRows, ClearItems
    <2>4. /\ touched' \in [CategoryRequests -> SUBSET (Rows \cup Items)] /\ touched'[r] = S
          /\ \A q \in CategoryRequests : q # r => touched'[q] = touched[q]
      BY <1>0, <2>1
    <2>5. OnePerCategory'
      BY <1>0, <2>3 DEF OnePerCategory
    <2>6. work.op = "delete_category" /\ work.what \in Categories
      BY <2>1, <2>2, <2>3 DEF WorksOn
    <2>7. ask' = [ask EXCEPT ![r] = work] /\ work.pc \notin {"idle", "commit"} /\ work.op # "create_budget"
          /\ work.found = touched'[r]
      BY <2>1, <2>2, <2>4, <2>6
    <2>8. \A q \in CategoryRequests : q # r => touched'[r] \cap touched[q] = {}
      BY <2>1, <2>4
    <2> HIDE DEF work
    <2> QED
      BY <1>0, <2>2, <2>3, <2>4, <2>5, <2>6, <2>7, <2>8, AskFits
  <1>7. ASSUME NEW r \in CategoryRequests, FindBudget(r)
        PROVE  CategoriesInv'
    <2> DEFINE S == BudgetsOn(ask[r].what)
               work == [ask[r] EXCEPT !.pc = "commit", !.which = S, !.seen = S]
    <2>1. ask' = [ask EXCEPT ![r] = work] /\ UNCHANGED <<category, budget, label, touched>> /\ In(r, "budget")
      BY <1>7 DEF FindBudget, Now
    <2>2. S \in SUBSET BudgetIds
      BY DEF BudgetsOn, LiveBudgets
    <2>3. work \in CategoryWork /\ work.pc = "commit" /\ work.op = ask[r].op /\ work.what = ask[r].what
          /\ work.found = ask[r].found /\ work.which = work.seen
      BY <1>0, <2>2 DEF CategoryWork, CategoryStages
    <2>4. WorksOn(r)
      BY DEF CategoriesInv
    <2>5. \A q \in CategoryRequests : q # r => touched'[r] \cap touched[q] = {}
      BY <2>1 DEF CategoriesInv, ClearedByOne
    <2>6. OnePerCategory'
      BY <1>0, <2>1 DEF OnePerCategory
    <2>7. work.op = "delete_category" /\ work.what \in Categories /\ work.found = touched'[r]
      BY <2>1, <2>3, <2>4 DEF WorksOn, In
    <2> HIDE DEF work
    <2> QED
      BY <1>0, <2>1, <2>3, <2>5, <2>6, <2>7, AskFits
  <1>8. ASSUME NEW r \in CategoryRequests, WriteLabel(r) \/ UpdateBudget(r) \/ GiveUp(r)
        PROVE  CategoriesInv'
    <2>1. Over(r) /\ UNCHANGED <<category, budget>>
      BY <1>8 DEF WriteLabel, UpdateBudget, GiveUp
    <2>2. label' \in [Rows \cup Items -> Categories \cup {NoCategory}]
      <3>1. ask[r].what \in Categories \cup {NoCategory}
        BY <1>0 DEF CategoryWork
      <3> QED
        BY <3>1, <1>0, <1>8 DEF WriteLabel, UpdateBudget, GiveUp
    <2>3. OnePerCategory'
      BY <1>0, <2>1 DEF OnePerCategory
    <2> QED
      BY <1>0, <2>1, <2>2, <2>3, OverFits
  <1>9. ASSUME NEW r \in CategoryRequests, InsertBudget(r)
        PROVE  CategoriesInv'
    <2>1. Over(r) /\ UNCHANGED <<category, label>> /\ BudgetsOn(ask[r].what) = {}
          /\ budget' = [b \in BudgetIds |->
                          IF b \in ask[r].which THEN [state |-> "live", on |-> ask[r].what] ELSE budget[b]]
      BY <1>9 DEF InsertBudget
    <2>2. PICK new \in BudgetIds : ask[r].which = {new}
      BY <1>9 DEF InsertBudget, CategoriesInv, WorksOn
    <2>3. ask[r].what \in Categories
      BY <1>9 DEF InsertBudget, CategoriesInv, WorksOn
    <2>4. budget' \in [BudgetIds -> [state : {"none", "live", "deleted"}, on : Categories \cup {NoCategory}]]
      BY <1>0, <2>1, <2>3
    <2>5. \A b \in BudgetIds : budget[b].state = "live" => budget[b].on # ask[r].what
      BY <2>1 DEF BudgetsOn, LiveBudgets
    <2>6. OnePerCategory'
      BY <1>0, <2>1, <2>2, <2>5 DEF OnePerCategory
    <2> QED
      BY <1>0, <2>1, <2>4, <2>6, OverFits
  <1>10. ASSUME NEW r \in CategoryRequests, RetireBudget(r)
         PROVE  CategoriesInv'
    <2>1. Over(r) /\ UNCHANGED <<category, label>>
          /\ budget' = [b \in BudgetIds |->
                          IF b \in ask[r].which THEN [budget[b] EXCEPT !.state = "deleted"] ELSE budget[b]]
      BY <1>10 DEF RetireBudget
    <2>2. budget' \in [BudgetIds -> [state : {"none", "live", "deleted"}, on : Categories \cup {NoCategory}]]
      BY <1>0, <2>1
    <2>3. OnePerCategory'
      BY <1>0, <2>1 DEF OnePerCategory
    <2> QED
      BY <1>0, <2>1, <2>2, <2>3, OverFits
  <1>11. ASSUME NEW r \in CategoryRequests, CommitDelete(r)
         PROVE  CategoriesInv'
    <2>1. /\ Over(r)
          /\ category' = [category EXCEPT ![ask[r].what] = "deleted"]
          /\ label' = [l \in Rows \cup Items |-> IF l \in touched[r] THEN NoCategory ELSE label[l]]
          /\ budget' = [b \in BudgetIds |->
                          IF b \in ask[r].which THEN [budget[b] EXCEPT !.state = "deleted"] ELSE budget[b]]
      BY <1>11 DEF CommitDelete
    <2>2. /\ budget' \in [BudgetIds -> [state : {"none", "live", "deleted"}, on : Categories \cup {NoCategory}]]
          /\ category' \in [Categories -> Kinds \cup {"deleted"}]
          /\ label' \in [Rows \cup Items -> Categories \cup {NoCategory}]
      BY <1>0, <2>1
    <2>3. OnePerCategory'
      BY <1>0, <2>1 DEF OnePerCategory
    <2> QED
      BY <2>1, <2>2, <2>3, OverFits
  <1>12. ASSUME NEW c \in Categories, NEW kind \in Kinds, UpdateCategory(c, kind)
         PROVE  CategoriesInv'
    <2>1. CategoriesTyped'
      BY <1>12, <1>0 DEF UpdateCategory, CategoriesTyped
    <2> QED
      BY <1>12, <2>1 DEF UpdateCategory, CategoriesInv, ClearedByOne, OnePerCategory, WorksOn, In
  <1>13. CASE UNCHANGED categoriesVars
    BY <1>13 DEF categoriesVars, CategoriesInv, CategoriesTyped, ClearedByOne, OnePerCategory, WorksOn, In
  <1> QED
    BY <1>1, <1>2, <1>3, <1>4, <1>5, <1>6, <1>7, <1>8, <1>9, <1>10, <1>11, <1>12, <1>13 DEF CategoriesNext

LEMMA CategoriesAlways == CategoriesSpec => []CategoriesInv
  BY CategoriesStart, CategoriesStep, PTL DEF CategoriesSpec

\* Categories, budgets and the rows that name them are well typed.
THEOREM CategoriesTypedAlways == CategoriesSpec => []CategoriesTypeOK
  <1>1. CategoriesInv => CategoriesTypeOK
    BY DEF CategoriesInv, CategoriesTyped, ClearedByOne, CategoriesTypeOK
  <1> QED
    BY <1>1, CategoriesAlways, PTL

\* A category has at most one live budget, although the check before the
\* insert takes no lock.
THEOREM BudgetsAreSingle == CategoriesSpec => []OneBudgetEach
  <1>1. CategoriesInv => OneBudgetEach
    <2> SUFFICES ASSUME CategoriesInv, NEW c \in Categories PROVE Cardinality(BudgetsOn(c)) <= 1
      BY DEF OneBudgetEach
    <2>1. \A a, b \in BudgetsOn(c) : a = b
      BY DEF CategoriesInv, OnePerCategory, BudgetsOn, LiveBudgets
    <2> QED
      BY <2>1, AtMostOne
  <1> QED
    BY <1>1, CategoriesAlways, PTL

\* A deleted category is let go of by the rows and items that named it, and by
\* its budget, when the deletion looked.
THEOREM DeletionsLetGo == CategoriesSpec => DeletedLetsGo
  <1>1. ASSUME CategoriesInv, [CategoriesNext]_categoriesVars, NEW c \in Categories, Live(c), category'[c] = "deleted"
        PROVE  \E r \in CategoryRequests :
                  /\ In(r, "commit") /\ ask[r].what = c
                  /\ BudgetsOn(c)' \cap ask[r].seen = {}
                  /\ \A l \in ask[r].found : label'[l] # c
    <2>0. category \in [Categories -> Kinds \cup {"deleted"}] /\ category[c] # "deleted"
      BY <1>1 DEF CategoriesInv, CategoriesTyped, Live, Kinds
    <2>1. PICK r \in CategoryRequests : CommitDelete(r)
      <3>1. category' # category
        BY <2>0, <1>1
      <3>2. ASSUME NEW d \in Categories, NEW kind \in Kinds, UpdateCategory(d, kind) PROVE FALSE
        BY <3>2, <2>0, <1>1 DEF UpdateCategory, Kinds
      <3> QED
        BY <3>1, <3>2, <1>1
           DEF CategoriesNext, categoriesVars, AskLabel, RequireCategory, WriteLabel, AskCreateBudget, FindExpense,
               FindForCategory, InsertBudget, AskBudget, UpdateBudget, RetireBudget, AskDeleteCategory, ClearRows,
               ClearItems, MarkDeleted, FindBudget, GiveUp
    <2>2. In(r, "commit") /\ WorksOn(r)
      BY <2>1, <1>1 DEF CommitDelete, CategoriesInv
    <2>3. ask[r].what = c
      BY <2>0, <2>1, <1>1 DEF CommitDelete
    <2>4. ask[r].found = touched[r] /\ ask[r].which = ask[r].seen
      BY <2>2 DEF WorksOn, In
    <2>5. touched[r] \subseteq Rows \cup Items
      BY <1>1 DEF CategoriesInv, CategoriesTyped
    <2>6. \A l \in touched[r] : label'[l] = NoCategory
      BY <2>1, <2>5 DEF CommitDelete
    <2>7. \A b \in BudgetIds : b \in ask[r].which => budget'[b].state = "deleted"
      BY <2>1, <1>1 DEF CommitDelete, CategoriesInv, CategoriesTyped
    <2>8. BudgetsOn(c)' \cap ask[r].seen = {}
      BY <2>4, <2>7 DEF BudgetsOn, LiveBudgets
    <2> QED
      BY <2>2, <2>3, <2>4, <2>6, <2>8
  <1>2. CategoriesInv /\ [CategoriesNext]_categoriesVars =>
           [\A c \in Categories :
              Live(c) /\ category'[c] = "deleted" =>
                 \E r \in CategoryRequests :
                    /\ In(r, "commit") /\ ask[r].what = c
                    /\ BudgetsOn(c)' \cap ask[r].seen = {}
                    /\ \A l \in ask[r].found : label'[l] # c]_categoriesVars
    BY <1>1
  <1> QED
    BY <1>2, CategoriesAlways, PTL DEF CategoriesSpec, DeletedLetsGo

HIDE CategoriesAssumption

(***************************************************************************)
(* Files.                                                                  *)
(***************************************************************************)
(***************************************************************************)
(* The vault: rows, objects and previews.                                  *)
(***************************************************************************)
VaultOps == {"none", "put", "complete", "delete", "thumbnail", "attach"}
VaultStages ==
    {"idle", "put", "read", "verify", "mark", "detach", "remove", "erase", "draw", "flag", "attach"}

VaultWork ==
    [op : VaultOps, pc : VaultStages, of : Files \cup {NoTask.of}, at : 0 .. Chunks,
     data : Contents \cup {Missing}, read : Seq(Contents), links : SUBSET (Carriers \X Files),
     saw : SUBSET (Carriers \X Files), drawn : BOOLEAN]

VaultTyped ==
    /\ file \in [Files -> [state : {"none", "pending", "ready", "deleted"}, hash : Seq(Contents),
                           thumb : {"unknown", "yes", "no"}]]
    /\ object \in [Files -> [Index -> Contents \cup {Missing}]]
    /\ preview \in [Files -> BOOLEAN]
    /\ link \in SUBSET (Carriers \X Files)
    /\ task \in [VaultRequests -> VaultWork]
    /\ excused \in SUBSET Files

Removes(r) == task[r].op \in {"complete", "delete"}
GoneFrom(f) == file[f].state = "deleted"
Flags(r, f) == task[r].pc = "flag" /\ task[r].of = f
BeingFlagged(f) == \E r \in VaultRequests : Flags(r, f)
Erases(r, f) == task[r].pc = "erase" /\ task[r].of = f

(* What each request may be doing, and what it knows of the file's row.    *)
TaskFits(r) ==
    /\ task[r].pc = "idle" <=> task[r].op = "none"
    /\ task[r].op # "none" => task[r].of \in Files /\ file[task[r].of].state # "none"
    /\ task[r].pc \in {"read", "verify", "mark"} => task[r].op = "complete"
    /\ task[r].pc \in {"detach", "remove", "erase"} => Removes(r)
    /\ task[r].pc \in {"draw", "flag"} => task[r].op = "thumbnail"
    /\ task[r].pc = "put" => task[r].op = "put" /\ task[r].at \in Index /\ task[r].data \in Contents
    /\ task[r].pc = "erase" => GoneFrom(task[r].of)
    /\ task[r].pc = "remove" => task[r].links = task[r].saw

(* What is hashed is what was read, and a whole file.                      *)
ReadFits(r) ==
    /\ task[r].pc = "read" => task[r].at \in Index /\ Len(task[r].read) = task[r].at
    /\ task[r].pc \in {"verify", "mark"} => Len(task[r].read) = Chunks
    /\ task[r].pc = "mark" => task[r].read[1] \notin Disguised

HashFits(f) ==
    /\ file[f].hash # <<>> => Len(file[f].hash) = Chunks /\ file[f].hash[1] \notin Disguised
    /\ file[f].state = "ready" => file[f].hash # <<>>

(* A chunk that is left has an eraser on its way to it.                    *)
BytesFit(f) ==
    GoneFrom(f) /\ f \notin excused =>
       \A i \in Index : object[f][i] = Missing \/ \E r \in VaultRequests : Erases(r, f) /\ task[r].at <= i

(* A preview that is left is about to be flagged, or known to who erases.  *)
PreviewFits(f) ==
    /\ file[f].state = "none" => ~preview[f]
    /\ file[f].thumb = "yes" /\ ~GoneFrom(f) => preview[f]
    /\ preview[f] /\ f \notin excused /\ ~BeingFlagged(f) =>
          /\ GoneFrom(f) => \E r \in VaultRequests : Erases(r, f) /\ task[r].drawn
          /\ ~GoneFrom(f) => file[f].thumb = "yes"
          /\ \A r \in VaultRequests : Removes(r) /\ task[r].of = f => task[r].drawn

FlagFits(r) == task[r].pc = "flag" /\ ~GoneFrom(task[r].of) => preview[task[r].of]

VaultInv ==
    /\ VaultTyped
    /\ \A r \in VaultRequests : TaskFits(r) /\ ReadFits(r) /\ FlagFits(r)
    /\ \A f \in Files : HashFits(f) /\ BytesFit(f) /\ PreviewFits(f)

USE VaultAssumption

LEMMA NoTaskTyped ==
    /\ NoTask \in VaultWork /\ NoTask.pc = "idle" /\ NoTask.op = "none"
    /\ NoTask.read = <<>> /\ NoTask.at = 0
  BY DEF NoTask, VaultWork, VaultOps, VaultStages

LEMMA VaultStart == VaultInit => VaultInv
  <1> SUFFICES ASSUME VaultInit PROVE VaultInv
    OBVIOUS
  <1>1. VaultTyped
    BY NoTaskTyped DEF VaultInit, VaultTyped
  <1>2. \A r \in VaultRequests : TaskFits(r) /\ ReadFits(r) /\ FlagFits(r)
    BY NoTaskTyped DEF VaultInit, TaskFits, ReadFits, FlagFits, Removes
  <1>3. \A f \in Files : HashFits(f) /\ BytesFit(f)
    BY DEF VaultInit, HashFits, BytesFit, GoneFrom
  <1>4. \A f \in Files : PreviewFits(f)
    BY DEF VaultInit, PreviewFits, GoneFrom
  <1> QED
    BY <1>1, <1>2, <1>3, <1>4 DEF VaultInv

(* The requests that take no step still fit: a row that is there stays,    *)
(* and so does a preview, until the row is deleted.                        *)
LEMMA OthersFit ==
    ASSUME VaultInv, VaultTyped', NEW r \in VaultRequests,
           \A q \in VaultRequests : q # r => task'[q] = task[q],
           \A f \in Files : file[f].state # "none" => file'[f].state # "none",
           \A f \in Files : GoneFrom(f) => GoneFrom(f)',
           \A f \in Files : preview[f] => preview'[f] \/ GoneFrom(f)',
           TaskFits(r)', ReadFits(r)', FlagFits(r)',
           \A f \in Files : HashFits(f)' /\ BytesFit(f)' /\ PreviewFits(f)'
    PROVE  VaultInv'
  <1>1. ASSUME NEW q \in VaultRequests, q # r
        PROVE  TaskFits(q)' /\ ReadFits(q)' /\ FlagFits(q)'
    <2>1. task'[q] = task[q] /\ TaskFits(q) /\ ReadFits(q) /\ FlagFits(q)
      BY <1>1 DEF VaultInv
    <2>2. task[q].op # "none" => task[q].of \in Files
      BY <2>1 DEF TaskFits
    <2>3. ReadFits(q)'
      BY <2>1 DEF ReadFits
    <2>4. TaskFits(q)'
      BY <2>1, <2>2 DEF TaskFits, Removes
    <2>5. FlagFits(q)'
      BY <2>1, <2>2 DEF TaskFits, FlagFits
    <2> QED
      BY <2>3, <2>4, <2>5
  <1> QED
    BY <1>1 DEF VaultInv

(* Chunks come back only to files that are excused, and who erases gets on. *)
LEMMA BytesKept ==
    ASSUME VaultInv, NEW r \in VaultRequests, excused \subseteq excused',
           \A q \in VaultRequests : q # r => task'[q] = task[q],
           \A f \in Files : GoneFrom(f)' <=> GoneFrom(f),
           \A f \in Files, i \in Index :
              GoneFrom(f) /\ f \notin excused' /\ object'[f][i] # Missing => object[f][i] # Missing,
           \A f \in Files, i \in Index :
              Erases(r, f) /\ task[r].at <= i /\ f \notin excused' /\ object'[f][i] # Missing =>
                 Erases(r, f)' /\ task'[r].at <= i
    PROVE  \A f \in Files : BytesFit(f)'
  <1> SUFFICES ASSUME NEW f \in Files, GoneFrom(f), f \notin excused', NEW i \in Index, object'[f][i] # Missing
               PROVE  \E q \in VaultRequests : Erases(q, f)' /\ task'[q].at <= i
    BY DEF BytesFit
  <1>1. PICK q \in VaultRequests : Erases(q, f) /\ task[q].at <= i
    BY DEF VaultInv, BytesFit
  <1>2. CASE q = r
    BY <1>1, <1>2
  <1>3. CASE q # r
    BY <1>1, <1>3 DEF Erases
  <1> QED
    BY <1>2, <1>3

(* No preview of a file comes or goes, and nobody forgets one.             *)
LEMMA PreviewKept ==
    ASSUME VaultInv, NEW r \in VaultRequests, NEW f \in Files, excused \subseteq excused', preview'[f] = preview[f],
           \A q \in VaultRequests : q # r => task'[q] = task[q],
           (GoneFrom(f)' <=> GoneFrom(f)) /\ file'[f].thumb = file[f].thumb,
           file'[f].state = "none" => file[f].state = "none",
           Flags(r, f) /\ f \notin excused' => Flags(r, f)',
           Erases(r, f) /\ task[r].drawn /\ f \notin excused' => Erases(r, f)' /\ task'[r].drawn,
           Removes(r)' /\ task'[r].of = f =>
              \/ Removes(r) /\ task[r].of = f /\ (task[r].drawn => task'[r].drawn)
              \/ ~GoneFrom(f) /\ (file[f].thumb = "yes" => task'[r].drawn)
    PROVE  PreviewFits(f)'
  <1>1. PreviewFits(f)
    BY DEF VaultInv
  <1>2. ASSUME preview'[f], f \notin excused', ~BeingFlagged(f)'
        PROVE  /\ preview[f] /\ f \notin excused /\ ~BeingFlagged(f)
               /\ GoneFrom(f)' => \E q \in VaultRequests : Erases(q, f)' /\ task'[q].drawn
               /\ ~GoneFrom(f)' => file'[f].thumb = "yes"
               /\ \A q \in VaultRequests : Removes(q)' /\ task'[q].of = f => task'[q].drawn
    <2>1. preview[f] /\ f \notin excused
      BY <1>2
    <2>2. ~BeingFlagged(f)
      <3> SUFFICES ASSUME NEW q \in VaultRequests, Flags(q, f) PROVE FALSE
        BY DEF BeingFlagged
      <3>1. CASE q = r
        BY <3>1, <1>2 DEF BeingFlagged
      <3>2. CASE q # r
        BY <3>2, <1>2 DEF BeingFlagged, Flags
      <3> QED
        BY <3>1, <3>2
    <2>3. ASSUME GoneFrom(f)' PROVE \E q \in VaultRequests : Erases(q, f)' /\ task'[q].drawn
      <3>1. PICK q \in VaultRequests : Erases(q, f) /\ task[q].drawn
        BY <1>1, <2>1, <2>2, <2>3 DEF PreviewFits
      <3>2. CASE q = r
        BY <3>1, <3>2, <1>2
      <3>3. CASE q # r
        BY <3>1, <3>3 DEF Erases
      <3> QED
        BY <3>2, <3>3
    <2>4. ~GoneFrom(f)' => file'[f].thumb = "yes"
      BY <1>1, <2>1, <2>2 DEF PreviewFits
    <2>5. ASSUME NEW q \in VaultRequests, Removes(q)', task'[q].of = f PROVE task'[q].drawn
      <3>1. \A p \in VaultRequests : Removes(p) /\ task[p].of = f => task[p].drawn
        BY <1>1, <2>1, <2>2 DEF PreviewFits
      <3>2. CASE q = r
        <4>1. CASE Removes(r) /\ task[r].of = f /\ (task[r].drawn => task'[r].drawn)
          BY <3>1, <3>2, <4>1
        <4>2. CASE ~GoneFrom(f) /\ (file[f].thumb = "yes" => task'[r].drawn)
          BY <3>2, <4>2, <2>4
        <4> QED
          BY <3>2, <4>1, <4>2, <2>5
      <3>3. CASE q # r
        BY <3>1, <3>3, <2>5 DEF Removes
      <3> QED
        BY <3>2, <3>3
    <2> QED
      BY <2>1, <2>2, <2>3, <2>4, <2>5
  <1>3. file'[f].state = "none" => ~preview'[f]
    BY <1>1 DEF PreviewFits
  <1>4. file'[f].thumb = "yes" /\ ~GoneFrom(f)' => preview'[f]
    BY <1>1 DEF PreviewFits
  <1> QED
    BY <1>2, <1>3, <1>4 DEF PreviewFits

LEMMA PreviewsKept ==
    ASSUME VaultInv, NEW r \in VaultRequests, excused \subseteq excused', preview' = preview,
           \A q \in VaultRequests : q # r => task'[q] = task[q],
           \A f \in Files : (GoneFrom(f)' <=> GoneFrom(f)) /\ file'[f].thumb = file[f].thumb,
           \A f \in Files : file'[f].state = "none" => file[f].state = "none",
           \A f \in Files : Flags(r, f) /\ f \notin excused' => Flags(r, f)',
           \A f \in Files : Erases(r, f) /\ task[r].drawn /\ f \notin excused' => Erases(r, f)' /\ task'[r].drawn,
           \A f \in Files : Removes(r)' /\ task'[r].of = f =>
              \/ Removes(r) /\ task[r].of = f /\ (task[r].drawn => task'[r].drawn)
              \/ ~GoneFrom(f) /\ (file[f].thumb = "yes" => task'[r].drawn)
    PROVE  \A f \in Files : PreviewFits(f)'
  BY PreviewKept

(* Steps that change the request and, at most, the attachments.            *)
LEMMA QuietKeeps ==
    ASSUME VaultInv, NEW r \in VaultRequests, NEW work \in VaultWork,
           task' = [task EXCEPT ![r] = work], link' \in SUBSET (Carriers \X Files),
           UNCHANGED <<file, object, preview, excused>>,
           task[r].pc \notin {"erase", "flag"}, work.pc \notin {"erase", "flag"},
           TaskFits(r)', ReadFits(r)',
           work.op \in {"complete", "delete"} =>
              \/ Removes(r) /\ task[r].of = work.of /\ task[r].drawn = work.drawn
              \/ ~GoneFrom(work.of) /\ (work.drawn <=> file[work.of].thumb = "yes")
    PROVE  VaultInv'
  <1>1. VaultTyped'
    BY DEF VaultInv, VaultTyped
  <1>2. task'[r] = work /\ \A q \in VaultRequests : q # r => task'[q] = task[q]
    BY DEF VaultInv, VaultTyped
  <1>3. \A f \in Files : GoneFrom(f)' <=> GoneFrom(f)
    BY DEF GoneFrom
  <1>4. FlagFits(r)'
    BY <1>2 DEF FlagFits
  <1>5. \A f \in Files : HashFits(f)'
    BY DEF VaultInv, HashFits
  <1>6. \A f \in Files : ~Erases(r, f) /\ ~Flags(r, f)
    BY DEF Erases, Flags
  <1>7. \A f \in Files : BytesFit(f)'
    BY <1>2, <1>3, <1>6, BytesKept
  <1>8. \A f \in Files : Removes(r)' /\ task'[r].of = f =>
              \/ Removes(r) /\ task[r].of = f /\ (task[r].drawn => task'[r].drawn)
              \/ ~GoneFrom(f) /\ (file[f].thumb = "yes" => task'[r].drawn)
    BY <1>2 DEF Removes
  <1>9. \A f \in Files : PreviewFits(f)'
    BY <1>2, <1>3, <1>6, <1>8, PreviewsKept
  <1> QED
    BY <1>1, <1>2, <1>3, <1>4, <1>5, <1>7, <1>9, OthersFit

(* A request begins about a file that is there. *)
LEMMA BegunFits ==
    ASSUME VaultInv, NEW r \in VaultRequests, NEW work \in VaultWork,
           task' = [task EXCEPT ![r] = work], UNCHANGED <<file, object, preview, link, excused>>,
           task[r].pc = "idle", work.of \in Files, file[work.of].state \in {"pending", "ready"},
           \/ work.op = "put" /\ work.pc = "put" /\ work.at \in Index /\ work.data \in Contents
           \/ work.op = "complete" /\ work.pc = "read" /\ work.at = 0 /\ work.read = <<>>
           \/ work.op = "delete" /\ work.pc = "detach"
           \/ work.op = "thumbnail" /\ work.pc = "draw"
           \/ work.op = "attach" /\ work.pc = "attach",
           work.op \in {"complete", "delete"} => (work.drawn <=> file[work.of].thumb = "yes")
    PROVE  VaultInv'
  <1>1. task'[r] = work
    BY DEF VaultInv, VaultTyped
  <1>2. TaskFits(r)'
    BY <1>1 DEF TaskFits, Removes
  <1>3. 0 \in Index /\ Len(<<>>) = 0
    BY DEF Index
  <1>4. ReadFits(r)'
    BY <1>1, <1>3 DEF ReadFits
  <1>5. link' \in SUBSET (Carriers \X Files) /\ ~GoneFrom(work.of) /\ work.pc \notin {"erase", "flag"}
    BY DEF VaultInv, VaultTyped, GoneFrom
  <1> QED
    BY <1>2, <1>4, <1>5, QuietKeeps

LEMMA AsksKeep ==
    ASSUME VaultInv, NEW r \in VaultRequests, NEW f \in Files,
           \/ \E i \in Index, d \in Contents : AskPut(r, f, i, d)
           \/ AskComplete(r, f) \/ AskDeleteFile(r, f) \/ AskThumbnail(r, f) \/ AskAttach(r, f)
    PROVE  VaultInv'
  <1>1. CASE \E i \in Index, d \in Contents : AskPut(r, f, i, d)
    <2>1. PICK i \in Index, d \in Contents : AskPut(r, f, i, d)
      BY <1>1
    <2> DEFINE work == [NoTask EXCEPT !.op = "put", !.pc = "put", !.of = f, !.at = i, !.data = d]
    <2>2. i \in 0 .. Chunks
      BY DEF Index
    <2>3. work \in VaultWork /\ work.op = "put" /\ work.pc = "put" /\ work.of = f /\ work.at = i /\ work.data = d
      BY <2>2, NoTaskTyped DEF VaultWork, VaultStages, VaultOps
    <2>4. task' = [task EXCEPT ![r] = work] /\ UNCHANGED <<file, object, preview, link, excused>>
          /\ task[r].pc = "idle" /\ file[f].state = "pending"
      BY <2>1 DEF AskPut, Turn
    <2> HIDE DEF work
    <2> QED
      BY <2>3, <2>4, BegunFits
  <1>2. CASE AskComplete(r, f) \/ AskDeleteFile(r, f) \/ AskThumbnail(r, f) \/ AskAttach(r, f)
    <2>1. PICK op \in VaultOps, pc \in VaultStages :
            /\ Start(r, op, pc, f) /\ file[f].state \in {"pending", "ready"}
            /\ \/ op = "complete" /\ pc = "read"
               \/ op = "delete" /\ pc = "detach"
               \/ op = "thumbnail" /\ pc = "draw"
               \/ op = "attach" /\ pc = "attach"
      <3>1. CASE AskComplete(r, f)
        BY <3>1 DEF AskComplete, VaultOps, VaultStages
      <3>2. CASE AskDeleteFile(r, f)
        BY <3>2 DEF AskDeleteFile, Found, VaultOps, VaultStages
      <3>3. CASE AskThumbnail(r, f)
        BY <3>3 DEF AskThumbnail, VaultOps, VaultStages
      <3>4. CASE AskAttach(r, f)
        BY <3>4 DEF AskAttach, Found, VaultOps, VaultStages
      <3> QED
        BY <1>2, <3>1, <3>2, <3>3, <3>4
    <2> DEFINE drawn == file[f].thumb = "yes"
    <2>2. drawn \in BOOLEAN
      OBVIOUS
    <2> HIDE DEF drawn
    <2> DEFINE work == [NoTask EXCEPT !.op = op, !.pc = pc, !.of = f, !.drawn = drawn]
    <2>3. work \in VaultWork /\ work.op = op /\ work.pc = pc /\ work.of = f /\ work.drawn = drawn
          /\ work.at = 0 /\ work.read = <<>>
      BY <2>2, NoTaskTyped DEF VaultWork
    <2>4. task' = [task EXCEPT ![r] = work] /\ task[r].pc = "idle"
      BY <2>1 DEF Start, Turn, drawn
    <2>5. UNCHANGED <<file, object, preview, link, excused>>
      BY <1>2 DEF AskComplete, AskDeleteFile, AskThumbnail, AskAttach
    <2> HIDE DEF work
    <2>6. work.drawn <=> file[work.of].thumb = "yes"
      BY <2>3 DEF drawn
    <2> QED
      BY <2>1, <2>3, <2>4, <2>5, <2>6, BegunFits
  <1> QED
    BY <1>1, <1>2

(* A request goes on to its next stage, or ends.                           *)
LEMMA StagesKeep ==
    ASSUME VaultInv, NEW r \in VaultRequests,
           \/ ReadChunk(r) \/ VerifyType(r) \/ DetachEverywhere(r)
           \/ \E c \in Carriers : CommitAttach(r, c)
    PROVE  VaultInv'
  <1>0. /\ TaskFits(r) /\ ReadFits(r) /\ task[r] \in VaultWork /\ link \in SUBSET (Carriers \X Files)
        /\ task \in [VaultRequests -> VaultWork]
    BY DEF VaultInv, VaultTyped
  <1>1. CASE ReadChunk(r)
    <2> DEFINE t == task[r]
               chunk == object[t.of][t.at]
               work == IF t.at + 1 \in Index
                       THEN [t EXCEPT !.at = t.at + 1, !.read = Append(t.read, chunk)]
                       ELSE [t EXCEPT !.pc = "verify", !.read = Append(t.read, chunk)]
    <2>1. /\ Doing(r, "complete", "read") /\ chunk # Missing /\ task' = [task EXCEPT ![r] = work]
          /\ UNCHANGED <<file, object, preview, link, excused>>
      BY <1>1 DEF ReadChunk, Turn
    <2>2. t.op = "complete" /\ t.pc = "read" /\ t.of \in Files /\ t.at \in Index /\ Len(t.read) = t.at
          /\ t.read \in Seq(Contents)
      BY <1>0, <2>1 DEF Doing, TaskFits, ReadFits, VaultWork
    <2>3. chunk \in Contents
      BY <2>1, <2>2 DEF VaultInv, VaultTyped
    <2>4. /\ Append(t.read, chunk) \in Seq(Contents) /\ Len(Append(t.read, chunk)) = t.at + 1
      BY <2>2, <2>3
    <2>5. /\ work \in VaultWork /\ work.op = "complete" /\ work.of = t.of /\ work.drawn = t.drawn
          /\ Len(work.read) = t.at + 1
          /\ \/ work.pc = "read" /\ work.at = t.at + 1 /\ t.at + 1 \in Index
             \/ work.pc = "verify" /\ t.at + 1 = Chunks
      <3> DEFINE bytes == Append(t.read, chunk)
      <3>0. bytes \in Seq(Contents) /\ Len(bytes) = t.at + 1 /\ t \in VaultWork
        BY <1>0, <2>4
      <3> HIDE DEF bytes
      <3>1. CASE t.at + 1 \in Index
        <4>1. work = [t EXCEPT !.at = t.at + 1, !.read = bytes]
          BY <3>1 DEF bytes
        <4>2. t.at + 1 \in 0 .. Chunks
          BY <3>1 DEF Index
        <4> QED
          BY <2>2, <3>0, <3>1, <4>1, <4>2 DEF VaultWork
      <3>2. CASE t.at + 1 \notin Index
        <4>1. work = [t EXCEPT !.pc = "verify", !.read = bytes]
          BY <3>2 DEF bytes
        <4>2. t.at + 1 = Chunks
          BY <2>2, <3>2 DEF Index
        <4> QED
          BY <2>2, <3>0, <4>1, <4>2 DEF VaultWork, VaultStages
      <3> QED
        BY <3>1, <3>2
    <2>6. task'[r] = work
      BY <1>0, <2>1
    <2> HIDE DEF work
    <2>7. TaskFits(r)' /\ ReadFits(r)'
      <3>1. file'[t.of].state # "none"
        BY <1>0, <2>1, <2>2 DEF TaskFits
      <3>2. TaskFits(r)'
        BY <2>2, <2>5, <2>6, <3>1 DEF TaskFits, Removes
      <3>3. ReadFits(r)'
        BY <2>2, <2>5, <2>6 DEF ReadFits
      <3> QED
        BY <3>2, <3>3
    <2>8. work.pc \notin {"erase", "flag"} /\ link' \in SUBSET (Carriers \X Files) /\ Removes(r)
      BY <1>0, <2>1, <2>2, <2>5 DEF Removes
    <2> QED
      BY <2>1, <2>2, <2>5, <2>7, <2>8, QuietKeeps
  <1>2. CASE VerifyType(r)
    <2>1. PICK phase \in {"detach", "mark"} :
            /\ task' = [task EXCEPT ![r] = [task[r] EXCEPT !.pc = phase]]
            /\ phase = "mark" => task[r].read[1] \notin Disguised
      BY <1>2 DEF VerifyType, Turn
    <2>2. task[r].op = "complete" /\ task[r].pc = "verify" /\ UNCHANGED <<file, object, preview, link, excused>>
      BY <1>2 DEF VerifyType, Doing
    <2> DEFINE work == [task[r] EXCEPT !.pc = phase]
    <2>3. work \in VaultWork /\ work.pc = phase /\ work.op = "complete" /\ work.of = task[r].of
          /\ work.drawn = task[r].drawn /\ work.read = task[r].read
      BY <1>0, <2>2 DEF VaultWork, VaultStages
    <2>4. task' = [task EXCEPT ![r] = work] /\ task'[r] = work
      BY <1>0, <2>1
    <2> HIDE DEF work
    <2>5. TaskFits(r)' /\ ReadFits(r)'
      BY <1>0, <2>1, <2>2, <2>3, <2>4 DEF TaskFits, ReadFits, Removes
    <2>6. link' \in SUBSET (Carriers \X Files) /\ Removes(r)
      BY <1>0, <2>2 DEF Removes
    <2> QED
      BY <2>1, <2>2, <2>3, <2>4, <2>5, <2>6, QuietKeeps
  <1>3. CASE DetachEverywhere(r)
    <2> DEFINE S == {l \in link : l[2] = task[r].of}
               work == [task[r] EXCEPT !.pc = "remove", !.links = S, !.saw = S]
    <2>1. task[r].pc = "detach" /\ UNCHANGED <<file, object, preview, link, excused>>
          /\ task' = [task EXCEPT ![r] = work]
      BY <1>3 DEF DetachEverywhere, Turn
    <2>2. S \in SUBSET (Carriers \X Files)
      BY <1>0
    <2> HIDE DEF S
    <2>3. work \in VaultWork /\ work.pc = "remove" /\ work.op = task[r].op /\ work.of = task[r].of
          /\ work.drawn = task[r].drawn /\ work.links = work.saw
      BY <1>0, <2>2 DEF VaultWork, VaultStages
    <2>4. task'[r] = work
      BY <1>0, <2>1
    <2> HIDE DEF work
    <2>5. TaskFits(r)' /\ ReadFits(r)'
      BY <1>0, <2>1, <2>3, <2>4 DEF TaskFits, ReadFits, Removes
    <2>6. link' \in SUBSET (Carriers \X Files) /\ Removes(r)
      BY <1>0, <2>1 DEF TaskFits
    <2> QED
      BY <2>1, <2>3, <2>4, <2>5, <2>6, QuietKeeps
  <1>4. ASSUME NEW c \in Carriers, CommitAttach(r, c) PROVE VaultInv'
    <2> DEFINE work == NoTask
    <2>1. task[r].op = "attach" /\ task[r].pc = "attach" /\ UNCHANGED <<file, object, preview, excused>>
          /\ task' = [task EXCEPT ![r] = work] /\ link' = {l \in link : l[1] # c} \cup {<<c, task[r].of>>}
      BY <1>4 DEF CommitAttach, Doing, Turn
    <2>2. work \in VaultWork /\ work.pc = "idle" /\ work.op = "none"
      BY NoTaskTyped
    <2>3. task'[r] = work
      BY <1>0, <2>1
    <2> HIDE DEF work
    <2>4. TaskFits(r)' /\ ReadFits(r)'
      BY <2>2, <2>3 DEF TaskFits, ReadFits, Removes
    <2>5. task[r].of \in Files
      BY <1>0, <2>1 DEF TaskFits
    <2>6. link' \in SUBSET (Carriers \X Files)
      BY <1>0, <2>1, <2>5
    <2> QED
      BY <2>1, <2>2, <2>3, <2>4, <2>6, QuietKeeps
  <1> QED
    BY <1>1, <1>2, <1>3, <1>4

(* A request that is over asks nothing of the files. *)
LEMMA NoTaskFits ==
    ASSUME VaultInv, NEW r \in VaultRequests, task' = [task EXCEPT ![r] = NoTask]
    PROVE  /\ TaskFits(r)' /\ ReadFits(r)' /\ FlagFits(r)' /\ ~Removes(r)'
           /\ \A f \in Files : ~Erases(r, f)' /\ ~Flags(r, f)'
           /\ \A q \in VaultRequests : q # r => task'[q] = task[q]
           /\ task' \in [VaultRequests -> VaultWork]
  <1>1. /\ task'[r] = NoTask /\ \A q \in VaultRequests : q # r => task'[q] = task[q]
        /\ task' \in [VaultRequests -> VaultWork]
    BY NoTaskTyped DEF VaultInv, VaultTyped
  <1>2. task'[r].pc = "idle" /\ task'[r].op = "none"
    BY <1>1, NoTaskTyped
  <1> QED
    BY <1>1, <1>2 DEF TaskFits, ReadFits, FlagFits, Removes, Erases, Flags

LEMMA PutKeeps ==
    ASSUME VaultInv, NEW r \in VaultRequests, Put(r)
    PROVE  VaultInv'
  <1> DEFINE f == task[r].of
  <1>1. /\ task[r].pc = "put" /\ object' = [object EXCEPT ![f][task[r].at] = task[r].data]
        /\ excused' = IF file[f].state = "deleted" \/ Deleting(f) THEN excused \cup {f} ELSE excused
        /\ task' = [task EXCEPT ![r] = NoTask]
        /\ UNCHANGED <<file, preview, link>>
    BY DEF Put, Doing, Turn
  <1>2. f \in Files /\ task[r].at \in Index /\ task[r].data \in Contents
    BY <1>1 DEF VaultInv, TaskFits
  <1>3. /\ TaskFits(r)' /\ ReadFits(r)' /\ FlagFits(r)' /\ ~Removes(r)'
        /\ \A g \in Files : ~Erases(r, g) /\ ~Flags(r, g)
        /\ \A q \in VaultRequests : q # r => task'[q] = task[q]
    BY <1>1, NoTaskFits DEF Erases, Flags
  <1>4. excused \subseteq excused' /\ excused' \in SUBSET Files /\ (GoneFrom(f) => f \in excused')
    BY <1>1, <1>2 DEF VaultInv, VaultTyped, GoneFrom
  <1>5. /\ object' \in [Files -> [Index -> Contents \cup {Missing}]]
        /\ \A g \in Files : g # f => object'[g] = object[g]
    BY <1>1, <1>2 DEF VaultInv, VaultTyped
  <1>6. VaultTyped'
    BY <1>1, <1>4, <1>5, NoTaskFits DEF VaultInv, VaultTyped
  <1>7. \A g \in Files : HashFits(g)' /\ (GoneFrom(g)' <=> GoneFrom(g))
    BY <1>1 DEF VaultInv, HashFits, GoneFrom
  <1>8. \A g \in Files, i \in Index :
           GoneFrom(g) /\ g \notin excused' /\ object'[g][i] # Missing => object[g][i] # Missing
    BY <1>4, <1>5
  <1>9. \A g \in Files : BytesFit(g)'
    BY <1>3, <1>4, <1>7, <1>8, BytesKept
  <1>10. \A g \in Files : PreviewFits(g)'
    BY <1>1, <1>3, <1>4, <1>7, PreviewsKept
  <1> QED
    BY <1>1, <1>3, <1>6, <1>7, <1>9, <1>10, OthersFit

LEMMA MarkReadyKeeps ==
    ASSUME VaultInv, NEW r \in VaultRequests, MarkReady(r)
    PROVE  VaultInv'
  <1> DEFINE f == task[r].of
  <1>1. /\ task[r].pc = "mark"
        /\ file' = IF Found(f) THEN [file EXCEPT ![f].state = "ready", ![f].hash = task[r].read] ELSE file
        /\ task' = [task EXCEPT ![r] = NoTask]
        /\ UNCHANGED <<object, preview, link, excused>>
    BY DEF MarkReady, Doing, Turn
  <1>0. file \in [Files -> [state : {"none", "pending", "ready", "deleted"}, hash : Seq(Contents),
                           thumb : {"unknown", "yes", "no"}]]
    BY DEF VaultInv, VaultTyped
  <1>2. f \in Files /\ Len(task[r].read) = Chunks /\ task[r].read[1] \notin Disguised /\ task[r].read \in Seq(Contents)
    BY <1>1 DEF VaultInv, VaultTyped, VaultWork, TaskFits, ReadFits
  <1>3. /\ TaskFits(r)' /\ ReadFits(r)' /\ FlagFits(r)' /\ ~Removes(r)'
        /\ \A g \in Files : ~Erases(r, g) /\ ~Flags(r, g)
        /\ \A q \in VaultRequests : q # r => task'[q] = task[q]
    BY <1>1, NoTaskFits DEF Erases, Flags
  <1>4. /\ file' \in [Files -> [state : {"none", "pending", "ready", "deleted"}, hash : Seq(Contents),
                                thumb : {"unknown", "yes", "no"}]]
        /\ \A g \in Files : g # f => file'[g] = file[g]
        /\ file'[f].thumb = file[f].thumb
        /\ file'[f] # file[f] =>
              Found(f) /\ file'[f].state = "ready" /\ file'[f].hash = task[r].read
    <2>1. CASE Found(f)
      <3>1. file' = [file EXCEPT ![f] = [file[f] EXCEPT !.state = "ready", !.hash = task[r].read]]
        BY <1>1, <1>2, <2>1 DEF VaultInv, VaultTyped
      <3> DEFINE row == [file[f] EXCEPT !.state = "ready", !.hash = task[r].read]
      <3>2. /\ row \in [state : {"none", "pending", "ready", "deleted"}, hash : Seq(Contents), thumb : {"unknown", "yes", "no"}]
            /\ row.state = "ready" /\ row.hash = task[r].read /\ row.thumb = file[f].thumb
        BY <1>0, <1>2
      <3> HIDE DEF row
      <3>3. file' = [file EXCEPT ![f] = row]
        BY <3>1 DEF row
      <3>4. file'[f] = row /\ \A g \in Files : g # f => file'[g] = file[g]
        BY <1>0, <1>2, <3>3
      <3> QED
        BY <1>0, <1>2, <2>1, <3>2, <3>3, <3>4
    <2>2. CASE ~Found(f)
      <3>1. file' = file
        BY <1>1, <2>2
      <3> QED
        BY <1>0, <3>1
    <2> QED
      BY <2>1, <2>2
  <1>5. VaultTyped'
    BY <1>1, <1>4, NoTaskFits DEF VaultInv, VaultTyped
  <1>6. \A g \in Files : /\ GoneFrom(g)' <=> GoneFrom(g)
                         /\ file'[g].thumb = file[g].thumb
                         /\ file'[g].state = "none" <=> file[g].state = "none"
    BY <1>4 DEF GoneFrom, Found
  <1>a. excused \subseteq excused' /\ preview' = preview /\ object' = object
    BY <1>1
  <1>b. \A g \in Files : file'[g].state = "none" => file[g].state = "none"
    BY <1>6
  <1>c. \A g \in Files : (GoneFrom(g)' <=> GoneFrom(g)) /\ file'[g].thumb = file[g].thumb
    BY <1>6
  <1> HIDE DEF f
  <1>7. task[r].read # <<>>
    BY <1>2
  <1>8. \A g \in Files : HashFits(g)'
    <2> TAKE g \in Files
    <2>1. CASE file'[g] = file[g]
      BY <2>1 DEF VaultInv, HashFits
    <2>2. CASE file'[g] # file[g]
      <3>1. file'[g].hash = task[r].read
        BY <2>2, <1>4
      <3> QED
        BY <3>1, <1>2, <1>7 DEF HashFits
    <2> QED
      BY <2>1, <2>2
  <1>9. \A g \in Files : BytesFit(g)'
    BY <1>3, <1>a, <1>c, BytesKept
  <1>10. \A g \in Files : PreviewFits(g)'
    BY <1>3, <1>a, <1>b, <1>c, PreviewsKept
  <1> QED
    BY <1>3, <1>5, <1>6, <1>a, <1>8, <1>9, <1>10, OthersFit

(* The row goes: whoever deletes it is on its way to every chunk, and      *)
(* knows of the preview.                                                   *)
LEMMA CommitDiscardKeeps ==
    ASSUME VaultInv, NEW r \in VaultRequests, CommitDiscard(r)
    PROVE  VaultInv'
  <1>2. TaskFits(r) /\ task[r] \in VaultWork /\ task \in [VaultRequests -> VaultWork] /\ task[r].pc = "remove"
    BY DEF VaultInv, VaultTyped, CommitDiscard
  <1>0. PICK f \in Files : f = task[r].of
    BY <1>2 DEF TaskFits, Removes
  <1> DEFINE work == [task[r] EXCEPT !.pc = "erase", !.at = 0]
  <1>1. /\ task[r].pc = "remove" /\ file' = [file EXCEPT ![f].state = "deleted"]
        /\ link' = link \ task[r].links /\ task' = [task EXCEPT ![r] = work]
        /\ UNCHANGED <<object, preview, excused>>
    BY <1>0 DEF CommitDiscard, Turn
  <1>3. f \in Files /\ file[f].state # "none" /\ Removes(r)
    BY <1>0, <1>1, <1>2 DEF TaskFits, Removes
  <1>4. /\ work \in VaultWork /\ work.pc = "erase" /\ work.at = 0 /\ work.op = task[r].op /\ work.of = f
        /\ work.drawn = task[r].drawn
    <2>1. 0 \in 0 .. Chunks
      OBVIOUS
    <2> QED
      BY <1>0, <1>2, <2>1 DEF VaultWork, VaultStages
  <1>5. task'[r] = work /\ \A q \in VaultRequests : q # r => task'[q] = task[q]
    BY <1>1, <1>2
  <1>6. /\ file' \in [Files -> [state : {"none", "pending", "ready", "deleted"}, hash : Seq(Contents),
                                thumb : {"unknown", "yes", "no"}]]
        /\ \A g \in Files : g # f => file'[g] = file[g]
        /\ file'[f].state = "deleted" /\ file'[f].hash = file[f].hash /\ file'[f].thumb = file[f].thumb
    BY <1>1, <1>3 DEF VaultInv, VaultTyped
  <1>7. VaultTyped'
    BY <1>1, <1>2, <1>4, <1>6 DEF VaultInv, VaultTyped
  <1> HIDE DEF work
  <1>8. TaskFits(r)' /\ ReadFits(r)' /\ FlagFits(r)'
    BY <1>2, <1>3, <1>4, <1>5, <1>6 DEF TaskFits, ReadFits, FlagFits, Removes, GoneFrom
  <1>9. \A g \in Files : HashFits(g)'
    BY <1>6 DEF VaultInv, HashFits
  <1>10. \A g \in Files : GoneFrom(g)' <=> GoneFrom(g) \/ g = f
    BY <1>6 DEF GoneFrom
  <1>11. Erases(r, f)'
    BY <1>4, <1>5 DEF Erases
  <1>12. \A g \in Files : ~Erases(r, g) /\ ~Flags(r, g)
    BY <1>1 DEF Erases, Flags
  <1>13. ASSUME NEW g \in Files PROVE BytesFit(g)'
    <2>1. CASE g = f
      <3>1. \A i \in Index : task'[r].at <= i
        BY <1>4, <1>5 DEF Index
      <3> QED
        BY <2>1, <3>1, <1>11 DEF BytesFit
    <2>2. CASE g # f
      <3> SUFFICES ASSUME GoneFrom(g), g \notin excused, NEW i \in Index, object[g][i] # Missing
                   PROVE  \E q \in VaultRequests : Erases(q, g)' /\ task'[q].at <= i
        BY <2>2, <1>1, <1>10 DEF BytesFit
      <3>1. PICK q \in VaultRequests : Erases(q, g) /\ task[q].at <= i
        BY DEF VaultInv, BytesFit
      <3>2. q # r
        BY <3>1, <1>12
      <3> QED
        BY <3>1, <3>2, <1>5 DEF Erases
    <2> QED
      BY <2>1, <2>2
  <1>14. ASSUME NEW g \in Files PROVE PreviewFits(g)'
    <2>1. PreviewFits(g) /\ file'[g].thumb = file[g].thumb
      BY <1>6 DEF VaultInv
    <2>2. (file'[g].state = "none" => ~preview'[g]) /\ (file'[g].thumb = "yes" /\ ~GoneFrom(g)' => preview'[g])
      BY <2>1, <1>1, <1>6, <1>10 DEF PreviewFits
    <2>3. ASSUME preview'[g], g \notin excused', ~BeingFlagged(g)'
          PROVE  /\ GoneFrom(g)' => \E q \in VaultRequests : Erases(q, g)' /\ task'[q].drawn
                 /\ ~GoneFrom(g)' => file'[g].thumb = "yes"
                 /\ \A q \in VaultRequests : Removes(q)' /\ task'[q].of = g => task'[q].drawn
      <3>1. ~BeingFlagged(g)
        <4> SUFFICES ASSUME NEW q \in VaultRequests, Flags(q, g) PROVE FALSE
          BY DEF BeingFlagged
        <4>1. q # r
          BY <1>12
        <4> QED
          BY <4>1, <2>3, <1>5 DEF BeingFlagged, Flags
      <3>2. /\ GoneFrom(g) => \E q \in VaultRequests : Erases(q, g) /\ task[q].drawn
            /\ ~GoneFrom(g) => file[g].thumb = "yes"
            /\ \A q \in VaultRequests : Removes(q) /\ task[q].of = g => task[q].drawn
        BY <2>1, <2>3, <3>1, <1>1 DEF PreviewFits
      <3>3. \A q \in VaultRequests : Removes(q)' /\ task'[q].of = g => task'[q].drawn
        <4> TAKE q \in VaultRequests
        <4>1. CASE q = r
          BY <4>1, <3>2, <1>0, <1>3, <1>4, <1>5
        <4>2. CASE q # r
          BY <4>2, <3>2, <1>5 DEF Removes
        <4> QED
          BY <4>1, <4>2
      <3>4. ASSUME GoneFrom(g)' PROVE \E q \in VaultRequests : Erases(q, g)' /\ task'[q].drawn
        <4>1. CASE g = f
          BY <4>1, <3>2, <1>0, <1>3, <1>4, <1>5, <1>11
        <4>2. CASE g # f
          <5>1. PICK q \in VaultRequests : Erases(q, g) /\ task[q].drawn
            BY <4>2, <3>2, <3>4, <1>10
          <5>2. q # r
            BY <5>1, <1>12
          <5> QED
            BY <5>1, <5>2, <1>5 DEF Erases
        <4> QED
          BY <4>1, <4>2
      <3>5. ~GoneFrom(g)' => file'[g].thumb = "yes"
        BY <3>2, <2>1, <1>10
      <3> QED
        BY <3>3, <3>4, <3>5
    <2> QED
      BY <2>2, <2>3 DEF PreviewFits
  <1>15. \A g \in Files : (file[g].state # "none" => file'[g].state # "none") /\ (GoneFrom(g) => GoneFrom(g)')
                          /\ (preview[g] => preview'[g])
    BY <1>1, <1>6, <1>10
  <1> QED
    BY <1>5, <1>7, <1>8, <1>9, <1>13, <1>14, <1>15, OthersFit

LEMMA EraseChunkKeeps ==
    ASSUME VaultInv, NEW r \in VaultRequests, NEW fails \in BOOLEAN, EraseChunk(r, fails)
    PROVE  VaultInv'
  <1> DEFINE f == task[r].of
             work == [task[r] EXCEPT !.at = task[r].at + 1]
  <1>1. /\ task[r].pc = "erase" /\ task[r].at \in Index
        /\ object' = IF fails THEN object ELSE [object EXCEPT ![f][task[r].at] = Missing]
        /\ excused' = IF fails THEN excused \cup {f} ELSE excused
        /\ task' = [task EXCEPT ![r] = work] /\ UNCHANGED <<file, preview, link>>
    BY DEF EraseChunk, Turn
  <1>2. TaskFits(r) /\ ReadFits(r) /\ task[r] \in VaultWork /\ task \in [VaultRequests -> VaultWork]
    BY DEF VaultInv, VaultTyped
  <1>3. f \in Files /\ Removes(r)
    BY <1>1, <1>2 DEF TaskFits, Removes
  <1>4. /\ work \in VaultWork /\ work.pc = "erase" /\ work.at = task[r].at + 1 /\ work.op = task[r].op /\ work.of = f
        /\ work.drawn = task[r].drawn
    <2>1. task[r].at + 1 \in 0 .. Chunks
      BY <1>1 DEF Index
    <2> QED
      BY <1>1, <1>2, <2>1 DEF VaultWork
  <1>5. task'[r] = work /\ \A q \in VaultRequests : q # r => task'[q] = task[q]
    BY <1>1, <1>2
  <1>6. /\ object' \in [Files -> [Index -> Contents \cup {Missing}]]
        /\ \A g \in Files, i \in Index :
              object'[g][i] = IF g = f /\ i = task[r].at /\ ~fails THEN Missing ELSE object[g][i]
    BY <1>1, <1>3 DEF VaultInv, VaultTyped
  <1>7. excused \subseteq excused' /\ excused' \in SUBSET Files /\ (fails => f \in excused')
    BY <1>1, <1>3 DEF VaultInv, VaultTyped
  <1>8. VaultTyped'
    BY <1>1, <1>2, <1>4, <1>6, <1>7 DEF VaultInv, VaultTyped
  <1> HIDE DEF work
  <1>9. TaskFits(r)' /\ ReadFits(r)' /\ FlagFits(r)'
    BY <1>1, <1>2, <1>3, <1>4, <1>5 DEF TaskFits, ReadFits, FlagFits, Removes, GoneFrom
  <1>10. \A g \in Files : HashFits(g)' /\ (GoneFrom(g)' <=> GoneFrom(g)) /\ ~Flags(r, g)
    BY <1>1 DEF VaultInv, HashFits, GoneFrom, Flags
  <1>11. \A g \in Files : (Erases(r, g) <=> g = f) /\ (Erases(r, g)' <=> g = f)
    BY <1>1, <1>4, <1>5 DEF Erases
  <1>12. ASSUME NEW g \in Files, NEW i \in Index, Erases(r, g), task[r].at <= i, g \notin excused', object'[g][i] # Missing
         PROVE  Erases(r, g)' /\ task'[r].at <= i
    <2>1. g = f /\ ~fails /\ i # task[r].at
      BY <1>6, <1>7, <1>11, <1>12
    <2>2. task[r].at + 1 <= i
      BY <2>1, <1>1, <1>12 DEF Index
    <2> QED
      BY <2>1, <2>2, <1>4, <1>5, <1>11
  <1>13. \A g \in Files, i \in Index : object'[g][i] # Missing => object[g][i] # Missing
    BY <1>6
  <1>14. \A g \in Files : BytesFit(g)'
    BY <1>5, <1>7, <1>10, <1>12, <1>13, BytesKept
  <1>15. \A g \in Files : Removes(r)' /\ task'[r].of = g => Removes(r) /\ task[r].of = g /\ task'[r].drawn = task[r].drawn
    BY <1>3, <1>4, <1>5
  <1>16. \A g \in Files : Erases(r, g) /\ task[r].drawn => Erases(r, g)' /\ task'[r].drawn
    BY <1>4, <1>5, <1>11
  <1>17. \A g \in Files : PreviewFits(g)'
    BY <1>1, <1>5, <1>7, <1>10, <1>15, <1>16, PreviewsKept
  <1> QED
    BY <1>1, <1>5, <1>8, <1>9, <1>10, <1>14, <1>17, OthersFit

(* A request that stops half way excuses the file it was at. *)
LEMMA StopTaskKeeps ==
    ASSUME VaultInv, NEW r \in VaultRequests, StopTask(r)
    PROVE  VaultInv'
  <1> DEFINE f == task[r].of
  <1>1. /\ excused' = IF task[r].pc \in {"erase", "flag"} THEN excused \cup {f} ELSE excused
        /\ task' = [task EXCEPT ![r] = NoTask] /\ UNCHANGED <<file, object, preview, link>> /\ task[r].pc # "idle"
    BY DEF StopTask, Turn
  <1>2. f \in Files
    BY <1>1 DEF VaultInv, TaskFits
  <1>3. excused \subseteq excused' /\ excused' \in SUBSET Files
    BY <1>1, <1>2 DEF VaultInv, VaultTyped
  <1>4. /\ TaskFits(r)' /\ ReadFits(r)' /\ FlagFits(r)' /\ ~Removes(r)'
        /\ \A q \in VaultRequests : q # r => task'[q] = task[q]
    BY <1>1, NoTaskFits
  <1>5. \A g \in Files : Erases(r, g) \/ Flags(r, g) => g \in excused'
    BY <1>1 DEF Erases, Flags
  <1>6. VaultTyped'
    BY <1>1, <1>3, NoTaskFits DEF VaultInv, VaultTyped
  <1>7. \A g \in Files : HashFits(g)' /\ (GoneFrom(g)' <=> GoneFrom(g))
    BY <1>1 DEF VaultInv, HashFits, GoneFrom
  <1>8. \A g \in Files : BytesFit(g)'
    BY <1>1, <1>3, <1>4, <1>5, <1>7, BytesKept
  <1>9. \A g \in Files : PreviewFits(g)'
    BY <1>1, <1>3, <1>4, <1>5, <1>7, PreviewsKept
  <1> QED
    BY <1>1, <1>4, <1>6, <1>7, <1>8, <1>9, OthersFit

LEMMA ErasePreviewKeeps ==
    ASSUME VaultInv, NEW r \in VaultRequests, ErasePreview(r)
    PROVE  VaultInv'
  <1>0. TaskFits(r) /\ task[r] \in VaultWork /\ task[r].pc = "erase" /\ task[r].at \notin Index
    BY DEF VaultInv, VaultTyped, ErasePreview
  <1>1. PICK f \in Files : f = task[r].of
    BY <1>0 DEF TaskFits, Removes
  <1>2. /\ preview' = [preview EXCEPT ![f] = preview[f] /\ ~task[r].drawn] /\ task' = [task EXCEPT ![r] = NoTask]
        /\ UNCHANGED <<file, object, link, excused>>
    BY <1>1 DEF ErasePreview, Turn
  <1>3. /\ TaskFits(r)' /\ ReadFits(r)' /\ FlagFits(r)' /\ ~Removes(r)'
        /\ \A g \in Files : ~Erases(r, g)' /\ ~Flags(r, g)'
        /\ \A q \in VaultRequests : q # r => task'[q] = task[q]
    BY <1>2, NoTaskFits
  <1>4. /\ preview' \in [Files -> BOOLEAN] /\ \A g \in Files : g # f => preview'[g] = preview[g]
        /\ preview'[f] => preview[f] /\ ~task[r].drawn
    BY <1>2 DEF VaultInv, VaultTyped
  <1>5. VaultTyped'
    BY <1>2, <1>4, NoTaskFits DEF VaultInv, VaultTyped
  <1>6. \A g \in Files : /\ HashFits(g)' /\ (GoneFrom(g)' <=> GoneFrom(g)) /\ ~Flags(r, g) /\ (Erases(r, g) <=> g = f)
    BY <1>0, <1>1, <1>2 DEF VaultInv, HashFits, GoneFrom, Flags, Erases
  <1>7. GoneFrom(f)
    BY <1>0, <1>1 DEF TaskFits
  <1>8. \A i \in Index : ~(task[r].at <= i)
    BY <1>0 DEF VaultWork, Index
  <1>9. \A g \in Files : BytesFit(g)'
    BY <1>2, <1>3, <1>6, <1>8, BytesKept
  <1>10. ASSUME NEW g \in Files PROVE PreviewFits(g)'
    <2>1. CASE g # f
      <3>1. preview'[g] = preview[g] /\ ~Erases(r, g) /\ excused \subseteq excused' /\ file'[g] = file[g]
        BY <2>1, <1>2, <1>4, <1>6
      <3> QED
        BY <3>1, <1>3, <1>6, PreviewKept
    <2>2. CASE g = f
      <3>1. PreviewFits(f) /\ file'[f] = file[f] /\ GoneFrom(f)' /\ file[f].state # "none"
        BY <1>2, <1>6, <1>7 DEF VaultInv, GoneFrom
      <3>2. ASSUME preview'[f], f \notin excused, ~BeingFlagged(f)'
            PROVE  /\ \E q \in VaultRequests : Erases(q, f)' /\ task'[q].drawn
                   /\ \A q \in VaultRequests : Removes(q)' /\ task'[q].of = f => task'[q].drawn
        <4>1. ~BeingFlagged(f)
          <5> SUFFICES ASSUME NEW q \in VaultRequests, Flags(q, f) PROVE FALSE
            BY DEF BeingFlagged
          <5>1. q # r
            BY <1>6
          <5> QED
            BY <5>1, <3>2, <1>3 DEF BeingFlagged, Flags
        <4>2. /\ \E q \in VaultRequests : Erases(q, f) /\ task[q].drawn
              /\ \A q \in VaultRequests : Removes(q) /\ task[q].of = f => task[q].drawn
          BY <3>1, <3>2, <4>1, <1>4, <1>7 DEF PreviewFits
        <4>3. PICK q \in VaultRequests : Erases(q, f) /\ task[q].drawn
          BY <4>2
        <4>4. q # r
          BY <4>3, <3>2, <1>4
        <4>5. Erases(q, f)' /\ task'[q].drawn
          BY <4>3, <4>4, <1>3 DEF Erases
        <4>6. \A p \in VaultRequests : Removes(p)' /\ task'[p].of = f => task'[p].drawn
          BY <4>2, <1>3 DEF Removes
        <4> QED
          BY <4>5, <4>6
      <3> QED
        BY <2>2, <3>1, <3>2, <1>2 DEF PreviewFits
    <2> QED
      BY <2>1, <2>2
  <1>11. \A g \in Files : (file[g].state # "none" => file'[g].state # "none") /\ (GoneFrom(g) => GoneFrom(g)')
                          /\ (preview[g] => preview'[g] \/ GoneFrom(g)')
    BY <1>2, <1>4, <1>6, <1>7
  <1> QED
    BY <1>3, <1>5, <1>6, <1>9, <1>10, <1>11, OthersFit

LEMMA StoreThumbnailKeeps ==
    ASSUME VaultInv, NEW r \in VaultRequests, StoreThumbnail(r)
    PROVE  VaultInv'
  <1>0. /\ TaskFits(r) /\ task[r] \in VaultWork /\ task[r].pc = "draw" /\ task[r].op = "thumbnail"
        /\ task \in [VaultRequests -> VaultWork]
    BY DEF VaultInv, VaultTyped, StoreThumbnail, Doing
  <1>1. PICK f \in Files : f = task[r].of
    BY <1>0 DEF TaskFits
  <1> DEFINE work == [task[r] EXCEPT !.pc = "flag"]
  <1>2. /\ preview' = [preview EXCEPT ![f] = TRUE] /\ task' = [task EXCEPT ![r] = work]
        /\ excused' = IF file[f].state = "deleted" \/ Deleting(f) THEN excused \cup {f} ELSE excused
        /\ UNCHANGED <<file, object, link>>
    BY <1>1 DEF StoreThumbnail, Turn
  <1>3. work \in VaultWork /\ work.pc = "flag" /\ work.op = "thumbnail" /\ work.of = f
    BY <1>0, <1>1 DEF VaultWork, VaultStages
  <1>4. task'[r] = work /\ \A q \in VaultRequests : q # r => task'[q] = task[q]
    BY <1>0, <1>2
  <1>5. preview' \in [Files -> BOOLEAN] /\ preview'[f] /\ \A g \in Files : g # f => preview'[g] = preview[g]
    BY <1>2 DEF VaultInv, VaultTyped
  <1>6. excused \subseteq excused' /\ excused' \in SUBSET Files
    BY <1>2 DEF VaultInv, VaultTyped
  <1>7. VaultTyped'
    BY <1>0, <1>2, <1>3, <1>5, <1>6 DEF VaultInv, VaultTyped
  <1> HIDE DEF work
  <1>8. file[f].state # "none"
    BY <1>0, <1>1 DEF TaskFits
  <1>9. TaskFits(r)' /\ ReadFits(r)' /\ FlagFits(r)' /\ ~Removes(r)' /\ Flags(r, f)'
    BY <1>2, <1>3, <1>4, <1>5, <1>8 DEF TaskFits, ReadFits, FlagFits, Removes, Flags
  <1>10. \A g \in Files : /\ HashFits(g)' /\ (GoneFrom(g)' <=> GoneFrom(g)) /\ ~Flags(r, g) /\ ~Erases(r, g)
    BY <1>0, <1>2 DEF VaultInv, HashFits, GoneFrom, Flags, Erases
  <1>11. \A g \in Files : BytesFit(g)'
    BY <1>2, <1>4, <1>6, <1>10, BytesKept
  <1>12. ASSUME NEW g \in Files PROVE PreviewFits(g)'
    <2>1. CASE g # f
      <3>1. preview'[g] = preview[g] /\ file'[g] = file[g]
        BY <2>1, <1>2, <1>5
      <3> QED
        BY <3>1, <1>4, <1>6, <1>9, <1>10, PreviewKept
    <2>2. CASE g = f
      <3>1. BeingFlagged(f)' /\ file' = file
        BY <1>2, <1>9 DEF BeingFlagged
      <3> QED
        BY <2>2, <3>1, <1>5, <1>8 DEF PreviewFits
    <2> QED
      BY <2>1, <2>2
  <1>13. \A g \in Files : (file[g].state # "none" => file'[g].state # "none") /\ (GoneFrom(g) => GoneFrom(g)')
                          /\ (preview[g] => preview'[g] \/ GoneFrom(g)')
    BY <1>2, <1>5, <1>10
  <1> QED
    BY <1>4, <1>7, <1>9, <1>10, <1>11, <1>12, <1>13, OthersFit

(* The answer to a request for a preview: there is none, or there is one.  *)
LEMMA ThumbnailKeeps ==
    ASSUME VaultInv, NEW r \in VaultRequests, NoThumbnail(r) \/ FlagThumbnail(r)
    PROVE  VaultInv'
  <1>0. /\ TaskFits(r) /\ FlagFits(r) /\ task[r] \in VaultWork /\ task[r].op = "thumbnail"
        /\ NoThumbnail(r) => task[r].pc = "draw"
        /\ FlagThumbnail(r) => task[r].pc = "flag"
        /\ file \in [Files -> [state : {"none", "pending", "ready", "deleted"}, hash : Seq(Contents),
                              thumb : {"unknown", "yes", "no"}]]
    BY DEF VaultInv, VaultTyped, NoThumbnail, FlagThumbnail, Doing
  <1>1. PICK f \in Files : f = task[r].of
    BY <1>0 DEF TaskFits
  <1>2. PICK answer \in {"yes", "no"} :
          /\ file' = IF Found(f) THEN [file EXCEPT ![f].thumb = answer] ELSE file
          /\ task' = [task EXCEPT ![r] = NoTask] /\ UNCHANGED <<object, preview, link>>
          /\ \/ answer = "no" /\ task[r].pc = "draw"
                /\ excused' = IF preview[f] THEN excused \cup {f} ELSE excused
             \/ answer = "yes" /\ task[r].pc = "flag"
                /\ excused' = IF file[f].state = "deleted" \/ Deleting(f) THEN excused \cup {f} ELSE excused
    <2>1. CASE NoThumbnail(r)
      BY <2>1, <1>0, <1>1 DEF NoThumbnail, Turn
    <2>2. CASE FlagThumbnail(r)
      BY <2>2, <1>0, <1>1 DEF FlagThumbnail, Turn
    <2> QED
      BY <2>1, <2>2
  <1>3. /\ TaskFits(r)' /\ ReadFits(r)' /\ FlagFits(r)' /\ ~Removes(r)'
        /\ \A g \in Files : ~Erases(r, g)' /\ ~Flags(r, g)'
        /\ \A q \in VaultRequests : q # r => task'[q] = task[q]
    BY <1>2, NoTaskFits
  <1>4. file[f].state # "none" /\ (answer = "yes" /\ ~GoneFrom(f) => preview[f])
    BY <1>0, <1>1, <1>2 DEF TaskFits, FlagFits
  <1>5. excused \subseteq excused' /\ excused' \in SUBSET Files
    BY <1>2 DEF VaultInv, VaultTyped
  <1>6. /\ file' \in [Files -> [state : {"none", "pending", "ready", "deleted"}, hash : Seq(Contents),
                                thumb : {"unknown", "yes", "no"}]]
        /\ \A g \in Files : g # f => file'[g] = file[g]
        /\ \A g \in Files : file'[g].state = file[g].state /\ file'[g].hash = file[g].hash
        /\ Found(f) => file'[f].thumb = answer
    BY <1>0, <1>2
  <1>7. VaultTyped'
    BY <1>2, <1>5, <1>6, NoTaskFits DEF VaultInv, VaultTyped
  <1>8. \A g \in Files : /\ HashFits(g)' /\ (GoneFrom(g)' <=> GoneFrom(g)) /\ ~Erases(r, g) /\ (Flags(r, g) => g = f)
    <2>1. \A g \in Files : HashFits(g)
      BY DEF VaultInv
    <2> QED
      BY <2>1, <1>1, <1>2, <1>6 DEF HashFits, GoneFrom, Flags, Erases
  <1>9. \A g \in Files : BytesFit(g)'
    BY <1>2, <1>3, <1>5, <1>8, BytesKept
  <1>10. ASSUME NEW g \in Files PROVE PreviewFits(g)'
    <2>1. CASE g # f
      <3>1. preview'[g] = preview[g] /\ file'[g] = file[g] /\ ~Flags(r, g)
        BY <2>1, <1>2, <1>6, <1>8
      <3> QED
        BY <3>1, <1>3, <1>5, <1>8, PreviewKept
    <2>2. CASE g = f
      <3>1. Found(f) \/ GoneFrom(f)
        BY <1>0, <1>4 DEF Found, GoneFrom
      <3>2. preview' = preview /\ file'[f].state # "none" /\ (GoneFrom(f)' <=> GoneFrom(f))
        BY <1>2, <1>4, <1>6, <1>8
      <3>3. file'[f].thumb = "yes" /\ ~GoneFrom(f)' => preview'[f]
        BY <3>1, <3>2, <1>4, <1>6
      <3>4. CASE answer = "no"
        <4>1. preview'[f] => f \in excused'
          BY <3>2, <3>4, <1>2
        <4> QED
          BY <2>2, <3>2, <3>3, <4>1 DEF PreviewFits
      <3>5. CASE answer = "yes"
        <4>1. f \notin excused' => ~GoneFrom(f) /\ ~Deleting(f)
          BY <3>5, <1>2 DEF GoneFrom
        <4>2. \A q \in VaultRequests : Removes(q)' /\ task'[q].of = f => Deleting(f)
          <5> SUFFICES ASSUME NEW q \in VaultRequests, Removes(q)', task'[q].of = f PROVE Deleting(f)
            OBVIOUS
          <5>1. q # r
            BY <1>3
          <5>2. task[q] = task'[q]
            BY <5>1, <1>3
          <5> QED
            BY <5>2 DEF Deleting, Removes
        <4>3. ~GoneFrom(f) => file'[f].thumb = "yes"
          BY <3>1, <3>5, <1>6
        <4> QED
          BY <2>2, <3>2, <3>3, <4>1, <4>2, <4>3 DEF PreviewFits
      <3> QED
        BY <3>4, <3>5
    <2> QED
      BY <2>1, <2>2
  <1>11. \A g \in Files : (file[g].state # "none" => file'[g].state # "none") /\ (GoneFrom(g) => GoneFrom(g)')
                          /\ (preview[g] => preview'[g] \/ GoneFrom(g)')
    BY <1>2, <1>6, <1>8
  <1> QED
    BY <1>3, <1>5, <1>7, <1>8, <1>9, <1>10, <1>11, OthersFit

(* Steps no request of the vault takes. *)
LEMMA ApartKeeps ==
    ASSUME VaultInv, (\E f \in Files : Begin(f)) \/ (\E c \in Carriers : DetachAll(c)) \/ UNCHANGED vaultVars
    PROVE  VaultInv'
  <1>1. UNCHANGED <<object, preview, task, excused>>
    BY DEF Begin, DetachAll, vaultVars
  <1>2. /\ file' \in [Files -> [state : {"none", "pending", "ready", "deleted"}, hash : Seq(Contents),
                                thumb : {"unknown", "yes", "no"}]]
        /\ \A g \in Files : /\ file'[g].hash = file[g].hash /\ file'[g].thumb = file[g].thumb
                            /\ file'[g].state # file[g].state => file[g].state = "none" /\ file'[g].state = "pending"
    <2>1. file \in [Files -> [state : {"none", "pending", "ready", "deleted"}, hash : Seq(Contents),
                             thumb : {"unknown", "yes", "no"}]]
      BY DEF VaultInv, VaultTyped
    <2>2. CASE file' = file
      BY <2>1, <2>2
    <2>3. ASSUME NEW f \in Files, file[f].state = "none", file' = [file EXCEPT ![f].state = "pending"]
          PROVE  /\ file' \in [Files -> [state : {"none", "pending", "ready", "deleted"}, hash : Seq(Contents),
                                        thumb : {"unknown", "yes", "no"}]]
                 /\ \A g \in Files : g # f => file'[g] = file[g]
                 /\ file'[f].state = "pending" /\ file'[f].hash = file[f].hash /\ file'[f].thumb = file[f].thumb
      BY <2>1, <2>3
    <2> QED
      BY <2>2, <2>3 DEF Begin, DetachAll, vaultVars
  <1>3. link' \in SUBSET (Carriers \X Files)
    BY DEF Begin, DetachAll, vaultVars, VaultInv, VaultTyped
  <1>4. VaultTyped'
    BY <1>1, <1>2, <1>3 DEF VaultInv, VaultTyped
  <1>5. \A g \in Files : GoneFrom(g)' <=> GoneFrom(g)
    BY <1>2 DEF GoneFrom
  <1>6. ASSUME NEW q \in VaultRequests PROVE TaskFits(q)' /\ ReadFits(q)' /\ FlagFits(q)'
    <2>1. TaskFits(q) /\ ReadFits(q) /\ FlagFits(q) /\ task'[q] = task[q] /\ preview' = preview
      BY <1>1 DEF VaultInv
    <2>2. task[q].op # "none" => task[q].of \in Files /\ file'[task[q].of].state # "none"
      BY <2>1, <1>2 DEF TaskFits
    <2>3. TaskFits(q)' /\ ReadFits(q)'
      BY <2>1, <2>2, <1>5 DEF TaskFits, ReadFits, Removes
    <2>4. FlagFits(q)'
      BY <2>1, <2>2, <1>5 DEF TaskFits, FlagFits
    <2> QED
      BY <2>3, <2>4
  <1>7. ASSUME NEW g \in Files PROVE HashFits(g)' /\ BytesFit(g)' /\ PreviewFits(g)'
    <2>1. HashFits(g) /\ BytesFit(g) /\ PreviewFits(g)
      BY DEF VaultInv
    <2>2. HashFits(g)'
      BY <2>1, <1>2 DEF HashFits
    <2>3. BytesFit(g)'
      BY <2>1, <1>1, <1>5 DEF BytesFit, Erases
    <2>4. PreviewFits(g)'
      BY <2>1, <1>1, <1>2, <1>5 DEF PreviewFits, Erases, Removes, BeingFlagged, Flags
    <2> QED
      BY <2>2, <2>3, <2>4
  <1> QED
    BY <1>4, <1>6, <1>7 DEF VaultInv

LEMMA VaultAlways == VaultSpec => []VaultInv
  <1>1. VaultInv /\ [VaultNext]_vaultVars => VaultInv'
    BY ApartKeeps, AsksKeep, StagesKeep, PutKeeps, MarkReadyKeeps, CommitDiscardKeeps, EraseChunkKeeps, ErasePreviewKeeps,
       ThumbnailKeeps, StoreThumbnailKeeps, StopTaskKeeps DEF VaultNext
  <1> QED
    BY <1>1, VaultStart, PTL DEF VaultSpec

\* Files, their chunks and the tasks on them are well typed.
THEOREM VaultTypedAlways == VaultSpec => []VaultTypeOK
  <1>1. VaultInv => VaultTypeOK
    BY DEF VaultInv, VaultTyped, VaultWork, HashFits, VaultTypeOK
  <1> QED
    BY <1>1, VaultAlways, PTL

\* The bytes of a deleted file go with it, unless storage failed, the process
\* stopped, or a request that had passed its check wrote after the deletion.
THEOREM BytesGo == VaultSpec => []BytesGoWithFile
  <1>1. ASSUME VaultInv, NEW f \in Files, file[f].state = "deleted", f \notin excused,
               \A r \in VaultRequests : task[r].of = f => task[r].pc = "idle"
        PROVE  (\A i \in Index : object[f][i] = Missing) /\ ~preview[f]
    <2>1. BytesFit(f) /\ PreviewFits(f) /\ GoneFrom(f)
      BY <1>1 DEF VaultInv, GoneFrom
    <2>2. \A r \in VaultRequests : ~Erases(r, f) /\ ~Flags(r, f)
      BY <1>1 DEF Erases, Flags
    <2> QED
      BY <1>1, <2>1, <2>2 DEF BytesFit, PreviewFits, BeingFlagged
  <1>2. VaultInv => BytesGoWithFile
    BY <1>1 DEF BytesGoWithFile
  <1> QED
    BY <1>2, VaultAlways, PTL

\* A file that says it has a preview has one stored.
THEOREM FlagsTellTruth == VaultSpec => []FlaggedIsStored
  <1>1. VaultInv => FlaggedIsStored
    BY DEF VaultInv, PreviewFits, FlaggedIsStored, GoneFrom
  <1> QED
    BY <1>1, VaultAlways, PTL

\* A deleted file is let go of by every transaction that carried it when the
\* deletion looked.
THEOREM DeletedFilesLetGo == VaultSpec => DeletedFileLetsGo
  <1>1. ASSUME VaultInv, [VaultNext]_vaultVars, NEW f \in Files, Found(f), file'[f].state = "deleted"
        PROVE  \E r \in VaultRequests : task[r].pc = "remove" /\ task[r].of = f /\ task[r].saw \cap link' = {}
    <2>0. /\ file \in [Files -> [state : {"none", "pending", "ready", "deleted"}, hash : Seq(Contents),
                                thumb : {"unknown", "yes", "no"}]]
          /\ file[f].state # "deleted" /\ file' # file
      BY <1>1 DEF VaultInv, VaultTyped, Found
    <2>1. PICK r \in VaultRequests : CommitDiscard(r)
      <3>1. \A g \in Files : ~Begin(g)
        BY <2>0, <1>1 DEF Begin
      <3>2. \A r \in VaultRequests : ~MarkReady(r)
        BY <2>0, <1>1 DEF MarkReady
      <3>3. \A r \in VaultRequests : ~NoThumbnail(r) /\ ~FlagThumbnail(r)
        BY SMTT(30), <2>0, <1>1 DEF NoThumbnail, FlagThumbnail
      <3> QED
        BY <2>0, <3>1, <3>2, <3>3, <1>1
           DEF VaultNext, vaultVars, DetachAll, AskPut, AskComplete, AskDeleteFile, AskThumbnail, AskAttach, Put,
               ReadChunk, VerifyType, DetachEverywhere, ErasePreview, EraseChunk, StoreThumbnail, CommitAttach, StopTask
    <2>2. task[r].pc = "remove" /\ TaskFits(r)
      BY <2>1, <1>1 DEF CommitDiscard, VaultInv
    <2>3. task[r].of = f
      BY <2>0, <2>1, <1>1 DEF CommitDiscard
    <2>4. link' = link \ task[r].saw
      BY <2>1, <2>2 DEF CommitDiscard, TaskFits
    <2> QED
      BY <2>2, <2>3, <2>4
  <1>2. VaultInv /\ [VaultNext]_vaultVars =>
           [\A f \in Files :
              Found(f) /\ file'[f].state = "deleted" =>
                 \E r \in VaultRequests :
                    task[r].pc = "remove" /\ task[r].of = f /\ task[r].saw \cap link' = {}]_vaultVars
    BY <1>1
  <1> QED
    BY <1>2, VaultAlways, PTL DEF VaultSpec, DeletedFileLetsGo

HIDE VaultAssumption

(***************************************************************************)
(* Selections of transactions.                                             *)
(***************************************************************************)
\* A transaction, and what one says to a request that reads it.
PickRows == [live : BOOLEAN, label : Labels, base : Homes, exported : BOOLEAN]
RowsFound == [of : Picks, label : Labels]

Selecting ==
    [pc : {"idle", "found", "written", "workspace", "listed"}, op : {"none", "label", "delete", "export"},
     ids : SUBSET Picks, label : Labels \cup Homes \cup {"none"}, before : SUBSET RowsFound, held : SUBSET Picks]

\* The rows some of what was read is about.
IdsOf(rows) == {row.of : row \in rows}

PicksTyped == pick \in [Picks -> PickRows] /\ sel \in [Selectors -> Selecting]

\* A bulk action has read every row it names that is live, and no other; once
\* it has written, it holds those that are live.
KnowsItsRows(r) ==
    /\ sel[r].op = "label" => sel[r].label \in Labels
    /\ sel[r].pc \in {"found", "written"} =>
          /\ IdsOf(sel[r].before) \subseteq sel[r].ids
          /\ \A p \in sel[r].ids : pick[p].live => p \in IdsOf(sel[r].before)
    /\ IF sel[r].pc = "written"
       THEN /\ sel[r].held \subseteq IdsOf(sel[r].before)
            /\ \A p \in sel[r].ids : pick[p].live => p \in sel[r].held
       ELSE sel[r].held = {}

\* What an export is about to mark is in a file.
ListedIsInFile(r) == sel[r].pc = "listed" => \A p \in sel[r].ids : \E one \in files : one.of = p

SelectionsInv ==
    /\ SelectionsTypeOK /\ PicksTyped /\ MarkedIsInFile /\ SkewOnlyByDeletion
    /\ \A r \in Selectors : KnowsItsRows(r) /\ ListedIsInFile(r)

(***************************************************************************)
(* Places.                                                                 *)
(***************************************************************************)
\* Two rows at one place among some of the transactions are one transaction.
LEMMA OneAtAPlace ==
    ASSUME NEW N \in SUBSET Picks, NEW p \in N, NEW q \in N,
           Cardinality({o \in N : o < p}) = Cardinality({o \in N : o < q})
    PROVE  p = q
<1> DEFINE Under(x) == {o \in N : o < x}
<1>1. N \subseteq Nat /\ IsFiniteSet(N) BY SelectionsAssumption, FS_Subset
<1>2. ASSUME NEW x \in N, NEW y \in N, x < y, Cardinality(Under(x)) = Cardinality(Under(y))
      PROVE  FALSE
  <2>1. Under(x) \subseteq Under(y)
    <3>1. ASSUME NEW o \in N, o < x PROVE o < y BY <1>1, <1>2, <3>1
    <3>2. QED BY <3>1
  <2>2. IsFiniteSet(Under(y))
    <3>1. Under(y) \subseteq N OBVIOUS
    <3>2. QED BY <1>1, <3>1, FS_Subset
  <2>3. Under(x) = Under(y)
    <3> HIDE DEF Under
    <3>1. QED BY <1>2, <2>1, <2>2, FS_Subset
  <2>4. x \in Under(y) /\ x \notin Under(x) BY <1>1, <1>2
  <2>5. QED BY <2>3, <2>4
<1>3. p < q \/ p = q \/ q < p BY <1>1
<1>4. Cardinality(Under(p)) = Cardinality(Under(q)) OBVIOUS
<1> HIDE DEF Under
<1>5. QED BY <1>2, <1>3, <1>4

\* When all that was read before and comes no later than a row is read again,
\* that row is paired with itself.
LEMMA PairedWithItself ==
    ASSUME NEW before, NEW after, IdsOf(before) \in SUBSET Picks,
           IdsOf(after) \subseteq IdsOf(before),
           NEW told \in Paired(before, after),
           \A p \in IdsOf(before) : p <= told.of => p \in IdsOf(after)
    PROVE  told.after.of = told.of
<1>1. PICK a \in before, b \in after : told = Told(a.of, a, b) /\ Place(before, a) = Place(after, b)
      BY DEF Paired
<1>2. told.of = a.of /\ told.after = b BY <1>1 DEF Told
<1>3. a.of \in IdsOf(before) /\ a.of \in Nat BY SelectionsAssumption DEF IdsOf
<1>4. a.of \in IdsOf(after)
  <2>1. a.of <= a.of BY <1>3
  <2>2. QED BY <1>2, <1>3, <2>1
<1>5. {p \in IdsOf(before) : p < a.of} = {p \in IdsOf(after) : p < a.of}
  <2>1. ASSUME NEW p \in IdsOf(before), p < a.of PROVE p \in IdsOf(after)
    <3>1. p \in Nat BY SelectionsAssumption
    <3>2. p <= told.of BY <1>2, <1>3, <2>1, <3>1
    <3>3. QED BY <3>2
  <2>2. QED BY <2>1
<1>6. Cardinality({p \in IdsOf(after) : p < a.of}) = Cardinality({p \in IdsOf(after) : p < b.of})
      BY <1>1, <1>5 DEF Place, IdsOf
<1>7. b.of \in IdsOf(after) BY DEF IdsOf
<1>8. IdsOf(after) \in SUBSET Picks OBVIOUS
<1>9. a.of = b.of BY <1>4, <1>6, <1>7, <1>8, OneAtAPlace
<1>10. QED BY <1>2, <1>9

(***************************************************************************)
(* Steps.                                                                  *)
(***************************************************************************)
LEMMA SelectionsBegin == SelectionsInit => SelectionsInv
<1> SUFFICES ASSUME SelectionsInit PROVE SelectionsInv OBVIOUS
<1>0. ASSUME NEW p \in Picks
      PROVE  /\ pick[p] \in PickRows /\ pick[p].live \in BOOLEAN /\ pick[p].exported \in BOOLEAN
             /\ pick[p].label \in Labels /\ pick[p].base = home
  <2>1. pick[p] \in {[live |-> TRUE, label |-> l, base |-> home, exported |-> FALSE] : l \in Labels}
        BY DEF SelectionsInit
  <2>2. PICK l \in Labels : pick[p] = [live |-> TRUE, label |-> l, base |-> home, exported |-> FALSE]
        BY <2>1
  <2>3. QED BY <2>2 DEF PickRows, SelectionsInit
<1>1. PicksTyped
  <2>1. pick = [p \in Picks |-> pick[p]] BY DEF SelectionsInit
  <2>2. NoSel \in Selecting BY DEF Selecting, NoSel
  <2>3. pick \in [Picks -> PickRows] BY <1>0, <2>1
  <2>4. QED BY <2>2, <2>3 DEF SelectionsInit, PicksTyped
<1>2. SelectionsTypeOK BY <1>0, SelectionsAssumption DEF SelectionsInit, SelectionsTypeOK, NoSel
<1>3. MarkedIsInFile /\ SkewOnlyByDeletion
      BY DEF SelectionsInit, MarkedIsInFile, SkewOnlyByDeletion
<1>4. ASSUME NEW r \in Selectors PROVE KnowsItsRows(r) /\ ListedIsInFile(r)
      BY DEF SelectionsInit, KnowsItsRows, ListedIsInFile, NoSel
<1>5. QED BY <1>1, <1>2, <1>3, <1>4 DEF SelectionsInv

\* What a step owes: the rows keep their type and none comes back, the
\* request that steps is in order, the others only saw rows go, and new audit
\* rows are right.
RowsMayGo ==
    /\ pick' \in [Picks -> PickRows]
    /\ home' \in Homes /\ \A p \in Picks : pick'[p].base = home'
    /\ \A p \in Picks : pick'[p].live => pick[p].live
    /\ files \subseteq files'
    /\ begun' \in 0..MaxBegun

LEMMA StepKeeps ==
    ASSUME SelectionsInv, RowsMayGo, NEW r \in Selectors,
           NEW work \in Selecting, sel' = [sel EXCEPT ![r] = work],
           \A q \in Selectors \ {r} : work.held \cap sel[q].held = {},
           KnowsItsRows(r)', ListedIsInFile(r)',
           \A p \in Picks : pick'[p].exported => pick[p].exported \/ \E one \in files' : one.of = p,
           \A told \in past' \ past :
              told.after.of \notin {0, told.of} => \E p \in Picks : p <= told.of /\ ~pick'[p].live
    PROVE  SelectionsInv'
<1>1. PicksTyped' BY DEF PicksTyped, RowsMayGo, SelectionsInv
<1>2. sel'[r] = work /\ \A q \in Selectors \ {r} : sel'[q] = sel[q] BY DEF SelectionsInv, PicksTyped
<1>3. SelectionsTypeOK'
  <2>1. ASSUME NEW p \in Picks PROVE /\ pick'[p].live \in BOOLEAN /\ pick'[p].exported \in BOOLEAN
                                     /\ pick'[p].label \in Labels /\ pick'[p].base = home'
        BY DEF RowsMayGo, PickRows
  <2>2. ASSUME NEW q \in Selectors, NEW s \in Selectors, q # s PROVE sel'[q].held \cap sel'[s].held = {}
        BY <1>2, <2>2 DEF SelectionsInv, SelectionsTypeOK
  <2>3. QED BY <2>1, <2>2 DEF SelectionsTypeOK, RowsMayGo
<1>4. MarkedIsInFile' BY DEF MarkedIsInFile, SelectionsInv, RowsMayGo
<1>5. SkewOnlyByDeletion'
  <2>1. ASSUME NEW told \in past', told.after.of \notin {0, told.of}
        PROVE  \E p \in Picks : p <= told.of /\ ~pick'[p].live
    <3>1. CASE told \in past
      <4>1. PICK p \in Picks : p <= told.of /\ ~pick[p].live
            BY <2>1, <3>1 DEF SelectionsInv, SkewOnlyByDeletion
      <4>2. QED BY <4>1 DEF RowsMayGo
    <3>2. CASE told \notin past BY <2>1, <3>2
    <3>3. QED BY <3>1, <3>2
  <2>2. QED BY <2>1 DEF SkewOnlyByDeletion
<1>6. ASSUME NEW q \in Selectors PROVE KnowsItsRows(q)' /\ ListedIsInFile(q)'
  <2>1. CASE q = r BY <2>1
  <2>2. CASE q # r
    <3>1. sel'[q] = sel[q] /\ sel[q].ids \subseteq Picks BY <1>2, <2>2 DEF SelectionsInv, PicksTyped, Selecting
    <3>2. KnowsItsRows(q) /\ ListedIsInFile(q) BY DEF SelectionsInv
    <3>3. KnowsItsRows(q)' BY <3>1, <3>2 DEF KnowsItsRows, RowsMayGo
    <3>4. ListedIsInFile(q)' BY <3>1, <3>2 DEF ListedIsInFile, RowsMayGo
    <3>5. QED BY <3>3, <3>4
  <2>3. QED BY <2>1, <2>2
<1>7. QED BY <1>1, <1>3, <1>4, <1>5, <1>6 DEF SelectionsInv

LEMMA BeginBulkKeeps ==
    ASSUME SelectionsInv, NEW r \in Selectors, NEW op \in {"label", "delete"}, NEW ids \in SUBSET Picks,
           NEW l \in Labels \cup {"none"}, op = "label" => l \in Labels, BeginBulk(r, op, ids, l)
    PROVE  SelectionsInv'
<1> DEFINE work == [NoSel EXCEPT !.pc = "found", !.op = op, !.ids = ids, !.label = l, !.before = FindMany(ids)]
<1>1. pick \in [Picks -> PickRows] BY DEF SelectionsInv, PicksTyped
<1>2. FindMany(ids) \subseteq RowsFound BY <1>1 DEF FindMany, Shows, RowsFound, PickRows
<1>3. work \in Selecting BY <1>2 DEF NoSel, Selecting
<1>4. /\ work.pc = "found" /\ work.op = op /\ work.ids = ids /\ work.label = l
      /\ work.before = FindMany(ids) /\ work.held = {} BY DEF NoSel
<1>5. sel' = [sel EXCEPT ![r] = work] BY DEF BeginBulk
<1>6. IdsOf(FindMany(ids)) = {p \in ids : pick[p].live} 
  <2>1. ASSUME NEW p \in ids, pick[p].live PROVE p \in IdsOf(FindMany(ids))
    <3>1. Shows(p) \in FindMany(ids) /\ Shows(p).of = p BY <2>1 DEF FindMany, Shows
    <3>2. QED BY <3>1 DEF IdsOf
  <2>2. ASSUME NEW p \in IdsOf(FindMany(ids)) PROVE p \in ids /\ pick[p].live
    <3>1. PICK row \in FindMany(ids) : p = row.of BY DEF IdsOf
    <3>2. QED BY <3>1 DEF FindMany, Shows
  <2>3. QED BY <2>1, <2>2
<1>7. RowsMayGo BY <1>1, SelectionsAssumption DEF RowsMayGo, BeginBulk, SelectionsInv, SelectionsTypeOK
<1> HIDE DEF work
<1>8. sel'[r] = work BY <1>5 DEF SelectionsInv, PicksTyped
<1>9. KnowsItsRows(r)' /\ ListedIsInFile(r)'
      BY <1>4, <1>6, <1>8 DEF KnowsItsRows, ListedIsInFile, BeginBulk
<1>10. pick' = pick /\ past' = past BY DEF BeginBulk
<1>11. QED BY <1>3, <1>4, <1>5, <1>7, <1>9, <1>10, StepKeeps

LEMMA WritePicksKeeps == ASSUME SelectionsInv, NEW r \in Selectors, WritePicks(r) PROVE SelectionsInv'
<1> DEFINE work == [sel[r] EXCEPT !.pc = "written", !.held = {p \in sel[r].ids : pick[p].live}]
<1>1. sel[r] \in Selecting /\ pick \in [Picks -> PickRows] BY DEF SelectionsInv, PicksTyped
<1>2. work \in Selecting BY <1>1 DEF Selecting
<1>3. /\ work.pc = "written" /\ work.op = sel[r].op /\ work.ids = sel[r].ids /\ work.label = sel[r].label
      /\ work.before = sel[r].before /\ work.held = {p \in sel[r].ids : pick[p].live} BY <1>1 DEF Selecting
<1>4. sel' = [sel EXCEPT ![r] = work] BY DEF WritePicks, SelectionsInv, PicksTyped
<1>5. RowsMayGo BY <1>1 DEF RowsMayGo, WritePicks, SelectionsInv, SelectionsTypeOK
<1> HIDE DEF work
<1>6. sel'[r] = work BY <1>4 DEF SelectionsInv, PicksTyped
<1>7. KnowsItsRows(r) /\ sel[r].pc = "found" BY DEF SelectionsInv, WritePicks
<1>8. pick' = pick /\ past' = past BY DEF WritePicks
<1>9. KnowsItsRows(r)'
  <2>1. IdsOf(work.before) \subseteq work.ids /\ \A p \in work.ids : pick[p].live => p \in IdsOf(work.before)
        BY <1>3, <1>7 DEF KnowsItsRows
  <2>2. work.held \subseteq IdsOf(work.before) /\ \A p \in work.ids : pick[p].live => p \in work.held
        BY <1>3, <2>1
  <2>3. work.op = "label" => work.label \in Labels BY <1>3, <1>7 DEF KnowsItsRows
  <2>4. QED BY <1>3, <1>6, <1>8, <2>1, <2>2, <2>3 DEF KnowsItsRows
<1>10. ListedIsInFile(r)' BY <1>3, <1>6 DEF ListedIsInFile
<1>11. \A q \in Selectors \ {r} : work.held \cap sel[q].held = {} BY <1>3 DEF WritePicks, PickFree
<1>12. QED BY <1>2, <1>4, <1>5, <1>8, <1>9, <1>10, <1>11, StepKeeps

\* What a request that has ended is left with.
LEMMA EndedIsInOrder ==
    ASSUME PicksTyped, NEW r \in Selectors, sel' = [sel EXCEPT ![r] = NoSel]
    PROVE  /\ KnowsItsRows(r)' /\ ListedIsInFile(r)' /\ NoSel \in Selecting
           /\ \A q \in Selectors \ {r} : NoSel.held \cap sel[q].held = {}
<1>1. sel'[r] = NoSel BY DEF PicksTyped
<1>2. QED BY <1>1 DEF KnowsItsRows, ListedIsInFile, NoSel, Selecting

LEMMA CommitLabelsKeeps == ASSUME SelectionsInv, NEW r \in Selectors, CommitLabels(r) PROVE SelectionsInv'
<1> DEFINE after == {[of |-> p, label |-> sel[r].label] : p \in sel[r].held}
<1>1. sel[r] \in Selecting /\ pick \in [Picks -> PickRows] /\ KnowsItsRows(r)
      BY DEF SelectionsInv, PicksTyped
<1>2. sel[r].label \in Labels BY <1>1 DEF CommitLabels, KnowsItsRows
<1>3. ASSUME NEW p \in Picks
      PROVE  /\ pick'[p] \in PickRows /\ pick'[p].live = pick[p].live /\ pick'[p].base = pick[p].base
             /\ pick'[p].exported = pick[p].exported
  <2>1. pick[p] \in PickRows BY <1>1
  <2>2. CASE p \in sel[r].held
    <3>1. pick'[p] = [pick[p] EXCEPT !.label = sel[r].label] BY <2>2 DEF CommitLabels
    <3>2. QED BY <1>2, <2>1, <3>1 DEF PickRows
  <2>3. CASE p \notin sel[r].held
    <3>1. pick'[p] = pick[p] BY <2>3 DEF CommitLabels
    <3>2. QED BY <2>1, <3>1
  <2>4. QED BY <2>2, <2>3
<1>4. pick' \in [Picks -> PickRows]
  <2>1. pick' = [p \in Picks |-> pick'[p]] BY DEF CommitLabels
  <2>2. QED BY <1>3, <2>1
<1>5. RowsMayGo BY <1>3, <1>4 DEF RowsMayGo, CommitLabels, SelectionsInv, SelectionsTypeOK
<1>6. IdsOf(after) = sel[r].held
  <2>1. ASSUME NEW p \in sel[r].held PROVE p \in IdsOf(after)
    <3>1. [of |-> p, label |-> sel[r].label] \in after /\ [of |-> p, label |-> sel[r].label].of = p OBVIOUS
    <3>2. QED BY <3>1 DEF IdsOf
  <2>2. ASSUME NEW p \in IdsOf(after) PROVE p \in sel[r].held
    <3>1. PICK row \in after : p = row.of BY DEF IdsOf
    <3>2. QED BY <3>1
  <2>3. QED BY <2>1, <2>2
<1>7. past' = past \cup Paired(sel[r].before, after) BY DEF CommitLabels
<1>8. ASSUME NEW told \in past' \ past, told.after.of \notin {0, told.of}
      PROVE  \E p \in Picks : p <= told.of /\ ~pick'[p].live
  <2> SUFFICES ASSUME \A p \in Picks : p <= told.of => pick'[p].live PROVE FALSE OBVIOUS
  <2> DEFINE before == sel[r].before
  <2>1. told \in Paired(before, after) BY <1>7, <1>8
  <2>2. IdsOf(before) \in SUBSET Picks /\ IdsOf(before) \subseteq sel[r].ids
        BY <1>1 DEF KnowsItsRows, CommitLabels, Selecting
  <2>3. IdsOf(after) \subseteq IdsOf(before) BY <1>1, <1>6 DEF KnowsItsRows, CommitLabels
  <2>4. \A p \in IdsOf(before) : p <= told.of => p \in IdsOf(after)
    <3> TAKE p \in IdsOf(before)
    <3> HAVE p <= told.of
    <3>1. pick[p].live /\ p \in sel[r].ids BY <1>3, <2>2
    <3>2. QED BY <1>1, <1>6, <3>1 DEF KnowsItsRows, CommitLabels
  <2> HIDE DEF before, after
  <2>5. told.after.of = told.of BY <2>1, <2>2, <2>3, <2>4, PairedWithItself
  <2>6. QED BY <1>8, <2>5
<1>9. sel' = [sel EXCEPT ![r] = NoSel] BY DEF CommitLabels
<1>10. PicksTyped BY DEF SelectionsInv
<1> HIDE DEF after
<1>11. QED BY <1>3, <1>5, <1>8, <1>9, <1>10, EndedIsInOrder, StepKeeps

LEMMA CommitDeletesKeeps == ASSUME SelectionsInv, NEW r \in Selectors, CommitDeletes(r) PROVE SelectionsInv'
<1>1. pick \in [Picks -> PickRows] /\ PicksTyped BY DEF SelectionsInv, PicksTyped
<1>2. ASSUME NEW p \in Picks
      PROVE  /\ pick'[p] \in PickRows /\ (pick'[p].live => pick[p].live) /\ pick'[p].base = pick[p].base
             /\ pick'[p].exported = pick[p].exported
  <2>1. pick[p] \in PickRows BY <1>1
  <2>2. CASE p \in sel[r].held
    <3>1. pick'[p] = [pick[p] EXCEPT !.live = FALSE] BY <2>2 DEF CommitDeletes
    <3>2. QED BY <2>1, <3>1 DEF PickRows
  <2>3. CASE p \notin sel[r].held
    <3>1. pick'[p] = pick[p] BY <2>3 DEF CommitDeletes
    <3>2. QED BY <2>1, <3>1
  <2>4. QED BY <2>2, <2>3
<1>3. pick' \in [Picks -> PickRows]
  <2>1. pick' = [p \in Picks |-> pick'[p]] BY DEF CommitDeletes
  <2>2. QED BY <1>2, <2>1
<1>4. RowsMayGo BY <1>2, <1>3 DEF RowsMayGo, CommitDeletes, SelectionsInv, SelectionsTypeOK
<1>5. \A told \in past' \ past : told.after.of = 0 BY DEF CommitDeletes, Told, NotThere
<1>6. sel' = [sel EXCEPT ![r] = NoSel] BY DEF CommitDeletes
<1>7. QED BY <1>1, <1>2, <1>4, <1>5, <1>6, EndedIsInOrder, StepKeeps

LEMMA UndoBulkKeeps == ASSUME SelectionsInv, NEW r \in Selectors, UndoBulk(r) PROVE SelectionsInv'
<1>1. pick \in [Picks -> PickRows] /\ PicksTyped BY DEF SelectionsInv, PicksTyped
<1>2. RowsMayGo BY <1>1 DEF RowsMayGo, UndoBulk, SelectionsInv, SelectionsTypeOK
<1>3. sel' = [sel EXCEPT ![r] = NoSel] /\ past' = past /\ pick' = pick BY DEF UndoBulk
<1>4. QED BY <1>1, <1>2, <1>3, EndedIsInOrder, StepKeeps

LEMMA AskExportKeeps == ASSUME SelectionsInv, NEW r \in Selectors, AskExport(r) PROVE SelectionsInv'
<1> DEFINE work == [NoSel EXCEPT !.pc = "workspace", !.op = "export", !.label = home]
<1>1. pick \in [Picks -> PickRows] /\ home \in Homes BY DEF SelectionsInv, PicksTyped, SelectionsTypeOK
<1>2. work \in Selecting BY <1>1 DEF NoSel, Selecting
<1>3. work.pc = "workspace" /\ work.op = "export" /\ work.held = {} BY DEF NoSel
<1>4. sel' = [sel EXCEPT ![r] = work] /\ pick' = pick /\ past' = past BY DEF AskExport
<1>5. RowsMayGo BY <1>1, SelectionsAssumption DEF RowsMayGo, AskExport, SelectionsInv, SelectionsTypeOK
<1> HIDE DEF work
<1>6. sel'[r] = work BY <1>4 DEF SelectionsInv, PicksTyped
<1>7. KnowsItsRows(r)' /\ ListedIsInFile(r)' BY <1>3, <1>6 DEF KnowsItsRows, ListedIsInFile
<1>8. QED BY <1>2, <1>3, <1>4, <1>5, <1>7, StepKeeps

LEMMA ListRowsKeeps ==
    ASSUME SelectionsInv, NEW r \in Selectors, NEW ids \in SUBSET Picks, ListRows(r, ids)
    PROVE  SelectionsInv'
<1> DEFINE work == [sel[r] EXCEPT !.pc = "listed", !.ids = ids]
<1>1. sel[r] \in Selecting /\ pick \in [Picks -> PickRows] /\ KnowsItsRows(r)
      BY DEF SelectionsInv, PicksTyped
<1>2. work \in Selecting BY <1>1 DEF Selecting
<1>3. /\ work.pc = "listed" /\ work.op = sel[r].op /\ work.label = sel[r].label
      /\ work.ids = ids /\ work.held = sel[r].held BY <1>1 DEF Selecting
<1>4. sel' = [sel EXCEPT ![r] = work] /\ pick' = pick /\ past' = past
      BY DEF ListRows, SelectionsInv, PicksTyped
<1>5. sel[r].held = {} BY <1>1 DEF ListRows, KnowsItsRows
<1>6. RowsMayGo BY <1>1 DEF RowsMayGo, ListRows, SelectionsInv, SelectionsTypeOK
<1> HIDE DEF work
<1>7. sel'[r] = work BY <1>4 DEF SelectionsInv, PicksTyped
<1>8. KnowsItsRows(r)' BY <1>1, <1>3, <1>5, <1>7 DEF KnowsItsRows
<1>9. ASSUME NEW p \in ids PROVE \E one \in files' : one.of = p
  <2> DEFINE one == [of |-> p, base |-> pick[p].base, named |-> sel[r].label]
  <2>1. one \in files' /\ one.of = p BY DEF ListRows
  <2>2. QED BY <2>1
<1>10. ListedIsInFile(r)' BY <1>3, <1>7, <1>9 DEF ListedIsInFile
<1>11. QED BY <1>2, <1>3, <1>4, <1>5, <1>6, <1>8, <1>10, StepKeeps

LEMMA MarkExportedKeeps == ASSUME SelectionsInv, NEW r \in Selectors, MarkExported(r) PROVE SelectionsInv'
<1>1. pick \in [Picks -> PickRows] /\ PicksTyped /\ ListedIsInFile(r) BY DEF SelectionsInv, PicksTyped
<1>2. ASSUME NEW p \in Picks
      PROVE  /\ pick'[p] \in PickRows /\ pick'[p].live = pick[p].live /\ pick'[p].base = pick[p].base
             /\ (pick'[p].exported => pick[p].exported \/ p \in sel[r].ids)
  <2>1. pick[p] \in PickRows BY <1>1
  <2>2. CASE p \in sel[r].ids /\ pick[p].live
    <3>1. pick'[p] = [pick[p] EXCEPT !.exported = TRUE] BY <2>2 DEF MarkExported
    <3>2. QED BY <2>1, <2>2, <3>1 DEF PickRows
  <2>3. CASE ~(p \in sel[r].ids /\ pick[p].live)
    <3>1. pick'[p] = pick[p] BY <2>3 DEF MarkExported
    <3>2. QED BY <2>1, <3>1
  <2>4. QED BY <2>2, <2>3
<1>3. pick' \in [Picks -> PickRows]
  <2>1. pick' = [p \in Picks |-> pick'[p]] BY DEF MarkExported
  <2>2. QED BY <1>2, <2>1
<1>4. RowsMayGo BY <1>2, <1>3 DEF RowsMayGo, MarkExported, SelectionsInv, SelectionsTypeOK
<1>5. \A p \in Picks : pick'[p].exported => pick[p].exported \/ \E one \in files' : one.of = p
      BY <1>1, <1>2 DEF ListedIsInFile, MarkExported
<1>6. sel' = [sel EXCEPT ![r] = NoSel] /\ past' = past BY DEF MarkExported
<1>7. QED BY <1>1, <1>4, <1>5, <1>6, EndedIsInOrder, StepKeeps

LEMMA ConvertHomeKeeps == ASSUME SelectionsInv, NEW c \in Homes, ConvertHome(c) PROVE SelectionsInv'
<1>1. pick \in [Picks -> PickRows] BY DEF SelectionsInv, PicksTyped
<1>2. ASSUME NEW p \in Picks
      PROVE  /\ pick'[p] \in PickRows /\ pick'[p].live = pick[p].live /\ pick'[p].base = c
             /\ pick'[p].exported = pick[p].exported
  <2>1. pick[p] \in PickRows /\ pick'[p] = [pick[p] EXCEPT !.base = c] BY <1>1 DEF ConvertHome
  <2>2. QED BY <2>1 DEF PickRows
<1>3. pick' \in [Picks -> PickRows]
  <2>1. pick' = [p \in Picks |-> pick'[p]] BY DEF ConvertHome
  <2>2. QED BY <1>2, <2>1
<1>4. sel' = sel /\ past' = past /\ files' = files /\ home' = c /\ begun' \in 0..MaxBegun
      BY SelectionsAssumption DEF ConvertHome, SelectionsInv, SelectionsTypeOK
<1>5. PicksTyped' BY <1>3, <1>4 DEF SelectionsInv, PicksTyped
<1>6. SelectionsTypeOK'
  <2>1. ASSUME NEW p \in Picks PROVE /\ pick'[p].live \in BOOLEAN /\ pick'[p].exported \in BOOLEAN
                                     /\ pick'[p].label \in Labels /\ pick'[p].base = home'
        BY <1>2, <1>4 DEF PickRows
  <2>2. QED BY <1>4, <2>1 DEF SelectionsTypeOK, SelectionsInv
<1>7. MarkedIsInFile' /\ SkewOnlyByDeletion'
      BY <1>2, <1>4 DEF SelectionsInv, MarkedIsInFile, SkewOnlyByDeletion
<1>8. ASSUME NEW q \in Selectors PROVE KnowsItsRows(q)' /\ ListedIsInFile(q)'
  <2>1. KnowsItsRows(q) /\ ListedIsInFile(q) /\ sel[q].ids \subseteq Picks
        BY DEF SelectionsInv, PicksTyped, Selecting
  <2>2. KnowsItsRows(q)' BY <1>2, <1>4, <2>1 DEF KnowsItsRows
  <2>3. ListedIsInFile(q)' BY <1>4, <2>1 DEF ListedIsInFile
  <2>4. QED BY <2>2, <2>3
<1>9. QED BY <1>5, <1>6, <1>7, <1>8 DEF SelectionsInv

LEMMA SelectionsStep == SelectionsInv /\ [SelectionsNext]_selectionsVars => SelectionsInv'
<1> SUFFICES ASSUME SelectionsInv, [SelectionsNext]_selectionsVars PROVE SelectionsInv' OBVIOUS
<1>1. CASE UNCHANGED selectionsVars
      BY <1>1 DEF selectionsVars, SelectionsInv, SelectionsTypeOK, PicksTyped, MarkedIsInFile,
                  SkewOnlyByDeletion, KnowsItsRows, ListedIsInFile
<1>2. ASSUME NEW r \in Selectors, NEW ids \in SUBSET Picks, NEW l \in Labels, BeginBulk(r, "label", ids, l)
      PROVE  SelectionsInv' BY <1>2, BeginBulkKeeps
<1>3. ASSUME NEW r \in Selectors, NEW ids \in SUBSET Picks, BeginBulk(r, "delete", ids, "none")
      PROVE  SelectionsInv' BY <1>3, BeginBulkKeeps
<1>4. ASSUME NEW r \in Selectors, NEW ids \in SUBSET Picks, ListRows(r, ids)
      PROVE  SelectionsInv' BY <1>4, ListRowsKeeps
<1>5. ASSUME NEW r \in Selectors, WritePicks(r) \/ CommitLabels(r) \/ CommitDeletes(r) \/ UndoBulk(r)
      PROVE  SelectionsInv'
      BY <1>5, WritePicksKeeps, CommitLabelsKeeps, CommitDeletesKeeps, UndoBulkKeeps
<1>6. ASSUME NEW r \in Selectors, AskExport(r) \/ MarkExported(r) PROVE SelectionsInv'
      BY <1>6, AskExportKeeps, MarkExportedKeeps
<1>7. ASSUME NEW c \in Homes, ConvertHome(c) PROVE SelectionsInv' BY <1>7, ConvertHomeKeeps
<1>8. QED BY <1>1, <1>2, <1>3, <1>4, <1>5, <1>6, <1>7 DEF SelectionsNext

LEMMA SelectionsAlways == SelectionsSpec => []SelectionsInv
<1>1. QED BY SelectionsBegin, SelectionsStep, PTL DEF SelectionsSpec

\* A type theorem for selections.
THEOREM SelectionsTypedAlways == SelectionsSpec => []SelectionsTypeOK
<1>1. SelectionsInv => SelectionsTypeOK BY DEF SelectionsInv
<1>2. QED BY <1>1, SelectionsAlways, PTL

\* A row is marked as exported only when a file has it.
THEOREM MarksAreInFiles == SelectionsSpec => []MarkedIsInFile
<1>1. SelectionsInv => MarkedIsInFile BY DEF SelectionsInv
<1>2. QED BY <1>1, SelectionsAlways, PTL

\* Two rows are logged as one only after a deletion.
THEOREM OnlyDeletionsSkew == SelectionsSpec => []SkewOnlyByDeletion
<1>1. SelectionsInv => SkewOnlyByDeletion BY DEF SelectionsInv
<1>2. QED BY <1>1, SelectionsAlways, PTL

(***************************************************************************)
(* Line items and their trail.                                             *)
(***************************************************************************)
AuditedRows == Papers \cup Lines
RowValues == PaperValues \cup LineValues \cup {NoRow}
RowStates == {"none", "live", "deleted"}

PaperRows == [state : RowStates, says : PaperValues \cup {NoRow}]
LineRows == [state : RowStates, on : Papers \cup {NoRow}, says : LineValues \cup {NoRow}, made : Nat]
AuditRows == [of : AuditedRows, before : RowValues, after : RowValues, stamp : Nat]
Editing ==
    [pc : {"idle", "checked", "written"}, op : {"add", "update", "delete"}, of : AuditedRows \cup {NoRow},
     on : Papers \cup {NoRow}, before : RowValues, after : RowValues, stamp : Nat]

ItemsTyped ==
    /\ paper \in [Papers -> PaperRows] /\ line \in [Lines -> LineRows]
    /\ trail \in Seq(AuditRows) /\ edit \in [LineRequests -> Editing]

StateOf(x) == IF x \in Papers THEN paper[x].state ELSE line[x].state
ValuesOf(x) == IF x \in Papers THEN PaperValues ELSE LineValues

\* What an edit may be doing: a row is added where there was none, changed
\* where there was one, and an update that has written holds a live row.
Fits(work) ==
    work.pc # "idle" =>
       /\ work.of \in AuditedRows
       /\ work.op = "add" =>
             /\ work.of \in Lines /\ work.on \in Papers /\ work.after \in LineValues
             /\ StateOf(work.of) = "none"
       /\ work.op = "update" =>
             /\ work.after \in ValuesOf(work.of) /\ StateOf(work.of) # "none"
             /\ work.pc = "written" => StateOf(work.of) = "live"
       /\ work.op = "delete" => work.after = NoRow /\ StateOf(work.of) # "none"

\* Two edits do not write one row, and a row that is added is edited by
\* nobody else.
Apart(work, other) ==
    work.pc # "idle" /\ other.pc # "idle" /\ work.of = other.of =>
       /\ work.op # "add" /\ other.op # "add"
       /\ work.pc # "written" \/ other.pc # "written"

EditsInOrder ==
    /\ \A r \in LineRequests : Fits(edit[r])
    /\ \A q, r \in LineRequests : q # r => Apart(edit[q], edit[r])

ItemsInv == ItemsTypeOK /\ ItemsTyped /\ TrailTellsRows /\ EditsInOrder

LEMMA SaysWhat ==
    ASSUME ItemsTyped, ItemsTypeOK, NEW x \in AuditedRows
    PROVE  /\ StateOf(x) \in RowStates
           /\ StateOf(x) = "live" => Says(x) \in ValuesOf(x) /\ Says(x) # NoRow
           /\ StateOf(x) # "live" => Says(x) = NoRow
<1>1. CASE x \in Papers
  <2>1. paper[x] \in PaperRows BY <1>1 DEF ItemsTyped
  <2>2. paper[x].state = "live" => paper[x].says \in PaperValues BY <1>1 DEF ItemsTypeOK, LivePaper
  <2>3. QED BY <1>1, <2>1, <2>2, ItemsAssumption DEF StateOf, Says, ValuesOf, PaperRows
<1>2. CASE x \in Lines /\ x \notin Papers
  <2>1. line[x] \in LineRows BY <1>2 DEF ItemsTyped
  <2>2. line[x].state = "live" => line[x].says \in LineValues BY <1>2 DEF ItemsTypeOK
  <2>3. QED BY <1>2, <2>1, <2>2, ItemsAssumption DEF StateOf, Says, ValuesOf, LineRows
<1>3. QED BY <1>1, <1>2 DEF AuditedRows

(***************************************************************************)
(* The trail.                                                              *)
(***************************************************************************)
\* A finite set, listed.
LEMMA ListedSet ==
    ASSUME NEW S, IsFiniteSet(S)
    PROVE  /\ SetToSeq(S) \in Seq(S)
           /\ \A x \in S : \E i \in 1..Len(SetToSeq(S)) : SetToSeq(S)[i] = x
<1> DEFINE n == Cardinality(S)
           q == SetToSeq(S)
<1>1. n \in Nat /\ ExistsBijection(1..n, S) BY FS_CardinalityType
<1>2. PICK f \in Bijection(1..n, S) : TRUE BY <1>1 DEF ExistsBijection
<1>3. f \in [1..n -> S] /\ IsInjective(f) BY <1>2 DEF Bijection, Injection
<1>4. q \in [1..n -> S] /\ IsInjective(q) BY <1>3 DEF SetToSeq
<1> HIDE DEF q
<1>5. q \in Injection(1..n, S) BY <1>4 DEF Injection
<1>6. Cardinality(1..n) = n BY <1>1, FS_Interval
<1>7. q \in Surjection(1..n, S) BY <1>5, <1>6, FS_Injection
<1>8. \A x \in S : \E i \in 1..n : q[i] = x BY <1>7 DEF Surjection
<1>9. q \in Seq(S) /\ Len(q) = n BY <1>1, <1>4
<1>10. QED BY <1>8, <1>9 DEF q

\* Audit rows put at the end of the trail that are right about every row they
\* are about, when no other row changes.
LEMMA TrailGrows ==
    ASSUME ItemsTyped, TrailTellsRows, NEW more \in Seq(AuditRows), trail' = trail \o more,
           \A i \in 1..Len(more) : Says(more[i].of)' = more[i].after,
           \A x \in AuditedRows : (\A i \in 1..Len(more) : more[i].of # x) => Says(x)' = Says(x)
    PROVE  TrailTellsRows' /\ trail' \in Seq(AuditRows)
<1> DEFINE n == Len(trail)
           k == Len(more)
<1>1. trail \in Seq(AuditRows) BY DEF ItemsTyped
<1>2. n \in Nat /\ k \in Nat BY <1>1
<1>3. trail' \in Seq(AuditRows) /\ Len(trail') = n + k BY <1>1, ConcatProperties
<1>4. DOMAIN trail = 1..n /\ DOMAIN trail' = 1..(n + k) BY <1>1, <1>3
<1>5. \A i \in 1..n : trail'[i] = trail[i] BY <1>1, <1>2
<1>6. \A i \in 1..k : trail'[n + i] = more[i] BY <1>1, <1>2
<1>7. ASSUME NEW x \in AuditedRows
      PROVE  LET about == {i \in DOMAIN trail' : trail'[i].of = x}
             IN  IF about = {} THEN Says(x)' = NoRow
                 ELSE \A i \in about : (\A j \in about : j <= i) => Says(x)' = trail'[i].after
  <2> DEFINE about == {i \in DOMAIN trail' : trail'[i].of = x}
             told == {i \in DOMAIN trail : trail[i].of = x}
  <2>1. CASE \E i \in 1..k : more[i].of = x
    <3>1. PICK m \in 1..k : more[m].of = x BY <2>1
    <3>2. n + m \in about BY <1>2, <1>4, <1>6, <3>1
    <3>3. ASSUME NEW i \in about, \A j \in about : j <= i PROVE Says(x)' = trail'[i].after
      <4>1. n + m <= i /\ i \in 1..(n + k) BY <1>4, <3>2, <3>3
      <4>2. i - n \in 1..k /\ n + (i - n) = i
        <5> HIDE DEF n, k
        <5>1. i \in Nat /\ m \in Nat /\ m >= 1 BY <1>2, <3>1, <4>1
        <5>2. QED BY <1>2, <4>1, <5>1
      <4>3. trail'[i] = more[i - n] BY <1>6, <4>2
      <4>4. more[i - n].of = x BY <3>3, <4>3
      <4>5. QED BY <4>2, <4>3, <4>4
    <3>4. QED BY <3>2, <3>3
  <2>2. CASE \A i \in 1..k : more[i].of # x
    <3>1. about \subseteq told
      <4>1. ASSUME NEW i \in about PROVE i \in told
        <5>1. i \in 1..(n + k) BY <1>4
        <5>2. CASE i \in 1..n BY <1>4, <1>5, <5>2
        <5>3. CASE i \notin 1..n
          <6>1. i - n \in 1..k /\ n + (i - n) = i BY <1>2, <5>1, <5>3
          <6>2. QED BY <1>6, <2>2, <6>1
        <5>4. QED BY <5>2, <5>3
      <4>2. QED BY <4>1
    <3>2. told \subseteq about BY <1>2, <1>4, <1>5
    <3>3. about = told BY <3>1, <3>2
    <3>4. Says(x)' = Says(x) BY <2>2
    <3>5. IF told = {} THEN Says(x) = NoRow
          ELSE \A i \in told : (\A j \in told : j <= i) => Says(x) = trail[i].after
          BY DEF TrailTellsRows, AuditedRows
    <3>6. \A i \in told : trail'[i].after = trail[i].after BY <1>4, <1>5
    <3> HIDE DEF about, told
    <3>7. IF about = {} THEN Says(x)' = NoRow
          ELSE \A i \in about : (\A j \in about : j <= i) => Says(x)' = trail'[i].after
          BY <3>3, <3>4, <3>5, <3>6
    <3>8. QED BY <3>7 DEF about
  <2>3. QED BY <2>1, <2>2
<1>8. QED BY <1>3, <1>7 DEF TrailTellsRows, AuditedRows

(***************************************************************************)
(* Steps that change no row.                                               *)
(***************************************************************************)
LEMMA EditChanges ==
    ASSUME ItemsInv, NEW r \in LineRequests, NEW work \in Editing, edit' = [edit EXCEPT ![r] = work],
           UNCHANGED <<paper, line, trail>>, stamp' \in 0..MaxStamps,
           Fits(work), \A q \in LineRequests \ {r} : Apart(work, edit[q])
    PROVE  ItemsInv'
<1>1. /\ edit' \in [LineRequests -> Editing] /\ edit'[r] = work
      /\ \A q \in LineRequests \ {r} : edit'[q] = edit[q] BY DEF ItemsInv, ItemsTyped
<1>2. ItemsTyped' BY <1>1 DEF ItemsInv, ItemsTyped
<1>3. \A q \in LineRequests : edit'[q].pc \in {"idle", "checked", "written"} BY <1>1 DEF Editing
<1>4. ItemsTypeOK' BY <1>3 DEF ItemsInv, ItemsTypeOK, LivePaper
<1>5. TrailTellsRows' BY DEF ItemsInv, TrailTellsRows, Says
<1>6. ASSUME NEW q \in LineRequests PROVE Fits(edit[q])'
  <2>1. Fits(edit'[q])
    <3>1. CASE q = r BY <1>1, <3>1
    <3>2. CASE q # r BY <1>1, <3>2 DEF ItemsInv, EditsInOrder
    <3>3. QED BY <3>1, <3>2
  <2>2. QED BY <2>1 DEF Fits, StateOf, ValuesOf
<1>7. ASSUME NEW q \in LineRequests, NEW s \in LineRequests, q # s PROVE Apart(edit[q], edit[s])'
  <2>1. CASE q # r /\ s # r BY <1>1, <1>7, <2>1 DEF ItemsInv, EditsInOrder, Apart
  <2>2. CASE q = r BY <1>1, <1>7, <2>2 DEF Apart
  <2>3. CASE s = r BY <1>1, <1>7, <2>3 DEF Apart
  <2>4. QED BY <2>1, <2>2, <2>3
<1>8. QED BY <1>2, <1>4, <1>5, <1>6, <1>7 DEF ItemsInv, EditsInOrder

LEMMA EndedFits ==
    /\ NotBegun \in Editing /\ Fits(NotBegun) /\ NotBegun.pc = "idle"
    /\ \A other : Apart(NotBegun, other) /\ Apart(other, NotBegun)
BY DEF NotBegun, Editing, Fits, Apart, RowValues

LEMMA BegunKeeps ==
    ASSUME ItemsInv, NEW r \in LineRequests, NEW op \in {"add", "update", "delete"},
           NEW x \in AuditedRows, NEW p \in Papers, NEW after \in RowValues, Begun(r, op, x, p, after),
           op = "add" =>
              /\ x \in Lines /\ after \in LineValues /\ StateOf(x) = "none"
              /\ \A q \in LineRequests : edit[q].of # x,
           op = "update" => after \in ValuesOf(x) /\ StateOf(x) # "none",
           op = "delete" => after = NoRow /\ StateOf(x) # "none"
    PROVE  ItemsInv'
<1> DEFINE work == [pc |-> "checked", op |-> op, of |-> x, on |-> p,
                    before |-> Says(x), after |-> after, stamp |-> stamp']
<1>1. stamp' \in 0..MaxStamps /\ stamp' \in Nat
      BY ItemsAssumption DEF ItemsInv, ItemsTypeOK, Begun
<1>2. Says(x) \in RowValues BY SaysWhat DEF ItemsInv, RowValues, ValuesOf
<1>3. work \in Editing BY <1>1, <1>2 DEF Editing
<1>4. work.pc = "checked" /\ work.op = op /\ work.of = x /\ work.on = p /\ work.after = after OBVIOUS
<1>5. edit' = [edit EXCEPT ![r] = work] /\ UNCHANGED <<paper, line, trail>> BY DEF Begun
<1> HIDE DEF work
<1>6. Fits(work) BY <1>4 DEF Fits
<1>7. ASSUME NEW q \in LineRequests \ {r} PROVE Apart(work, edit[q])
  <2>1. Fits(edit[q]) /\ edit[q] \in Editing BY DEF ItemsInv, EditsInOrder, ItemsTyped
  <2>2. QED BY <1>4, <2>1 DEF Apart, Fits
<1>8. QED BY <1>1, <1>3, <1>5, <1>6, <1>7, EditChanges

LEMMA WriteRowKeeps == ASSUME ItemsInv, NEW r \in LineRequests, WriteRow(r) PROVE ItemsInv'
<1> DEFINE work == [edit[r] EXCEPT !.pc = "written"]
<1>1. edit[r] \in Editing /\ Fits(edit[r]) BY DEF ItemsInv, ItemsTyped, EditsInOrder
<1>2. work \in Editing BY <1>1 DEF Editing
<1>3. /\ work.pc = "written" /\ work.op = edit[r].op /\ work.of = edit[r].of /\ work.on = edit[r].on
      /\ work.after = edit[r].after BY <1>1 DEF Editing
<1>4. edit' = [edit EXCEPT ![r] = work] /\ UNCHANGED <<paper, line, trail, stamp>>
      BY DEF WriteRow, ItemsInv, ItemsTyped
<1> HIDE DEF work
<1>5. edit[r].pc = "checked" /\ work.of \in AuditedRows BY <1>1, <1>3 DEF WriteRow, Fits
<1>6. work.op = "update" => StateOf(work.of) = "live"
  <2>1. StateOf(work.of) # "live" => Says(work.of) = NoRow BY <1>5, SaysWhat DEF ItemsInv
  <2>2. QED BY <1>3, <2>1 DEF WriteRow
<1>7. Fits(work) BY <1>1, <1>3, <1>5, <1>6 DEF Fits
<1>8. ASSUME NEW q \in LineRequests \ {r} PROVE Apart(work, edit[q])
  <2>1. Apart(edit[r], edit[q]) BY DEF ItemsInv, EditsInOrder
  <2>2. edit[q].pc = "written" => edit[q].of # edit[r].of BY DEF WriteRow, RowFree
  <2>3. QED BY <1>3, <1>5, <2>1, <2>2 DEF Apart
<1>9. stamp' \in 0..MaxStamps BY <1>4 DEF ItemsInv, ItemsTypeOK
<1>10. QED BY <1>2, <1>4, <1>7, <1>8, <1>9, EditChanges

LEMMA LeftOffKeeps ==
    ASSUME ItemsInv, NEW r \in LineRequests, edit' = [edit EXCEPT ![r] = NotBegun],
           UNCHANGED <<paper, line, trail, stamp>>
    PROVE  ItemsInv'
<1>1. stamp' \in 0..MaxStamps BY DEF ItemsInv, ItemsTypeOK
<1> DEFINE work == NotBegun
<1>2. work \in Editing /\ Fits(work) /\ \A q \in LineRequests \ {r} : Apart(work, edit[q]) BY EndedFits
<1>3. edit' = [edit EXCEPT ![r] = work] OBVIOUS
<1> HIDE DEF work
<1>4. QED BY <1>1, <1>2, <1>3, EditChanges

(***************************************************************************)
(* Steps that change rows.                                                 *)
(***************************************************************************)
\* What an edit may be doing it may still be doing when its row changed but
\* is there.
LEMMA StillFits ==
    ASSUME NEW work, Fits(work),
           work.pc # "idle" =>
              \/ StateOf(work.of)' = StateOf(work.of)
              \/ work.op # "add" /\ work.pc # "written" /\ StateOf(work.of)' # "none"
    PROVE  Fits(work)'
<1> QED BY DEF Fits, ValuesOf

LEMMA CommitRowKeeps ==
    ASSUME ItemsInv, NEW r \in LineRequests, NEW e, e = edit[r], CommitRow(r)
    PROVE  /\ ItemsInv'
           /\ \A p \in Papers : paper[p].state = "deleted" => paper'[p] = paper[p]
           /\ \A l \in Lines : line[l].state = "deleted" => line'[l] = line[l]
<1> DEFINE x == e.of
<1>1. e \in Editing /\ Fits(e) /\ e.pc = "written" BY DEF ItemsInv, ItemsTyped, EditsInOrder, CommitRow
<1>2. /\ x \in AuditedRows /\ e.op \in {"add", "update", "delete"} /\ e.after \in RowValues
      /\ e.before \in RowValues /\ e.stamp \in Nat BY <1>1 DEF Fits, Editing
<1>3. Papers \cap Lines = {} /\ NoRow \notin PaperValues \cup LineValues BY ItemsAssumption
<1>4. paper \in [Papers -> PaperRows] /\ line \in [Lines -> LineRows] /\ trail \in Seq(AuditRows)
      BY DEF ItemsInv, ItemsTyped
<1> HIDE DEF x
<1>5. /\ edit' = [edit EXCEPT ![r] = NotBegun] /\ stamp' = stamp
      /\ trail' = Append(trail, Logged(x, e.before, e.after, e.stamp)) BY DEF CommitRow, x
<1>6. /\ paper' \in [Papers -> PaperRows] /\ line' \in [Lines -> LineRows]
      /\ \A p \in Papers : p # x => paper'[p] = paper[p]
      /\ \A l \in Lines : l # x => line'[l] = line[l]
      /\ \A p \in Papers : paper[p].state = "deleted" => paper'[p] = paper[p]
      /\ \A l \in Lines : line[l].state = "deleted" => line'[l] = line[l]
      /\ StateOf(x)' # "none"
      /\ x \in Papers => (paper'[x].state = "live" => paper'[x].says \in PaperValues)
      /\ x \in Lines => (line'[x].state = "live" => line'[x].on \in Papers /\ line'[x].says \in LineValues)
      /\ Says(x)' = e.after
  <2>1. CASE x \in Papers
    <3>1. paper' = [paper EXCEPT ![x] = Written(paper[x], e.after)] /\ line' = line
          BY <2>1 DEF CommitRow, x
    <3>2. paper'[x] = Written(paper[x], e.after) BY <1>4, <2>1, <3>1
    <3>3. paper[x] \in PaperRows BY <1>4, <2>1
    <3>4. e.op # "add" BY <1>1, <1>3, <2>1 DEF Fits, x
    <3>5. CASE e.op = "update"
      <4>1. e.after \in PaperValues /\ paper[x].state = "live"
            BY <1>1, <2>1, <3>5 DEF Fits, StateOf, ValuesOf, x
      <4>2. paper'[x] = [paper[x] EXCEPT !.state = "live", !.says = e.after]
            BY <1>3, <3>2, <4>1 DEF Written
      <4>3. paper'[x] \in PaperRows /\ paper'[x].state = "live" /\ paper'[x].says = e.after
            BY <3>3, <4>1, <4>2 DEF PaperRows, RowStates
      <4>4. QED BY <1>3, <1>4, <2>1, <3>1, <4>1, <4>3 DEF StateOf, Says
    <3>6. CASE e.op = "delete"
      <4>1. e.after = NoRow BY <1>1, <3>6 DEF Fits
      <4>2. paper'[x] = [paper[x] EXCEPT !.state = "deleted"] BY <3>2, <4>1 DEF Written
      <4>3. paper'[x] \in PaperRows /\ paper'[x].state = "deleted"
            /\ (paper[x].state = "deleted" => paper'[x] = paper[x])
            BY <3>3, <4>2 DEF PaperRows, RowStates
      <4>4. QED BY <1>3, <1>4, <2>1, <3>1, <4>1, <4>3 DEF StateOf, Says
    <3>7. QED BY <1>2, <3>4, <3>5, <3>6
  <2>2. CASE x \in Lines
    <3>1. x \notin Papers BY <1>3, <2>2
    <3>2. /\ line' = [line EXCEPT ![x] = IF e.op = "add"
                        THEN [state |-> "live", on |-> e.on, says |-> e.after, made |-> e.stamp]
                        ELSE Written(line[x], e.after)]
          /\ paper' = paper
          BY <3>1 DEF CommitRow, x
    <3>3. line[x] \in LineRows BY <1>4, <2>2
    <3>4. CASE e.op = "add"
      <4>1. e.after \in LineValues /\ e.on \in Papers /\ line[x].state = "none"
            BY <1>1, <3>1, <3>4 DEF Fits, StateOf, x
      <4>2. line'[x] = [state |-> "live", on |-> e.on, says |-> e.after, made |-> e.stamp]
            BY <1>4, <2>2, <3>2, <3>4
      <4>3. line'[x] \in LineRows BY <1>2, <4>1, <4>2 DEF LineRows, RowStates
      <4>4. QED BY <1>4, <2>2, <3>1, <3>2, <4>1, <4>2, <4>3 DEF StateOf, Says
    <3>5. CASE e.op = "update"
      <4>1. e.after \in LineValues /\ line[x].state = "live"
            BY <1>1, <3>1, <3>5 DEF Fits, StateOf, ValuesOf, x
      <4>2. line'[x] = [line[x] EXCEPT !.state = "live", !.says = e.after]
            BY <1>3, <1>4, <2>2, <3>2, <3>5, <4>1 DEF Written
      <4>3. /\ line'[x] \in LineRows /\ line'[x].state = "live" /\ line'[x].says = e.after
            /\ line'[x].on = line[x].on
            BY <3>3, <4>1, <4>2 DEF LineRows, RowStates
      <4>4. line[x].on \in Papers BY <2>2, <4>1 DEF ItemsInv, ItemsTypeOK
      <4>5. QED BY <1>4, <2>2, <3>1, <3>2, <4>1, <4>3, <4>4 DEF StateOf, Says
    <3>6. CASE e.op = "delete"
      <4>1. e.after = NoRow BY <1>1, <3>6 DEF Fits
      <4>2. line'[x] = [line[x] EXCEPT !.state = "deleted"]
            BY <1>4, <2>2, <3>2, <3>6, <4>1 DEF Written
      <4>3. line'[x] \in LineRows /\ line'[x].state = "deleted"
            /\ (line[x].state = "deleted" => line'[x] = line[x])
            BY <3>3, <4>2 DEF LineRows, RowStates
      <4>4. QED BY <1>4, <2>2, <3>1, <3>2, <4>1, <4>3 DEF StateOf, Says
    <3>7. QED BY <1>2, <3>4, <3>5, <3>6
  <2>3. QED BY <1>2, <2>1, <2>2 DEF AuditedRows
<1>7. ASSUME NEW y \in AuditedRows, y # x PROVE StateOf(y)' = StateOf(y) /\ Says(y)' = Says(y)
      BY <1>6, <1>7 DEF StateOf, Says, AuditedRows
<1>8. TrailTellsRows' /\ trail' \in Seq(AuditRows)
  <2> DEFINE one == Logged(x, e.before, e.after, e.stamp)
             more == <<one>>
  <2>1. one \in AuditRows /\ one.of = x /\ one.after = e.after BY <1>2 DEF Logged, AuditRows
  <2> HIDE DEF one
  <2>2. trail' = trail \o <<one>> BY <1>4, <1>5, <2>1, AppendIsConcat DEF one
  <2>3. more \in Seq(AuditRows) /\ Len(more) = 1 /\ more[1] = one BY <2>1
  <2>4. trail' = trail \o more BY <2>2
  <2> HIDE DEF more
  <2>5. \A i \in 1..Len(more) : more[i].of = x /\ more[i].after = e.after BY <2>1, <2>3
  <2>6. \A i \in 1..Len(more) : Says(more[i].of)' = more[i].after
    <3> TAKE i \in 1..Len(more)
    <3>1. more[i].of = x /\ more[i].after = e.after BY <2>5
    <3>2. Says(x)' = e.after BY <1>6
    <3>3. QED BY <3>1, <3>2
  <2>7. \A y \in AuditedRows : (\A i \in 1..Len(more) : more[i].of # y) => Says(y)' = Says(y)
        BY <1>7, <2>3, <2>5
  <2>8. QED BY <2>3, <2>4, <2>6, <2>7, TrailGrows DEF ItemsInv
<1>9. ItemsTyped' /\ \A q \in LineRequests \ {r} : edit'[q] = edit[q]
  <2>1. edit \in [LineRequests -> Editing] BY DEF ItemsInv, ItemsTyped
  <2>2. QED BY <1>5, <1>6, <1>8, <2>1, EndedFits DEF ItemsTyped
<1>10. edit'[r] = NotBegun BY <1>5 DEF ItemsInv, ItemsTyped
<1>11. ItemsTypeOK'
  <2>1. ASSUME NEW p \in Papers
        PROVE  /\ paper'[p].state \in {"none", "live", "deleted"}
               /\ paper'[p].state = "live" => paper'[p].says \in PaperValues
    <3>1. paper'[p] \in PaperRows BY <1>6
    <3>2. CASE p = x BY <1>6, <3>1, <3>2 DEF PaperRows, RowStates
    <3>3. CASE p # x BY <1>6, <3>3 DEF ItemsInv, ItemsTypeOK, LivePaper
    <3>4. QED BY <3>2, <3>3
  <2>2. ASSUME NEW l \in Lines
        PROVE  /\ line'[l].state \in {"none", "live", "deleted"}
               /\ line'[l].state = "live" => line'[l].on \in Papers /\ line'[l].says \in LineValues
    <3>1. line'[l] \in LineRows BY <1>6
    <3>2. CASE l = x BY <1>6, <3>1, <3>2 DEF LineRows, RowStates
    <3>3. CASE l # x BY <1>6, <3>3 DEF ItemsInv, ItemsTypeOK
    <3>4. QED BY <3>2, <3>3
  <2>3. stamp' \in 0..MaxStamps BY <1>5 DEF ItemsInv, ItemsTypeOK
  <2>4. \A q \in LineRequests : edit'[q].pc \in {"idle", "checked", "written"}
        BY <1>9 DEF ItemsTyped, Editing
  <2>5. QED BY <2>1, <2>2, <2>3, <2>4 DEF ItemsTypeOK, LivePaper
<1>12. ASSUME NEW q \in LineRequests PROVE Fits(edit[q])'
  <2>1. CASE q = r
    <3>1. Fits(NotBegun)' BY DEF Fits, NotBegun
    <3>2. QED BY <1>10, <2>1, <3>1 DEF Fits
  <2>2. CASE q # r
    <3>1. PICK work : work = edit[q] OBVIOUS
    <3>2. Fits(work) BY <3>1 DEF ItemsInv, EditsInOrder
    <3>3. Apart(e, work) BY <2>2, <3>1 DEF ItemsInv, EditsInOrder
    <3>4. ASSUME work.pc # "idle"
          PROVE  \/ StateOf(work.of)' = StateOf(work.of)
                 \/ work.op # "add" /\ work.pc # "written" /\ StateOf(work.of)' # "none"
      <4>1. work.of \in AuditedRows BY <3>2, <3>4 DEF Fits
      <4>2. CASE work.of = x
        <5>1. work.op # "add" /\ work.pc # "written" BY <1>1, <3>3, <3>4, <4>2 DEF Apart, x
        <5>2. QED BY <1>6, <4>2, <5>1
      <4>3. CASE work.of # x BY <1>7, <4>1, <4>3
      <4>4. QED BY <4>2, <4>3
    <3>5. Fits(work)' BY <3>2, <3>4, StillFits
    <3>6. edit'[q] = work BY <1>9, <2>2, <3>1
    <3>7. QED BY <3>5, <3>6
  <2>3. QED BY <2>1, <2>2
<1>13. ASSUME NEW q \in LineRequests, NEW s \in LineRequests, q # s PROVE Apart(edit[q], edit[s])'
  <2>1. CASE q = r \/ s = r BY <1>10, <2>1 DEF Apart, NotBegun
  <2>2. CASE q # r /\ s # r BY <1>9, <1>13, <2>2 DEF ItemsInv, EditsInOrder, Apart
  <2>3. QED BY <2>1, <2>2
<1>14. QED BY <1>6, <1>8, <1>9, <1>11, <1>12, <1>13 DEF ItemsInv, EditsInOrder

LEMMA SaveKeeps ==
    ASSUME ItemsInv, NEW p \in Papers, NEW lines \in SUBSET Lines, NEW says \in PaperValues,
           NEW what \in [lines -> LineValues], SaveWithItems(p, lines, says, what)
    PROVE  /\ ItemsInv'
           /\ \A q \in Papers : paper[q].state = "deleted" => paper'[q] = paper[q]
           /\ \A l \in Lines : line[l].state = "deleted" => line'[l] = line[l]
<1>1. /\ paper \in [Papers -> PaperRows] /\ line \in [Lines -> LineRows] /\ trail \in Seq(AuditRows)
      /\ edit \in [LineRequests -> Editing] /\ edit' = edit
      BY DEF ItemsInv, ItemsTyped, SaveWithItems
<1>2. PICK now : now = stamp' OBVIOUS
<1>3. now \in Nat /\ now \in 0..MaxStamps
      BY <1>2, ItemsAssumption DEF ItemsInv, ItemsTypeOK, SaveWithItems
<1>4. /\ paper'[p] = [state |-> "live", says |-> says] /\ paper[p].state = "none"
      /\ \A q \in Papers : q # p => paper'[q] = paper[q] BY <1>1 DEF SaveWithItems
<1>5. \A l \in Lines :
         /\ l \in lines => /\ line'[l] = [state |-> "live", on |-> p, says |-> what[l], made |-> now]
                           /\ line[l].state = "none"
         /\ l \notin lines => line'[l] = line[l]
      BY <1>1, <1>2 DEF SaveWithItems, Unused
<1>6. paper' \in [Papers -> PaperRows]
  <2>1. [state |-> "live", says |-> says] \in PaperRows BY DEF PaperRows, RowStates
  <2>2. QED BY <1>1, <2>1 DEF SaveWithItems
<1>7. line' \in [Lines -> LineRows]
  <2>1. ASSUME NEW l \in Lines PROVE line'[l] \in LineRows
    <3>1. CASE l \in lines
      <4>1. line'[l] = [state |-> "live", on |-> p, says |-> what[l], made |-> now] BY <1>5, <3>1
      <4>2. what[l] \in LineValues BY <3>1
      <4>3. QED BY <1>3, <4>1, <4>2 DEF LineRows, RowStates
    <3>2. CASE l \notin lines BY <1>1, <1>5, <3>2
    <3>3. QED BY <3>1, <3>2
  <2>2. line' = [l \in Lines |-> line'[l]] BY DEF SaveWithItems
  <2>3. QED BY <2>1, <2>2
<1>8. Papers \cap Lines = {} BY ItemsAssumption
<1>9. Says(p)' = says /\ \A l \in lines : Says(l)' = what[l]
  <2>1. Says(p)' = says BY <1>4 DEF Says
  <2>2. ASSUME NEW l \in lines PROVE Says(l)' = what[l]
    <3>1. l \in Lines /\ l \notin Papers BY <1>8
    <3>2. line'[l] = [state |-> "live", on |-> p, says |-> what[l], made |-> now] BY <1>5, <3>1
    <3>3. QED BY <3>1, <3>2 DEF Says
  <2>3. QED BY <2>1, <2>2
<1>10. ASSUME NEW y \in AuditedRows, y # p, y \notin lines
       PROVE  StateOf(y)' = StateOf(y) /\ Says(y)' = Says(y)
       BY <1>4, <1>5, <1>10 DEF StateOf, Says, AuditedRows
<1>11. TrailTellsRows' /\ trail' \in Seq(AuditRows)
  <2> DEFINE S == {Logged(l, NoRow, what[l], now) : l \in lines}
             one == Logged(p, NoRow, says, now)
             more == SetToSeq(S) \o <<one>>
  <2>1. S \subseteq AuditRows BY <1>3 DEF Logged, AuditRows, AuditedRows, RowValues
  <2>2. IsFiniteSet(S)
    <3> DEFINE f == [l \in lines |-> Logged(l, NoRow, what[l], now)]
    <3>1. f \in Surjection(lines, S) BY DEF Surjection
    <3>2. IsFiniteSet(lines) BY ItemsAssumption, FS_Subset
    <3> HIDE DEF f, S
    <3>3. QED BY <3>1, <3>2, FS_Surjection
  <2>3. one \in AuditRows /\ one.of = p /\ one.after = says
        BY <1>3 DEF Logged, AuditRows, AuditedRows, RowValues
  <2>4. \A s \in S : s.of \in lines /\ s.after = what[s.of] BY DEF Logged
  <2>5. \A l \in lines : Logged(l, NoRow, what[l], now) \in S /\ Logged(l, NoRow, what[l], now).of = l
        BY DEF Logged
  <2>6. trail' = (trail \o SetToSeq(S)) \o <<one>> BY <1>2 DEF SaveWithItems
  <2> HIDE DEF S, one
  <2>7. SetToSeq(S) \in Seq(S) /\ \A s \in S : \E i \in 1..Len(SetToSeq(S)) : SetToSeq(S)[i] = s
        BY <2>2, ListedSet
  <2> DEFINE listed == SetToSeq(S)
  <2> HIDE DEF listed
  <2>8. listed \in Seq(S) /\ \A s \in S : \E i \in 1..Len(listed) : listed[i] = s BY <2>7 DEF listed
  <2>9. listed \in Seq(AuditRows) /\ <<one>> \in Seq(AuditRows) BY <2>1, <2>3, <2>8, SeqMonotonic
  <2>10. trail' = trail \o more BY <1>1, <2>6, <2>9, ConcatAssociative DEF listed
  <2>11. more \in Seq(AuditRows) /\ Len(more) = Len(listed) + 1
         BY <2>9, ConcatProperties DEF listed
  <2>12. \A i \in 1..Len(more) : more[i] = IF i <= Len(listed) THEN listed[i] ELSE one
         BY <2>9, <2>11, ConcatProperties DEF listed
  <2> HIDE DEF more
  <2>13. ASSUME NEW i \in 1..Len(more) PROVE Says(more[i].of)' = more[i].after
    <3>1. CASE i <= Len(listed)
      <4>1. i \in 1..Len(listed) BY <2>8, <2>11, <3>1
      <4>2. more[i] = listed[i] BY <2>12, <3>1
      <4>3. listed[i] \in S BY <2>8, <4>1
      <4>4. QED BY <1>9, <2>4, <4>2, <4>3
    <3>2. CASE ~(i <= Len(listed))
      <4>1. more[i] = one BY <2>12, <3>2
      <4>2. QED BY <1>9, <2>3, <4>1
    <3>3. QED BY <3>1, <3>2
  <2>14. ASSUME NEW y \in AuditedRows, \A i \in 1..Len(more) : more[i].of # y PROVE Says(y)' = Says(y)
    <3>1. y # p
      <4>1. Len(listed) + 1 \in 1..Len(more) /\ ~(Len(listed) + 1 <= Len(listed)) BY <2>8, <2>11
      <4>2. more[Len(listed) + 1] = one BY <2>12, <4>1
      <4>3. QED BY <2>3, <2>14, <4>1, <4>2
    <3>2. y \notin lines
      <4> SUFFICES ASSUME y \in lines PROVE FALSE OBVIOUS
      <4>1. PICK s \in S : s.of = y BY <2>5
      <4>2. PICK i \in 1..Len(listed) : listed[i] = s BY <2>8
      <4>3. i \in 1..Len(more) /\ i <= Len(listed) BY <2>8, <2>11
      <4>4. more[i] = s BY <2>12, <4>2, <4>3
      <4>5. QED BY <2>14, <4>1, <4>3, <4>4
    <3>3. QED BY <1>10, <3>1, <3>2
  <2>15. QED BY <2>10, <2>11, <2>13, <2>14, TrailGrows DEF ItemsInv
<1>12. ItemsTyped' BY <1>1, <1>6, <1>7, <1>11 DEF ItemsTyped
<1>13. ItemsTypeOK'
  <2>1. ASSUME NEW q \in Papers
        PROVE  /\ paper'[q].state \in {"none", "live", "deleted"}
               /\ paper'[q].state = "live" => paper'[q].says \in PaperValues
    <3>1. CASE q = p BY <1>4, <3>1
    <3>2. CASE q # p BY <1>4, <3>2 DEF ItemsInv, ItemsTypeOK, LivePaper
    <3>3. QED BY <3>1, <3>2
  <2>2. ASSUME NEW l \in Lines
        PROVE  /\ line'[l].state \in {"none", "live", "deleted"}
               /\ line'[l].state = "live" => line'[l].on \in Papers /\ line'[l].says \in LineValues
    <3>1. CASE l \in lines
      <4>1. line'[l] = [state |-> "live", on |-> p, says |-> what[l], made |-> now] BY <1>5, <3>1
      <4>2. what[l] \in LineValues BY <3>1
      <4>3. QED BY <4>1, <4>2
    <3>2. CASE l \notin lines BY <1>5, <3>2 DEF ItemsInv, ItemsTypeOK
    <3>3. QED BY <3>1, <3>2
  <2>3. \A q \in LineRequests : edit'[q].pc \in {"idle", "checked", "written"} BY <1>1 DEF Editing
  <2>4. QED BY <1>2, <1>3, <2>1, <2>2, <2>3 DEF ItemsTypeOK, LivePaper
<1>14. ASSUME NEW q \in LineRequests PROVE Fits(edit[q])'
  <2>1. PICK work : work = edit[q] OBVIOUS
  <2>2. Fits(work) BY <2>1 DEF ItemsInv, EditsInOrder
  <2>3. ASSUME work.pc # "idle" PROVE StateOf(work.of)' = StateOf(work.of)
    <3>1. work.of \in AuditedRows BY <2>2, <2>3 DEF Fits
    <3>2. work.of \notin lines BY <2>1 DEF SaveWithItems, Unused
    <3>3. work.of # p
      <4> SUFFICES ASSUME work.of = p PROVE FALSE OBVIOUS
      <4>1. StateOf(work.of) = "none" BY <1>4 DEF StateOf
      <4>2. work.op = "add" BY <1>1, <2>1, <2>2, <2>3, <4>1 DEF Fits, Editing
      <4>3. QED BY <1>8, <2>2, <2>3, <4>2 DEF Fits
    <3>4. QED BY <1>10, <3>1, <3>2, <3>3
  <2>4. Fits(work)' BY <2>2, <2>3, StillFits
  <2>5. QED BY <1>1, <2>1, <2>4
<1>15. ASSUME NEW q \in LineRequests, NEW s \in LineRequests, q # s PROVE Apart(edit[q], edit[s])'
       BY <1>1, <1>15 DEF ItemsInv, EditsInOrder, Apart
<1>16. QED BY <1>4, <1>5, <1>11, <1>12, <1>13, <1>14, <1>15 DEF ItemsInv, EditsInOrder

(***************************************************************************)
(* The theorems.                                                           *)
(***************************************************************************)
LEMMA ItemsBegin == ItemsInit => ItemsInv
<1> SUFFICES ASSUME ItemsInit PROVE ItemsInv OBVIOUS
<1>1. NotBegun \in Editing /\ Fits(NotBegun) /\ Apart(NotBegun, NotBegun) BY EndedFits
<1>2. ItemsTyped
  <2>1. [state |-> "none", says |-> NoRow] \in PaperRows BY DEF PaperRows, RowStates
  <2>2. [state |-> "none", on |-> NoRow, says |-> NoRow, made |-> 0] \in LineRows BY DEF LineRows, RowStates
  <2>3. QED BY <1>1, <2>1, <2>2 DEF ItemsInit, ItemsTyped
<1>3. ItemsTypeOK
  <2>1. \A r \in LineRequests : edit[r].pc = "idle" BY DEF ItemsInit, NotBegun
  <2>2. QED BY <2>1, ItemsAssumption DEF ItemsInit, ItemsTypeOK, LivePaper
<1>4. TrailTellsRows
  <2>1. DOMAIN trail = {} BY DEF ItemsInit
  <2>2. \A x \in Papers \cup Lines : Says(x) = NoRow BY DEF ItemsInit, Says
  <2>3. QED BY <2>1, <2>2 DEF TrailTellsRows
<1>5. EditsInOrder BY <1>1 DEF ItemsInit, EditsInOrder
<1>6. QED BY <1>2, <1>3, <1>4, <1>5 DEF ItemsInv

DeletedRowsLeft ==
    /\ \A p \in Papers : paper[p].state = "deleted" => paper'[p] = paper[p]
    /\ \A l \in Lines : line[l].state = "deleted" => line'[l] = line[l]

LEMMA ItemsStep == ItemsInv /\ [ItemsNext]_itemsVars => ItemsInv' /\ DeletedRowsLeft
<1> SUFFICES ASSUME ItemsInv, [ItemsNext]_itemsVars PROVE ItemsInv' /\ DeletedRowsLeft OBVIOUS
<1>1. CASE UNCHANGED itemsVars
  <2>1. UNCHANGED <<paper, line, trail, stamp, edit>> BY <1>1 DEF itemsVars
  <2>2. ItemsTypeOK' /\ ItemsTyped' BY <2>1 DEF ItemsInv, ItemsTypeOK, ItemsTyped, LivePaper
  <2>3. TrailTellsRows' BY <2>1 DEF ItemsInv, TrailTellsRows, Says
  <2>4. EditsInOrder' BY <2>1 DEF ItemsInv, EditsInOrder, Fits, Apart, StateOf, ValuesOf
  <2>5. QED BY <2>1, <2>2, <2>3, <2>4 DEF ItemsInv, DeletedRowsLeft
<1>2. ASSUME NEW p \in Papers, NEW lines \in SUBSET Lines, NEW says \in PaperValues,
             NEW what \in [lines -> LineValues], SaveWithItems(p, lines, says, what)
      PROVE  ItemsInv' /\ DeletedRowsLeft BY <1>2, SaveKeeps DEF DeletedRowsLeft
<1>3. ASSUME NEW r \in LineRequests, NEW p \in Papers,
             \/ AskDelete(r, p)
             \/ \E says \in PaperValues : AskUpdate(r, p, says)
             \/ \E l \in Lines : AskRemove(r, p, l)
             \/ \E l \in Lines, says \in LineValues : AskAdd(r, p, l, says) \/ AskReplace(r, p, l, says)
      PROVE  ItemsInv' /\ DeletedRowsLeft
  <2>1. Papers \cap Lines = {} BY ItemsAssumption
  <2>2. CASE AskDelete(r, p)
    <3>1. StateOf(p) # "none" BY <2>2 DEF AskDelete, LivePaper, StateOf
    <3>2. ItemsInv' BY <2>2, <3>1, BegunKeeps DEF AskDelete, AuditedRows, RowValues
    <3>3. QED BY <2>2, <3>2 DEF AskDelete, Begun, DeletedRowsLeft
  <2>3. ASSUME NEW says \in PaperValues, AskUpdate(r, p, says) PROVE ItemsInv' /\ DeletedRowsLeft
    <3>1. StateOf(p) # "none" /\ says \in ValuesOf(p) BY <2>3 DEF AskUpdate, LivePaper, StateOf, ValuesOf
    <3>2. ItemsInv' BY <2>3, <3>1, BegunKeeps DEF AskUpdate, AuditedRows, RowValues
    <3>3. QED BY <2>3, <3>2 DEF AskUpdate, Begun, DeletedRowsLeft
  <2>4. ASSUME NEW l \in Lines, AskRemove(r, p, l) PROVE ItemsInv' /\ DeletedRowsLeft
    <3>1. StateOf(l) # "none" BY <2>1, <2>4 DEF AskRemove, LineOf, StateOf
    <3>2. ItemsInv' BY <2>4, <3>1, BegunKeeps DEF AskRemove, AuditedRows, RowValues
    <3>3. QED BY <2>4, <3>2 DEF AskRemove, Begun, DeletedRowsLeft
  <2>5. ASSUME NEW l \in Lines, NEW says \in LineValues, AskAdd(r, p, l, says)
        PROVE  ItemsInv' /\ DeletedRowsLeft
    <3>1. StateOf(l) = "none" BY <2>1, <2>5 DEF AskAdd, Unused, StateOf
    <3>2. ItemsInv' BY <2>5, <3>1, BegunKeeps DEF AskAdd, Unused, AuditedRows, RowValues
    <3>3. QED BY <2>5, <3>2 DEF AskAdd, Begun, DeletedRowsLeft
  <2>6. ASSUME NEW l \in Lines, NEW says \in LineValues, AskReplace(r, p, l, says)
        PROVE  ItemsInv' /\ DeletedRowsLeft
    <3>1. StateOf(l) # "none" /\ says \in ValuesOf(l) BY <2>1, <2>6 DEF AskReplace, LineOf, StateOf, ValuesOf
    <3>2. ItemsInv' BY <2>6, <3>1, BegunKeeps DEF AskReplace, AuditedRows, RowValues
    <3>3. QED BY <2>6, <3>2 DEF AskReplace, Begun, DeletedRowsLeft
  <2>7. QED BY <1>3, <2>2, <2>3, <2>4, <2>5, <2>6
<1>4. ASSUME NEW r \in LineRequests, WriteRow(r) PROVE ItemsInv' /\ DeletedRowsLeft
      BY <1>4, WriteRowKeeps DEF WriteRow, DeletedRowsLeft
<1>5. ASSUME NEW r \in LineRequests, RefuseGone(r) \/ RollBackRow(r) PROVE ItemsInv' /\ DeletedRowsLeft
      BY <1>5, LeftOffKeeps DEF RefuseGone, RollBackRow, DeletedRowsLeft
<1>6. ASSUME NEW r \in LineRequests, CommitRow(r) PROVE ItemsInv' /\ DeletedRowsLeft
  <2>1. PICK e : e = edit[r] OBVIOUS
  <2>2. QED BY <1>6, <2>1, CommitRowKeeps DEF DeletedRowsLeft
<1>7. QED BY <1>1, <1>2, <1>3, <1>4, <1>5, <1>6 DEF ItemsNext

LEMMA ItemsAlways == ItemsSpec => []ItemsInv
<1>1. ItemsInv /\ [ItemsNext]_itemsVars => ItemsInv' BY ItemsStep
<1>2. QED BY <1>1, ItemsBegin, PTL DEF ItemsSpec

\* Line items, their purchases and the audit rows are well typed.
THEOREM ItemsTypedAlways == ItemsSpec => []ItemsTypeOK
<1>1. ItemsInv => ItemsTypeOK BY DEF ItemsInv
<1>2. QED BY <1>1, ItemsAlways, PTL

\* The last audit row about a transaction or an item says what it is.
THEOREM TrailsTellRows == ItemsSpec => []TrailTellsRows
<1>1. ItemsInv => TrailTellsRows BY DEF ItemsInv
<1>2. QED BY <1>1, ItemsAlways, PTL

\* A deleted transaction or item is not written again.
THEOREM DeletedRowsRest == ItemsSpec => DeletedRowsAreLeft
<1>1. ItemsInv /\ [ItemsNext]_itemsVars =>
         [/\ \A p \in Papers : paper[p].state = "deleted" => paper'[p] = paper[p]
          /\ \A l \in Lines : line[l].state = "deleted" => line'[l] = line[l]]_itemsVars
      BY ItemsStep DEF DeletedRowsLeft
<1>2. QED BY <1>1, ItemsAlways, PTL DEF ItemsSpec, DeletedRowsAreLeft

(***************************************************************************)
(* What is read of the items: their purchases, ranked by how late they are.*)
(***************************************************************************)
(* A purchase has a day, a currency, a name, a price and a time at which   *)
(* it was stored.                                                          *)
LEMMA PurchasesAre ==
    ASSUME ItemsTyped, ItemsTypeOK
    PROVE  /\ Purchases \in SUBSET Nat /\ IsFiniteSet(Purchases)
           /\ \A l \in Purchases : /\ Day(l) \in Nat /\ Currency(l) \in Nat /\ NameKey(l) \in Nat
                                   /\ line[l].made \in Nat /\ Price(l) \in Int
<1>1. Purchases \in SUBSET Lines /\ Lines \subseteq Nat /\ IsFiniteSet(Lines) BY ItemsAssumption DEF Purchases
<1>2. IsFiniteSet(Purchases) BY <1>1, FS_Subset
<1>3. ASSUME NEW l \in Purchases
      PROVE  /\ Day(l) \in Nat /\ Currency(l) \in Nat /\ NameKey(l) \in Nat
             /\ line[l].made \in Nat /\ Price(l) \in Int
  <2>1. /\ l \in Lines /\ line[l].state = "live" /\ LivePaper(line[l].on) /\ line[l].says.amount >= 0
        BY DEF Purchases
  <2>2. /\ line[l].on \in Papers /\ line[l].says \in LineValues /\ line[l].made \in Nat
        BY <2>1 DEF ItemsTypeOK, ItemsTyped, LineRows
  <2>3. paper[line[l].on].says \in PaperValues BY <2>1, <2>2 DEF ItemsTypeOK
  <2>4. Day(l) \in Nat /\ Currency(l) \in Nat BY <2>3, ItemsAssumption DEF Day, Currency
  <2>5. PICK v \in LineValues : v = line[l].says BY <2>2
  <2>6. v.amount \in Int /\ v.quantity \in Nat /\ v.unit \in Nat /\ Key(v.name) \in Nat
        BY ItemsAssumption
  <2>7. NameKey(l) \in Nat BY <2>5, <2>6 DEF NameKey
  <2>8. \A a \in Int, q \in Nat : q > 0 => Rounded(a, q) \in Int BY DEF Rounded
  <2>9. Price(l) \in Int BY <2>5, <2>6, <2>8 DEF Price
  <2>10. QED BY <2>2, <2>4, <2>7, <2>9
<1>4. QED BY <1>1, <1>2, <1>3

(* Of two purchases one is the later, and the later of the later is later. *)
LEMMA LaterIsAnOrder ==
    ASSUME ItemsTyped, ItemsTypeOK, NEW l \in Purchases, NEW m \in Purchases, NEW n \in Purchases
    PROVE  /\ ~LaterPurchase(l, l)
           /\ LaterPurchase(l, m) /\ LaterPurchase(m, n) => LaterPurchase(l, n)
           /\ l # m => LaterPurchase(l, m) \/ LaterPurchase(m, l)
           /\ LaterPurchase(l, m) => Day(l) >= Day(m)
<1>1. \A x \in {l, m, n} : Day(x) \in Nat /\ line[x].made \in Nat /\ x \in Nat BY PurchasesAre
<1>2. QED BY <1>1 DEF LaterPurchase

(* The ranks of purchases are the numbers from one on.                     *)
LEMMA RecencyIsRank ==
    ASSUME ItemsTyped, ItemsTypeOK, NEW S \in SUBSET Purchases
    PROVE  /\ IsFiniteSet(S) /\ Cardinality(S) \in Nat
           /\ \A l \in S : Recency(S, l) \in 1..Cardinality(S)
           /\ \A l, m \in S : LaterPurchase(l, m) <=> Recency(S, l) < Recency(S, m)
           /\ \A l, m \in S : Recency(S, l) = Recency(S, m) => l = m
           /\ \A i \in 1..Cardinality(S) : \E l \in S : Recency(S, l) = i
<1> DEFINE Later(l) == {m \in S : LaterPurchase(m, l)}
           n == Cardinality(S)
<1>1. IsFiniteSet(S) /\ n \in Nat BY PurchasesAre, FS_Subset, FS_CardinalityType
<1>2. \A l \in S : /\ IsFiniteSet(Later(l)) /\ Cardinality(Later(l)) \in Nat
                   /\ Recency(S, l) = 1 + Cardinality(Later(l))
  <2>1. \A l \in S : Later(l) \in SUBSET S /\ Recency(S, l) = 1 + Cardinality(Later(l)) BY DEF Recency
  <2> HIDE DEF Later
  <2>2. QED BY <1>1, <2>1, FS_Subset, FS_CardinalityType
<1>3. ASSUME NEW l \in S PROVE Recency(S, l) \in 1..n
  <2>1. Later(l) \in SUBSET (S \ {l}) BY LaterIsAnOrder
  <2> HIDE DEF Later, n
  <2>2. IsFiniteSet(S \ {l}) /\ Cardinality(S \ {l}) = n - 1 BY <1>1, FS_RemoveElement DEF n
  <2>3. Cardinality(Later(l)) <= n - 1 BY <2>1, <2>2, FS_Subset
  <2>4. QED BY <1>1, <1>2, <2>3
<1>4. ASSUME NEW l \in S, NEW m \in S, LaterPurchase(l, m) PROVE Recency(S, l) < Recency(S, m)
  <2>1. Later(l) \cup {l} \in SUBSET Later(m) /\ l \notin Later(l)
    <3>1. \A x \in S : LaterPurchase(x, l) => LaterPurchase(x, m) BY <1>4, LaterIsAnOrder
    <3>2. ~LaterPurchase(l, l) BY LaterIsAnOrder
    <3>3. QED BY <1>4, <3>1, <3>2
  <2> HIDE DEF Later
  <2>2. Cardinality(Later(l) \cup {l}) = Cardinality(Later(l)) + 1 BY <1>2, <2>1, FS_AddElement
  <2>3. Cardinality(Later(l) \cup {l}) <= Cardinality(Later(m)) BY <1>2, <2>1, FS_Subset
  <2>4. QED BY <1>2, <2>2, <2>3
<1>5. ASSUME NEW l \in S, NEW m \in S PROVE Recency(S, l) = Recency(S, m) => l = m
  <2>1. l # m => LaterPurchase(l, m) \/ LaterPurchase(m, l) BY LaterIsAnOrder
  <2>2. Recency(S, l) \in Nat /\ Recency(S, m) \in Nat BY <1>3
  <2>3. QED BY <1>4, <2>1, <2>2
<1>6. ASSUME NEW l \in S, NEW m \in S, Recency(S, l) < Recency(S, m) PROVE LaterPurchase(l, m)
  <2>1. l # m => LaterPurchase(l, m) \/ LaterPurchase(m, l) BY LaterIsAnOrder
  <2>2. Recency(S, l) \in Nat /\ Recency(S, m) \in Nat BY <1>3
  <2>3. QED BY <1>4, <1>6, <2>1, <2>2
<1>7. \A i \in 1..n : \E l \in S : Recency(S, l) = i
  <2> DEFINE rank == [l \in S |-> Recency(S, l)]
  <2>1. rank \in Injection(S, 1..n) BY <1>3, <1>5 DEF Injection, IsInjective
  <2>2. IsFiniteSet(1..n) /\ Cardinality(1..n) = n BY <1>1, FS_Interval
  <2> HIDE DEF n, rank
  <2>3. rank \in Surjection(S, 1..n) BY <2>1, <2>2, FS_Injection DEF n
  <2>4. QED BY <2>3 DEF Surjection, rank
<1>8. QED BY <1>1, <1>3, <1>4, <1>5, <1>6, <1>7

(* The purchases of an item are listed once each, and the list begins with *)
(* the one that the row of the item calls the latest.                      *)
LEMMA PurchasesAreListed ==
    ASSUME ItemsTyped, ItemsTypeOK, NEW k \in ItemKeys, NEW S, S = OfItem(k), NEW bought, bought = ListPurchases(k)
    PROVE  /\ S \in SUBSET Purchases /\ S # {} /\ Cardinality(S) \in Nat \ {0}
           /\ bought \in [1..Cardinality(S) -> S] /\ Len(bought) = Cardinality(S)
           /\ bought[1] \in S /\ \A l \in S : Day(bought[1]) >= Day(l)
           /\ \A l \in S : Recency(S, l) = 1 <=> l = bought[1]
<1> DEFINE n == Cardinality(S)
           Sorted(seq) == \A i, j \in DOMAIN seq : i < j => LaterPurchase(seq[i], seq[j])
<1>1. S \in SUBSET Purchases /\ S # {} BY DEF ItemKeys, OfItem
<1>2. /\ IsFiniteSet(S) /\ n \in Nat
      /\ \A l \in S : Recency(S, l) \in 1..n
      /\ \A l, m \in S : LaterPurchase(l, m) <=> Recency(S, l) < Recency(S, m)
      /\ \A l, m \in S : Recency(S, l) = Recency(S, m) => l = m
      /\ \A i \in 1..n : \E l \in S : Recency(S, l) = i
      BY <1>1, RecencyIsRank
<1> HIDE DEF n
<1>3. n # 0 BY <1>1, <1>2, FS_EmptySet DEF n
<1>4. \E seq \in [1..n -> S] : Sorted(seq)
  <2> DEFINE seq == [i \in 1..n |-> CHOOSE l \in S : Recency(S, l) = i]
  <2>1. \A i \in 1..n : seq[i] \in S /\ Recency(S, seq[i]) = i BY <1>2
  <2>2. seq \in [1..n -> S] BY <2>1
  <2> HIDE DEF seq
  <2>3. Sorted(seq) BY <1>2, <2>1, <2>2
  <2>4. QED BY <2>2, <2>3
<1>5. bought = CHOOSE seq \in [1..n -> S] : Sorted(seq) BY DEF ListPurchases, n
<1>6. bought \in [1..n -> S] /\ Sorted(bought)
  <2> HIDE DEF Sorted
  <2>1. QED BY <1>4, <1>5
<1>7. \A l \in S : \E i \in 1..n : bought[i] = l
  <2>1. \A i, j \in 1..n : bought[i] = bought[j] => i = j
    <3>1. \A i \in 1..n : bought[i] \in S /\ ~LaterPurchase(bought[i], bought[i]) BY <1>2, <1>6
    <3>2. \A i, j \in 1..n : i < j => LaterPurchase(bought[i], bought[j]) BY <1>6
    <3>3. \A i, j \in 1..n : i < j => bought[i] # bought[j] BY <3>1, <3>2
    <3>4. QED BY <1>2, <3>3
  <2>2. bought \in Injection(1..n, S) BY <1>6, <2>1 DEF Injection, IsInjective
  <2>3. Cardinality(1..n) = Cardinality(S) BY <1>2, FS_Interval DEF n
  <2>4. bought \in Surjection(1..n, S) BY <1>2, <2>2, <2>3, FS_Injection
  <2>5. QED BY <2>4 DEF Surjection
<1>8. 1 \in 1..n /\ bought[1] \in S BY <1>2, <1>3, <1>6
<1>9. \A l \in S : l = bought[1] \/ LaterPurchase(bought[1], l)
  <2> SUFFICES ASSUME NEW l \in S PROVE l = bought[1] \/ LaterPurchase(bought[1], l) OBVIOUS
  <2>1. PICK i \in 1..n : bought[i] = l BY <1>7
  <2>2. CASE i = 1 BY <2>1, <2>2
  <2>3. CASE i # 1
    <3>1. 1 < i BY <1>2, <2>3
    <3>2. QED BY <1>6, <1>8, <2>1, <3>1
  <2>4. QED BY <2>2, <2>3
<1>10. \A l \in S : Day(bought[1]) >= Day(l)
  <2> SUFFICES ASSUME NEW l \in S PROVE Day(bought[1]) >= Day(l) OBVIOUS
  <2>1. bought[1] \in Purchases /\ l \in Purchases BY <1>1, <1>8
  <2>2. Day(l) \in Nat BY <2>1, PurchasesAre
  <2>3. LaterPurchase(bought[1], l) => Day(bought[1]) >= Day(l) BY <2>1, LaterIsAnOrder
  <2>4. QED BY <1>9, <2>2, <2>3
<1>11. Recency(S, bought[1]) = 1
  <2>1. PICK l \in S : Recency(S, l) = 1 BY <1>2, <1>8
  <2>2. ~LaterPurchase(bought[1], l)
    <3>1. Recency(S, bought[1]) \in 1..n BY <1>2, <1>8
    <3>2. ~(Recency(S, bought[1]) < 1) BY <3>1
    <3>3. QED BY <1>2, <1>8, <2>1, <3>2
  <2>3. QED BY <1>9, <2>1, <2>2
<1>12. \A l \in S : Recency(S, l) = 1 <=> l = bought[1] BY <1>2, <1>8, <1>11
<1>13. Len(bought) = n BY <1>2, <1>6
<1>14. QED BY <1>1, <1>2, <1>3, <1>6, <1>8, <1>10, <1>12, <1>13 DEF n

(* The row of an item is about its latest purchase.                        *)
LEMMA ItemOfLatest ==
    ASSUME ItemsTyped, ItemsTypeOK, NEW k \in ItemKeys, NEW S, S = OfItem(k), NEW b, b = ListPurchases(k)[1],
           NEW row, row = ListItem(k)
    PROVE  /\ row.key = k /\ row.purchases = Cardinality(S) /\ row.last_bought = Day(b)
           /\ row.last_price = Price(b) /\ row.last_discount = Discount(b) /\ row.last_on = line[b].on
           /\ row.purchases \in Nat /\ row.last_bought \in Nat /\ row.last_price \in Int
           /\ \A l \in S : Price(l) \in row.min_price..row.max_price
<1> DEFINE bought == ListPurchases(k)
           days == {Day(l) : l \in S}
           prices == {Price(l) : l \in S}
           last == CHOOSE l \in S : Recency(S, l) = 1
<1>1. /\ S \in SUBSET Purchases /\ S # {} /\ Cardinality(S) \in Nat \ {0}
      /\ b \in S /\ \A l \in S : Day(b) >= Day(l)
      /\ \A l \in S : Recency(S, l) = 1 <=> l = b
      BY PurchasesAreListed
<1>2. last = b BY <1>1
<1>3. row = [key |-> k, name |-> line[last].says.name, purchases |-> Cardinality(S),
             last_bought |-> Max(days), last_price |-> Price(last), last_discount |-> Discount(last),
             last_on |-> line[last].on, min_price |-> Min(prices), max_price |-> Max(prices)]
      BY DEF ListItem
<1>4. \A l \in S : Day(l) \in Nat /\ Price(l) \in Int BY <1>1, PurchasesAre
<1>5. Max(days) = Day(b)
  <2>1. days \in SUBSET Int /\ Day(b) \in days /\ \A y \in days : Day(b) >= y BY <1>1, <1>4
  <2> HIDE DEF days
  <2>2. QED BY <2>1, MaxIs
<1>6. \A l \in S : Price(l) \in Min(prices)..Max(prices)
  <2> DEFINE f == [l \in S |-> Price(l)]
  <2>1. Numbers(f, S) /\ prices = Image(f, S) BY <1>4 DEF Numbers, Image
  <2>2. \A l \in S : f[l] = Price(l) OBVIOUS
  <2>3. IsFiniteSet(S) BY <1>1, PurchasesAre, FS_Subset
  <2> HIDE DEF prices, f
  <2>4. QED BY <1>1, <2>1, <2>2, <2>3, BoundsOf
<1> HIDE DEF days, prices, last
<1>7. QED BY <1>1, <1>2, <1>3, <1>4, <1>5, <1>6

(* The purchases of the listed items are all purchases.                    *)
LEMMA ItemsCountPurchases ==
    ASSUME ItemsTyped, ItemsTypeOK
    PROVE  SumFunction([k \in ItemKeys |-> ListItem(k).purchases]) = Cardinality(Purchases)
<1> DEFINE sums == [k \in ItemKeys |-> ListItem(k).purchases]
           one == [l \in Purchases |-> 1]
           itemOf == [l \in Purchases |-> <<NameKey(l), Currency(l)>>]
<1>1. IsFiniteSet(Purchases) /\ Numbers(one, Purchases) BY PurchasesAre DEF Numbers
<1>2. IsFiniteSet(ItemKeys)
  <2>1. itemOf \in Surjection(Purchases, ItemKeys) BY DEF Surjection, ItemKeys
  <2> HIDE DEF itemOf
  <2>2. QED BY <1>1, <2>1, FS_Surjection
<1>3. \A c : {l \in Purchases : itemOf[l] = c} = OfItem(c) BY DEF OfItem
<1>4. \A r \in SUBSET Purchases : SumFunctionOnSet(one, r) = Cardinality(r)
  <2> SUFFICES ASSUME NEW r \in SUBSET Purchases PROVE SumFunctionOnSet(one, r) = Cardinality(r) OBVIOUS
  <2>1. IsFiniteSet(r) /\ Cardinality(r) \in Nat BY <1>1, FS_Subset, FS_CardinalityType
  <2>2. \A l \in r : one[l] = 1 OBVIOUS
  <2> HIDE DEF one
  <2>3. SumFunctionOnSet(one, r) = Cardinality(r) * 1 BY <2>1, <2>2, SumOfSame
  <2>4. QED BY <2>1, <2>3
<1>5. \A c \in ItemKeys : sums[c] = Cardinality(OfItem(c)) BY ItemOfLatest
<1>6. \A c \in ItemKeys : OfItem(c) \in SUBSET Purchases BY DEF OfItem
<1>7. {l \in Purchases : itemOf[l] \in ItemKeys} = Purchases BY DEF ItemKeys
<1>8. SumFunction(sums) = SumFunctionOnSet(sums, ItemKeys) BY DEF SumFunction
<1> HIDE DEF sums, one, itemOf
<1>9. AreGroupSums(sums, one, Purchases, itemOf, ItemKeys) BY <1>3, <1>4, <1>5, <1>6 DEF AreGroupSums
<1>10. SumFunctionOnSet(sums, ItemKeys) = SumFunctionOnSet(one, {l \in Purchases : itemOf[l] \in ItemKeys})
       BY <1>1, <1>2, <1>9, SumOfGroups
<1>11. SumFunction(sums) = Cardinality(Purchases) BY <1>4, <1>7, <1>8, <1>10
<1>12. QED BY <1>11 DEF sums

(* What the list says of an item is what its purchases say.                *)
LEMMA ItemsMatch == ASSUME ItemsTyped, ItemsTypeOK PROVE ItemsMatchPurchases
<1>1. ASSUME NEW k \in ItemKeys, NEW row, row = ListItem(k), NEW bought, bought = ListPurchases(k)
      PROVE  /\ row.purchases = Len(bought)
             /\ row.last_bought = Day(bought[1]) /\ row.last_on = line[bought[1]].on
             /\ row.last_price = Price(bought[1]) /\ row.last_discount = Discount(bought[1])
             /\ \A i \in DOMAIN bought : Price(bought[i]) \in row.min_price..row.max_price
  <2> DEFINE S == OfItem(k)
  <2>1. bought \in [1..Cardinality(S) -> S] /\ Len(bought) = Cardinality(S)
        BY <1>1, PurchasesAreListed
  <2>2. /\ row.purchases = Cardinality(S) /\ row.last_bought = Day(bought[1])
        /\ row.last_price = Price(bought[1]) /\ row.last_discount = Discount(bought[1])
        /\ row.last_on = line[bought[1]].on
        /\ \A l \in S : Price(l) \in row.min_price..row.max_price
        BY <1>1, ItemOfLatest
  <2> HIDE DEF S
  <2>3. \A i \in DOMAIN bought : bought[i] \in S BY <2>1
  <2>4. QED BY <2>1, <2>2, <2>3
<1>2. QED BY <1>1, ItemsCountPurchases DEF ItemsMatchPurchases

(* Of two items one comes first, however the list is sorted.               *)
LEMMA PagesHaveAnOrder == ASSUME ItemsTyped, ItemsTypeOK PROVE ItemPagesAreStable
<1> SUFFICES ASSUME NEW j \in ItemKeys, NEW k \in ItemKeys, NEW field \in SortFields, NEW descending \in BOOLEAN,
                    j # k
             PROVE  ItemBefore(field, descending, ListItem(j), ListItem(k))
                      # ItemBefore(field, descending, ListItem(k), ListItem(j))
    BY DEF ItemPagesAreStable
<1>1. \A i \in ItemKeys : /\ ListItem(i).key = i /\ i = <<i[1], i[2]>> /\ i[1] \in Nat /\ i[2] \in Nat
                          /\ SortKey(field, ListItem(i)) \in Int
  <2> SUFFICES ASSUME NEW i \in ItemKeys
               PROVE  /\ ListItem(i).key = i /\ i = <<i[1], i[2]>> /\ i[1] \in Nat /\ i[2] \in Nat
                      /\ SortKey(field, ListItem(i)) \in Int
      OBVIOUS
  <2>1. PICK l \in Purchases : i = <<NameKey(l), Currency(l)>> BY DEF ItemKeys
  <2>2. i = <<i[1], i[2]>> /\ i[1] \in Nat /\ i[2] \in Nat BY <2>1, PurchasesAre
  <2> DEFINE row == ListItem(i)
  <2>3. row.key = i /\ row.purchases \in Nat /\ row.last_bought \in Nat /\ row.last_price \in Int
        BY ItemOfLatest
  <2> HIDE DEF row
  <2>4. SortKey(field, row) \in Int BY <2>2, <2>3 DEF SortKey, SortFields
  <2>5. QED BY <2>2, <2>3, <2>4 DEF row
<1> DEFINE a == ListItem(j)
           b == ListItem(k)
<1>2. PICK x \in Int, y \in Int : x = SortKey(field, a) /\ y = SortKey(field, b) BY <1>1
<1>3. /\ a.key = j /\ b.key = k /\ j[1] \in Nat /\ j[2] \in Nat /\ k[1] \in Nat /\ k[2] \in Nat
      /\ j[1] # k[1] \/ j[2] # k[2]
      BY <1>1
<1> HIDE DEF a, b
<1>4. ItemBefore(field, descending, a, b) <=> ~ItemBefore(field, descending, b, a)
  <2>1. CASE descending BY <1>2, <1>3, <2>1 DEF ItemBefore
  <2>2. CASE ~descending BY <1>2, <1>3, <2>2 DEF ItemBefore
  <2>3. QED BY <2>1, <2>2
<1>5. ItemBefore(field, descending, a, b) \in BOOLEAN /\ ItemBefore(field, descending, b, a) \in BOOLEAN
      BY Zenon DEF ItemBefore
<1>6. QED BY <1>4, <1>5 DEF a, b

\* While rows change beside each other, the list of items says what their
\* purchases say, and of two items one comes first (items.rs).
THEOREM ItemsAgree == ItemsSpec => [](ItemsMatchPurchases /\ ItemPagesAreStable)
<1>1. ItemsInv => ItemsMatchPurchases /\ ItemPagesAreStable
      BY ItemsMatch, PagesHaveAnOrder DEF ItemsInv
<1>2. QED BY <1>1, ItemsAlways, PTL

(***************************************************************************)
(* The instance the run checks: a behaviour is about one part.             *)
(***************************************************************************)
LEMMA PartsOfWorkspace ==
    WorkspaceSpec => /\ MembersSpec /\ WalletsSpec /\ CategoriesSpec
                     /\ VaultSpec /\ ItemsSpec /\ SelectionsSpec
<1>1. WorkspaceInit => /\ MembersInit /\ WalletsInit /\ CategoriesInit
                       /\ VaultInit /\ ItemsInit /\ SelectionsInit
      BY DEF WorkspaceInit
<1>2. [WorkspaceNext]_workspaceVars =>
         /\ [MembersNext]_membersVars /\ [WalletsNext]_walletsVars
         /\ [CategoriesNext]_categoriesVars /\ [VaultNext]_vaultVars
         /\ [ItemsNext]_itemsVars /\ [SelectionsNext]_selectionsVars
      BY DEF WorkspaceNext, workspaceVars
<1>3. QED
      BY <1>1, <1>2, PTL
      DEF WorkspaceSpec, MembersSpec, WalletsSpec, CategoriesSpec, VaultSpec, ItemsSpec, SelectionsSpec

\* Members, wallets, categories, files, line items and selections are well
\* typed, whatever happens to them at the same time.
THEOREM WorkspaceTyped == WorkspaceSpec => []WorkspaceTypeOK
<1>1. /\ MembersTypeOK /\ WalletsTypeOK /\ CategoriesTypeOK
      /\ VaultTypeOK /\ ItemsTypeOK /\ SelectionsTypeOK
      => WorkspaceTypeOK
      BY DEF WorkspaceTypeOK, Of
<1>2. QED
      BY <1>1, PartsOfWorkspace, MembersTypedAlways, WalletsTypedAlways, CategoriesTypedAlways,
         VaultTypedAlways, ItemsTypedAlways, SelectionsTypedAlways, PTL

\* A workspace has at most one default wallet, the index that would refuse a second
\* is never reached, and a category has at most one budget.
THEOREM OneOfEachAlways == WorkspaceSpec => []OneOfEach
<1>1. OneDefault /\ IndexNeverTrips /\ OneBudgetEach => OneOfEach BY DEF OneOfEach, Of
<1>2. QED BY <1>1, PartsOfWorkspace, OneDefaultAlways, FlagMoversWait, BudgetsAreSingle, PTL

\* What is stored of a file goes with it and a preview it names is there, the
\* last audit row about a row says what it is, a bulk action mixes up its audit
\* rows only when a row was deleted meanwhile, and an export marks what it has.
THEOREM StoredTruthAlways == WorkspaceSpec => []StoredTruth
<1>1. /\ BytesGoWithFile /\ FlaggedIsStored /\ TrailTellsRows /\ SkewOnlyByDeletion /\ MarkedIsInFile
      => StoredTruth
      BY DEF StoredTruth, Of
<1>2. QED
      BY <1>1, PartsOfWorkspace, BytesGo, FlagsTellTruth, TrailsTellRows, OnlyDeletionsSkew, MarksAreInFiles, PTL

\* What is read of line items agrees with the rows: an item's figures with
\* its purchases, the pages of a list with each other.
THEOREM ReadsAgreeAlways == WorkspaceSpec => []ReadsAgree
<1>1. ItemsMatchPurchases /\ ItemPagesAreStable => ReadsAgree BY DEF ReadsAgree, Of
<1>2. QED BY <1>1, PartsOfWorkspace, ItemsAgree, PTL

\* A deletion leaves another default, no live row that names what was
\* deleted, and no change of a deleted row.
THEOREM DeletionsLeaveOrderAlways == WorkspaceSpec => DeletionsLeaveOrder
<1>1. QED
      BY PartsOfWorkspace, FlagIsHandedOn, DeletionsLetGo, DeletedFilesLetGo, DeletedRowsRest, PTL
      DEF DeletionsLeaveOrder

\* A workspace keeps an owner as long as no two owners step down at once.
THEOREM OwnersRemainInWorkspace == WorkspaceSpec => []OwnersRemainUnlessRaced
<1>1. QED BY PartsOfWorkspace, OwnersRemain, PTL
=============================================================================
