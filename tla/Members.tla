------------------------------- MODULE Members -------------------------------
(***************************************************************************)
(* Who belongs to a workspace, and as what.  Changing a role and removing  *)
(* a member read the member first, count the owners under their rows'      *)
(* locks when an owner would step down, and write last; other requests run *)
(* in between.  People join through invitations.                           *)
(***************************************************************************)
EXTENDS Naturals, FiniteSets

CONSTANTS
    Users,
    Creator,       \* who created the workspace
    Invitations,
    NoUser,
    Admins,        \* the requests of people who manage members
    NoAdmin

ASSUME MembersAssumption ==
    /\ Creator \in Users
    /\ NoUser \notin Users
    /\ NoAdmin \notin Admins

Roles == {"member", "admin", "owner"}
Gone == "gone"

VARIABLES
    role,     \* rows of user_workspaces: the role, or Gone
    rowLock,  \* the request that holds a row's lock, or NoAdmin
    stage,    \* how far a request has come
    target,   \* the member it is about
    wanted,   \* the role they are to have, Gone to remove them
    seen,     \* the role they had when the request read it
    invitee,  \* rows of workspace_invitations: whose address, or NoUser
    offer,    \* the role offered
    open,     \* the invitations not accepted, revoked or expired
    retiring, \* the open invitations an inviter found for the address
    raced     \* history: a write met an owner who was none when it read

roles == <<role, rowLock>>
change == <<stage, target, wanted, seen>>
invitations == <<invitee, offer, open>>
membersVars == <<roles, change, invitations, retiring, raced>>

Owners == {u \in Users : role[u] = "owner"}

MembersInit ==
    /\ role = [u \in Users |-> IF u = Creator THEN "owner" ELSE Gone]
    /\ rowLock = [u \in Users |-> NoAdmin]
    /\ stage = [p \in Admins |-> "idle"]
    /\ target = [p \in Admins |-> NoUser]
    /\ wanted = [p \in Admins |-> Gone]
    /\ seen = [p \in Admins |-> Gone]
    /\ invitee = [i \in Invitations |-> NoUser]
    /\ offer = [i \in Invitations |-> Gone]
    /\ open = {}
    /\ retiring = [p \in Admins |-> {}]
    /\ raced = FALSE

\* Whom a role lets someone make what; only an owner makes an owner.
CanGrant(actor, r) ==
    \/ actor = "owner"
    \/ actor = "admin" /\ r # "owner"

\* The transaction ends, with its locks.
Done(p) ==
    /\ stage' = [stage EXCEPT ![p] = "idle"]
    /\ target' = [target EXCEPT ![p] = NoUser]
    /\ wanted' = [wanted EXCEPT ![p] = Gone]
    /\ seen' = [seen EXCEPT ![p] = Gone]
    /\ rowLock' = [u \in Users |-> IF rowLock[u] = p THEN NoAdmin ELSE rowLock[u]]

(***************************************************************************)
(* Changing a role, and removing a member: wanted is Gone.                 *)
(***************************************************************************)
\* An owner is acted on only by an owner.
MayActOn(actor, current) ==
    /\ actor \in {"admin", "owner"}
    /\ current \in Roles
    /\ current = "owner" => actor = "owner"

Ask(p, u, r) ==
    /\ stage[p] = "idle"
    /\ \E a \in Users :
          /\ MayActOn(role[a], role[u])
          /\ r \in Roles => CanGrant(role[a], r)
    /\ stage' = [stage EXCEPT ![p] = "read"]
    /\ target' = [target EXCEPT ![p] = u]
    /\ wanted' = [wanted EXCEPT ![p] = r]
    /\ seen' = [seen EXCEPT ![p] = role[u]]
    /\ UNCHANGED <<roles, invitations, retiring, raced>>

StepsDown(p) == seen[p] = "owner" /\ wanted[p] # "owner"

(* Mutation: the owners are counted and their rows left unlocked. *)
CountUnlocked(p) ==
    /\ stage[p] = "read" /\ StepsDown(p)
    /\ \/ /\ Cardinality(Owners) > 1
          /\ stage' = [stage EXCEPT ![p] = "counted"]
          /\ UNCHANGED <<rowLock, target, wanted, seen>>
       \/ Cardinality(Owners) <= 1 /\ Done(p)
    /\ UNCHANGED <<role, invitations, retiring, raced>>

\* ensure_another_owner waits for the rows of the owners, then counts them.
CountOwners(p) ==
    /\ stage[p] = "read" /\ StepsDown(p)
    /\ \A u \in Owners : rowLock[u] = NoAdmin
    /\ \/ /\ Cardinality(Owners) > 1
          /\ stage' = [stage EXCEPT ![p] = "counted"]
          /\ rowLock' = [u \in Users |-> IF u \in Owners THEN p ELSE rowLock[u]]
          /\ UNCHANGED <<target, wanted, seen>>
       \/ Cardinality(Owners) <= 1 /\ Done(p)
    /\ UNCHANGED <<role, invitations, retiring, raced>>

\* The write finds the row as it is now; one that has gone stays gone.
Write(p) ==
    /\ stage[p] = "counted" \/ (stage[p] = "read" /\ ~StepsDown(p))
    /\ rowLock[target[p]] \in {NoAdmin, p}
    /\ role' = [role EXCEPT ![target[p]] = IF @ = Gone THEN Gone ELSE wanted[p]]
    /\ raced' = (raced \/ (role[target[p]] = "owner" /\ seen[p] # "owner"))
    /\ Done(p)
    /\ UNCHANGED <<invitations, retiring>>

\* A refusal, or a database error: nothing is written.
RollBack(p) ==
    /\ stage[p] # "idle"
    /\ Done(p)
    /\ retiring' = [retiring EXCEPT ![p] = {}]
    /\ UNCHANGED <<role, invitations, raced>>

(***************************************************************************)
(* Invitations.  Inviting again retires the open ones it finds; one that   *)
(* another request inserts meanwhile it does not find.                     *)
(***************************************************************************)
Invite(p, u, r) ==
    /\ stage[p] = "idle"
    /\ r \in Roles
    /\ \E a \in Users : CanGrant(role[a], r)
    /\ role[u] = Gone
    /\ stage' = [stage EXCEPT ![p] = "inviting"]
    /\ target' = [target EXCEPT ![p] = u]
    /\ wanted' = [wanted EXCEPT ![p] = r]
    /\ retiring' = [retiring EXCEPT ![p] = {i \in open : invitee[i] = u}]
    /\ UNCHANGED <<roles, seen, invitations, raced>>

(* Mutation: the row forgets the role that is offered. *)
InsertWithoutRole(p) ==
    /\ stage[p] = "inviting"
    /\ \E i \in Invitations :
          /\ invitee[i] = NoUser
          /\ invitee' = [invitee EXCEPT ![i] = target[p]]
          /\ open' = (open \ retiring[p]) \cup {i}
    /\ retiring' = [retiring EXCEPT ![p] = {}]
    /\ Done(p)
    /\ UNCHANGED <<role, offer, raced>>

InsertInvitation(p) ==
    /\ stage[p] = "inviting"
    /\ \E i \in Invitations :
          /\ invitee[i] = NoUser
          /\ invitee' = [invitee EXCEPT ![i] = target[p]]
          /\ offer' = [offer EXCEPT ![i] = wanted[p]]
          /\ open' = (open \ retiring[p]) \cup {i}
    /\ retiring' = [retiring EXCEPT ![p] = {}]
    /\ Done(p)
    /\ UNCHANGED <<role, raced>>

\* Revoked, or seven days old.
CloseInvitation(i) ==
    /\ i \in open
    /\ open' = open \ {i}
    /\ UNCHANGED <<roles, change, invitee, offer, retiring, raced>>

(* Mutation: joining writes the role whatever the row holds. *)
AcceptAnyRow(i) ==
    /\ i \in open
    /\ rowLock[invitee[i]] = NoAdmin
    /\ open' = open \ {i}
    /\ role' = [role EXCEPT ![invitee[i]] = offer[i]]
    /\ UNCHANGED <<rowLock, change, invitee, offer, retiring, raced>>

\* Accepted by the address it was sent to; anyone else is refused and leaves
\* it open.  A live membership stays as it is.
Accept(i) ==
    /\ i \in open
    /\ rowLock[invitee[i]] = NoAdmin
    /\ open' = open \ {i}
    /\ role' = [role EXCEPT ![invitee[i]] = IF @ = Gone THEN offer[i] ELSE @]
    /\ UNCHANGED <<rowLock, change, invitee, offer, retiring, raced>>

MembersNext ==
    \/ \E p \in Admins :
          \/ \E u \in Users, r \in Roles \cup {Gone} : Ask(p, u, r)
          \/ CountOwners(p) \/ Write(p) \/ RollBack(p)
          \/ \E u \in Users, r \in Roles : Invite(p, u, r)
          \/ InsertInvitation(p)
    \/ \E i \in Invitations : CloseInvitation(i) \/ Accept(i)

MembersSpec == MembersInit /\ [][MembersNext]_membersVars

(***************************************************************************)
(* Properties.                                                             *)
(***************************************************************************)
\* Every variable holds what its declaration says.
MembersTypeOK ==
    /\ role \in [Users -> Roles \cup {Gone}]
    /\ rowLock \in [Users -> Admins \cup {NoAdmin}]
    /\ stage \in [Admins -> {"idle", "read", "counted", "inviting"}]
    /\ target \in [Admins -> Users \cup {NoUser}]
    /\ \A p \in Admins : stage[p] # "idle" => target[p] # NoUser
    /\ wanted \in [Admins -> Roles \cup {Gone}]
    /\ seen \in [Admins -> Roles \cup {Gone}]
    /\ invitee \in [Invitations -> Users \cup {NoUser}]
    /\ offer \in [Invitations -> Roles \cup {Gone}]
    /\ open \subseteq Invitations
    /\ \A i \in open : invitee[i] # NoUser /\ offer[i] # Gone
    /\ retiring \in [Admins -> SUBSET Invitations]
    /\ raced \in BOOLEAN

\* Not kept.  WS-4: at least one owner always exists.
AtLeastOneOwner == Owners # {}

\* Owners who demote and remove each other at once never leave none: only a
\* write to someone who became an owner after it was read can.
OwnersRemainUnlessRaced == raced \/ Owners # {}

\* An owner loses the role only to a request that knew it was an owner and
\* had counted another, never by an invitation accepted late.
OwnersStepDownKnowingly ==
    [][\A u \in Users : role[u] = "owner" /\ role'[u] # "owner" =>
          raced' \/ \E p \in Admins : target[p] = u /\ stage[p] = "counted"]_membersVars
=============================================================================
