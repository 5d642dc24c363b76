------------------------------ MODULE Sessions ------------------------------
(***************************************************************************)
(* The refresh tokens of one person.  Signing in starts a family of        *)
(* tokens, a refresh spends one and issues the next under the lock of its  *)
(* row, and five requests end tokens with an UPDATE that finds its rows    *)
(* when it starts and locks them one after the other.  Every request is a  *)
(* transaction beside others at READ COMMITTED.                            *)
(***************************************************************************)
EXTENDS Integers, FiniteSets

CONSTANTS
    Tokens,
    NoToken,
    SessionRequests,
    NoRequest,
    MaxFailures    \* bound: transactions that fail for another reason than a deadlock

ASSUME SessionsAssumption ==
    /\ NoToken \notin Tokens
    /\ NoRequest \notin SessionRequests
    /\ MaxFailures \in Nat

VARIABLES
    family,    \* rows of refresh_tokens: the first token of the family, or NoToken before the row
    spent,     \* rows with used_at
    ended,     \* rows with revoked_at
    lock,      \* the request that holds a row's lock, or NoRequest
    doing,     \* what a request is in the middle of
    presented, \* the token a refresh was given
    closing,   \* the rows an UPDATE has found and not locked yet
    failures

sessionRows == <<family, spent, ended>>
request == <<doing, presented, closing>>
sessionsVars == <<sessionRows, lock, request, failures>>

Enders == {"reuse", "ending", "password"}

Issued(t) == family[t] # NoToken
LiveTokens(t) == Issued(t) /\ t \notin spent \cup ended
FamilyOf(f) == {t \in Tokens : family[t] = f}
HeldBy(p) == {t \in Tokens : lock[t] = p}

SessionsInit ==
    /\ family = [t \in Tokens |-> NoToken]
    /\ spent = {} /\ ended = {}
    /\ lock = [t \in Tokens |-> NoRequest]
    /\ doing = [p \in SessionRequests |-> "idle"]
    /\ presented = [p \in SessionRequests |-> NoToken]
    /\ closing = [p \in SessionRequests |-> {}]
    /\ failures = 0

\* The transaction ends: its locks are free and the request is over.
Release(p) ==
    /\ lock' = [t \in Tokens |-> IF lock[t] = p THEN NoRequest ELSE lock[t]]
    /\ doing' = [doing EXCEPT ![p] = "idle"]
    /\ presented' = [presented EXCEPT ![p] = NoToken]
    /\ closing' = [closing EXCEPT ![p] = {}]

\* A row for a token nobody has seen; f is NoToken for a family of its own.
Insert(f) ==
    /\ \E t \in Tokens : ~Issued(t)
    /\ LET t == CHOOSE u \in Tokens : ~Issued(u)
       IN family' = [family EXCEPT ![t] = IF f = NoToken THEN t ELSE f]

\* Bound: a request that will insert a row begins while tokens are left.
SessionRoom ==
    Cardinality({t \in Tokens : ~Issued(t)})
        > Cardinality({p \in SessionRequests : doing[p] \in {"rotating", "password"}})

\* Registering, signing in, and switching workspace, which leaves the session
\* it was asked from as it is.
OpenSession ==
    /\ SessionRoom
    /\ Insert(NoToken)
    /\ UNCHANGED <<spent, ended, lock, request, failures>>

(***************************************************************************)
(* A refresh.  The row is locked, then looked at.  An ended or expired     *)
(* token, and one of a workspace left since, are refused and change        *)
(* nothing.                                                                *)
(***************************************************************************)
Take(p, t) ==
    /\ doing[p] = "idle"
    /\ Issued(t)
    /\ lock[t] = NoRequest
    /\ t \notin ended
    /\ lock' = [lock EXCEPT ![t] = p]
    /\ presented' = [presented EXCEPT ![p] = t]

PresentSpent(p, t) ==
    /\ Take(p, t)
    /\ t \in spent
    /\ doing' = [doing EXCEPT ![p] = "reuse"]
    /\ closing' = [closing EXCEPT ![p] = FamilyOf(family[t]) \ ended]
    /\ UNCHANGED <<sessionRows, failures>>

(* Mutation: the row is read without its lock. *)
PresentUnlocked(p, t) ==
    /\ doing[p] = "idle"
    /\ LiveTokens(t)
    /\ SessionRoom
    /\ presented' = [presented EXCEPT ![p] = t]
    /\ doing' = [doing EXCEPT ![p] = "rotating"]
    /\ UNCHANGED <<sessionRows, lock, closing, failures>>

PresentLive(p, t) ==
    /\ Take(p, t)
    /\ t \notin spent
    /\ SessionRoom
    /\ doing' = [doing EXCEPT ![p] = "rotating"]
    /\ UNCHANGED <<sessionRows, closing, failures>>

Rotate(p) ==
    /\ doing[p] = "rotating"
    /\ spent' = spent \cup {presented[p]}
    /\ Insert(family[presented[p]])
    /\ Release(p)
    /\ UNCHANGED <<ended, failures>>

(***************************************************************************)
(* Ending tokens: a reuse ends its family; signing out everywhere, a       *)
(* password change, a reset and leaving a workspace end all the person's.  *)
(***************************************************************************)
Unended == {t \in Tokens : Issued(t) /\ t \notin ended}

StartEnding(p, kind) ==
    /\ doing[p] = "idle"
    /\ doing' = [doing EXCEPT ![p] = kind]
    /\ closing' = [closing EXCEPT ![p] = Unended]
    /\ UNCHANGED <<sessionRows, lock, presented, failures>>

SignOutEverywhere(p) == StartEnding(p, "ending")
ResetPassword(p) == StartEnding(p, "ending")
LeaveWorkspace(p) == StartEnding(p, "ending")
ChangePassword(p) == SessionRoom /\ StartEnding(p, "password")

\* A row ended by someone else since it was found is skipped.
LockNext(p) ==
    /\ doing[p] \in Enders
    /\ \E t \in closing[p] :
          /\ lock[t] \in {NoRequest, p}
          /\ lock' = [lock EXCEPT ![t] = IF t \in ended THEN @ ELSE p]
          /\ closing' = [closing EXCEPT ![p] = @ \ {t}]
    /\ UNCHANGED <<sessionRows, doing, presented, failures>>

(* Mutation: the refused refresh returns before it commits. *)
EndAfterReuseRolledBack(p) ==
    /\ doing[p] \in {"reuse", "ending"}
    /\ closing[p] = {}
    /\ ended' = IF doing[p] = "reuse" THEN ended ELSE ended \cup HeldBy(p)
    /\ Release(p)
    /\ UNCHANGED <<family, spent, failures>>

End(p) ==
    /\ doing[p] \in {"reuse", "ending"}
    /\ closing[p] = {}
    /\ ended' = ended \cup HeldBy(p)
    /\ Release(p)
    /\ UNCHANGED <<family, spent, failures>>

\* The tab the password was changed in gets a session in the same commit.
EndForPassword(p) ==
    /\ doing[p] = "password"
    /\ closing[p] = {}
    /\ ended' = ended \cup HeldBy(p)
    /\ Insert(NoToken)
    /\ Release(p)
    /\ UNCHANGED <<spent, failures>>

\* Signing out ends the one token, once nobody holds its row.
SignOut(t) ==
    /\ Issued(t)
    /\ lock[t] = NoRequest
    /\ t \notin ended
    /\ ended' = ended \cup {t}
    /\ UNCHANGED <<family, spent, lock, request, failures>>

(***************************************************************************)
(* A transaction that comes to nothing.  PostgreSQL fails one of those     *)
(* that wait for each other; another may fail at any time.                 *)
(***************************************************************************)
\* Every request of ring waits for a lock another one of ring holds.
WaitsInRing(ring) ==
    \A p \in ring :
        /\ closing[p] # {}
        /\ \A t \in closing[p] : lock[t] \in ring \ {p}

Deadlocked(p) == \E ring \in SUBSET SessionRequests : p \in ring /\ WaitsInRing(ring)

BreakDeadlock ==
    \E p \in SessionRequests :
        /\ Deadlocked(p)
        /\ Release(p)
        /\ UNCHANGED <<sessionRows, failures>>

(* Mutation: the connection goes back with its transaction open. *)
FailHoldingLocks(p) ==
    /\ doing[p] # "idle"
    /\ failures < MaxFailures
    /\ failures' = failures + 1
    /\ doing' = [doing EXCEPT ![p] = "idle"]
    /\ closing' = [closing EXCEPT ![p] = {}]
    /\ UNCHANGED <<sessionRows, lock, presented>>

Fail(p) ==
    /\ doing[p] # "idle"
    /\ failures < MaxFailures
    /\ failures' = failures + 1
    /\ Release(p)
    /\ UNCHANGED <<sessionRows>>

\* The steps a request takes of itself once it has begun.
Continue(p) ==
    \/ Rotate(p)
    \/ LockNext(p)
    \/ End(p)
    \/ EndForPassword(p)

SessionsNext ==
    \/ OpenSession
    \/ \E p \in SessionRequests :
          \/ \E t \in Tokens : PresentSpent(p, t) \/ PresentLive(p, t)
          \/ SignOutEverywhere(p) \/ ResetPassword(p) \/ ChangePassword(p) \/ LeaveWorkspace(p)
          \/ Continue(p)
          \/ Fail(p)
    \/ \E t \in Tokens : SignOut(t)
    \/ BreakDeadlock

SessionsSpec == SessionsInit /\ [][SessionsNext]_sessionsVars

\* The server goes on with a request it has begun; PostgreSQL gives a row's
\* lock to those who wait for it in turn, and detects deadlocks.
SessionsFairness ==
    /\ \A p \in SessionRequests : SF_sessionsVars(Continue(p))
    /\ WF_sessionsVars(BreakDeadlock)

(***************************************************************************)
(* Properties.                                                             *)
(***************************************************************************)
\* Every variable holds what its declaration says; a lock belongs to a
\* request under way.
SessionsTypeOK ==
    /\ family \in [Tokens -> Tokens \cup {NoToken}]
    /\ spent \subseteq Tokens /\ ended \subseteq Tokens
    /\ lock \in [Tokens -> SessionRequests \cup {NoRequest}]
    /\ doing \in [SessionRequests -> {"idle", "rotating"} \cup Enders]
    /\ presented \in [SessionRequests -> Tokens \cup {NoToken}]
    /\ closing \in [SessionRequests -> SUBSET Tokens]
    /\ failures \in 0..MaxFailures
    /\ \A t \in Tokens : lock[t] # NoRequest => doing[lock[t]] # "idle"

\* A sign-in never forks: of the tokens descended from one, at most one
\* still works, however many requests present the same token at once.
OneLivePerFamily ==
    \A t, u \in Tokens : LiveTokens(t) /\ LiveTokens(u) /\ family[t] = family[u] => t = u

\* The token of a family that still works.
Holder(f) ==
    IF \E t \in FamilyOf(f) : LiveTokens(t) THEN CHOOSE t \in FamilyOf(f) : LiveTokens(t) ELSE NoToken

Lineage == INSTANCE TokenFamilies WITH
    Families <- Tokens, FamilyTokens <- Tokens, NoHolder <- NoToken,
    holder <- [f \in Tokens |-> Holder(f)], past <- [f \in Tokens |-> FamilyOf(f)]

\* Every family is a chain: a token works once, hands over to one new token,
\* and a family none of whose tokens works never works again, whatever
\* refresh was under way when it ended.
FamiliesAreLineages == Lineage!FamiliesSpec

\* No request waits for ever on the rows of another: two that end the same
\* tokens, or a reuse that meets a password change, come to an end.
RequestsEnd == \A p \in SessionRequests : doing[p] # "idle" ~> doing[p] = "idle"

\* What a reuse, a sign-out everywhere, a password change or a departure
\* finds when its UPDATE starts does not outlive it, also a token that is
\* rotated or ended by another meanwhile, once transactions no longer fail
\* and unless two that end tokens deadlock.
FoundTokensEnd ==
    \A t \in Tokens :
        /\ \E p \in SessionRequests : doing[p] \in Enders /\ t \in closing[p] \cup HeldBy(p)
        /\ LiveTokens(t)
        /\ failures = MaxFailures
        ~> ~LiveTokens(t) \/ \E p \in SessionRequests : Deadlocked(p)

\* The tokens of the sign-ins a request that ends tokens has locked rows of.
Descended(p) == {t \in Tokens : \E u \in HeldBy(p) : family[t] = family[u]}

\* Not kept.  docs/security/auth.md and tokens.rs: a reuse revokes every token
\* descended from that login, and so does what ends all of a person's.  A
\* rotation that holds its row when the UPDATE starts inserts the next row
\* before it commits; the UPDATE has not found it, and it goes on working.
FamilyEndsWhole ==
    [][\A p \in SessionRequests : End(p) =>
          \A t \in Descended(p) : ~LiveTokens(t)']_sessionsVars
=============================================================================
