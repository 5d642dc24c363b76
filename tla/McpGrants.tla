------------------------------ MODULE McpGrants ------------------------------
(***************************************************************************)
(* The OAuth tokens one person has given MCP clients.  A grant is a family *)
(* of rows; a refresh revokes the row it presents and inserts the next, so *)
(* a revoked row presented again is taken for a copy and ends the grant.   *)
(***************************************************************************)
EXTENDS Naturals, FiniteSets

CONSTANTS
    Grants,     \* rows of mcp_tokens
    NoGrant,
    Calls,      \* requests under way
    NoCall

ASSUME McpAssumption == NoGrant \notin Grants /\ NoCall \notin Calls

VARIABLES
    granted,   \* the first row of a row's family, or NoGrant before the row
    revoked,   \* rows with revoked_at
    taken,     \* the call that holds a row's lock, or NoCall
    calling,   \* what a call is doing
    shown,     \* the row whose refresh token a call was given
    finding    \* the rows an UPDATE found

mcpRows == <<granted, revoked>>
mcpCall == <<taken, calling, shown, finding>>
mcpVars == <<mcpRows, mcpCall>>

Granted(g) == granted[g] # NoGrant
LiveGrant(g) == Granted(g) /\ g \notin revoked
GrantFamily(f) == {g \in Grants : granted[g] = f}

McpInit ==
    /\ granted = [g \in Grants |-> NoGrant]
    /\ revoked = {}
    /\ taken = [g \in Grants |-> NoCall]
    /\ calling = [c \in Calls |-> "idle"]
    /\ shown = [c \in Calls |-> NoGrant]
    /\ finding = [c \in Calls |-> {}]

EndCall(c) ==
    /\ taken' = [g \in Grants |-> IF taken[g] = c THEN NoCall ELSE taken[g]]
    /\ calling' = [calling EXCEPT ![c] = "idle"]
    /\ shown' = [shown EXCEPT ![c] = NoGrant]
    /\ finding' = [finding EXCEPT ![c] = {}]

\* A row of the family f, of its own when f is NoGrant.
InsertGrant(f) ==
    /\ \E g \in Grants : ~Granted(g)
    /\ LET g == CHOOSE h \in Grants : ~Granted(h)
       IN granted' = [granted EXCEPT ![g] = IF f = NoGrant THEN g ELSE f]

\* A code the person consented to is exchanged.
ExchangeCode ==
    /\ InsertGrant(NoGrant)
    /\ UNCHANGED <<revoked, mcpCall>>

\* The row of the refresh token, locked, revoked or not.
LockByRefresh(c, g) ==
    /\ calling[c] = "idle"
    /\ Granted(g)
    /\ taken[g] = NoCall
    /\ taken' = [taken EXCEPT ![g] = c]
    /\ shown' = [shown EXCEPT ![c] = g]

PresentRevoked(c, g) ==
    /\ LockByRefresh(c, g)
    /\ g \in revoked
    /\ calling' = [calling EXCEPT ![c] = "revoking"]
    /\ finding' = [finding EXCEPT ![c] = GrantFamily(granted[g]) \ revoked]
    /\ UNCHANGED mcpRows

(* Mutation: two refreshes read the row at once. *)
PresentGrantUnlocked(c, g) ==
    /\ calling[c] = "idle"
    /\ LiveGrant(g)
    /\ shown' = [shown EXCEPT ![c] = g]
    /\ calling' = [calling EXCEPT ![c] = "refreshing"]
    /\ UNCHANGED <<mcpRows, taken, finding>>

PresentGrant(c, g) ==
    /\ LockByRefresh(c, g)
    /\ g \notin revoked
    /\ calling' = [calling EXCEPT ![c] = "refreshing"]
    /\ UNCHANGED <<mcpRows, finding>>

(* Mutation: the row that was presented keeps working. *)
RefreshKeepingOld(c) ==
    /\ calling[c] = "refreshing"
    /\ InsertGrant(granted[shown[c]])
    /\ EndCall(c)
    /\ UNCHANGED revoked

RefreshGrant(c) ==
    /\ calling[c] = "refreshing"
    /\ revoked' = revoked \cup {shown[c]}
    /\ InsertGrant(granted[shown[c]])
    /\ EndCall(c)

\* The person disconnects the app of a row: every row of its family.
Disconnect(c, g) ==
    /\ calling[c] = "idle"
    /\ Granted(g)
    /\ calling' = [calling EXCEPT ![c] = "revoking"]
    /\ finding' = [finding EXCEPT ![c] = GrantFamily(granted[g]) \ revoked]
    /\ UNCHANGED <<mcpRows, taken, shown>>

\* A password change and signing out everywhere.
RevokeAllForUser(c) ==
    /\ calling[c] = "idle"
    /\ calling' = [calling EXCEPT ![c] = "revoking"]
    /\ finding' = [finding EXCEPT ![c] = {g \in Grants : LiveGrant(g)}]
    /\ UNCHANGED <<mcpRows, taken, shown>>

\* The UPDATE waits for the rows it found, and not for one inserted since.
Revoke(c) ==
    /\ calling[c] = "revoking"
    /\ \A g \in finding[c] : taken[g] \in {NoCall, c}
    /\ revoked' = revoked \cup finding[c]
    /\ EndCall(c)
    /\ UNCHANGED granted

\* Another client's token, an expired one, or an error: rolled back.
Refuse(c) ==
    /\ calling[c] # "idle"
    /\ EndCall(c)
    /\ UNCHANGED mcpRows

McpNext ==
    \/ ExchangeCode
    \/ \E c \in Calls :
          \/ \E g \in Grants : PresentRevoked(c, g) \/ PresentGrant(c, g) \/ Disconnect(c, g)
          \/ RevokeAllForUser(c)
          \/ RefreshGrant(c) \/ Revoke(c) \/ Refuse(c)

McpSpec == McpInit /\ [][McpNext]_mcpVars

(***************************************************************************)
(* Properties.                                                             *)
(***************************************************************************)
\* Every variable holds what its declaration says; a call that refreshes
\* holds the row it was shown.
McpTypeOK ==
    /\ granted \in [Grants -> Grants \cup {NoGrant}]
    /\ revoked \subseteq Grants
    /\ taken \in [Grants -> Calls \cup {NoCall}]
    /\ calling \in [Calls -> {"idle", "refreshing", "revoking"}]
    /\ shown \in [Calls -> Grants \cup {NoGrant}]
    /\ finding \in [Calls -> SUBSET Grants]
    /\ \A c \in Calls : calling[c] = "refreshing" => shown[c] # NoGrant /\ taken[shown[c]] = c

GrantHolder(f) ==
    IF \E g \in GrantFamily(f) : LiveGrant(g)
    THEN CHOOSE g \in GrantFamily(f) : LiveGrant(g)
    ELSE NoGrant

GrantLineage == INSTANCE TokenFamilies WITH
    Families <- Grants, FamilyTokens <- Grants, NoHolder <- NoGrant,
    holder <- [f \in Grants |-> GrantHolder(f)], past <- [f \in Grants |-> GrantFamily(f)]

\* A connected app is one chain of tokens: it never forks, and once it is
\* disconnected no refresh under way brings it back.
GrantsAreLineages == GrantLineage!FamiliesSpec

\* The connections page lists a grant once: at most one row of it is live.
OneLiveRowPerGrant ==
    \A g, h \in Grants : LiveGrant(g) /\ LiveGrant(h) /\ granted[g] = granted[h] => g = h

\* Not kept.  oauth.rs and docs/features/mcp.md: presenting a spent refresh
\* token revokes the whole grant, and revoking ends it immediately.  The row
\* a refresh under way inserts is not among those the UPDATE found.
GrantEndsWhole ==
    [][\A c \in Calls : Revoke(c) =>
          \A g \in Grants : (\E h \in finding[c] : granted[g] = granted[h]) => ~LiveGrant(g)']_mcpVars
=============================================================================
