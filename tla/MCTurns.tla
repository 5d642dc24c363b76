------------------------------ MODULE MCTurns ------------------------------
(* What is taken once, on small instances: workers take turns on the        *)
(* updates of a chat, requests on the refresh tokens of a sign-in, on those *)
(* of a connected client, and on tickets that work once.  The four share no *)
(* state: a behaviour is about one, with the others at their initial state. *)
EXTENDS TelegramPoller, Sessions, McpGrants, Tickets, TLC

CONSTANTS c1, k1, k2, k3

VARIABLE part

ThreeUpdates == 1..3
\* A button whose message is gone, between two updates of a chat.
WithNoChat == 1 :> c1 @@ 2 :> NoChat @@ 3 :> c1

TicketKinds == k1 :> "reset" @@ k2 :> "link" @@ k3 :> "code"

turnsVars == <<part, vars, sessionsVars, mcpVars, ticketsVars>>

TurnsInit ==
    /\ part \in {"poller", "sessions", "grants", "tickets"}
    /\ Init /\ SessionsInit /\ McpInit /\ TicketsInit
TurnsNext ==
    /\ \/ part = "poller" /\ Next /\ UNCHANGED <<sessionsVars, mcpVars, ticketsVars>>
       \/ part = "sessions" /\ SessionsNext /\ UNCHANGED <<vars, mcpVars, ticketsVars>>
       \/ part = "grants" /\ McpNext /\ UNCHANGED <<vars, sessionsVars, ticketsVars>>
       \/ part = "tickets" /\ TicketsNext /\ UNCHANGED <<vars, sessionsVars, mcpVars>>
    /\ UNCHANGED part

\* The fairness of the poller, in the behaviours about it.  At their initial
\* state the sessions have nothing to go on with.
Poller(A) == part = "poller" /\ A
TurnsFairness ==
    /\ WF_vars(Poller(Poll)) /\ WF_vars(Poller(Accept)) /\ WF_vars(Poller(HandOver))
    /\ \A w \in Workers : WF_vars(Poller(Handle(w) \/ Close(w))) /\ WF_vars(Poller(Finish(w)))
    /\ SessionsFairness

TurnsSpec == TurnsInit /\ [][TurnsNext]_turnsVars /\ TurnsFairness

\* Every variable has a value the code can give it.
TurnsTypeOK == SessionsTypeOK /\ McpTypeOK /\ TicketsTypeOK

\* A family and a grant have one live row each; a ticket works once, and is
\* answered once.
OneEach == [](OneLivePerFamily /\ OneLiveRowPerGrant /\ TicketsWorkOnce) /\ OneAnswerEach

\* Sign-ins and grants are chains: a token hands over to one new token, and
\* what has ended never works again.
RotationsAreLineages == FamiliesAreLineages /\ GrantsAreLineages

\* A restart or a panic costs a chat what was claimed and no more.
ChatsGoOn == UnclaimedSurvive /\ ChatsRecover

\* Every request on tokens comes to its end, and one that ends tokens ends
\* those it finds.
SessionsEnd == RequestsEnd /\ FoundTokensEnd
=============================================================================
