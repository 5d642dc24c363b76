------------------------------- MODULE Tickets -------------------------------
(***************************************************************************)
(* Secrets that work once: password resets, Telegram links, MCP            *)
(* authorization codes and passkey ceremonies.  One UPDATE claims a ticket *)
(* that is unused and not expired.  For some kinds the claim commits       *)
(* before the answer is checked; for the others it is part of the          *)
(* transaction that does what the ticket is for.                           *)
(***************************************************************************)
EXTENDS Naturals

CONSTANTS
    Tickets,
    Kind,          \* what each ticket is
    NoTicket,
    Claimers,      \* requests that present a ticket
    NoClaimer

Kinds == {"reset", "link", "code", "register", "sign_in"}

ASSUME TicketsAssumption ==
    /\ Kind \in [Tickets -> Kinds]
    /\ NoTicket \notin Tickets
    /\ NoClaimer \notin Claimers

\* A code or a ceremony is spent before anything is compared.
ClaimCommitsFirst(k) == k \in {"code", "register", "sign_in"}

VARIABLES
    ticket,   \* "unsent", "open", "spent" or "expired"
    claimer,  \* the transaction that holds the row, or NoClaimer
    holding,  \* the ticket a request has claimed, or NoTicket
    effects,  \* history: how often a ticket did what it is for
    left      \* the member a link was shown to has left the workspace

ticketsVars == <<ticket, claimer, holding, effects, left>>

TicketsInit ==
    /\ ticket = [t \in Tickets |-> "unsent"]
    /\ claimer = [t \in Tickets |-> NoClaimer]
    /\ holding = [c \in Claimers |-> NoTicket]
    /\ effects = [t \in Tickets |-> 0]
    /\ left = FALSE

\* Asking for a reset or a link, consenting, starting a ceremony.
SendTicket(t) ==
    /\ ticket[t] = "unsent"
    /\ ticket' = [ticket EXCEPT ![t] = "open"]
    /\ UNCHANGED <<claimer, holding, effects, left>>

ExpireTicket(t) ==
    /\ ticket[t] = "open"
    /\ ticket' = [ticket EXCEPT ![t] = "expired"]
    /\ UNCHANGED <<claimer, holding, effects, left>>

LeaveMeanwhile ==
    /\ ~left
    /\ left' = TRUE
    /\ UNCHANGED <<ticket, claimer, holding, effects>>

(* Mutation: the ticket is looked up, and marked used at the end. *)
ClaimByLooking(c, t) ==
    /\ holding[c] = NoTicket
    /\ ticket[t] = "open"
    /\ holding' = [holding EXCEPT ![c] = t]
    /\ UNCHANGED <<ticket, claimer, effects, left>>

ClaimTicket(c, t) ==
    /\ holding[c] = NoTicket
    /\ ticket[t] = "open"
    /\ claimer[t] = NoClaimer
    /\ holding' = [holding EXCEPT ![c] = t]
    /\ IF ClaimCommitsFirst(Kind[t])
       THEN /\ ticket' = [ticket EXCEPT ![t] = "spent"]
            /\ UNCHANGED claimer
       ELSE /\ claimer' = [claimer EXCEPT ![t] = c]
            /\ UNCHANGED ticket
    /\ UNCHANGED <<effects, left>>

\* The request is over, and the row is free.
LetGo(c) ==
    /\ claimer' = [claimer EXCEPT ![holding[c]] = NoClaimer]
    /\ holding' = [holding EXCEPT ![c] = NoTicket]

\* The password is set, the chat linked, the token or session opened, the
\* passkey kept.  A link whose member has left commits its claim and no more.
UseTicket(c) ==
    /\ holding[c] # NoTicket
    /\ ~(Kind[holding[c]] = "link" /\ left)
    /\ effects' = [effects EXCEPT ![holding[c]] = @ + 1]
    /\ ticket' = [ticket EXCEPT ![holding[c]] = "spent"]
    /\ LetGo(c)
    /\ UNCHANGED left

RefuseLink(c) ==
    /\ holding[c] # NoTicket
    /\ Kind[holding[c]] = "link" /\ left
    /\ ticket' = [ticket EXCEPT ![holding[c]] = "spent"]
    /\ LetGo(c)
    /\ UNCHANGED <<effects, left>>

(* Mutation: a wrong answer gives the ticket back. *)
AbandonReopening(c) ==
    /\ holding[c] # NoTicket
    /\ ticket' = [ticket EXCEPT ![holding[c]] = "open"]
    /\ LetGo(c)
    /\ UNCHANGED <<effects, left>>

\* A wrong answer, an error or a crash: what is not committed is undone.
Abandon(c) ==
    /\ holding[c] # NoTicket
    /\ LetGo(c)
    /\ UNCHANGED <<ticket, effects, left>>

TicketsNext ==
    \/ \E t \in Tickets : SendTicket(t) \/ ExpireTicket(t)
    \/ LeaveMeanwhile
    \/ \E c \in Claimers :
          \/ \E t \in Tickets : ClaimTicket(c, t)
          \/ UseTicket(c) \/ RefuseLink(c) \/ Abandon(c)

TicketsSpec == TicketsInit /\ [][TicketsNext]_ticketsVars

(***************************************************************************)
(* Properties.                                                             *)
(***************************************************************************)
\* Every variable holds what its declaration says; the row of a claim not
\* yet committed is held.
TicketsTypeOK ==
    /\ ticket \in [Tickets -> {"unsent", "open", "spent", "expired"}]
    /\ claimer \in [Tickets -> Claimers \cup {NoClaimer}]
    /\ holding \in [Claimers -> Tickets \cup {NoTicket}]
    /\ effects \in [Tickets -> Nat]
    /\ left \in BOOLEAN
    /\ \A c \in Claimers :
          LET t == holding[c]
          IN t # NoTicket => (claimer[t] = c \/ ticket[t] = "spent")

\* However many requests present a ticket at once, and whatever fails, it
\* does what it is for at most once.
TicketsWorkOnce == \A t \in Tickets : effects[t] <= 1

\* A code or a ceremony takes one answer: after a wrong one it cannot be
\* tried again with other values.
OneAnswerEach ==
    [][\A t \in Tickets :
          ClaimCommitsFirst(Kind[t]) /\ ticket[t] = "spent" => ticket'[t] = "spent"]_ticketsVars
=============================================================================
