------------------------------ MODULE ChatTools ------------------------------
(***************************************************************************)
(* The tool calls of the in-app assistant.  The AI service relays what the *)
(* model asks for; the API checks the caller's role, has a delete put to   *)
(* the user, counts the call against its turn and does the work through    *)
(* the services the web uses.  Budgets and questions live in the memory of *)
(* the process.  Calls overlap: two chats are answered at once, and a call *)
(* whose answer was lost goes on while the model makes its next one.       *)
(***************************************************************************)
EXTENDS Naturals

CONSTANTS
    Turns,         \* turn ids; some the API never mints
    Chats,         \* chat sessions
    Relayed,       \* calls that are under way
    Entries,       \* transactions
    NoTurn, NoChat, NoEntry,
    MaxWrites, MaxDeletes, MaxCreated,  \* the caps of one turn
    MaxEdits       \* bound on the edits made in the web

ASSUME ChatToolsAssumption ==
    /\ NoTurn \notin Turns /\ NoChat \notin Chats /\ NoEntry \notin Entries
    /\ MaxWrites \in Nat /\ MaxDeletes \in Nat /\ MaxCreated \in Nat /\ MaxEdits \in Nat

Tools == {"create", "add_items", "update", "delete"}

VARIABLES
    turn,       \* turn ids: minted, over its ten minutes or lost, its budget
    challenge,  \* whether a row was put to a chat's user within five minutes
    entry,      \* transactions: live, and what is not the amount
    tool,       \* calls: how far each is and what it has read
    put,        \* history: the turn in which a chat's user was last asked
    spent       \* history: what the calls of a turn did or tried to do

chatToolsVars == <<turn, challenge, entry, tool, put, spent>>

NoBudget == [writes |-> 0, deletes |-> 0, created |-> 0]
IdleTool == [at |-> "idle", name |-> "create", turn |-> NoTurn, chat |-> NoChat,
             entry |-> NoEntry, confirmed |-> FALSE, seen |-> 0]

ChatToolsInit ==
    /\ turn = [t \in Turns |-> [state |-> "unknown", budget |-> NoBudget]]
    /\ challenge = [k \in Chats \X Entries |-> FALSE]
    /\ entry = [e \in Entries |-> [live |-> TRUE, name |-> 0]]
    /\ tool = [c \in Relayed |-> IdleTool]
    /\ put = [k \in Chats \X Entries |-> NoTurn]
    /\ spent = [t \in Turns |-> NoBudget]

------------------------------------------------------------------------------
\* What happens around the calls.

\* begin_turn mints an id, and it is never used twice.
OpenTurn(t) ==
    /\ turn[t].state = "unknown"
    /\ \A c \in Relayed : tool[c].turn # t
    /\ turn' = [turn EXCEPT ![t] = [state |-> "open", budget |-> NoBudget]]
    /\ UNCHANGED <<challenge, entry, tool, put, spent>>

\* Too old: whether the entry is swept, removed by the next call or still
\* there, it is refused like one never minted.
TurnAges(t) ==
    /\ turn[t].state = "open"
    /\ turn' = [turn EXCEPT ![t] = [state |-> "gone", budget |-> NoBudget]]
    /\ UNCHANGED <<challenge, entry, tool, put, spent>>

ChallengeAges(k) ==
    /\ challenge[k]
    /\ challenge' = [challenge EXCEPT ![k] = FALSE]
    /\ UNCHANGED <<turn, entry, tool, put, spent>>

\* The process stops: memory is lost, and so is every call under way.
RestartApi ==
    /\ turn' = [t \in Turns |-> 
                  IF turn[t].state = "unknown" THEN turn[t] ELSE [state |-> "gone", budget |-> NoBudget]]
    /\ challenge' = [k \in DOMAIN challenge |-> FALSE]
    /\ tool' = [c \in Relayed |-> IdleTool]
    /\ UNCHANGED <<entry, put, spent>>

EditInWeb(e) ==
    /\ entry[e].live /\ entry[e].name < MaxEdits
    /\ entry' = [entry EXCEPT ![e].name = @ + 1]
    /\ UNCHANGED <<turn, challenge, tool, put, spent>>

DeleteInWeb(e) ==
    /\ entry[e].live
    /\ entry' = [entry EXCEPT ![e].live = FALSE]
    /\ UNCHANGED <<turn, challenge, tool, put, spent>>

------------------------------------------------------------------------------
\* One call, from the checks to the answer.

AnswerTool(c) == tool' = [tool EXCEPT ![c] = IdleTool]

\* The role is read from the membership, not from the call: one who may not
\* write is refused here, and nothing has happened.
RelayTool(c, t, s, name, e, confirmed) ==
    /\ tool[c].at = "idle"
    /\ name # "delete" => ~confirmed /\ s = NoChat
    /\ name \in {"create", "add_items"} <=> e = NoEntry
    /\ name = "delete" => s # NoChat
    /\ tool' = [tool EXCEPT ![c] =
          [at |-> IF name = "delete" THEN "gate" ELSE "reserve", name |-> name, turn |-> t,
           chat |-> s, entry |-> e, confirmed |-> confirmed, seen |-> 0]]
    /\ UNCHANGED <<turn, challenge, entry, put, spent>>

ChallengeOf(c) == <<tool[c].chat, tool[c].entry>>
Confirmed(c) == tool[c].confirmed /\ challenge[ChallengeOf(c)]

(* Mutation: the flag the model sent is enough. *)
PassGateOnFlag(c) ==
    /\ tool[c].at = "gate" /\ tool[c].confirmed
    /\ tool' = [tool EXCEPT ![c].at = "reserve", ![c].confirmed = FALSE]
    /\ UNCHANGED <<turn, challenge, entry, put, spent>>

PassGate(c) ==
    /\ tool[c].at = "gate" /\ Confirmed(c)
    /\ tool' = [tool EXCEPT ![c].at = "reserve", ![c].confirmed = FALSE]
    /\ UNCHANGED <<turn, challenge, entry, put, spent>>

\* The row is read before it is put to the user.
FindToAsk(c) ==
    /\ tool[c].at = "gate" /\ ~Confirmed(c)
    /\ IF entry[tool[c].entry].live THEN tool' = [tool EXCEPT ![c].at = "ask"] ELSE AnswerTool(c)
    /\ UNCHANGED <<turn, challenge, entry, put, spent>>

AskUser(c) ==
    /\ tool[c].at = "ask"
    /\ challenge' = [challenge EXCEPT ![ChallengeOf(c)] = TRUE]
    /\ put' = [put EXCEPT ![ChallengeOf(c)] = tool[c].turn]
    /\ AnswerTool(c)
    /\ UNCHANGED <<turn, entry, spent>>

Charge(b, name) ==
    [writes |-> b.writes + 1,
     deletes |-> b.deletes + (IF name = "delete" THEN 1 ELSE 0),
     created |-> b.created + (IF name = "create" THEN 1 ELSE 0)]

WithinCaps(b) == b.writes <= MaxWrites /\ b.deletes <= MaxDeletes /\ b.created <= MaxCreated

\* What is inserted for a call without an entry meets nothing else here.
Reserved(c, t) ==
    /\ spent' = [spent EXCEPT ![t] = Charge(@, tool[c].name)]
    /\ IF tool[c].entry = NoEntry
       THEN AnswerTool(c)
       ELSE tool' = [tool EXCEPT ![c].at = "work", ![c].turn = NoTurn]

(* Mutation: a turn that is not known gets a budget of its own. *)
ReserveOpening(c) ==
    LET t == tool[c].turn
        kept == turn[t].state = "open"
        charged == Charge(IF kept THEN turn[t].budget ELSE NoBudget, tool[c].name)
    IN /\ tool[c].at = "reserve"
       /\ IF WithinCaps(charged)
          THEN /\ turn' = [turn EXCEPT ![t] = [state |-> "open", budget |-> charged]]
               /\ Reserved(c, t)
          ELSE AnswerTool(c) /\ UNCHANGED <<turn, spent>>
       /\ UNCHANGED <<challenge, entry, put>>

\* Checked and counted under one lock, on the attempt.
Reserve(c) ==
    LET t == tool[c].turn
        charged == Charge(turn[t].budget, tool[c].name)
    IN /\ tool[c].at = "reserve"
       /\ \/ /\ turn[t].state = "open" /\ WithinCaps(charged)
             /\ turn' = [turn EXCEPT ![t].budget = charged]
             /\ Reserved(c, t)
          \/ /\ turn[t].state = "open" /\ ~WithinCaps(charged)
             /\ AnswerTool(c) /\ UNCHANGED <<turn, spent>>
          \/ /\ turn[t].state # "open"
             /\ AnswerTool(c) /\ UNCHANGED <<turn, spent>>
       /\ UNCHANGED <<challenge, entry, put>>

\* An update or a delete reads the row first; without one it ends there.
FindEntry(c) ==
    /\ tool[c].at = "work"
    /\ IF entry[tool[c].entry].live
       THEN tool' = [tool EXCEPT ![c].at = "found", ![c].seen = entry[tool[c].entry].name]
       ELSE AnswerTool(c)
    /\ UNCHANGED <<turn, challenge, entry, put, spent>>

\* The model named an amount; every other field is written as it was read.
WriteEntry(c) ==
    LET e == tool[c].entry
    IN /\ tool[c].at = "found" /\ tool[c].name = "update"
       /\ IF entry[e].live
          THEN entry' = [entry EXCEPT ![e].name = tool[c].seen]
          ELSE UNCHANGED entry
       /\ AnswerTool(c)
       /\ UNCHANGED <<turn, challenge, put, spent>>

DeleteEntry(c) ==
    LET e == tool[c].entry
    IN /\ tool[c].at = "found" /\ tool[c].name = "delete"
       /\ entry' = [entry EXCEPT ![e].live = FALSE]
       /\ IF entry[e].live THEN tool' = [tool EXCEPT ![c].at = "clear"] ELSE AnswerTool(c)
       /\ UNCHANGED <<turn, challenge, put, spent>>

ClearChallenge(c) ==
    /\ tool[c].at = "clear"
    /\ challenge' = [challenge EXCEPT ![ChallengeOf(c)] = FALSE]
    /\ AnswerTool(c)
    /\ UNCHANGED <<turn, entry, put, spent>>

\* The database fails or the caller is gone.
FailTool(c) ==
    /\ tool[c].at \in {"gate", "work", "found"}
    /\ AnswerTool(c)
    /\ UNCHANGED <<turn, challenge, entry, put, spent>>

ToolStep(c) ==
    \/ \E t \in Turns, s \in Chats \cup {NoChat}, name \in Tools, e \in Entries \cup {NoEntry},
          confirmed \in BOOLEAN : RelayTool(c, t, s, name, e, confirmed)
    \/ PassGate(c) \/ FindToAsk(c) \/ AskUser(c) \/ Reserve(c)
    \/ FindEntry(c) \/ WriteEntry(c) \/ DeleteEntry(c) \/ ClearChallenge(c)
    \/ FailTool(c)

ChatToolsNext ==
    \/ \E t \in Turns : OpenTurn(t) \/ TurnAges(t)
    \/ \E k \in Chats \X Entries : ChallengeAges(k)
    \/ RestartApi
    \/ \E e \in Entries : EditInWeb(e) \/ DeleteInWeb(e)
    \/ \E c \in Relayed : ToolStep(c)

ChatToolsSpec == ChatToolsInit /\ [][ChatToolsNext]_chatToolsVars

(***************************************************************************)
(* Properties.                                                             *)
(***************************************************************************)
\* Every variable holds what its declaration says, and what a turn is known
\* to have spent is what its calls did try, as long as it is kept.
ChatToolsTypeOK ==
    /\ DOMAIN turn = Turns /\ DOMAIN spent = Turns
    /\ \A t \in Turns :
          /\ turn[t].state \in {"unknown", "open", "gone"}
          /\ turn[t].budget = (IF turn[t].state = "open" THEN spent[t] ELSE NoBudget)
    /\ challenge \in [Chats \X Entries -> BOOLEAN]
    /\ put \in [Chats \X Entries -> Turns \cup {NoTurn}]
    /\ entry \in [Entries -> [live : BOOLEAN, name : 0..MaxEdits]]
    /\ tool \in [Relayed ->
          [at : {"idle", "gate", "ask", "reserve", "work", "found", "clear"}, name : Tools,
           turn : Turns \cup {NoTurn}, chat : Chats \cup {NoChat},
           entry : Entries \cup {NoEntry}, confirmed : BOOLEAN, seen : 0..MaxEdits]]

\* Whatever calls overlap, however long a turn goes on and wherever the API
\* restarts, the calls that name one turn never do more than the caps allow.
TurnKeepsCaps == \A t \in Turns : WithinCaps(spent[t])

\* A call that deletes a transaction has had that very transaction put to the
\* user of that very chat before: the model's flag alone is never enough.
DeletesWereAsked ==
    \A c \in Relayed :
       tool[c].name = "delete" /\ tool[c].at \in {"reserve", "work", "found", "clear"}
          => put[ChallengeOf(c)] # NoTurn

\* Not kept.  What the comment on update_transaction says: a field the model
\* did not name keeps its value.
UnnamedFieldsKept ==
    [][\A c \in Relayed : WriteEntry(c) =>
          \A e \in Entries : entry'[e].name = entry[e].name]_chatToolsVars

\* Not kept.  What the documents say: a delete is answered in a later turn
\* than the one that asked.
AnsweredInLaterTurn ==
    [][\A c \in Relayed : PassGate(c) => put[ChallengeOf(c)] # tool[c].turn]_chatToolsVars
==============================================================================
