----------------------------- MODULE ChatSessions -----------------------------
(***************************************************************************)
(* A conversation with the assistant: its row, its messages, and the turns *)
(* taken in it.  A turn reads the row and the history, stores the question *)
(* in one transaction, names a chat that had no name, and stores the reply *)
(* in another once its stream has ended.  Two turns may run in one chat,   *)
(* and its owner renames or deletes it at any time.  The workspace's agent *)
(* settings are read by a change and written back whole.                   *)
(***************************************************************************)
EXTENDS Naturals, Sequences, FiniteSets

CONSTANTS
    Spoken,         \* turns
    Editors,        \* requests that change the settings
    HistoryWindow   \* messages that travel with a turn

ASSUME ChatSessionsAssumption == HistoryWindow \in Nat \ {0}

Titles == {"New chat", "from the message", "chosen"}
Fields == {"instructions", "language"}

VARIABLES
    chat,      \* the session's row
    messages,  \* its messages in order: who spoke, in which turn, not deleted
    spoken,    \* turns: how far each is, and what it has read
    settings,  \* each field's value, counted up by every change
    editor     \* changes of the settings: what each has read

chatSessionsVars == <<chat, messages, spoken, settings, editor>>

Before == [at |-> "before", title |-> "New chat", history |-> {}, had |-> 0]
NotEditing == [at |-> "before", field |-> "language", read |-> [f \in Fields |-> 0]]

ChatSessionsInit ==
    /\ chat = [live |-> TRUE, title |-> "New chat"]
    /\ messages = <<>>
    /\ spoken = [t \in Spoken |-> Before]
    /\ settings = [f \in Fields |-> 0]
    /\ editor = [e \in Editors |-> NotEditing]

\* The messages that are not deleted, by their places in the chat.
Shown == {i \in DOMAIN messages : messages[i].live}

------------------------------------------------------------------------------
\* One turn.

Advance(t, from, to) ==
    /\ spoken[t].at = from
    /\ spoken' = [spoken EXCEPT ![t].at = to]

\* Without a chat the turn is refused, and nothing is stored.
BeginTurn(t) ==
    /\ spoken[t].at = "before" /\ chat.live
    /\ spoken' = [spoken EXCEPT ![t].at = "begun", ![t].title = chat.title,
                               ![t].had = Cardinality(Shown)]  \* had: history only
    /\ UNCHANGED <<chat, messages, settings, editor>>

(* Mutation: the window is cut from the front. *)
OldestMessages == {i \in Shown : Cardinality({j \in Shown : j < i}) < HistoryWindow}

\* The newest messages that fit the window.
History == {i \in Shown : Cardinality({j \in Shown : j > i}) < HistoryWindow}

ReadHistory(t) ==
    /\ spoken[t].at = "begun"
    /\ spoken' = [spoken EXCEPT ![t].at = "read", ![t].history = History]
    /\ UNCHANGED <<chat, messages, settings, editor>>

\* append_message finds the chat first, for the question as for the reply.
FindChat(t) ==
    /\ \/ Advance(t, "read", IF chat.live THEN "asking" ELSE "ended")
       \/ Advance(t, "streaming", IF chat.live THEN "replying" ELSE "ended")
    /\ UNCHANGED <<chat, messages, settings, editor>>

Say(t, who) == messages' = Append(messages, [by |-> who, turn |-> t, live |-> TRUE])

StoreQuestion(t) ==
    /\ Advance(t, "asking", "naming")
    /\ Say(t, "user")
    /\ UNCHANGED <<chat, settings, editor>>

\* A chat that had no name when the turn began gets one.
NameChat(t) ==
    /\ Advance(t, "naming", "streaming")
    /\ chat' = IF spoken[t].title = "New chat" /\ chat.live
               THEN [chat EXCEPT !.title = "from the message"] ELSE chat
    /\ UNCHANGED <<messages, settings, editor>>

(* Mutation: the reply is stored while it streams, ahead of the question. *)
StoreReplyEarly(t) ==
    /\ spoken[t].at \in {"read", "replying"}
    /\ spoken' = [spoken EXCEPT ![t].at = IF @ = "read" THEN "asking" ELSE "ended"]
    /\ Say(t, "assistant")
    /\ UNCHANGED <<chat, settings, editor>>

StoreReply(t) ==
    /\ Advance(t, "replying", "ended")
    /\ Say(t, "assistant")
    /\ UNCHANGED <<chat, settings, editor>>

\* An error, a reply of nothing, or a restart.
FailTurn(t) ==
    /\ spoken[t].at \notin {"before", "ended"}
    /\ spoken' = [spoken EXCEPT ![t].at = "ended"]
    /\ UNCHANGED <<chat, messages, settings, editor>>

------------------------------------------------------------------------------
\* The owner of the chat, and the settings.

RenameChat ==
    /\ chat.live /\ chat.title # "chosen"
    /\ chat' = [chat EXCEPT !.title = "chosen"]
    /\ UNCHANGED <<messages, spoken, settings, editor>>

\* The messages that are there go with the chat, in one transaction.
DeleteChat ==
    /\ chat.live
    /\ chat' = [chat EXCEPT !.live = FALSE]
    /\ messages' = [i \in DOMAIN messages |-> [messages[i] EXCEPT !.live = FALSE]]
    /\ UNCHANGED <<spoken, settings, editor>>

ReadSettings(e, f) ==
    /\ editor[e].at = "before"
    /\ editor' = [editor EXCEPT ![e] = [at |-> "read", field |-> f, read |-> settings]]
    /\ UNCHANGED <<chat, messages, spoken, settings>>

\* The field that was not named is written as it was read.
WriteSettings(e) ==
    /\ editor[e].at = "read"
    /\ settings' = [editor[e].read EXCEPT ![editor[e].field] = @ + 1]
    /\ editor' = [editor EXCEPT ![e] = [NotEditing EXCEPT !.at = "ended"]]
    /\ UNCHANGED <<chat, messages, spoken>>

ChatSessionsNext ==
    \/ \E t \in Spoken :
          \/ BeginTurn(t) \/ ReadHistory(t) \/ FindChat(t) \/ StoreQuestion(t) \/ NameChat(t)
          \/ StoreReply(t) \/ FailTurn(t)
    \/ RenameChat \/ DeleteChat
    \/ \E e \in Editors : WriteSettings(e) \/ \E f \in Fields : ReadSettings(e, f)

ChatSessionsSpec == ChatSessionsInit /\ [][ChatSessionsNext]_chatSessionsVars

(***************************************************************************)
(* Properties.                                                             *)
(***************************************************************************)
Message == [by : {"user", "assistant"}, turn : Spoken, live : BOOLEAN]

\* Every variable holds what its declaration says; no turn has two questions
\* or two replies, and a reply comes after its question.
ChatSessionsTypeOK ==
    /\ chat \in [live : BOOLEAN, title : Titles]
    /\ messages \in Seq(Message)
    /\ spoken \in [Spoken -> [at : {"before", "begun", "read", "asking", "naming", "streaming",
                                    "replying", "ended"},
                              title : Titles, history : SUBSET (Nat \ {0}), had : Nat]]
    /\ settings \in [Fields -> Nat]
    /\ \A e \in Editors : editor[e].at \in {"before", "read", "ended"} /\ editor[e].field \in Fields
    /\ \A i, j \in DOMAIN messages :
          messages[i].turn = messages[j].turn /\ i < j
             => messages[i].by = "user" /\ messages[j].by = "assistant"

\* A turn carries every question and reply that was stored when it began, or,
\* where they do not fit, later ones only: the assistant never answers with
\* the last word missing.
HistoryIsNewest ==
    \A t \in Spoken : spoken[t].at = "read" /\ chat.live =>
       LET h == spoken[t].history
       IN \A i \in 1..spoken[t].had :
             \/ i \in h
             \/ /\ Cardinality(h) = HistoryWindow
                /\ \A j \in h : j > i

\* Not kept.  What the comment on delete says: the messages go with the
\* session rather than being left orphaned behind a deleted parent.
NoOrphans == chat.live \/ Shown = {}

\* Not kept.  What the comment in begin_turn says: a title the user set is
\* never overwritten.
ChosenTitleKept == [][chat.title = "chosen" => chat'.title = "chosen"]_chatSessionsVars
===============================================================================
