-------------------------------- MODULE Links --------------------------------
(***************************************************************************)
(* Which Telegram chat acts for which member (telegram/link.rs,            *)
(* message.rs): linking a chat, the ways a link ends, and the check of     *)
(* every message.  Claiming the one-time token is in Tickets.  The updates *)
(* of a chat are handled one at a time; chats and the web run beside each  *)
(* other.                                                                  *)
(***************************************************************************)
EXTENDS Naturals, FiniteSets

CONSTANTS
    LinkChats,    \* private chats
    LinkMembers,  \* members of the workspace
    Nobody,
    MaxChanges    \* bound: roles changed, members removed or brought back

ASSUME LinksAssumption == Nobody \notin LinkMembers /\ MaxChanges \in Nat

VARIABLES
    links,      \* live rows of telegram_links: chat and member
    belongs,    \* the role of each member, or "left"
    handling,   \* what the handler of each chat is doing
    removal,    \* the transaction that removes a member: the rows it ends, and
                \* whether the member was being linked since it looked for them
    crossed,    \* history: members removed while a chat was being linked to them
    changes

linksVars == <<links, belongs, handling, removal, crossed, changes>>

AtRest == [pc |-> "idle", member |-> Nobody, ends |-> {}, role |-> "left"]
NoRemoval == [pc |-> "none", ends |-> {}, met |-> FALSE]

LinksInit ==
    /\ links = {}
    /\ belongs \in [LinkMembers -> {"writer", "reader"}]
    /\ handling = [c \in LinkChats |-> AtRest]
    /\ removal = [m \in LinkMembers |-> NoRemoval]
    /\ crossed = {} /\ changes = 0

LinkRows == [chat : LinkChats, member : LinkMembers]

\* Nobody else holds the row of a link.
LinkFree(l) ==
    /\ \A c \in LinkChats : l \notin handling[c].ends
    /\ \A m \in LinkMembers : l \notin removal[m].ends

Linking == {"starting", "moving", "ended"}
BeingLinked(m) == \E c \in LinkChats : handling[c].pc \in Linking /\ handling[c].member = m

\* /start with a token minted for m.  The membership is read outside the
\* transaction that claimed the token.
StartLink(c, m) ==
    /\ handling[c].pc = "idle" /\ belongs[m] # "left"
    /\ handling' = [handling EXCEPT ![c] = [AtRest EXCEPT !.pc = "starting", !.member = m]]
    /\ removal' = [removal EXCEPT ![m].met = @ \/ removal[m].pc = "unlinked"]
    /\ UNCHANGED <<links, belongs, crossed, changes>>

\* One chat, one link: what this chat was linked to ends.
EndOfChat(c) ==
    /\ handling[c].pc = "starting"
    /\ \A l \in links : l.chat = c => LinkFree(l)
    /\ handling' = [handling EXCEPT ![c].pc = "moving", ![c].ends = {l \in links : l.chat = c}]
    /\ UNCHANGED <<links, belongs, removal, crossed, changes>>

\* One link per member: what this member was linked to ends.
EndOfMember(c) ==
    /\ handling[c].pc = "moving"
    /\ LET others == {l \in links : l.member = handling[c].member} \ handling[c].ends
       IN  /\ \A l \in others : LinkFree(l)
           /\ handling' = [handling EXCEPT ![c].pc = "ended", ![c].ends = @ \cup others]
    /\ UNCHANGED <<links, belongs, removal, crossed, changes>>

Clashes(c) == {l \in links \ handling[c].ends : l.chat = c \/ l.member = handling[c].member}

(* Mutation: no unique index. *)
InsertAnyLink(c) ==
    /\ handling[c].pc = "ended"
    /\ links' = (links \ handling[c].ends) \cup {[chat |-> c, member |-> handling[c].member]}
    /\ handling' = [handling EXCEPT ![c] = AtRest]
    /\ UNCHANGED <<belongs, removal, crossed, changes>>

\* The insert, against the two unique indexes, and the commit.
InsertLink(c) ==
    /\ handling[c].pc = "ended" /\ Clashes(c) = {}
    /\ links' = (links \ handling[c].ends) \cup {[chat |-> c, member |-> handling[c].member]}
    /\ handling' = [handling EXCEPT ![c] = AtRest]
    /\ UNCHANGED <<belongs, removal, crossed, changes>>

\* The index refused the second of two chats linked at once, two chats that
\* move to each other's members waited for each other, the database failed or
\* the process died: what was ended is as it was.
UndoStart(c) ==
    /\ handling[c].pc \in Linking
    /\ handling' = [handling EXCEPT ![c] = AtRest]
    /\ UNCHANGED <<links, belongs, removal, crossed, changes>>

\* Any other message: the live link of the chat, then the role.
LookUpLink(c, l) ==
    /\ handling[c].pc = "idle" /\ l \in links /\ l.chat = c
    /\ handling' = [handling EXCEPT ![c] = [AtRest EXCEPT !.pc = "linked", !.member = l.member]]
    /\ UNCHANGED <<links, belongs, removal, crossed, changes>>

CurrentRole(c) ==
    /\ handling[c].pc = "linked"
    /\ handling' = [handling EXCEPT ![c].pc = "checked", ![c].role = belongs[handling[c].member]]
    /\ UNCHANGED <<links, belongs, removal, crossed, changes>>

\* A receipt is saved under the role that was read; a question is answered.
AnswerMessage(c) ==
    /\ handling[c].pc = "checked" /\ handling[c].role # "left"
    /\ handling' = [handling EXCEPT ![c] = AtRest]
    /\ UNCHANGED <<links, belongs, removal, crossed, changes>>

\* /disconnect, or a member who is no longer one: the link of the member
\* ends, whichever chat it is of by now.
Revoke(c) ==
    /\ handling[c].pc = "checked"
    /\ \A l \in links : l.member = handling[c].member => LinkFree(l)
    /\ links' = {l \in links : l.member # handling[c].member}
    /\ handling' = [handling EXCEPT ![c] = AtRest]
    /\ UNCHANGED <<belongs, removal, crossed, changes>>

\* The Apps page, signing out everywhere, a password reset.
Unlink(m) ==
    /\ \E l \in links : l.member = m
    /\ \A l \in links : l.member = m => LinkFree(l)
    /\ links' = {l \in links : l.member # m}
    /\ UNCHANGED <<belongs, handling, removal, crossed, changes>>

\* A member is removed: the membership, then the link, then the commit.  The
\* row of the membership is locked meanwhile.
RemoveMember(m) ==
    /\ belongs[m] # "left" /\ removal[m].pc = "none" /\ changes < MaxChanges
    /\ changes' = changes + 1
    /\ removal' = [removal EXCEPT ![m].pc = "begun"]
    /\ UNCHANGED <<links, belongs, handling, crossed>>

RevokeMember(m) ==
    /\ removal[m].pc = "begun"
    /\ \A l \in links : l.member = m => LinkFree(l)
    /\ removal' = [removal EXCEPT ![m] =
          [pc |-> "unlinked", ends |-> {l \in links : l.member = m}, met |-> BeingLinked(m)]]
    /\ UNCHANGED <<links, belongs, handling, crossed, changes>>

CommitRemoval(m) ==
    /\ removal[m].pc = "unlinked"
    /\ belongs' = [belongs EXCEPT ![m] = "left"]
    /\ links' = links \ removal[m].ends
    /\ crossed' = IF removal[m].met THEN crossed \cup {m} ELSE crossed
    /\ removal' = [removal EXCEPT ![m] = NoRemoval]
    /\ UNCHANGED <<handling, changes>>

\* The database failed, or the removal was the victim of a deadlock.
UndoRemoval(m) ==
    /\ removal[m].pc # "none"
    /\ removal' = [removal EXCEPT ![m] = NoRemoval]
    /\ UNCHANGED <<links, belongs, handling, crossed, changes>>

SetRole(m, role) ==
    /\ belongs[m] # role /\ removal[m].pc = "none" /\ changes < MaxChanges
    /\ changes' = changes + 1
    /\ belongs' = [belongs EXCEPT ![m] = role]
    /\ UNCHANGED <<links, handling, removal, crossed>>

LinksNext ==
    \/ \E c \in LinkChats :
          \/ \E m \in LinkMembers : StartLink(c, m)
          \/ EndOfChat(c) \/ EndOfMember(c) \/ InsertLink(c) \/ UndoStart(c)
          \/ \E l \in links : LookUpLink(c, l)
          \/ CurrentRole(c) \/ AnswerMessage(c) \/ Revoke(c)
    \/ \E m \in LinkMembers :
          \/ Unlink(m)
          \/ RemoveMember(m) \/ RevokeMember(m) \/ CommitRemoval(m) \/ UndoRemoval(m)
          \/ \E role \in {"writer", "reader"} : SetRole(m, role)

LinksSpec == LinksInit /\ [][LinksNext]_linksVars

(***************************************************************************)
(* Properties.                                                             *)
(***************************************************************************)
\* Every variable holds what its declaration says; no link is being ended
\* by two chats, or by a chat and the removal of its member.
LinksTypeOK ==
    /\ links \subseteq LinkRows
    /\ belongs \in [LinkMembers -> {"writer", "reader", "left"}]
    /\ \A c \in LinkChats : /\ handling[c].pc \in {"idle", "linked", "checked"} \cup Linking
                            /\ handling[c].ends \subseteq links
    /\ \A c, d \in LinkChats : c # d => handling[c].ends \cap handling[d].ends = {}
    /\ \A m \in LinkMembers : /\ removal[m].pc \in {"none", "begun", "unlinked"}
                              /\ removal[m].ends \subseteq links
                              /\ \A c \in LinkChats : removal[m].ends \cap handling[c].ends = {}

\* One live link for each chat and for each member, however many chats are
\* linked at once.
OneLinkEach == \A k, l \in links : k # l => k.chat # l.chat /\ k.member # l.member

\* A member who left has no link, but for one made while they were removed.
LeaversAreUnlinked == \A l \in links : belongs[l.member] = "left" => l.member \in crossed
==============================================================================
