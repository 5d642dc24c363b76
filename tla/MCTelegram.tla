----------------------------- MODULE MCTelegram -----------------------------
(* What the Telegram bot is made of, on small instances: the poller, the    *)
(* queue of receipts, the check of a receipt that was read, the messages    *)
(* about saved expenses and the links between chats and members.  They      *)
(* share no state: a behaviour is about one of them, with the others at     *)
(* their initial state.                                                     *)
EXTENDS ReceiptQueue, Drafts, TelegramPoller, SavedMessages, Links, TLC

CONSTANTS c1, c2    \* chats

VARIABLE part

OneWait == <<1>>
ThreeUpdates == 1..3

\* Updates of one chat with one of another between them.
TwoChats == [u \in Updates |-> IF u = 2 THEN c2 ELSE c1]

OneDraftLine(amount, quantity, unit) == [amount |-> amount, quantity |-> quantity, unit |-> unit]
\* Lines that add up to 50, 51 or nothing, some of whose figures are amiss.
SmallLines ==
    {<<>>, <<OneDraftLine(50, NotStated, NotStated)>>,
     <<OneDraftLine(25, 2, 25), OneDraftLine(1, NotStated, NotStated)>>,
     <<OneDraftLine(NotStated, 2, 25)>>, <<OneDraftLine(Unreadable, NotStated, 3)>>,
     <<OneDraftLine(20, NotStated, NotStated), OneDraftLine(20, NotStated, NotStated),
       OneDraftLine(11, NotStated, NotStated)>>}
SmallFigures == {0, 3, 50, 52, NotStated, Unreadable}

Alike == Permutations(Replicas) \cup Permutations(Workers)

\* A part that is not looked at has one initial state.
TelegramInit ==
    /\ part \in {"queue", "drafts", "poller", "messages", "links"}
    /\ QueueInit /\ Init
    /\ DraftsInit /\ (part # "drafts" => given = CHOOSE g \in Givens : TRUE)
    /\ SavedMessagesInit /\ (part # "messages" => note.text = NoFolder)
    /\ LinksInit /\ (part # "links" => \A m \in LinkMembers : belongs[m] = "writer")

TelegramNext ==
    /\ \/ part = "queue" /\ QueueNext /\ UNCHANGED <<vars, draftsVars, savedMessagesVars, linksVars>>
       \/ part = "poller" /\ Next /\ UNCHANGED <<queueVars, draftsVars, savedMessagesVars, linksVars>>
       \/ part = "drafts" /\ DraftsNext /\ UNCHANGED <<queueVars, vars, savedMessagesVars, linksVars>>
       \/ part = "messages" /\ SavedMessagesNext /\ UNCHANGED <<queueVars, draftsVars, vars, linksVars>>
       \/ part = "links" /\ LinksNext /\ UNCHANGED <<queueVars, draftsVars, vars, savedMessagesVars>>
    /\ UNCHANGED part

telegramVars == <<part, queueVars, draftsVars, vars, savedMessagesVars, linksVars>>
TelegramSpec == TelegramInit /\ [][TelegramNext]_telegramVars

\* A fact about one part is looked at in the behaviours about it.
Of(name, fact) == part = name => fact

\* Every variable of the parts has a value the code can give it.
TelegramTypeOK ==
    /\ Of("queue", QueueTypeOK) /\ Of("poller", TypeOK)
    /\ Of("messages", SavedMessagesTypeOK) /\ Of("links", LinksTypeOK)

\* What a chat shows and can do: its updates are handled one at a time and in
\* order, an expense is deleted by the second tap, a message says what is
\* stored, a chat and a member have one link each, and a member who left has
\* none.
ChatsTellTheTruth ==
    /\ Of("poller", OneAtATime /\ ChatsInOrder)
    /\ Of("messages", DeleteTakesTwoTaps /\ MessageSaysWhatIsStored)
    /\ Of("links", OneLinkEach /\ LeaversAreUnlinked)

\* A draft that was checked adds up, and checking it again changes nothing.
DraftsAddUp == Of("drafts", DraftAddsUp)
=============================================================================
