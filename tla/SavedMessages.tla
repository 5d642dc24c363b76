---------------------------- MODULE SavedMessages ----------------------------
(***************************************************************************)
(* The "Saved" message under a receipt sent to the bot, and what its       *)
(* buttons do (telegram/callback.rs, reply.rs).  A tap carries the text    *)
(* the message had when it was tapped; taps wait for each other, and the   *)
(* transaction changes on the web meanwhile.                               *)
(***************************************************************************)
EXTENDS Naturals, Sequences

CONSTANTS
    Folders,     \* expense categories
    NoFolder,
    MaxTaps,     \* bound: taps made
    MaxElsewhere \* bound: changes made on the web, lost edits and crashes

ASSUME SavedMessagesAssumption ==
    /\ NoFolder \notin Folders /\ "deleted" \notin Folders \cup {NoFolder}
    /\ {MaxTaps, MaxElsewhere} \subseteq Nat

Buttons == [act : {"file"}, folder : Folders] \cup [act : {"delete", "confirm", "keep"}, folder : {NoFolder}]

VARIABLES
    expense,    \* the transaction: live, and its category
    folders,    \* the categories that are live
    standing,   \* of the member the chat is linked to
    note,       \* the message: the category it names, or "deleted"; its keyboard
    shown,      \* the keyboards it has had: a phone may still show an older one
    taps,       \* taps not handled yet, each with the text it was made under
    tap,        \* what the handler is doing
    pressed, elsewhere,
    asked,      \* history: a tap on Delete was answered with the question
    deletedBy,  \* history
    hurried     \* history: taps overlapped, or something else happened meanwhile

chatState == <<note, shown, taps, tap, pressed>>
savedMessagesVars == <<expense, folders, standing, chatState, elsewhere, asked, deletedBy, hurried>>

NoTap == [pc |-> "idle", act |-> "none", folder |-> NoFolder, text |-> NoFolder]

\* The receipt is saved and answered.
SavedMessagesInit ==
    /\ \E f \in Folders \cup {NoFolder} :
          /\ expense = [live |-> TRUE, folder |-> f]
          /\ note = [text |-> f, keys |-> "choose"]
    /\ folders = Folders /\ standing = "writer"
    /\ shown = {"choose"} /\ taps = <<>> /\ tap = NoTap
    /\ pressed = 0 /\ elsewhere = 0 /\ asked = FALSE /\ deletedBy = "nobody" /\ hurried = FALSE

Keyboard(keys) == {b \in Buttons : b.act \in IF keys = "choose" THEN {"file", "delete"}
                                             ELSE IF keys = "confirm" THEN {"confirm", "keep"} ELSE {}}

Press(b) ==
    /\ pressed < MaxTaps /\ pressed' = pressed + 1
    /\ \E keys \in shown : b \in Keyboard(keys)
    /\ taps' = Append(taps, [act |-> b.act, folder |-> b.folder, text |-> note.text])
    /\ hurried' = (hurried \/ taps # <<>> \/ tap # NoTap)
    /\ UNCHANGED <<expense, folders, standing, note, shown, tap, elsewhere, asked, deletedBy>>

\* The link and the role are read again at every tap.  A member who left
\* has the link ended.
TakeTap ==
    /\ tap = NoTap /\ taps # <<>>
    /\ taps' = Tail(taps)
    /\ tap' = IF standing = "writer"
              THEN [pc |-> "do", act |-> Head(taps).act, folder |-> Head(taps).folder, text |-> Head(taps).text]
              ELSE NoTap
    /\ standing' = IF standing = "left" THEN "unlinked" ELSE standing
    /\ UNCHANGED <<expense, folders, note, shown, pressed, elsewhere, asked, deletedBy, hurried>>

\* find_category, and the look for it that bulk_update takes again.
LookForFolder(pc, next) ==
    /\ tap.pc = pc /\ tap.act = "file"
    /\ tap' = IF tap.folder \in folders THEN [tap EXCEPT !.pc = next] ELSE NoTap
    /\ UNCHANGED <<expense, folders, standing, note, shown, taps, pressed, elsewhere, asked, deletedBy, hurried>>

FindCategory == LookForFolder("do", "found")
RequireCategory == LookForFolder("found", "filing")

\* Filing a transaction that is gone changes no row and is no error.  The
\* category is not locked: it can be removed after it was looked for.
File ==
    /\ tap.pc = "filing"
    /\ expense' = IF expense.live THEN [expense EXCEPT !.folder = tap.folder] ELSE expense
    /\ tap' = [tap EXCEPT !.pc = "build"]
    /\ UNCHANGED <<folders, standing, note, shown, taps, pressed, elsewhere, asked, deletedBy, hurried>>

(* Mutation: the first tap deletes. *)
FindAndDelete ==
    /\ tap.pc = "do" /\ tap.act \in {"delete", "keep"}
    /\ expense' = [expense EXCEPT !.live = FALSE] /\ deletedBy' = "tap"
    /\ tap' = [tap EXCEPT !.pc = "edit"]
    /\ UNCHANGED <<folders, standing, note, shown, taps, pressed, elsewhere, asked, hurried>>

\* Delete asks, Keep it rebuilds: both only look whether the row is there.
FindExpense ==
    /\ tap.pc = "do" /\ tap.act \in {"delete", "keep"}
    /\ tap' = [tap EXCEPT !.pc = IF ~expense.live THEN "gone" ELSE IF tap.act = "delete" THEN "edit" ELSE "build"]
    /\ UNCHANGED <<expense, folders, standing, note, shown, taps, pressed, elsewhere, asked, deletedBy, hurried>>

ConfirmDelete ==
    /\ tap.pc = "do" /\ tap.act = "confirm"
    /\ IF expense.live
       THEN expense' = [expense EXCEPT !.live = FALSE] /\ deletedBy' = "tap" /\ tap' = [tap EXCEPT !.pc = "edit"]
       ELSE tap' = [tap EXCEPT !.pc = "gone"] /\ UNCHANGED <<expense, deletedBy>>
    /\ UNCHANGED <<folders, standing, note, shown, taps, pressed, elsewhere, asked, hurried>>

(* Mutation: the message is rebuilt from the tap, not from the row. *)
BuildFromTap ==
    /\ tap.pc = "build"
    /\ tap' = [tap EXCEPT !.pc = "edit", !.text = tap.folder]
    /\ UNCHANGED <<expense, folders, standing, note, shown, taps, pressed, elsewhere, asked, deletedBy, hurried>>

\* The message is built from the stored row; without one there is an error.
BuildSaved ==
    /\ tap.pc = "build"
    /\ tap' = IF expense.live THEN [tap EXCEPT !.pc = "edit", !.text = expense.folder] ELSE NoTap
    /\ UNCHANGED <<expense, folders, standing, note, shown, taps, pressed, elsewhere, asked, deletedBy, hurried>>

\* The text a tap on Delete keeps is the one it was made under.
EditMessage ==
    /\ tap.pc \in {"edit", "gone"}
    /\ note' = IF tap.pc = "gone" THEN [text |-> tap.text, keys |-> "none"]
               ELSE IF tap.act = "delete" THEN [text |-> tap.text, keys |-> "confirm"]
               ELSE IF tap.act = "confirm" THEN [text |-> "deleted", keys |-> "none"]
               ELSE [text |-> tap.text, keys |-> "choose"]
    /\ shown' = shown \cup {note'.keys}
    /\ asked' = (asked \/ note'.keys = "confirm")
    /\ tap' = NoTap
    /\ UNCHANGED <<expense, folders, standing, taps, pressed, elsewhere, deletedBy, hurried>>

\* Telegram refuses the edit, the database fails or the process dies: a tap
\* is not handled again.
LoseTap ==
    /\ tap # NoTap /\ elsewhere < MaxElsewhere
    /\ tap' = NoTap
    /\ elsewhere' = elsewhere + 1 /\ hurried' = TRUE
    /\ UNCHANGED <<expense, folders, standing, note, shown, taps, pressed, asked, deletedBy>>

\* On the web: the row is filed or deleted, a category removed, which clears
\* it from the row, the member's role changed or the member removed.
Elsewhere ==
    /\ elsewhere < MaxElsewhere
    /\ elsewhere' = elsewhere + 1 /\ hurried' = TRUE
    /\ \/ /\ expense.live
          /\ \/ \E f \in folders : expense' = [expense EXCEPT !.folder = f] /\ UNCHANGED deletedBy
             \/ expense' = [expense EXCEPT !.live = FALSE] /\ deletedBy' = "web"
          /\ UNCHANGED <<folders, standing>>
       \/ \E f \in folders :
             /\ folders' = folders \ {f}
             /\ expense' = IF expense = [live |-> TRUE, folder |-> f]
                           THEN [expense EXCEPT !.folder = NoFolder] ELSE expense
             /\ UNCHANGED <<standing, deletedBy>>
       \/ /\ standing' \in {"writer", "reader", "left", "unlinked"} \ {standing}
          /\ UNCHANGED <<expense, folders, deletedBy>>
    /\ UNCHANGED <<chatState, asked>>

SavedMessagesNext ==
    \/ \E b \in Buttons : Press(b)
    \/ TakeTap \/ FindCategory \/ RequireCategory \/ File \/ FindExpense \/ ConfirmDelete \/ BuildSaved \/ EditMessage
    \/ LoseTap \/ Elsewhere

SavedMessagesSpec == SavedMessagesInit /\ [][SavedMessagesNext]_savedMessagesVars

(***************************************************************************)
(* Properties.                                                             *)
(***************************************************************************)
\* Every variable holds what its declaration says.
SavedMessagesTypeOK ==
    /\ expense \in [live : BOOLEAN, folder : Folders \cup {NoFolder}]
    /\ folders \subseteq Folders
    /\ standing \in {"writer", "reader", "left", "unlinked"}
    /\ note \in [text : Folders \cup {NoFolder, "deleted"}, keys : {"choose", "confirm", "none"}]
    /\ note.keys \in shown
    /\ deletedBy = "nobody" <=> expense.live

\* Delete takes two taps: the bot deletes only after it has asked.
DeleteTakesTwoTaps == deletedBy = "tap" => asked

\* A message that says deleted is right, and one whose buttons were tapped
\* one at a time, with nothing else going on, names the stored category.
MessageSaysWhatIsStored ==
    /\ note.text = "deleted" => ~expense.live
    /\ ~hurried /\ tap = NoTap /\ expense.live => note.text = expense.folder

\* Not kept.  "The text stays; only the buttons change."
TextStays ==
    [][note'.keys = "confirm" /\ note.keys # "none" => note'.text = note.text]_savedMessagesVars
=============================================================================
