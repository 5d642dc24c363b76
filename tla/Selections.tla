----------------------------- MODULE Selections -----------------------------
(***************************************************************************)
(* What is done to several transactions at once: a bulk update of their    *)
(* category, a bulk delete and a CSV export, beside each other and beside  *)
(* a conversion of the workspace's currency.  A bulk action reads the rows *)
(* it names without a lock, writes those still live, and logs one audit    *)
(* row for each row it read.  Balances are in Ledger.                      *)
(***************************************************************************)
EXTENDS Naturals, FiniteSets

CONSTANTS
    Picks,          \* transactions, by the order of their ids
    Labels,         \* categories and none
    Homes,          \* currencies the workspace may have
    Selectors,      \* requests
    BulkLimit,      \* how many rows a bulk action may name
    MaxBegun        \* bound: actions and conversions begun

ASSUME SelectionsAssumption ==
    /\ Picks \subseteq Nat /\ IsFiniteSet(Picks)
    /\ BulkLimit \in Nat \ {0} /\ MaxBegun \in Nat

VARIABLES
    pick,     \* committed: live, category, currency of base_amount, is_exported
    past,     \* what audit rows say: the row one is about, and two rows, before and after
    home,     \* the workspace's currency
    sel,      \* what each request is doing
    files,    \* the lines of the CSV files made so far
    begun     \* how many actions and conversions have begun

selectionsVars == <<pick, past, home, sel, files, begun>>

NoSel == [pc |-> "idle", op |-> "none", ids |-> {}, label |-> "none", before |-> {}, held |-> {}]
NotThere == [of |-> 0, label |-> "none"]

SelectionsInit ==
    /\ home \in Homes
    /\ pick \in [Picks -> {[live |-> TRUE, label |-> l, base |-> home, exported |-> FALSE] : l \in Labels}]
    /\ past = {} /\ files = {} /\ begun = 0
    /\ sel = [r \in Selectors |-> NoSel]

PickFree(p) == \A r \in Selectors : p \notin sel[r].held
Shows(p) == [of |-> p, label |-> pick[p].label]

\* find_many: the live rows of a selection, which come by id.
FindMany(ids) == {Shows(p) : p \in {q \in ids : pick[q].live}}

Told(of, before, after) == [of |-> of, before |-> before, after |-> after]

\* The place of a row among those that were read.
Place(S, row) == Cardinality({p \in {other.of : other \in S} : p < row.of})

(* Mutation: find_many without ORDER BY, here backwards. *)
PairedUnordered(before, after) ==
    {Told(x[1].of, x[1], x[2]) : x \in {y \in before \X after :
        Cardinality({p \in {other.of : other \in before} : p > y[1].of}) = Place(after, y[2])}}

\* zip: first with first, second with second, as far as both go.
Paired(before, after) ==
    {Told(x[1].of, x[1], x[2]) : x \in {y \in before \X after : Place(before, y[1]) = Place(after, y[2])}}

SelectionAllowed(ids) == Cardinality(ids) \in 1..BulkLimit

BeginBulk(r, op, ids, label) ==
    /\ sel[r].pc = "idle" /\ SelectionAllowed(ids) /\ begun < MaxBegun /\ begun' = begun + 1
    /\ sel' = [sel EXCEPT ![r] = [NoSel EXCEPT !.pc = "found", !.op = op, !.ids = ids, !.label = label,
                                              !.before = FindMany(ids)]]
    /\ UNCHANGED <<pick, past, home, files>>

\* The statement waits for the writers of its rows, then looks at each row
\* again: those deleted meanwhile are not matched.
WritePicks(r) ==
    /\ sel[r].pc = "found" /\ \A p \in sel[r].ids : PickFree(p)
    /\ sel' = [sel EXCEPT ![r].pc = "written", ![r].held = {p \in sel[r].ids : pick[p].live}]
    /\ UNCHANGED <<pick, past, home, files, begun>>

\* The rows are read again, and what was read before is paired with what is
\* read now.
CommitLabels(r) ==
    /\ sel[r].pc = "written" /\ sel[r].op = "label"
    /\ pick' = [p \in Picks |-> IF p \in sel[r].held THEN [pick[p] EXCEPT !.label = sel[r].label] ELSE pick[p]]
    /\ past' = past \cup Paired(sel[r].before, {[of |-> p, label |-> sel[r].label] : p \in sel[r].held})
    /\ sel' = [sel EXCEPT ![r] = NoSel]
    /\ UNCHANGED <<home, files, begun>>

\* Every row that was read is logged as deleted.
CommitDeletes(r) ==
    /\ sel[r].pc = "written" /\ sel[r].op = "delete"
    /\ pick' = [p \in Picks |-> IF p \in sel[r].held THEN [pick[p] EXCEPT !.live = FALSE] ELSE pick[p]]
    /\ past' = past \cup {Told(row.of, row, NotThere) : row \in sel[r].before}
    /\ sel' = [sel EXCEPT ![r] = NoSel]
    /\ UNCHANGED <<home, files, begun>>

\* An error, a deadlock or a dropped connection.
UndoBulk(r) ==
    /\ sel[r].pc \in {"found", "written"}
    /\ sel' = [sel EXCEPT ![r] = NoSel]
    /\ UNCHANGED <<pick, past, home, files, begun>>

(***************************************************************************)
(* An export: the workspace, the rows and the mark are three statements    *)
(* of their own.                                                           *)
(***************************************************************************)
AskExport(r) ==
    /\ sel[r].pc = "idle" /\ begun < MaxBegun /\ begun' = begun + 1
    /\ sel' = [sel EXCEPT ![r] = [NoSel EXCEPT !.pc = "workspace", !.op = "export", !.label = home]]
    /\ UNCHANGED <<pick, past, home, files>>

\* The rows that match the filters, each with its base amount and the
\* currency the file names.
ListRows(r, ids) ==
    /\ sel[r].pc = "workspace" /\ \A p \in ids : pick[p].live
    /\ sel' = [sel EXCEPT ![r].pc = "listed", ![r].ids = ids]
    /\ files' = files \cup {[of |-> p, base |-> pick[p].base, named |-> sel[r].label] : p \in ids}
    /\ UNCHANGED <<pick, past, home, begun>>

(* Mutation: every live row is marked, whatever the filters left out. *)
MarkEverything(r) ==
    /\ sel[r].pc = "listed" /\ \A p \in Picks : PickFree(p)
    /\ pick' = [p \in Picks |-> IF pick[p].live THEN [pick[p] EXCEPT !.exported = TRUE] ELSE pick[p]]
    /\ sel' = [sel EXCEPT ![r] = NoSel]
    /\ UNCHANGED <<past, home, files, begun>>

MarkExported(r) ==
    /\ sel[r].pc = "listed" /\ \A p \in sel[r].ids : PickFree(p)
    /\ pick' = [p \in Picks |-> IF p \in sel[r].ids /\ pick[p].live THEN [pick[p] EXCEPT !.exported = TRUE] ELSE pick[p]]
    /\ sel' = [sel EXCEPT ![r] = NoSel]
    /\ UNCHANGED <<past, home, files, begun>>

ConvertHome(c) ==
    /\ begun < MaxBegun /\ c # home /\ \A p \in Picks : PickFree(p)
    /\ begun' = begun + 1
    /\ home' = c
    /\ pick' = [p \in Picks |-> [pick[p] EXCEPT !.base = c]]
    /\ UNCHANGED <<past, sel, files>>

SelectionsNext ==
    \/ \E r \in Selectors :
          \/ \E ids \in SUBSET Picks, l \in Labels : BeginBulk(r, "label", ids, l)
          \/ \E ids \in SUBSET Picks : BeginBulk(r, "delete", ids, "none") \/ ListRows(r, ids)
          \/ WritePicks(r) \/ CommitLabels(r) \/ CommitDeletes(r) \/ UndoBulk(r)
          \/ AskExport(r) \/ MarkExported(r)
    \/ \E c \in Homes : ConvertHome(c)

SelectionsSpec == SelectionsInit /\ [][SelectionsNext]_selectionsVars

(***************************************************************************)
(* Properties.                                                             *)
(***************************************************************************)
\* Every variable holds what its declaration says; no row is held by two.
SelectionsTypeOK ==
    /\ \A p \in Picks : /\ pick[p].live \in BOOLEAN /\ pick[p].exported \in BOOLEAN
                        /\ pick[p].label \in Labels /\ pick[p].base = home
    /\ home \in Homes /\ begun \in 0..MaxBegun
    /\ \A q, r \in Selectors : q # r => sel[q].held \cap sel[r].held = {}

\* A row is marked as exported (TXN-10) only when it is in a file.
MarkedIsInFile == \A p \in Picks : pick[p].exported => \E line \in files : line.of = p

\* An audit row that pairs two rows is the trace of a row deleted while the
\* bulk update ran: without one, every pair is of one row.
SkewOnlyByDeletion ==
    \A told \in past :
       told.after.of \notin {0, told.of} => \E p \in Picks : p <= told.of /\ ~pick[p].live

\* "the history section of a row has to show what happened to that row": an
\* audit row says what one row was before and what that row was after.
RowsOwnHistory == \A told \in past : told.before.of = told.of /\ told.after.of \in {0, told.of}
=============================================================================
