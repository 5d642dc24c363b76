-------------------------------- MODULE Drafts --------------------------------
(***************************************************************************)
(* A receipt read by a model (ai/extraction.rs, ai/service.rs), and the    *)
(* check of what it read (domain/receipt.rs): the arithmetic that makes a  *)
(* draft consistent and names every field it replaced.  Figures are in     *)
(* hundredths; a quantity is a count.                                      *)
(***************************************************************************)
EXTENDS Integers, Sequences, FiniteSets, Functions

CONSTANTS
    NotStated,     \* the receipt, or the model, gave nothing
    Unreadable,    \* what was given is no number
    DraftFigures,  \* what the model may give for subtotal, tax and total
    DraftLines,    \* what it may give for the line items: sequences
    Tolerance,     \* how far figures may differ and still agree
    MaxItems

ASSUME DraftsAssumption ==
    /\ Tolerance \in Nat /\ MaxItems \in Nat /\ NotStated # Unreadable
    /\ NotStated \notin Int /\ Unreadable \notin Int
    /\ NotStated \notin {"past", "future", "no day", "iso", "other"}
    /\ DraftFigures \subseteq Int \cup {NotStated, Unreadable}
    /\ DraftLines \subseteq Seq([amount : Int \cup {NotStated, Unreadable},
                               quantity : Int \cup {NotStated}, unit : Int \cup {NotStated}])

VARIABLES
    given,     \* the draft as the model gave it
    checked,   \* what the check made of it, and the fields it names
    reading    \* "asked", "document", "answered", "checked", "refused"

draftsVars == <<given, checked, reading>>

Days == {NotStated, "past", "future", "no day"}
Currencies == {NotStated, "iso", "other"}

NotChecked == [draft |-> NotStated, corrected |-> {}]

Decimal(figure) == IF figure = Unreadable THEN NotStated ELSE figure

Apart(a, b) == a - b > Tolerance \/ b - a > Tolerance

\* Two figures agreeing beat one standing alone.
CheckLine(raw) ==
    LET amount == Decimal(raw.amount)
    IN  [raw EXCEPT !.amount =
           IF raw.unit = NotStated \/ raw.quantity = NotStated THEN amount
           ELSE IF amount = NotStated THEN raw.unit * raw.quantity
           ELSE IF Apart(amount, raw.unit * raw.quantity) THEN raw.unit * raw.quantity ELSE amount]

WithAmount(lines) == {i \in DOMAIN lines : lines[i].amount # NotStated}
SumItems(lines) ==
    IF WithAmount(lines) = {} THEN NotStated
    ELSE SumFunctionOnSet([i \in DOMAIN lines |-> lines[i].amount], WithAmount(lines))

\* The items decide the subtotal; the subtotal and the tax, the total.
Subtotal(items, stated) ==
    IF items = NotStated THEN stated
    ELSE IF stated = NotStated THEN items ELSE IF Apart(stated, items) THEN items ELSE stated

(* Mutation: the total the model gave wins over a sum. *)
TotalAsStated(subtotal, tax, stated) ==
    IF stated # NotStated THEN stated ELSE subtotal

Total(subtotal, tax, stated) ==
    IF subtotal = NotStated THEN stated
    ELSE LET sum == subtotal + (IF tax = NotStated THEN 0 ELSE tax)
         IN  IF stated = NotStated THEN sum ELSE IF Apart(stated, sum) THEN sum ELSE stated

\* The lines and the date, and the currency, once read.
ReadDraft(raw) ==
    LET taken == SubSeq(raw.lines, 1, IF Len(raw.lines) < MaxItems THEN Len(raw.lines) ELSE MaxItems)
        lines == [i \in DOMAIN taken |-> CheckLine(taken[i])]
        subtotal == Subtotal(SumItems(lines), Decimal(raw.subtotal))
    IN  [day |-> IF raw.day = "past" THEN "past" ELSE NotStated, currency |-> "iso", lines |-> lines,
         subtotal |-> subtotal, tax |-> Decimal(raw.tax),
         total |-> Total(subtotal, Decimal(raw.tax), Decimal(raw.total))]

\* The fields whose value is not the one the model gave.
Corrections(raw, draft) ==
    UNION {IF raw.day \in {"future", "no day"} THEN {"day"} ELSE {},
           IF raw.currency = "other" THEN {"currency"} ELSE {},
           IF \E i \in DOMAIN draft.lines : draft.lines[i].amount # Decimal(raw.lines[i].amount)
           THEN {"lines"} ELSE {},
           {f \in {"subtotal", "total"} : draft[f] # Decimal(raw[f])}}

CheckDraft(raw) == [draft |-> ReadDraft(raw), corrected |-> Corrections(raw, ReadDraft(raw))]

Givens == [day : Days, currency : Currencies, lines : DraftLines,
           subtotal : DraftFigures, tax : DraftFigures, total : DraftFigures]

DraftsInit ==
    /\ given \in Givens
    /\ checked = NotChecked
    /\ reading = "asked"

RefuseDraft == reading' = "refused" /\ UNCHANGED <<given, checked>>

\* A file that is not there, or was never completed, is not found.
ReadDocument ==
    /\ reading = "asked"
    /\ RefuseDraft \/ (reading' = "document" /\ UNCHANGED <<given, checked>>)

\* The model may be away, give no answer, or find nothing it can read.
AskModel ==
    /\ reading = "document"
    /\ RefuseDraft \/ (reading' = "answered" /\ UNCHANGED <<given, checked>>)

\* A receipt with neither a total nor a date is not one that was read.
CheckReceipt ==
    /\ reading = "answered"
    /\ LET outcome == CheckDraft(given) IN
       IF outcome.draft.total = NotStated /\ outcome.draft.day = NotStated THEN RefuseDraft
       ELSE checked' = outcome /\ reading' = "checked" /\ UNCHANGED given

DraftsNext == ReadDocument \/ AskModel \/ CheckReceipt

DraftsSpec == DraftsInit /\ [][DraftsNext]_draftsVars

(***************************************************************************)
(* Properties.                                                             *)
(***************************************************************************)
ReceiptChecked == reading = "checked"

\* A draft that was checked adds up, and checking it again finds nothing to
\* replace: no fix undoes another.
DraftAddsUp ==
    ReceiptChecked => /\ CheckDraft(checked.draft) = [checked EXCEPT !.corrected = {}]
            /\ LET d == checked.draft
                   sum == SumItems(d.lines)
               IN  /\ \A i \in DOMAIN d.lines : LET l == d.lines[i] IN
                        l.unit # NotStated /\ l.quantity # NotStated => ~Apart(l.amount, l.unit * l.quantity)
                   /\ sum # NotStated => d.subtotal # NotStated /\ ~Apart(d.subtotal, sum)
                   /\ d.subtotal # NotStated =>
                        ~Apart(d.total, d.subtotal + (IF d.tax = NotStated THEN 0 ELSE d.tax))

\* Not kept.  "A fix is always declared": of a figure that cannot be read as
\* well.
EveryFixIsNamed ==
    ReceiptChecked => \A f \in {"subtotal", "tax", "total"} :
               checked.draft[f] # given[f] => f \in checked.corrected
===============================================================================
