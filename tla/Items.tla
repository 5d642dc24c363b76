-------------------------------- MODULE Items --------------------------------
(***************************************************************************)
(* Line items: what was bought, at what price, by item and by purchase     *)
(* (items/, repositories/items.rs), the writes to transactions and their   *)
(* items that decide it, and the audit trail of those writes.  A write     *)
(* reads the row it changes without a lock, changes it under the row's     *)
(* lock, and logs what it read and what it wrote in the same transaction.  *)
(***************************************************************************)
EXTENDS Integers, Sequences, FiniteSets, FiniteSetsExt, SequencesExt

CONSTANTS
    Papers,         \* transactions
    PaperValues,    \* what one says: its day, and its wallet's currency, a number
    Lines,          \* line items, by the order of their ids
    LineValues,     \* what one says: name, amount, quantity, unit price; 0 is none
    Key(_),         \* a name trimmed and lowercased, as a number: keys are ordered
    NoRow,           \* what a row that is not there says
    LineRequests,
    MaxStamps       \* bounds how many transactions begin

ASSUME ItemsAssumption ==
    /\ Lines \subseteq Nat /\ Lines \cap Papers = {} /\ MaxStamps \in Nat
    /\ IsFiniteSet(Lines) /\ NoRow \notin PaperValues /\ NoRow \notin LineValues
    /\ \A v \in PaperValues : v.day \in Nat /\ v.currency \in Nat
    /\ \A v \in LineValues : v.amount \in Int \ {0} /\ v.quantity \in Nat /\ v.unit \in Nat /\ Key(v.name) \in Nat

VARIABLES
    paper,    \* committed: state and what it says
    line,     \* committed: state, its transaction, what it says, when it was made
    trail,    \* the audit rows, in the order they committed
    stamp,    \* now(): when the last database transaction began
    edit      \* what each request is doing

itemsVars == <<paper, line, trail, stamp, edit>>

NotBegun == [pc |-> "idle", op |-> "add", of |-> NoRow, on |-> NoRow, before |-> NoRow, after |-> NoRow, stamp |-> 0]

ItemsInit ==
    /\ paper = [p \in Papers |-> [state |-> "none", says |-> NoRow]]
    /\ line = [l \in Lines |-> [state |-> "none", on |-> NoRow, says |-> NoRow, made |-> 0]]
    /\ trail = <<>> /\ stamp = 0
    /\ edit = [r \in LineRequests |-> NotBegun]

\* What a row says; a row that is not there says nothing.
Says(x) ==
    IF x \in Papers THEN (IF paper[x].state = "live" THEN paper[x].says ELSE NoRow)
    ELSE IF line[x].state = "live" THEN line[x].says ELSE NoRow

LivePaper(p) == paper[p].state = "live"
LineOf(l, p) == line[l].state = "live" /\ line[l].on = p
Unused(l) == line[l].state = "none" /\ \A r \in LineRequests : edit[r].of # l
RowFree(x) == \A r \in LineRequests : edit[r].pc = "written" => edit[r].of # x

Logged(x, before, after, when) == [of |-> x, before |-> before, after |-> after, stamp |-> when]

(***************************************************************************)
(* Writes.                                                                 *)
(***************************************************************************)
\* now() does not move within a transaction: every line a receipt is saved
\* with was made at the same time.
SaveWithItems(p, lines, says, what) ==
    /\ paper[p].state = "none" /\ \A l \in lines : Unused(l)
    /\ stamp < MaxStamps /\ stamp' = stamp + 1
    /\ paper' = [paper EXCEPT ![p] = [state |-> "live", says |-> says]]
    /\ line' = [l \in Lines |-> IF l \in lines
                   THEN [state |-> "live", on |-> p, says |-> what[l], made |-> stamp'] ELSE line[l]]
    /\ trail' = trail \o SetToSeq({Logged(l, NoRow, what[l], stamp') : l \in lines})
                      \o <<Logged(p, NoRow, says, stamp')>>
    /\ UNCHANGED edit

Begun(r, op, x, p, after) ==
    /\ edit[r].pc = "idle" /\ stamp < MaxStamps /\ stamp' = stamp + 1
    /\ edit' = [edit EXCEPT ![r] = [pc |-> "checked", op |-> op, of |-> x, on |-> p,
                                    before |-> Says(x), after |-> after, stamp |-> stamp']]
    /\ UNCHANGED <<paper, line, trail>>

AskUpdate(r, p, says) == LivePaper(p) /\ Begun(r, "update", p, p, says)
AskDelete(r, p) == LivePaper(p) /\ Begun(r, "delete", p, p, NoRow)
AskAdd(r, p, l, says) == LivePaper(p) /\ Unused(l) /\ Begun(r, "add", l, p, says)
AskReplace(r, p, l, says) == LivePaper(p) /\ LineOf(l, p) /\ Begun(r, "update", l, p, says)
AskRemove(r, p, l) == LivePaper(p) /\ LineOf(l, p) /\ Begun(r, "delete", l, p, NoRow)

(* Mutation: the update does not look again at what it found. *)
WriteRowAsFound(r) ==
    /\ edit[r].pc = "checked" /\ RowFree(edit[r].of)
    /\ edit' = [edit EXCEPT ![r].pc = "written"]
    /\ UNCHANGED <<paper, line, trail, stamp>>

\* The row is changed if it is still there.  An update that finds it gone is
\* refused; a deletion that does is not, and is logged all the same.
WriteRow(r) ==
    /\ edit[r].pc = "checked" /\ RowFree(edit[r].of)
    /\ edit[r].op = "update" => Says(edit[r].of) # NoRow
    /\ edit' = [edit EXCEPT ![r].pc = "written"]
    /\ UNCHANGED <<paper, line, trail, stamp>>

RefuseGone(r) ==
    /\ edit[r].pc = "checked" /\ edit[r].op = "update" /\ RowFree(edit[r].of) /\ Says(edit[r].of) = NoRow
    /\ edit' = [edit EXCEPT ![r] = NotBegun]
    /\ UNCHANGED <<paper, line, trail, stamp>>

Written(x, says) ==
    IF says = NoRow THEN [x EXCEPT !.state = "deleted"] ELSE [x EXCEPT !.state = "live", !.says = says]

(* Mutation: the row and its audit row are not of one transaction. *)
CommitUnlogged(r) ==
    /\ edit[r].pc = "written"
    /\ LET e == edit[r] IN
       IF e.of \in Papers THEN paper' = [paper EXCEPT ![e.of] = Written(@, e.after)] /\ UNCHANGED line
       ELSE /\ line' = [line EXCEPT ![e.of] = IF e.op = "add"
                           THEN [state |-> "live", on |-> e.on, says |-> e.after, made |-> e.stamp]
                           ELSE Written(@, e.after)]
            /\ UNCHANGED paper
    /\ edit' = [edit EXCEPT ![r] = NotBegun]
    /\ UNCHANGED <<trail, stamp>>

CommitRow(r) ==
    /\ edit[r].pc = "written"
    /\ LET e == edit[r] IN
       /\ IF e.of \in Papers THEN paper' = [paper EXCEPT ![e.of] = Written(@, e.after)] /\ UNCHANGED line
          ELSE /\ line' = [line EXCEPT ![e.of] = IF e.op = "add"
                              THEN [state |-> "live", on |-> e.on, says |-> e.after, made |-> e.stamp]
                              ELSE Written(@, e.after)]
               /\ UNCHANGED paper
       /\ trail' = Append(trail, Logged(e.of, e.before, e.after, e.stamp))
    /\ edit' = [edit EXCEPT ![r] = NotBegun]
    /\ UNCHANGED stamp

RollBackRow(r) ==
    /\ edit[r].pc # "idle"
    /\ edit' = [edit EXCEPT ![r] = NotBegun]
    /\ UNCHANGED <<paper, line, trail, stamp>>

\* The trail of one row as it is shown: newest first.
ListForEntity(x) ==
    SortSeq(SelectSeq(trail, LAMBDA e : e.of = x), LAMBDA d, e : d.stamp > e.stamp)

(***************************************************************************)
(* Reads.                                                                  *)
(***************************************************************************)
\* A negative amount is a discount, not a thing bought.
Purchases == {l \in Lines : line[l].state = "live" /\ LivePaper(line[l].on) /\ line[l].says.amount >= 0}

NameKey(l) == Key(line[l].says.name)
Currency(l) == paper[line[l].on].says.currency
Day(l) == paper[line[l].on].says.day

Rounded(a, q) == (2 * a + q) \div (2 * q)

Price(l) ==
    LET v == line[l].says IN
    IF v.unit > 0 THEN v.unit ELSE IF v.quantity > 0 THEN Rounded(v.amount, v.quantity) ELSE v.amount

\* Of the receipt a purchase is on; 0 is none.
Discount(l) ==
    SumSet({0}) + MapThenSumSet(LAMBDA d : line[d].says.amount,
                    {d \in Lines : LineOf(d, line[l].on) /\ line[d].says.amount < 0})

LaterPurchase(l, m) ==
    \/ Day(l) > Day(m)
    \/ Day(l) = Day(m) /\ line[l].made > line[m].made
    \/ Day(l) = Day(m) /\ line[l].made = line[m].made /\ l > m

(* Mutation: the purchase entered last is the latest one. *)
EnteredLater(S, l) == 1 + Cardinality({m \in S : line[m].made > line[l].made \/ (line[m].made = line[l].made /\ m > l)})

\* The place of a purchase among those of its item.
Recency(S, l) == 1 + Cardinality({m \in S : LaterPurchase(m, l)})

ItemKeys == {<<NameKey(l), Currency(l)>> : l \in Purchases}
OfItem(k) == {l \in Purchases : <<NameKey(l), Currency(l)>> = k}

\* One row of the list of items.
ListItem(k) ==
    LET S == OfItem(k)
        last == CHOOSE l \in S : Recency(S, l) = 1
    IN  [key |-> k, name |-> line[last].says.name, purchases |-> Cardinality(S),
         last_bought |-> Max({Day(l) : l \in S}), last_price |-> Price(last),
         last_discount |-> Discount(last), last_on |-> line[last].on,
         min_price |-> Min({Price(l) : l \in S}), max_price |-> Max({Price(l) : l \in S})]

\* The purchases of one item, newest first.
ListPurchases(k) ==
    CHOOSE bought \in [1..Cardinality(OfItem(k)) -> OfItem(k)] :
       \A i, j \in DOMAIN bought : i < j => LaterPurchase(bought[i], bought[j])

SortFields == {"last_bought", "name", "purchases", "last_price"}

SortKey(field, row) ==
    CASE field = "last_bought" -> row.last_bought [] field = "name" -> row.key[1]
      [] field = "purchases" -> row.purchases     [] field = "last_price" -> row.last_price

(* Mutation: rows that tie are left in any order. *)
BeforeByField(field, descending, a, b) ==
    IF descending THEN SortKey(field, a) > SortKey(field, b) ELSE SortKey(field, a) < SortKey(field, b)

\* The key and the currency break ties, ascending whatever the order.
ItemBefore(field, descending, a, b) ==
    \/ IF descending THEN SortKey(field, a) > SortKey(field, b) ELSE SortKey(field, a) < SortKey(field, b)
    \/ /\ SortKey(field, a) = SortKey(field, b)
       /\ a.key[1] < b.key[1] \/ (a.key[1] = b.key[1] /\ a.key[2] < b.key[2])

ItemsNext ==
    \/ \E p \in Papers, lines \in SUBSET Lines, says \in PaperValues :
          \E what \in [lines -> LineValues] : SaveWithItems(p, lines, says, what)
    \/ \E r \in LineRequests :
          \/ \E p \in Papers, says \in PaperValues : AskUpdate(r, p, says)
          \/ \E p \in Papers : AskDelete(r, p)
          \/ \E p \in Papers, l \in Lines, says \in LineValues : AskAdd(r, p, l, says)
          \/ \E p \in Papers, l \in Lines, says \in LineValues : AskReplace(r, p, l, says)
          \/ \E p \in Papers, l \in Lines : AskRemove(r, p, l)
          \/ WriteRow(r) \/ RefuseGone(r) \/ CommitRow(r) \/ RollBackRow(r)

ItemsSpec == ItemsInit /\ [][ItemsNext]_itemsVars

(***************************************************************************)
(* Properties.                                                             *)
(***************************************************************************)
\* Every variable holds what its declaration says.
ItemsTypeOK ==
    /\ \A p \in Papers : /\ paper[p].state \in {"none", "live", "deleted"}
                         /\ LivePaper(p) => paper[p].says \in PaperValues
    /\ \A l \in Lines : /\ line[l].state \in {"none", "live", "deleted"}
                        /\ line[l].state = "live" => line[l].on \in Papers /\ line[l].says \in LineValues
    /\ stamp \in 0..MaxStamps
    /\ \A r \in LineRequests : edit[r].pc \in {"idle", "checked", "written"}

\* The trail accounts for the rows (OPS-1): what the audit row of the last
\* change to commit says was written is what the row says, and a row that
\* no audit row is about was never written.
TrailTellsRows ==
    \A x \in Papers \cup Lines :
       LET about == {i \in DOMAIN trail : trail[i].of = x}
       IN  IF about = {} THEN Says(x) = NoRow
           ELSE \A i \in about : (\A j \in about : j <= i) => Says(x) = trail[i].after

\* A row that was deleted is not written again.
DeletedRowsAreLeft ==
    [][/\ \A p \in Papers : paper[p].state = "deleted" => paper'[p] = paper[p]
       /\ \A l \in Lines : line[l].state = "deleted" => line'[l] = line[l]]_itemsVars

\* What the list says of an item is what its purchases say: how many there
\* are, the latest one's price and receipt, and the lowest and highest
\* price; and every purchase is of one listed item.
ItemsMatchPurchases ==
    /\ \A k \in ItemKeys :
          LET row == ListItem(k)
              bought == ListPurchases(k)
          IN  /\ row.purchases = Len(bought)
              /\ row.last_bought = Day(bought[1]) /\ row.last_on = line[bought[1]].on
              /\ row.last_price = Price(bought[1]) /\ row.last_discount = Discount(bought[1])
              /\ \A i \in DOMAIN bought : Price(bought[i]) \in row.min_price..row.max_price
    /\ SumFunction([k \in ItemKeys |-> ListItem(k).purchases]) = Cardinality(Purchases)

\* A page boundary is stable: however the list is sorted, of two items one
\* comes first, so no page repeats an item of another and none is skipped.
ItemPagesAreStable ==
    \A j, k \in ItemKeys, field \in SortFields, descending \in BOOLEAN :
       j # k => ItemBefore(field, descending, ListItem(j), ListItem(k))
                # ItemBefore(field, descending, ListItem(k), ListItem(j))

\* Not kept.  "The audit trail for one row, newest first": the first audit
\* row shown is the change that made the row what it is.
NewestFirst ==
    \A p \in Papers : ListForEntity(p) # <<>> => Head(ListForEntity(p)).after = Says(p)
===============================================================================
