------------------------------ MODULE Statements ------------------------------
(***************************************************************************)
(* Reading the rows of a bank statement or a spreadsheet                   *)
(* (domain/csv_import.rs).  A movement of money is written the way a bank  *)
(* writes it, in one signed column or in two, and read back.  Amounts are  *)
(* in hundredths; what is written is a sequence of groups of digits, each  *)
(* a value and a width, with a separator between any two.                  *)
(***************************************************************************)
EXTENDS Integers, Sequences, FiniteSets, FiniteSetsExt, Functions

CONSTANTS
    Movements,    \* amounts that moved, in hundredths: spent when negative
    Columns       \* the column mappings: "signed", "split", "out", "in"

ASSUME StatementsAssumption == Movements \subseteq Int \ {0}

VARIABLES
    written,   \* a movement, and how the statement writes it
    read       \* the row it was read as

statementsVars == <<written, read>>

------------------------------------------------------------------------------
\* What banks write.

Marks == {".", ","}
Digits(v, w) == [value |-> v, width |-> w]
Width(n) == CHOOSE w \in 1..9 : 10^(w - 1) <= n /\ n < 10^w

\* 1234567 in groups of three: <<1, 234, 567>>.
Grouped(n) ==
    IF n < 1000 THEN <<Digits(n, IF n = 0 THEN 1 ELSE Width(n))>>
    ELSE IF n < 1000000 THEN <<Digits(n \div 1000, Width(n \div 1000)), Digits(n % 1000, 3)>>
    ELSE <<Digits(n \div 1000000, Width(n \div 1000000)), Digits((n \div 1000) % 1000, 3), Digits(n % 1000, 3)>>

Plain(n) == <<Digits(n, IF n = 0 THEN 1 ELSE Width(n))>>

\* The mark between thousands, "" for none, and the decimal mark, "" when
\* the cents are left out, which a bank does where there are none.
Habits == {h \in [thousands : Marks \cup {""}, decimals : Marks \cup {""}] : 
                h.thousands = h.decimals => h.thousands = ""}
Signs == {"minus", "brackets"}

\* A sign or a currency before the digits: "Rp 5", or "Rp. 5".
Spelled == {"none", "name", "short name"}

Write(amount, habit, sign, prefix) ==
    LET size == IF amount < 0 THEN -amount ELSE amount
        whole == IF habit.thousands = "" THEN Plain(size \div 100) ELSE Grouped(size \div 100)
        cents == IF habit.decimals = "" THEN <<>> ELSE <<Digits(size % 100, 2)>>
        marks == [i \in 1..(Len(whole) - 1) |-> habit.thousands]
                 \o (IF cents = <<>> THEN <<>> ELSE <<habit.decimals>>)
    IN  [groups |-> (IF prefix = "short name" THEN <<Digits(0, 0)>> ELSE <<>>) \o whole \o cents,
         marks |-> (IF prefix = "short name" THEN <<".">> ELSE <<>>) \o marks,
         sign |-> IF amount < 0 THEN sign ELSE "none"]

CanWrite(amount, habit) == habit.decimals = "" => amount % 100 = 0

------------------------------------------------------------------------------
\* What is read.

LastOf(text, mark) == Max({0} \cup {i \in DOMAIN text.marks : text.marks[i] = mark})

(* Mutation: the mark that comes first is the decimal point. *)
FirstPoints(text) == {i \in DOMAIN text.marks : text.marks[i] = text.marks[1]}

\* The marks read as decimal points: those of the kind that comes last,
\* unless there is one kind and three digits follow its last.
PointsOf(text) ==
    LET dot == LastOf(text, ".")
        comma == LastOf(text, ",")
        last == Max({dot, comma})
    IN  IF last = 0 THEN {}
        ELSE IF /\ 0 \in {dot, comma}
                /\ text.groups[last + 1].width = 3
                /\ ~(last = 1 /\ text.groups[1].width = 0) THEN {}
        ELSE {i \in DOMAIN text.marks : text.marks[i] = text.marks[last]}

\* How many digits come after a group, and the digits as one number.
WidthAfter(groups, i) ==
    SumFunctionOnSet([j \in DOMAIN groups |-> groups[j].width], (i + 1)..Len(groups))
Joined(groups) == SumFunction([i \in DOMAIN groups |-> groups[i].value * 10^WidthAfter(groups, i)])

\* In hundredths, or unreadable: a number has one decimal point.
ParseAmount(text) ==
    LET points == PointsOf(text)
        all == Joined(text.groups)
        after == IF points = {} THEN 0 ELSE WidthAfter(text.groups, Max(points))
        size == IF after < 2 THEN all * 10^(2 - after) ELSE all \div 10^(after - 2)
    IN  IF Cardinality(points) > 1 THEN [ok |-> FALSE, value |-> 0]
        ELSE [ok |-> TRUE, value |-> IF text.sign = "none" THEN size ELSE -size]

Blank == [groups |-> <<>>, marks |-> <<>>, sign |-> "none"]

RowRead(kind, amount) == [kind |-> kind, amount |-> amount]
BadAmount == RowRead("bad amount", 0)
EmptyAmount == RowRead("no amount", 0)

Size(n) == IF n < 0 THEN -n ELSE n

\* A cell that is blank has no amount, which is not an amount of zero.
OptionalAmount(cell) ==
    IF cell = Blank THEN [given |-> FALSE, ok |-> TRUE, value |-> 0]
    ELSE [given |-> TRUE, ok |-> ParseAmount(cell).ok, value |-> ParseAmount(cell).value]

(* Mutation: of two columns, the sign tells which way the money went. *)
ReadSplitBySign(out, in) ==
    IF out.value + in.value < 0 THEN RowRead("expense", -(out.value + in.value)) ELSE RowRead("income", out.value + in.value)

\* With a figure in both columns the larger counts.
ReadSplit(out, in) ==
    IF out.given /\ (in.given => Size(out.value) >= Size(in.value))
    THEN RowRead("expense", Size(out.value))
    ELSE RowRead("income", Size(in.value))

ReadAmount(columns, row) ==
    IF columns = "signed"
    THEN LET cell == OptionalAmount(row.amount) IN
         IF ~cell.given THEN EmptyAmount ELSE IF ~cell.ok THEN BadAmount
         ELSE IF cell.value < 0 THEN RowRead("expense", -cell.value) ELSE RowRead("income", cell.value)
    ELSE LET out == OptionalAmount(IF columns = "in" THEN Blank ELSE row.out)
             in == OptionalAmount(IF columns = "out" THEN Blank ELSE row.in)
         IN  IF ~out.ok \/ ~in.ok THEN BadAmount
             ELSE IF ~out.given /\ ~in.given THEN EmptyAmount ELSE ReadSplit(out, in)

\* How a movement stands in a row: signed in one column, or unsigned in the
\* column for its direction, the other one blank or zero.
Zero(habit) == Write(0, habit, "minus", "none")

RowsOf(w) ==
    LET text == Write(w.amount, w.habit, w.sign, w.prefix)
        size == Write(Size(w.amount), w.habit, w.sign, w.prefix)
        other == IF w.filled THEN Zero(w.habit) ELSE Blank
    IN  [amount |-> text, out |-> IF w.amount < 0 THEN size ELSE other,
         in |-> IF w.amount < 0 THEN other ELSE size]

WrittenRows ==
    {w \in [amount : Movements, habit : Habits, sign : Signs, prefix : Spelled,
            columns : Columns, filled : BOOLEAN, day : {"", "read", "not read"}] :
       CanWrite(w.amount, w.habit) /\ (w.columns = "out" => w.amount < 0) /\ (w.columns = "in" => w.amount > 0)}

NotRead == RowRead("not read", 0)

StatementsInit == written \in WrittenRows /\ read = NotRead

\* The date is read first: a row without one is reported for it.
Transform ==
    /\ read = NotRead
    /\ read' = IF written.day # "read" THEN RowRead("bad date", 0)
               ELSE ReadAmount(written.columns, RowsOf(written))
    /\ UNCHANGED written

StatementsSpec == StatementsInit /\ [][Transform]_statementsVars

(***************************************************************************)
(* Properties.                                                             *)
(***************************************************************************)
Expected(w) == RowRead(IF w.amount < 0 THEN "expense" ELSE "income", Size(w.amount))

\* What a bank writes is what is read, whatever its marks, its sign and its
\* columns: the decimal point does not move and money does not change
\* direction.  A currency's name before the digits changes nothing, unless it
\* is a short one that ends in a dot: "Rp. 500" is read as a half.
RowsReadBack ==
    read # NotRead /\ written.day = "read" /\ written.prefix # "short name" => read = Expected(written)

\* Not kept.  "a decimal point cannot move": an amount that is not refused is
\* the one the statement writes, also behind a short name that ends in a dot ("Rp. 500").
DecimalPointStays ==
    read # NotRead /\ written.day = "read" /\ read.kind # "bad amount" => read = Expected(written)
===============================================================================
