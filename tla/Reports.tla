------------------------------- MODULE Reports -------------------------------
(***************************************************************************)
(* The overview page, the three analyses of the assistant, the budget      *)
(* status and the paged list of transactions.  A report runs several       *)
(* queries, each on a connection of its own and so each on the rows of its *)
(* own moment; a list reads its pages one request at a time.  Time is in   *)
(* half days: a row is of a midnight, as every plain date is, or of later  *)
(* that day.  Amounts are those of the workspace currency.                 *)
(***************************************************************************)
EXTENDS Integers, Sequences, FiniteSets, Functions

CONSTANTS
    Sheet,          \* the rows there may be: id -> kind, time, category, amount
    Periods,        \* the ranges asked for, as days <<from, to>>
    MonthLength, YearLength,   \* in half days
    MaxMonths, TopCategories, TopRows, PageSize,
    Limits,         \* budgets: category -> limit
    MaxChanges      \* bound on the rows recorded and removed

ASSUME ReportsAssumption ==
    /\ MonthLength \in Nat \ {0} /\ YearLength \in Nat \ {0} /\ YearLength % MonthLength = 0 /\ MonthLength % 2 = 0
    /\ MaxMonths \in Nat /\ TopCategories \in Nat /\ TopRows \in Nat /\ PageSize \in Nat \ {0}
    /\ IsFiniteSet(DOMAIN Sheet)
    /\ \A i \in DOMAIN Sheet : i \in Nat /\ Sheet[i].amount \in Nat \ {0} /\ Sheet[i].time \in Nat
    /\ Periods \subseteq Nat \X Nat
    /\ IsFiniteSet(DOMAIN Limits) /\ \A c \in DOMAIN Limits : Limits[c] \in Nat
    /\ MaxChanges \in Nat

VARIABLES
    recorded,   \* ids of the live rows
    report,     \* the report being built: what was asked, the parts read
    listing,    \* the list being paged through
    changes,    \* how many rows were recorded or removed
    disturbed   \* history: rows changed since the report, the list began

reportsVars == <<recorded, report, listing, changes, disturbed>>

RowKinds == {"income", "expense"}
Labels == {Sheet[i].category : i \in DOMAIN Sheet}

------------------------------------------------------------------------------
\* Ranges of time.

MonthOf(time) == time \div MonthLength
MonthsOf(r) == MonthOf(r[1])..MonthOf(r[2])

Midnight(day) == 2 * day
LastDayOf(day) == 2 * day + 1

\* To the last moment of the last day.
DayRange(days) == <<Midnight(days[1]), LastDayOf(days[2])>>

\* The plain dates of a tool call, as they are read.
RangeArgs(days) == <<Midnight(days[1]), Midnight(days[2])>>

\* The month of a day.
MonthRange(day) ==
    <<MonthOf(Midnight(day)) * MonthLength, (MonthOf(Midnight(day)) + 1) * MonthLength - 1>>

\* In order, and not too long.
ValidRange(r) == r[1] <= r[2] /\ Cardinality(MonthsOf(r)) <= MaxMonths

(* Mutation: the period before ends when this one starts. *)
PreviousOverlapping(r) == <<r[1] - (r[2] - r[1]), r[1]>>

Previous(r) == <<r[1] - 1 - (r[2] - r[1]), r[1] - 1>>
YearBefore(r) == <<r[1] - YearLength, r[2] - YearLength>>

------------------------------------------------------------------------------
\* The queries.

Covered(r, k) == {i \in recorded : Sheet[i].kind = k /\ Sheet[i].time \in r[1]..r[2]}
SumOf(ids) == SumFunctionOnSet([i \in DOMAIN Sheet |-> Sheet[i].amount], ids)

Totals(r) == [k \in RowKinds |-> [total |-> SumOf(Covered(r, k)), count |-> Cardinality(Covered(r, k))]]

\* Grouped in the database, so only months and categories that have a row.
GroupBy(ids, group) ==
    [g \in {group[i] : i \in ids} |-> SumOf({i \in ids : group[i] = g})]
ByMonth(r) == [k \in RowKinds |-> GroupBy(Covered(r, k), [i \in DOMAIN Sheet |-> MonthOf(Sheet[i].time)])]
ByCategory(r) == [k \in RowKinds |-> GroupBy(Covered(r, k), [i \in DOMAIN Sheet |-> Sheet[i].category])]

(* Mutation: what is equal comes in any order. *)
SortsBeforeByKey(sort, i, j) ==
    \/ sort = "amount" /\ Sheet[i].amount > Sheet[j].amount
    \/ sort = "date" /\ Sheet[i].time > Sheet[j].time

\* Newest or largest first; ids, which follow the creation, break ties.
SortsBefore(sort, i, j) ==
    \/ sort = "amount" /\ Sheet[i].amount > Sheet[j].amount
    \/ sort = "date" /\ Sheet[i].time > Sheet[j].time
    \/ sort = "amount" /\ Sheet[i].amount = Sheet[j].amount /\ i > j
    \/ sort = "date" /\ Sheet[i].time = Sheet[j].time /\ i > j

\* Every order the database may return: whatever the sort leaves open.
Orders(ids, sort) ==
    {s \in Bijection(1..Cardinality(ids), ids) :
       \A a, b \in 1..Cardinality(ids) : SortsBefore(sort, s[a], s[b]) => a < b}

AtMost(n, s) == SubSeq(s, 1, IF Len(s) < n THEN Len(s) ELSE n)
OnePage(s, page) == AtMost(PageSize, SubSeq(s, (page - 1) * PageSize + 1, Len(s)))

------------------------------------------------------------------------------
\* What is made of the answers.

MonthTotal(byMonth, k, month) == IF month \in DOMAIN byMonth[k] THEN byMonth[k][month] ELSE 0

\* Every month of the range, the empty ones as zero.
MonthValues(r, byMonth, k) == [month \in MonthsOf(r) |-> MonthTotal(byMonth, k, month)]

(* Mutation: what is past the largest is left out. *)
BreakdownWithoutOther(byCategory, k) ==
    LET all == DOMAIN byCategory[k]
        top == CHOOSE s \in SUBSET all :
                  /\ Cardinality(s) = (IF Cardinality(all) < TopCategories THEN Cardinality(all) ELSE TopCategories)
                  /\ \A c \in s, d \in all \ s : byCategory[k][c] >= byCategory[k][d]
    IN [named |-> Restrict(byCategory[k], top), other |-> 0]

\* The largest categories, and the rest as "Other".
Breakdown(byCategory, k) ==
    LET all == DOMAIN byCategory[k]
        top == CHOOSE s \in SUBSET all :
                  /\ Cardinality(s) = (IF Cardinality(all) < TopCategories THEN Cardinality(all) ELSE TopCategories)
                  /\ \A c \in s, d \in all \ s : byCategory[k][c] >= byCategory[k][d]
    IN [named |-> Restrict(byCategory[k], top),
        other |-> SumFunctionOnSet(byCategory[k], all \ top)]

Change(now, before) == [change |-> now - before,
    direction |-> IF now = before THEN "flat" ELSE IF now > before THEN "up" ELSE "down"]

\* At the scale the amounts are stored with, a half to the even one.
Mean(total, months) ==
    LET whole == total \div months  twice == 2 * (total % months)
        up == twice > months \/ (twice = months /\ whole % 2 = 1)
    IN IF months = 0 THEN 0 ELSE IF up THEN whole + 1 ELSE whole

MonthsAbove(values, total) ==
    {month \in DOMAIN values : values[month] > Mean(total, Cardinality(DOMAIN values))}

\* A whole percentage, halves up; nothing of a limit that is not there.
UsedPercent(spent, limit) == IF limit = 0 THEN 0 ELSE (spent * 200 + limit) \div (2 * limit)

(* Mutation: a limit that is used up counts as over. *)
StateAtLimit(percent) ==
    IF percent >= 100 THEN "over" ELSE IF percent >= 80 THEN "warning" ELSE "safe"

BudgetStateOf(percent) ==
    IF percent > 100 THEN "over" ELSE IF percent >= 80 THEN "warning" ELSE "safe"

BudgetLine(c, usage) ==
    [limit |-> Limits[c], spent |-> usage[c], remaining |-> Limits[c] - usage[c],
     state |-> BudgetStateOf(UsedPercent(usage[c], Limits[c]))]

\* The totals are over every budget, whatever the search leaves on the page.
BudgetStatus(usage, shown) ==
    LET lines == [c \in DOMAIN Limits |-> BudgetLine(c, usage)]
        budgeted == SumFunction([c \in DOMAIN lines |-> lines[c].limit])
        spentAll == SumFunction([c \in DOMAIN lines |-> lines[c].spent])
    IN [budgeted |-> budgeted, spent |-> spentAll, remaining |-> budgeted - spentAll,
        over |-> Cardinality({c \in DOMAIN lines : lines[c].state = "over"}),
        lines |-> Restrict(lines, shown)]

------------------------------------------------------------------------------
\* Reports, one query at a time and in any order.

PartsOf(asked) ==
    CASE asked = "totals"    -> {"total", "categories"}
      [] asked = "summary"   -> {"total", "before", "categories"}
      [] asked = "overview"  -> {"total", "before", "months", "categories"}
      [] asked = "spending"  -> {"total", "before", "categories", "rows"}
      [] asked = "income"    -> {"total", "before", "months", "months_before", "categories", "rows"}
      [] asked = "burn_rate" -> {"total", "before", "months"}
      [] asked = "budgets"   -> {"usage"}
      [] OTHER -> {}

Analyses == {"overview", "spending", "income", "burn_rate"}
KindOfReport(asked) == IF asked = "income" THEN "income" ELSE "expense"

NoReport == [asked |-> "nothing", days |-> <<0, 0>>, range |-> <<0, 0>>, parts |-> <<>>]
NoListing == [at |-> "closed", sort |-> "date", page |-> 1, got |-> <<>>, total |-> 0]

ReportsInit ==
    /\ recorded \in SUBSET DOMAIN Sheet
    /\ report = NoReport /\ listing = NoListing /\ changes = 0
    /\ disturbed = [report |-> FALSE, listing |-> FALSE]

\* Reads do not meet each other, so one at a time is enough.
NothingAsked == report.asked = "nothing" /\ listing.at = "closed"

AskReport(asked, days, r) ==
    /\ report' = [asked |-> asked, days |-> days, range |-> r, parts |-> <<>>]
    /\ disturbed' = [disturbed EXCEPT !.report = FALSE]
    /\ UNCHANGED <<recorded, listing, changes>>

AskAnalysis(asked, days) ==
    /\ NothingAsked /\ ValidRange(DayRange(days))
    /\ AskReport(asked, days, DayRange(days))

\* The totals above the list: any two dates.
AskTotals(days) ==
    /\ NothingAsked
    /\ AskReport("totals", days, DayRange(days))

\* The summary the assistant asks for.
AskSummary(days) ==
    /\ NothingAsked /\ days[1] <= days[2]
    /\ AskReport("summary", days, RangeArgs(days))

\* The budgets of one month.
AskBudgets(days) ==
    /\ NothingAsked
    /\ AskReport("budgets", days, MonthRange(days[1]))

\* The expenses of each budget's category.
Usage(r) ==
    [c \in DOMAIN Limits |-> SumOf({i \in Covered(r, "expense") : Sheet[i].category = c})]

ReportRows(asked, r) ==
    CHOOSE s \in Orders(Covered(r, KindOfReport(asked)), IF asked = "income" THEN "date" ELSE "amount") : TRUE

PartValue(part) ==
    LET r == report.range
    IN CASE part = "total"         -> Totals(r)
         [] part = "before"        -> Totals(Previous(r))
         [] part = "months"        -> ByMonth(r)
         [] part = "months_before" -> ByMonth(YearBefore(r))
         [] part = "categories"    -> ByCategory(r)
         [] part = "rows"          -> AtMost(TopRows, ReportRows(report.asked, r))
         [] part = "usage"         -> Usage(r)

ReadPart(part) ==
    /\ part \in PartsOf(report.asked) \ DOMAIN report.parts
    /\ report' = [report EXCEPT !.parts =
          [p \in DOMAIN @ \cup {part} |-> IF p = part THEN PartValue(part) ELSE @[p]]]
    /\ UNCHANGED <<recorded, listing, changes, disturbed>>

ReportDone == report.asked # "nothing" /\ DOMAIN report.parts = PartsOf(report.asked)

EndReport ==
    /\ ReportDone
    /\ report' = NoReport
    /\ UNCHANGED <<recorded, listing, changes, disturbed>>

------------------------------------------------------------------------------
\* The list of transactions, page by page; a page reads its rows and then
\* their number.

OpenList(sort) ==
    /\ NothingAsked
    /\ listing' = [NoListing EXCEPT !.at = "rows", !.sort = sort]
    /\ disturbed' = [disturbed EXCEPT !.listing = FALSE]
    /\ UNCHANGED <<recorded, report, changes>>

ReadRows ==
    /\ listing.at = "rows"
    /\ \E s \in Orders(recorded, listing.sort) :
          listing' = [listing EXCEPT !.at = "count", !.got = @ \o OnePage(s, listing.page)]
    /\ UNCHANGED <<recorded, report, changes, disturbed>>

ReadCount ==
    /\ listing.at = "count"
    /\ LET total == Cardinality(recorded)
       IN listing' = [listing EXCEPT !.total = total, !.page = @ + 1,
                        !.at = IF listing.page * PageSize < total THEN "rows" ELSE "read"]
    /\ UNCHANGED <<recorded, report, changes, disturbed>>

CloseList ==
    /\ listing.at = "read"
    /\ listing' = NoListing
    /\ UNCHANGED <<recorded, report, changes, disturbed>>

------------------------------------------------------------------------------
\* Somebody records or removes a row.

ChangeRow(i) ==
    /\ changes < MaxChanges
    /\ recorded' = IF i \in recorded THEN recorded \ {i} ELSE recorded \cup {i}
    /\ changes' = changes + 1
    /\ disturbed' = [report |-> TRUE, listing |-> TRUE]
    /\ UNCHANGED <<report, listing>>

ReportsNext ==
    \/ \E days \in Periods :
          \/ \E asked \in Analyses : AskAnalysis(asked, days)
          \/ AskTotals(days) \/ AskSummary(days) \/ AskBudgets(days)
    \/ \E part \in PartsOf(report.asked) : ReadPart(part)
    \/ EndReport
    \/ \E sort \in {"date", "amount"} : OpenList(sort)
    \/ ReadRows \/ ReadCount \/ CloseList
    \/ \E i \in DOMAIN Sheet : ChangeRow(i)

ReportsSpec == ReportsInit /\ [][ReportsNext]_reportsVars

(***************************************************************************)
(* Properties.                                                             *)
(***************************************************************************)
\* Every variable holds what its declaration says.
ReportsTypeOK ==
    /\ recorded \subseteq DOMAIN Sheet
    /\ report.asked \in Analyses \cup {"nothing", "totals", "summary", "budgets"}
    /\ DOMAIN report.parts \subseteq PartsOf(report.asked)
    /\ listing.at \in {"closed", "rows", "count", "read"} /\ listing.page \in Nat
    /\ changes \in 0..MaxChanges /\ disturbed \in [report : BOOLEAN, listing : BOOLEAN]

SlicesAddUp(k) ==
    LET shares == Breakdown(report.parts["categories"], k)
    IN /\ SumFunction(shares.named) + shares.other = report.parts["total"][k].total
       /\ Cardinality(DOMAIN shares.named) <= TopCategories
       /\ \A c \in DOMAIN shares.named :
             shares.other > 0 => \A d \in Labels \ DOMAIN shares.named :
                shares.named[c] >= (IF d \in DOMAIN report.parts["categories"][k]
                                    THEN report.parts["categories"][k][d] ELSE 0)

MonthsAddUp(k) ==
    LET values == MonthValues(report.range, report.parts["months"], k)
        total == report.parts["total"][k].total
    IN /\ SumFunction(values) = total
       /\ MonthsAbove(values, total) # DOMAIN values

\* The two periods touch and neither counts a row of the other.
PeriodsMeet(k) ==
    LET now == report.parts["total"][k]  earlier == report.parts["before"][k]
        both == Covered(<<Previous(report.range)[1], report.range[2]>>, k)
    IN /\ now.total + earlier.total = SumOf(both)
       /\ now.count + earlier.count = Cardinality(both)
       /\ (Change(now.total, earlier.total).direction = "up") <=> now.total > earlier.total

RowsAreTop(k) ==
    LET s == report.parts["rows"]
        sort == IF k = "income" THEN "date" ELSE "amount"
    IN /\ \A a, b \in DOMAIN s : a < b => SortsBefore(sort, s[a], s[b])
       /\ Len(s) < TopRows => Len(s) = report.parts["total"][k].count
       /\ \A i \in Covered(report.range, k) \ Range(s) : \A a \in DOMAIN s : SortsBefore(sort, s[a], i)

KindsShown == IF report.asked \in {"overview", "totals"} THEN RowKinds ELSE {KindOfReport(report.asked)}

\* As long as nobody writes while a report is built, its separate answers
\* agree: the slices and "Other" add up to the total, so do the months, the
\* period before ends where this one starts, and the table lists the top.
UndisturbedReportsAgree ==
    ReportDone /\ ~disturbed.report => \A k \in KindsShown :
       LET parts == DOMAIN report.parts
       IN /\ {"categories", "total"} \subseteq parts => SlicesAddUp(k)
          /\ {"months", "total"} \subseteq parts => MonthsAddUp(k)
          /\ {"total", "before"} \subseteq parts => PeriodsMeet(k)
          /\ "rows" \in parts => RowsAreTop(k)

\* Whatever the search leaves on the page, the cards tell of every budget,
\* and a budget called over is one whose limit is exceeded.
BudgetCardsAgree ==
    ReportDone /\ report.asked = "budgets" => \A shown \in SUBSET DOMAIN Limits :
       LET status == BudgetStatus(report.parts["usage"], shown)
           all == BudgetStatus(report.parts["usage"], DOMAIN Limits).lines
       IN /\ status.remaining = SumFunction([c \in DOMAIN Limits |-> Limits[c] - report.parts["usage"][c]])
          /\ status.over <= Cardinality({c \in DOMAIN Limits : all[c].remaining < 0})
          /\ \A c \in shown : status.lines[c].state = "over" => status.lines[c].remaining < 0

\* As long as nobody writes, paging through a list shows every row once.
PagesCoverOnce ==
    listing.at = "read" /\ ~disturbed.listing =>
       /\ Range(listing.got) = recorded
       /\ Len(listing.got) = listing.total

\* Not kept.  What the tool says of its dates: the end of the range is
\* inclusive.
RangeIsInclusive ==
    ReportDone /\ ~disturbed.report /\ report.asked = "summary" =>
       report.parts["total"] = Totals(DayRange(report.days))
===============================================================================
