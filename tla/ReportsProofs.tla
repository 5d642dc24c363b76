--------------------------- MODULE ReportsProofs ---------------------------
(***************************************************************************)
(* For every sheet of rows, every range, limit and size of a page: the     *)
(* figures of a report nobody disturbed agree with each other, the cards   *)
(* of the budgets with the limits, and the pages of a list with the rows.  *)
(***************************************************************************)
EXTENDS Reports, SumProofs

(* What the proofs need of the constants.                                  *)
LEMMA ReportsBounds ==
    /\ MonthLength \in Nat \ {0} /\ YearLength \in Nat
    /\ MaxMonths \in Nat /\ TopCategories \in Nat /\ TopRows \in Nat /\ PageSize \in Nat \ {0}
    /\ \A i \in DOMAIN Sheet : i \in Nat /\ Sheet[i].time \in Nat
    /\ \A days \in Periods : days[1] \in Nat /\ days[2] \in Nat
    /\ IsFiniteSet(DOMAIN Limits) /\ \A c \in DOMAIN Limits : Limits[c] \in Nat
  BY ReportsAssumption

(***************************************************************************)
(* The sums of a report.                                                   *)
(***************************************************************************)
RowAmounts == [i \in DOMAIN Sheet |-> Sheet[i].amount]

LEMMA SumsOfRows ==
    ASSUME NEW ids \in SUBSET DOMAIN Sheet
    PROVE  /\ IsFiniteSet(ids) /\ Numbers(RowAmounts, ids)
           /\ SumOf(ids) = SumFunctionOnSet(RowAmounts, ids) /\ SumOf(ids) \in Nat
  <1>1. IsFiniteSet(ids)
    BY ReportsAssumption, FS_Subset
  <1>2. \A i \in ids : RowAmounts[i] \in Nat
    BY ReportsAssumption DEF RowAmounts
  <1>3. SumFunctionOnSet(RowAmounts, ids) \in Nat
    BY <1>1, <1>2, SumOfNaturals
  <1>4. QED
    BY <1>1, <1>2, <1>3 DEF Numbers, SumOf, RowAmounts

(* Grouped rows: the groups are finite, their sums natural numbers which   *)
(* add up to that of the rows.                                             *)
LEMMA GroupsOfRows ==
    ASSUME NEW ids \in SUBSET DOMAIN Sheet, NEW group
    PROVE  /\ IsFiniteSet(DOMAIN GroupBy(ids, group))
           /\ \A g \in DOMAIN GroupBy(ids, group) : GroupBy(ids, group)[g] \in Nat
           /\ SumFunctionOnSet(GroupBy(ids, group), DOMAIN GroupBy(ids, group)) = SumOf(ids)
  <1> DEFINE sums == GroupBy(ids, group)
             groups == {group[i] : i \in ids}
  <1>1. DOMAIN sums = groups /\ \A g \in groups : sums[g] = SumOf({i \in ids : group[i] = g})
    BY DEF GroupBy
  <1> HIDE DEF sums
  <1>2. IsFiniteSet(ids)
    BY SumsOfRows
  <1>3. IsFiniteSet(groups)
    <2> DEFINE groupOf == [i \in ids |-> group[i]]
    <2>1. groupOf \in Surjection(ids, groups)
      BY DEF Surjection
    <2>2. QED
      BY <1>2, <2>1, FS_Surjection
  <1> HIDE DEF groups
  <1>4. \A g : {i \in ids : group[i] = g} \in SUBSET DOMAIN Sheet
    OBVIOUS
  <1>5. \A g \in groups : sums[g] \in Nat /\ sums[g] = SumFunctionOnSet(RowAmounts, {i \in ids : group[i] = g})
    BY <1>1, <1>4, SumsOfRows
  <1>6. Numbers(RowAmounts, ids)
    BY SumsOfRows
  <1>7. SumFunctionOnSet(sums, groups) = SumFunctionOnSet(RowAmounts, {i \in ids : group[i] \in groups})
    <2>1. AreGroupSums(sums, RowAmounts, ids, group, groups)
      BY <1>5 DEF AreGroupSums
    <2>2. QED
      BY <1>2, <1>3, <1>6, <2>1, SumOfGroups
  <1>8. {i \in ids : group[i] \in groups} = ids
    BY DEF groups
  <1>9. SumFunctionOnSet(sums, groups) = SumOf(ids)
    BY <1>7, <1>8, SumsOfRows
  <1>10. QED
    BY <1>1, <1>3, <1>5, <1>9 DEF sums

(* The largest categories and "Other" are all there is.                    *)
LEMMA SlicesFit ==
    ASSUME NEW ids \in SUBSET DOMAIN Sheet, NEW group, NEW k, NEW byCategory,
           byCategory[k] = GroupBy(ids, group)
    PROVE  LET shares == Breakdown(byCategory, k)
           IN /\ SumFunction(shares.named) + shares.other = SumOf(ids)
              /\ Cardinality(DOMAIN shares.named) <= TopCategories
              /\ \A c \in DOMAIN shares.named : \A d :
                   d \notin DOMAIN shares.named =>
                     shares.named[c] >= (IF d \in DOMAIN byCategory[k] THEN byCategory[k][d] ELSE 0)
  <1> DEFINE sums == byCategory[k]
             all == DOMAIN sums
             n == IF Cardinality(all) < TopCategories THEN Cardinality(all) ELSE TopCategories
             IsTop(s) == /\ Cardinality(s) = n
                         /\ \A c \in s, d \in all \ s : sums[c] >= sums[d]
             top == CHOOSE s \in SUBSET all : IsTop(s)
             shares == Breakdown(byCategory, k)
  <1>1. /\ IsFiniteSet(all) /\ \A c \in all : sums[c] \in Nat
        /\ SumFunctionOnSet(sums, all) = SumOf(ids)
    BY GroupsOfRows
  <1> HIDE DEF all
  <1>2. Numbers(sums, all)
    BY <1>1 DEF Numbers
  <1>3. Cardinality(all) \in Nat
    BY <1>1, FS_CardinalityType
  <1>4. n \in Nat /\ n <= Cardinality(all) /\ n <= TopCategories
    BY <1>3, ReportsBounds
  <1> HIDE DEF n
  <1>5. \E s \in SUBSET all : IsTop(s)
    <2> HIDE DEF sums
    <2>1. QED
      BY <1>1, <1>2, <1>4, SomeAreLargest
  <1>6. top \in SUBSET all /\ IsTop(top)
    <2> HIDE DEF IsTop
    <2>1. QED
      BY <1>5
  <1>7. shares = [named |-> Restrict(sums, top), other |-> SumFunctionOnSet(sums, all \ top)]
    BY DEF Breakdown, all, n
  <1> HIDE DEF shares, top
  <1>8. shares.named = [c \in top |-> sums[c]] /\ shares.other = SumFunctionOnSet(sums, all \ top)
    BY <1>7 DEF Restrict
  <1> HIDE DEF sums
  <1>9. DOMAIN shares.named = top /\ \A c \in top : shares.named[c] = sums[c]
    BY <1>8
  <1>10. /\ IsFiniteSet(top) /\ IsFiniteSet(all \ top) /\ Numbers(sums, top) /\ Numbers(sums, all \ top)
         /\ top \cup (all \ top) = all /\ top \cap (all \ top) = {}
    BY <1>1, <1>2, <1>6, FS_Subset DEF Numbers
  <1>11. Numbers(shares.named, top)
    BY <1>9, <1>10 DEF Numbers
  <1>12. SumFunction(shares.named) = SumFunctionOnSet(sums, top)
    BY <1>9, <1>10, <1>11, SumOfEquals DEF SumFunction
  <1>13. SumFunctionOnSet(sums, top \cup (all \ top))
           = SumFunctionOnSet(sums, top) + SumFunctionOnSet(sums, all \ top)
    BY <1>10, SumJoins
  <1>14. SumFunction(shares.named) + shares.other = SumOf(ids)
    BY <1>1, <1>8, <1>10, <1>12, <1>13
  <1>15. ASSUME NEW c \in top, NEW d, d \notin top
         PROVE  shares.named[c] >= (IF d \in all THEN sums[d] ELSE 0)
    BY <1>1, <1>6, <1>9, <1>15
  <1>16. Cardinality(top) <= TopCategories
    BY <1>4, <1>6
  <1>17. QED
    BY <1>9, <1>14, <1>15, <1>16 DEF all, sums, shares

(* A later time is of the same month or of a later one.                    *)
LEMMA MonthsGrow ==
    ASSUME NEW a \in Nat, NEW b \in Nat, a <= b
    PROVE  MonthOf(a) \in Nat /\ MonthOf(b) \in Nat /\ MonthOf(a) <= MonthOf(b)
  <1>1. PICK m \in Nat \ {0} : m = MonthLength
    BY ReportsBounds
  <1>2. PICK p \in Nat : p = a \div m
    OBVIOUS
  <1>3. PICK q \in Nat : q = b \div m
    OBVIOUS
  <1>4. m * p <= a /\ b < m * q + m
    BY <1>2, <1>3
  <1>5. p <= q
    <2> SUFFICES ASSUME q + 1 <= p PROVE FALSE
      OBVIOUS
    <2>1. m * (q + 1) <= m * p
      OBVIOUS
    <2>2. m * (q + 1) = m * q + m
      OBVIOUS
    <2>3. m * p \in Int /\ m * q \in Int
      OBVIOUS
    <2>4. QED
      BY <1>4, <2>1, <2>2, <2>3
  <1>6. QED
    BY <1>1, <1>2, <1>3, <1>5 DEF MonthOf

(* A mean is less than one unit from what it rounds.                       *)
LEMMA MeanIsNear ==
    ASSUME NEW total \in Nat, NEW n \in Nat \ {0}
    PROVE  \E q \in Nat : total < (q + 1) * n /\ Mean(total, n) \in {q, q + 1}
  <1>1. PICK q \in Nat : q = total \div n
    OBVIOUS
  <1>2. total < (q + 1) * n
    BY <1>1
  <1>3. Mean(total, n) \in {q, q + 1}
    BY <1>1 DEF Mean
  <1>4. QED
    BY <1>2, <1>3

(* The months of a range add up to its rows, and cannot all be above the   *)
(* average.                                                                *)
LEMMA MonthsFit ==
    ASSUME NEW r, r[1] \in Nat, r[2] \in Nat, r[1] <= r[2],
           NEW ids \in SUBSET DOMAIN Sheet, \A i \in ids : Sheet[i].time \in r[1]..r[2],
           NEW k, NEW byMonth,
           byMonth[k] = GroupBy(ids, [i \in DOMAIN Sheet |-> MonthOf(Sheet[i].time)])
    PROVE  LET values == MonthValues(r, byMonth, k)
           IN /\ SumFunction(values) = SumOf(ids)
              /\ MonthsAbove(values, SumOf(ids)) # DOMAIN values
  <1> DEFINE month == [i \in DOMAIN Sheet |-> MonthOf(Sheet[i].time)]
             months == MonthsOf(r)
             values == MonthValues(r, byMonth, k)
             total == SumOf(ids)
             n == Cardinality(months)
  <1>1. /\ MonthOf(r[1]) \in Nat /\ MonthOf(r[2]) \in Nat /\ MonthOf(r[1]) <= MonthOf(r[2])
        /\ \A i \in ids : month[i] \in months
    <2>1. \A i \in ids : Sheet[i].time \in Nat
      BY ReportsBounds
    <2>2. \A i \in ids : /\ MonthOf(Sheet[i].time) \in Nat
                         /\ MonthOf(r[1]) <= MonthOf(Sheet[i].time)
                         /\ MonthOf(Sheet[i].time) <= MonthOf(r[2])
      BY <2>1, MonthsGrow
    <2>3. /\ MonthOf(r[1]) \in Nat /\ MonthOf(r[2]) \in Nat /\ MonthOf(r[1]) <= MonthOf(r[2])
      BY MonthsGrow
    <2>4. QED
      BY <2>2, <2>3 DEF MonthsOf
  <1>2. IsFiniteSet(months) /\ months # {}
    BY <1>1, FS_Interval DEF MonthsOf
  <1>3. n \in Nat
    BY <1>2, FS_CardinalityType
  <1>4. IsFiniteSet(ids) /\ Numbers(RowAmounts, ids) /\ total \in Nat
        /\ total = SumFunctionOnSet(RowAmounts, ids)
    BY SumsOfRows
  <1>5. ASSUME NEW m \in months
        PROVE  /\ values[m] = SumFunctionOnSet(RowAmounts, {i \in ids : month[i] = m})
               /\ values[m] \in Nat
    <2> DEFINE those == {i \in ids : month[i] = m}
    <2>1. those \in SUBSET DOMAIN Sheet
      OBVIOUS
    <2>2. values[m] = SumOf(those)
      <3>1. values[m] = IF m \in DOMAIN byMonth[k] THEN byMonth[k][m] ELSE 0
        BY DEF MonthValues, MonthTotal
      <3>2. DOMAIN byMonth[k] = {month[i] : i \in ids}
        BY DEF GroupBy
      <3>3. CASE m \in DOMAIN byMonth[k]
        BY <3>1, <3>2, <3>3 DEF GroupBy
      <3>4. CASE m \notin DOMAIN byMonth[k]
        <4>1. those = {}
          BY <3>2, <3>4
        <4>2. SumOf(those) = 0
          BY <4>1, SumOfNone DEF SumOf
        <4>3. QED
          BY <3>1, <3>4, <4>2
      <3>5. QED
        BY <3>3, <3>4
    <2>3. QED
      BY <2>1, <2>2, SumsOfRows
  <1>6. /\ DOMAIN values = months
        /\ \A m \in months : values[m] \in Nat
        /\ AreGroupSums(values, RowAmounts, ids, month, months)
    <2>1. DOMAIN values = months
      BY DEF MonthValues
    <2> HIDE DEF values, month, months
    <2>2. QED
      BY <1>5, <2>1, Zenon DEF AreGroupSums
  <1> HIDE DEF values, month, months, total
  <1>7. SumFunctionOnSet(values, months) = total
    <2>1. SumFunctionOnSet(values, months)
            = SumFunctionOnSet(RowAmounts, {i \in ids : month[i] \in months})
      BY <1>2, <1>4, <1>6, SumOfGroups
    <2>2. {i \in ids : month[i] \in months} = ids
      BY <1>1
    <2>3. QED
      BY <1>4, <2>1, <2>2
  <1>8. ASSUME MonthsAbove(values, total) = months
        PROVE  FALSE
    <2> HIDE DEF n
    <2> DEFINE each == [m \in months |-> total]
               shares == [m \in months |-> values[m] * n]
    <2>1. \A m \in months : values[m] * n > total
      <3>1. n # 0
        BY <1>2, FS_EmptySet DEF n
      <3>2. PICK q \in Nat : total < (q + 1) * n /\ Mean(total, n) \in {q, q + 1}
        BY <1>3, <1>4, <3>1, MeanIsNear
      <3>3. \A m \in months : values[m] \in Nat /\ q + 1 <= values[m]
        BY <1>6, <1>8, <3>2 DEF MonthsAbove, n
      <3>4. \A m \in months : (q + 1) * n <= values[m] * n
        BY <1>3, <3>3
      <3>5. QED
        BY <1>3, <1>4, <3>2, <3>3, <3>4
    <2>2. Numbers(values, months)
      BY <1>6 DEF Numbers
    <2>3. /\ Numbers(each, months) /\ \A m \in months : each[m] = total
          /\ Numbers(shares, months) /\ \A m \in months : shares[m] = values[m] * n
      <3>1. \A m \in months : values[m] * n \in Int
        BY <1>3, <1>6
      <3>2. QED
        BY <1>4, <3>1 DEF Numbers
    <2> HIDE DEF each, shares
    <2>4. SumFunctionOnSet(each, months) = n * total
      BY <1>2, <1>4, <2>3, SumOfSame DEF n
    <2>5. SumFunctionOnSet(shares, months) = SumFunctionOnSet(values, months) * n
      BY <1>2, <1>3, <2>2, <2>3, SumOfMultiples
    <2>6. /\ \A m \in months : each[m] <= shares[m]
          /\ \E m \in months : each[m] < shares[m]
      <3>1. \A m \in months : each[m] < shares[m]
        BY <2>1, <2>3, <1>3, <1>4, <1>6
      <3>2. QED
        BY <1>2, <3>1, <2>3 DEF Numbers
    <2>7. SumFunctionOnSet(each, months) < SumFunctionOnSet(shares, months)
      BY <1>2, <2>3, <2>6, SumOfLarger
    <2>8. total * n = n * total /\ total * n \in Int
      BY <1>3, <1>4
    <2>9. QED
      BY <1>7, <2>4, <2>5, <2>7, <2>8
  <1>9. QED
    BY <1>6, <1>7, <1>8 DEF SumFunction, values, total

(* A range and the one before share no row.                                *)
LEMMA PeriodsFit ==
    ASSUME recorded \in SUBSET DOMAIN Sheet,
           NEW r, r[1] \in Int, r[2] \in Int, r[1] <= r[2], NEW k
    PROVE  LET both == Covered(<<Previous(r)[1], r[2]>>, k)
           IN /\ SumOf(Covered(r, k)) + SumOf(Covered(Previous(r), k)) = SumOf(both)
              /\ Cardinality(Covered(r, k)) + Cardinality(Covered(Previous(r), k)) = Cardinality(both)
  <1> DEFINE now == Covered(r, k)
             earlier == Covered(Previous(r), k)
             both == Covered(<<Previous(r)[1], r[2]>>, k)
  <1>1. /\ Previous(r)[1] = r[1] - 1 - (r[2] - r[1]) /\ Previous(r)[2] = r[1] - 1
        /\ <<Previous(r)[1], r[2]>>[1] = Previous(r)[1] /\ <<Previous(r)[1], r[2]>>[2] = r[2]
    BY DEF Previous
  <1>2. now \cup earlier = both /\ now \cap earlier = {}
    BY <1>1 DEF Covered
  <1>3. now \in SUBSET DOMAIN Sheet /\ earlier \in SUBSET DOMAIN Sheet /\ both \in SUBSET DOMAIN Sheet
    BY DEF Covered
  <1> HIDE DEF now, earlier, both
  <1>4. /\ IsFiniteSet(now) /\ Numbers(RowAmounts, now) /\ SumOf(now) = SumFunctionOnSet(RowAmounts, now)
        /\ IsFiniteSet(earlier) /\ Numbers(RowAmounts, earlier)
        /\ SumOf(earlier) = SumFunctionOnSet(RowAmounts, earlier)
        /\ SumOf(both) = SumFunctionOnSet(RowAmounts, both)
    BY <1>3, SumsOfRows
  <1>5. SumOf(now) + SumOf(earlier) = SumOf(both)
    BY <1>2, <1>4, SumJoins
  <1>6. Cardinality(now) + Cardinality(earlier) = Cardinality(both)
    <2>1. Cardinality(now \cup earlier) = Cardinality(now) + Cardinality(earlier) - Cardinality(now \cap earlier)
      BY <1>4, FS_Union
    <2>2. Cardinality(now \cap earlier) = 0 /\ Cardinality(now) \in Nat /\ Cardinality(earlier) \in Nat
      BY <1>2, <1>4, FS_EmptySet, FS_CardinalityType
    <2>3. PICK m \in Nat, n \in Nat : m = Cardinality(now) /\ n = Cardinality(earlier)
      BY <2>2
    <2>4. Cardinality(both) = m + n - 0
      BY <1>2, <2>1, <2>2, <2>3, Zenon
    <2>5. QED
      BY <2>3, <2>4
  <1>7. QED
    BY <1>5, <1>6 DEF now, earlier, both

(***************************************************************************)
(* Rows in order.                                                          *)
(***************************************************************************)
Sorts == {"date", "amount"}

(* Of two rows one sorts before the other.                                 *)
LEMMA SortsTotally ==
    ASSUME NEW sort \in Sorts, NEW i \in DOMAIN Sheet, NEW j \in DOMAIN Sheet, NEW l \in DOMAIN Sheet
    PROVE  /\ i # j => SortsBefore(sort, i, j) \/ SortsBefore(sort, j, i)
           /\ ~(SortsBefore(sort, i, j) /\ SortsBefore(sort, j, i))
           /\ SortsBefore(sort, i, j) /\ SortsBefore(sort, j, l) => SortsBefore(sort, i, l)
  <1>1. /\ i \in Nat /\ j \in Nat /\ l \in Nat
        /\ Sheet[i].amount \in Nat /\ Sheet[j].amount \in Nat /\ Sheet[l].amount \in Nat
        /\ Sheet[i].time \in Nat /\ Sheet[j].time \in Nat /\ Sheet[l].time \in Nat
    BY ReportsAssumption
  <1>2. CASE sort = "amount"
    BY <1>1, <1>2 DEF SortsBefore
  <1>3. CASE sort = "date"
    BY <1>1, <1>3 DEF SortsBefore
  <1>4. QED
    BY <1>2, <1>3 DEF Sorts

(* Of some rows one comes last.                                            *)
LEMMA OneComesLast ==
    ASSUME NEW sort \in Sorts, NEW ids \in SUBSET DOMAIN Sheet, ids # {}
    PROVE  \E z \in ids : \A x \in ids \ {z} : SortsBefore(sort, x, z)
  <1> DEFINE Last(s, z) == \A x \in s \ {z} : SortsBefore(sort, x, z)
             P == {s \in SUBSET ids : s # {} => \E z \in s : Last(s, z)}
  <1>1. ASSUME NEW s \in SUBSET ids, \A r \in SUBSET s : r # s => r \in P
        PROVE  s \in P
    <2> SUFFICES ASSUME s # {} PROVE \E z \in s : Last(s, z)
      OBVIOUS
    <2>1. PICK a \in s : TRUE
      OBVIOUS
    <2>2. s \ {a} \in P
      BY <1>1, <2>1
    <2>3. CASE s \ {a} = {}
      BY <2>1, <2>3
    <2>4. CASE s \ {a} # {}
      <3>1. PICK b \in s \ {a} : Last(s \ {a}, b)
        BY <2>2, <2>4
      <3>2. a \in DOMAIN Sheet /\ b \in DOMAIN Sheet /\ a # b
        BY <2>1, <3>1
      <3>3. CASE SortsBefore(sort, a, b)
        <4>1. Last(s, b)
          BY <3>1, <3>3
        <4>2. QED
          BY <3>1, <4>1
      <3>4. CASE SortsBefore(sort, b, a)
        <4>1. ASSUME NEW x \in s \ {a} PROVE SortsBefore(sort, x, a)
          <5>1. x = b \/ SortsBefore(sort, x, b)
            BY <3>1
          <5>2. x \in DOMAIN Sheet
            OBVIOUS
          <5>3. QED
            BY <3>2, <3>4, <5>1, <5>2, SortsTotally
        <4>2. QED
          BY <2>1, <4>1
      <3>5. QED
        BY <3>2, <3>3, <3>4, SortsTotally
    <2>5. QED
      BY <2>3, <2>4
  <1> HIDE DEF P
  <1>2. IsFiniteSet(ids)
    BY SumsOfRows
  <1>3. \A s \in SUBSET ids : s \in P
    BY <1>1, <1>2, SubsetInduction
  <1>4. QED
    BY <1>3 DEF P

(* What an order is: all the rows, each once, each after those that sort   *)
(* before it.                                                              *)
LEMMA OrderOf ==
    ASSUME NEW sort \in Sorts, NEW ids \in SUBSET DOMAIN Sheet, NEW s \in Orders(ids, sort)
    PROVE  /\ Cardinality(ids) \in Nat
           /\ s \in Seq(ids) /\ Len(s) = Cardinality(ids) /\ DOMAIN s = 1..Cardinality(ids)
           /\ \A i \in ids : \E a \in 1..Cardinality(ids) : s[a] = i
           /\ \A a, b \in 1..Cardinality(ids) : a < b => s[a] # s[b] /\ SortsBefore(sort, s[a], s[b])
  <1> DEFINE n == Cardinality(ids)
  <1>1. n \in Nat
    BY SumsOfRows, FS_CardinalityType
  <1> HIDE DEF n
  <1>2. /\ s \in [1..n -> ids]
        /\ \A a, b \in 1..n : s[a] = s[b] => a = b
        /\ \A i \in ids : \E a \in 1..n : s[a] = i
        /\ \A a, b \in 1..n : SortsBefore(sort, s[a], s[b]) => a < b
    BY DEF Orders, Bijection, Injection, IsInjective, Surjection, n
  <1>3. s \in Seq(ids) /\ Len(s) = n /\ DOMAIN s = 1..n
    BY <1>1, <1>2
  <1>4. ASSUME NEW a \in 1..n, NEW b \in 1..n, a < b
        PROVE  s[a] # s[b] /\ SortsBefore(sort, s[a], s[b])
    <2>1. s[a] \in DOMAIN Sheet /\ s[b] \in DOMAIN Sheet
      BY <1>2
    <2>2. s[a] # s[b] /\ ~SortsBefore(sort, s[b], s[a])
      BY <1>2, <1>4
    <2>3. QED
      BY <2>1, <2>2, SortsTotally
  <1>5. QED
    BY <1>1, <1>2, <1>3, <1>4 DEF n

(* Rows can be put in order.                                               *)
LEMMA OrdersExist ==
    ASSUME NEW sort \in Sorts, NEW ids \in SUBSET DOMAIN Sheet
    PROVE  \E s \in Orders(ids, sort) : TRUE
  <1> DEFINE P == {r \in SUBSET ids : \E s \in Orders(r, sort) : TRUE}
  <1>1. ASSUME NEW r \in SUBSET ids, \A q \in SUBSET r : q # r => q \in P
        PROVE  r \in P
    <2>1. IsFiniteSet(r)
      BY SumsOfRows
    <2>2. CASE r = {}
      <3> DEFINE none == [a \in 1..0 |-> 0]
      <3>1. Cardinality(r) = 0
        BY <2>2, FS_EmptySet
      <3>2. none \in [1..0 -> r] /\ 1..0 = {}
        OBVIOUS
      <3>3. none \in Bijection(1..0, r)
        BY <2>2, <3>2 DEF Bijection, Injection, IsInjective, Surjection
      <3>4. none \in Orders(r, sort)
        BY <3>1, <3>2, <3>3 DEF Orders
      <3>5. QED
        BY <3>4
    <2>3. CASE r # {}
      <3>1. PICK z \in r : \A x \in r \ {z} : SortsBefore(sort, x, z)
        BY <2>3, OneComesLast
      <3>2. r \ {z} \in P
        BY <1>1, <3>1
      <3>3. PICK s \in Orders(r \ {z}, sort) : TRUE
        BY <3>2
      <3> DEFINE n == Cardinality(r \ {z})
                 t == [a \in 1..n + 1 |-> IF a = n + 1 THEN z ELSE s[a]]
      <3>4. n \in Nat /\ Cardinality(r) = n + 1
        <4>1. n = Cardinality(r) - 1 /\ Cardinality(r) \in Nat /\ IsFiniteSet(r \ {z})
          BY <2>1, <3>1, FS_RemoveElement, FS_CardinalityType
        <4>2. n \in Nat
          BY <4>1, FS_CardinalityType
        <4>3. QED
          BY <4>1, <4>2
      <3> HIDE DEF n
      <3>5. /\ s \in [1..n -> r \ {z}]
            /\ \A a, b \in 1..n : s[a] = s[b] => a = b
            /\ \A i \in r \ {z} : \E a \in 1..n : s[a] = i
            /\ \A a, b \in 1..n : SortsBefore(sort, s[a], s[b]) => a < b
        BY <3>3 DEF Orders, Bijection, Injection, IsInjective, Surjection, n
      <3>6. /\ t[n + 1] = z /\ n + 1 \in 1..n + 1
            /\ \A a \in 1..n : t[a] = s[a] /\ a \in 1..n + 1 /\ a # n + 1
            /\ \A a \in 1..n + 1 : a = n + 1 \/ a \in 1..n
        BY <3>4
      <3>7. t \in [1..n + 1 -> r]
        BY <3>1, <3>5, <3>6
      <3> HIDE DEF t
      <3>8. \A a, b \in 1..n + 1 : t[a] = t[b] => a = b
        BY <3>5, <3>6
      <3>9. \A i \in r : \E a \in 1..n + 1 : t[a] = i
        <4>1. ASSUME NEW i \in r \ {z} PROVE \E a \in 1..n + 1 : t[a] = i
          <5>1. PICK a \in 1..n : s[a] = i
            BY <3>5
          <5>2. QED
            BY <3>6, <5>1
        <4>2. QED
          BY <3>6, <4>1
      <3>10. ASSUME NEW a \in 1..n + 1, NEW b \in 1..n + 1, SortsBefore(sort, t[a], t[b])
             PROVE  a < b
        <4>1. t[a] \in DOMAIN Sheet /\ t[b] \in DOMAIN Sheet /\ z \in DOMAIN Sheet
          BY <3>7
        <4>2. CASE a \in 1..n /\ b \in 1..n
          BY <3>5, <3>6, <3>10, <4>2
        <4>3. CASE a = n + 1 /\ b = n + 1
          BY <3>10, <4>1, <4>3, SortsTotally
        <4>4. CASE a \in 1..n /\ b = n + 1
          BY <3>4, <4>4
        <4>5. CASE a = n + 1 /\ b \in 1..n
          <5>1. t[b] \in r \ {z}
            BY <3>5, <3>6, <4>5
          <5>2. SortsBefore(sort, t[b], z) /\ SortsBefore(sort, z, t[b])
            BY <3>1, <3>6, <3>10, <4>5, <5>1
          <5>3. QED
            BY <4>1, <5>2, SortsTotally
        <4>6. QED
          BY <3>6, <4>2, <4>3, <4>4, <4>5
      <3>11. t \in Orders(r, sort)
        BY <3>4, <3>7, <3>8, <3>9, <3>10 DEF Orders, Bijection, Injection, IsInjective, Surjection
      <3>12. QED
        BY <3>11
    <2>4. QED
      BY <2>2, <2>3
  <1> HIDE DEF P
  <1>2. IsFiniteSet(ids)
    BY SumsOfRows
  <1>3. \A r \in SUBSET ids : r \in P
    BY <1>1, <1>2, SubsetInduction
  <1>4. QED
    BY <1>3 DEF P

(* In one way only.                                                        *)
LEMMA OrdersAreOne ==
    ASSUME NEW sort \in Sorts, NEW ids \in SUBSET DOMAIN Sheet,
           NEW s \in Orders(ids, sort), NEW t \in Orders(ids, sort)
    PROVE  s = t
  <1> DEFINE n == Cardinality(ids)
             Differ == {a \in Nat : a \in 1..n /\ s[a] # t[a]}
  <1>1. /\ n \in Nat
        /\ s \in Seq(ids) /\ Len(s) = n /\ DOMAIN s = 1..n
        /\ \A i \in ids : \E a \in 1..n : s[a] = i
        /\ \A a, b \in 1..n : a < b => s[a] # s[b] /\ SortsBefore(sort, s[a], s[b])
    BY OrderOf
  <1>2. /\ t \in Seq(ids) /\ Len(t) = n /\ DOMAIN t = 1..n
        /\ \A i \in ids : \E a \in 1..n : t[a] = i
        /\ \A a, b \in 1..n : a < b => t[a] # t[b] /\ SortsBefore(sort, t[a], t[b])
    BY OrderOf
  <1> HIDE DEF n
  <1>3. Differ = {}
    <2> SUFFICES ASSUME Differ # {} PROVE FALSE
      OBVIOUS
    <2>1. PICK a \in Differ : \A b \in Differ : a <= b
      <3>1. Differ \in SUBSET Nat
        OBVIOUS
      <3> HIDE DEF Differ
      <3>2. QED
        BY <3>1, LeastNumber
    <2>2. a \in 1..n /\ s[a] # t[a] /\ s[a] \in ids /\ t[a] \in ids
      BY <1>1, <1>2
    <2>3. \A b \in 1..n : b < a => s[b] = t[b]
      <3>1. ASSUME NEW b \in 1..n, b < a, s[b] # t[b] PROVE FALSE
        <4>1. b \in Differ
          BY <1>1, <3>1
        <4>2. a <= b
          BY <2>1, <4>1
        <4>3. QED
          BY <1>1, <2>2, <3>1, <4>2
      <3>2. QED
        BY <3>1
    <2>4. PICK b \in 1..n : s[b] = t[a]
      BY <1>1, <2>2
    <2>5. PICK c \in 1..n : t[c] = s[a]
      BY <1>2, <2>2
    <2>6. a < b
      BY <1>1, <1>2, <2>2, <2>3, <2>4
    <2>7. a < c
      BY <1>1, <1>2, <2>2, <2>3, <2>5
    <2>8. SortsBefore(sort, s[a], t[a]) /\ SortsBefore(sort, t[a], s[a])
      BY <1>1, <1>2, <2>2, <2>4, <2>5, <2>6, <2>7
    <2>9. QED
      BY <2>2, <2>8, SortsTotally
  <1>4. \A a \in 1..n : s[a] = t[a]
    BY <1>1, <1>3
  <1>5. QED
    BY <1>1, <1>2, <1>4

(* The first n elements of a sequence.                                     *)
LEMMA AtMostOf ==
    ASSUME NEW S, NEW s \in Seq(S), NEW n \in Nat
    PROVE  /\ AtMost(n, s) \in Seq(S)
           /\ Len(AtMost(n, s)) = IF Len(s) < n THEN Len(s) ELSE n
           /\ DOMAIN AtMost(n, s) = 1..Len(AtMost(n, s))
           /\ \A a \in 1..Len(AtMost(n, s)) : AtMost(n, s)[a] = s[a]
           /\ Len(s) <= n => AtMost(n, s) = s
  <1>1. PICK m \in Nat : m = IF Len(s) < n THEN Len(s) ELSE n
    OBVIOUS
  <1>2. m <= Len(s) /\ AtMost(n, s) = SubSeq(s, 1, m)
    BY <1>1 DEF AtMost
  <1>3. /\ SubSeq(s, 1, m) \in Seq(S) /\ Len(SubSeq(s, 1, m)) = m
        /\ \A a \in 1..m : SubSeq(s, 1, m)[a] = s[a]
        /\ m = Len(s) => SubSeq(s, 1, m) = s
    BY <1>2
  <1>4. QED
    BY <1>1, <1>2, <1>3

(* The table of a report shows the top rows.                               *)
LEMMA TopFits ==
    ASSUME NEW sort \in Sorts, NEW ids \in SUBSET DOMAIN Sheet, NEW q \in Orders(ids, sort),
           NEW s, s = AtMost(TopRows, q)
    PROVE  /\ \A a, b \in DOMAIN s : a < b => SortsBefore(sort, s[a], s[b])
           /\ Len(s) < TopRows => Len(s) = Cardinality(ids)
           /\ \A i \in ids \ Range(s) : \A a \in DOMAIN s : SortsBefore(sort, s[a], i)
  <1>1. /\ Cardinality(ids) \in Nat
        /\ q \in Seq(ids) /\ Len(q) = Cardinality(ids)
        /\ \A i \in ids : \E a \in 1..Cardinality(ids) : q[a] = i
        /\ \A a, b \in 1..Cardinality(ids) : a < b => q[a] # q[b] /\ SortsBefore(sort, q[a], q[b])
    <2>1. sort \in Sorts /\ ids \in SUBSET DOMAIN Sheet /\ q \in Orders(ids, sort)
      OBVIOUS
    <2> HIDE DEF Sorts
    <2>2. QED
      BY <2>1, OrderOf
  <1>2. TopRows \in Nat
    BY ReportsBounds
  <1>3. /\ s \in Seq(ids)
        /\ Len(s) = IF Len(q) < TopRows THEN Len(q) ELSE TopRows
        /\ DOMAIN s = 1..Len(s)
        /\ \A a \in 1..Len(s) : s[a] = q[a]
    BY <1>1, <1>2, AtMostOf
  <1>4. Len(s) \in Nat /\ Len(s) <= Cardinality(ids)
    BY <1>1, <1>2, <1>3
  <1>5. \A a, b \in DOMAIN s : a < b => SortsBefore(sort, s[a], s[b])
    BY <1>1, <1>3, <1>4
  <1>6. Len(s) < TopRows => Len(s) = Cardinality(ids)
    BY <1>1, <1>2, <1>3
  <1>7. ASSUME NEW i \in ids \ Range(s), NEW a \in DOMAIN s
        PROVE  SortsBefore(sort, s[a], i)
    <2>1. PICK b \in 1..Cardinality(ids) : q[b] = i
      BY <1>1
    <2>2. b \notin 1..Len(s)
      BY <1>3, <1>7, <2>1 DEF Range
    <2>3. a \in 1..Cardinality(ids) /\ a < b
      BY <1>1, <1>3, <1>4, <2>2
    <2>4. QED
      BY <1>1, <1>3, <2>1, <2>3
  <1>8. QED
    BY <1>5, <1>6, <1>7

(* One sequence after another.                                             *)
LEMMA JoinOf ==
    ASSUME NEW S, NEW s \in Seq(S), NEW t \in Seq(S)
    PROVE  /\ s \o t \in Seq(S) /\ Len(s \o t) = Len(s) + Len(t)
           /\ \A a \in 1..(Len(s) + Len(t)) :
                (s \o t)[a] = IF a <= Len(s) THEN s[a] ELSE t[a - Len(s)]
  OBVIOUS

(* Sequences of the same elements.                                         *)
LEMMA SameSequences ==
    ASSUME NEW S, NEW s \in Seq(S), NEW t \in Seq(S), Len(s) = Len(t),
           \A a \in 1..Len(s) : s[a] = t[a]
    PROVE  s = t
  OBVIOUS

(* What is taken after the first m elements continues them.                *)
LEMMA TakingContinues ==
    ASSUME NEW S, NEW s \in Seq(S), NEW m \in Nat, m <= Len(s), NEW n \in Nat
    PROVE  AtMost(m, s) \o AtMost(n, SubSeq(s, m + 1, Len(s))) = AtMost(m + n, s)
  <1>0. Len(s) \in Nat /\ m <= Len(s) /\ m \in Nat /\ n \in Nat
    OBVIOUS
  <1> DEFINE rest == SubSeq(s, m + 1, Len(s))
  <1>3. /\ rest \in Seq(S) /\ Len(rest) = Len(s) - m
        /\ \A a \in 1..(Len(s) - m) : rest[a] = s[m + a]
    OBVIOUS
  <1> HIDE DEF rest
  <1> DEFINE t == AtMost(n, rest)
             first == AtMost(m, s)
             whole == AtMost(m + n, s)
  <1>5. /\ t \in Seq(S)
        /\ Len(t) = IF Len(rest) < n THEN Len(rest) ELSE n
        /\ \A a \in 1..Len(t) : t[a] = rest[a]
    BY <1>0, <1>3, AtMostOf
  <1>6. /\ first \in Seq(S) /\ Len(first) = m
        /\ \A a \in 1..m : first[a] = s[a]
    BY <1>0, AtMostOf
  <1>7. /\ whole \in Seq(S)
        /\ Len(whole) = IF Len(s) < m + n THEN Len(s) ELSE m + n
        /\ \A a \in 1..Len(whole) : whole[a] = s[a]
    BY <1>0, AtMostOf
  <1> HIDE DEF t, first, whole
  <1>10. /\ first \o t \in Seq(S) /\ Len(first \o t) = Len(first) + Len(t)
         /\ \A a \in 1..(Len(first) + Len(t)) :
              (first \o t)[a] = IF a <= Len(first) THEN first[a] ELSE t[a - Len(first)]
    <2>1. first \in Seq(S) /\ t \in Seq(S)
      BY <1>5, <1>6
    <2>2. QED
      BY <2>1, JoinOf
  <1>8. /\ Len(first \o t) = m + Len(t) /\ Len(whole) = m + Len(t)
        /\ Len(t) \in Nat /\ m + Len(t) <= Len(s)
    <2>1. Len(first \o t) = m + Len(t)
      BY <1>6, <1>10
    <2>2. Len(t) = IF Len(s) - m < n THEN Len(s) - m ELSE n
      BY <1>3, <1>5
    <2>3. Len(s) - m < n <=> Len(s) < m + n
      BY <1>0
    <2>4. Len(whole) = m + Len(t)
      BY <1>0, <1>7, <2>2, <2>3
    <2>5. Len(t) \in Nat /\ m + Len(t) <= Len(s)
      BY <1>0, <2>2
    <2>6. QED
      BY <2>1, <2>4, <2>5
  <1>9. ASSUME NEW a \in 1..Len(whole) PROVE (first \o t)[a] = whole[a]
    <2>0. a \in Nat /\ a >= 1 /\ a <= m + Len(t) /\ whole[a] = s[a]
      BY <1>0, <1>7, <1>8
    <2>1. CASE a <= m
      <3>1. a \in 1..m
        BY <1>0, <2>0, <2>1
      <3>2. (first \o t)[a] = first[a]
        BY <1>6, <1>8, <1>10, <2>0, <2>1
      <3>3. QED
        BY <1>6, <2>0, <3>1, <3>2
    <2>2. CASE a > m
      <3>1. PICK b \in Nat : b = a - m
        BY <1>0, <2>0, <2>2
      <3>2. b \in 1..Len(t) /\ b \in 1..(Len(s) - m) /\ m + b = a
        BY <1>0, <1>8, <2>0, <2>2, <3>1
      <3>3. (first \o t)[a] = t[a - Len(first)]
        <4>1. a \in 1..(Len(first) + Len(t)) /\ ~(a <= Len(first))
          BY <1>0, <1>6, <1>8, <2>0, <2>2
        <4>2. QED
          BY <1>10, <4>1
      <3>4. t[b] = s[m + b]
        BY <1>3, <1>5, <3>2
      <3>5. QED
        BY <1>6, <2>0, <3>1, <3>2, <3>3, <3>4
    <2>3. a <= m \/ a > m
      BY <1>0, <2>0
    <2>4. QED
      BY <2>1, <2>2, <2>3
  <1>11. first \o t = whole
    <2>1. first \o t \in Seq(S) /\ whole \in Seq(S) /\ Len(first \o t) = Len(whole)
      BY <1>7, <1>8, <1>10
    <2>2. \A a \in 1..Len(first \o t) : (first \o t)[a] = whole[a]
      BY <1>9, <2>1
    <2>3. QED
      BY <2>1, <2>2, SameSequences
  <1>12. QED
    BY <1>11 DEF first, t, whole, rest
(* A page continues the list.                                              *)
LEMMA PageContinues ==
    ASSUME NEW S, NEW s \in Seq(S), NEW page \in Nat \ {0}, (page - 1) * PageSize <= Len(s)
    PROVE  AtMost((page - 1) * PageSize, s) \o OnePage(s, page) = AtMost(page * PageSize, s)
  <1>1. PICK m \in Nat : m = (page - 1) * PageSize
    BY ReportsBounds
  <1>2. PageSize \in Nat /\ page * PageSize = m + PageSize /\ m <= Len(s)
    BY <1>1, ReportsBounds
  <1>3. OnePage(s, page) = AtMost(PageSize, SubSeq(s, m + 1, Len(s)))
    BY <1>1 DEF OnePage
  <1>4. QED
    <2>1. AtMost(m, s) \o AtMost(PageSize, SubSeq(s, m + 1, Len(s))) = AtMost(m + PageSize, s)
      BY <1>2, TakingContinues
    <2>2. QED
      BY <1>1, <1>2, <1>3, <2>1


(***************************************************************************)
(* Budgets.                                                                *)
(***************************************************************************)
(* A budget called over is one whose limit is exceeded: a percentage is    *)
(* rounded, but never from one hundred to more.                            *)
LEMMA OverIsExceeded ==
    ASSUME NEW spent \in Nat, NEW limit \in Nat, BudgetStateOf(UsedPercent(spent, limit)) = "over"
    PROVE  limit - spent < 0
  <1>1. UsedPercent(spent, limit) > 100
    BY DEF BudgetStateOf
  <1>2. limit # 0 /\ (spent * 200 + limit) \div (2 * limit) > 100
    BY <1>1 DEF UsedPercent
  <1>3. PICK d \in Nat \ {0} : d = 2 * limit
    BY <1>2
  <1>4. PICK x \in Nat : x = spent * 200 + limit
    OBVIOUS
  <1>5. PICK p \in Nat : p = x \div d
    OBVIOUS
  <1>6. p >= 101 /\ d * p <= x
    BY <1>2, <1>3, <1>4, <1>5
  <1>7. d * 101 <= d * p
    BY <1>6
  <1>8. d * p \in Nat
    OBVIOUS
  <1>9. d * 101 <= x
    BY <1>6, <1>7, <1>8
  <1>10. QED
    BY <1>2, <1>3, <1>4, <1>9

(* The cards tell of every budget.                                         *)
LEMMA CardsFit ==
    ASSUME NEW usage \in [DOMAIN Limits -> Nat], NEW shown \in SUBSET DOMAIN Limits
    PROVE  LET status == BudgetStatus(usage, shown)
               all == BudgetStatus(usage, DOMAIN Limits).lines
           IN  /\ status.remaining = SumFunction([c \in DOMAIN Limits |-> Limits[c] - usage[c]])
               /\ status.over <= Cardinality({c \in DOMAIN Limits : all[c].remaining < 0})
               /\ \A c \in shown : status.lines[c].state = "over" => status.lines[c].remaining < 0
  <1> DEFINE budgets == DOMAIN Limits
             lines == [c \in budgets |-> BudgetLine(c, usage)]
             limits == [c \in budgets |-> lines[c].limit]
             spents == [c \in budgets |-> lines[c].spent]
             left == [c \in budgets |-> Limits[c] - usage[c]]
             overs == {c \in budgets : lines[c].state = "over"}
             exceeded == {c \in budgets : lines[c].remaining < 0}
             status(s) == BudgetStatus(usage, s)
  <1>1. IsFiniteSet(budgets) /\ \A c \in budgets : Limits[c] \in Nat
    BY ReportsBounds
  <1>2. \A c \in budgets : /\ lines[c].limit = Limits[c] /\ lines[c].spent = usage[c]
                           /\ lines[c].remaining = Limits[c] - usage[c]
                           /\ lines[c].state = BudgetStateOf(UsedPercent(usage[c], Limits[c]))
    BY DEF BudgetLine
  <1>3. \A c \in budgets : lines[c].state = "over" => lines[c].remaining < 0
    BY <1>1, <1>2, OverIsExceeded
  <1>4. DOMAIN lines = budgets
    OBVIOUS
  <1>5. /\ \A c \in budgets : limits[c] = Limits[c] /\ spents[c] = usage[c] /\ left[c] = Limits[c] - usage[c]
        /\ DOMAIN limits = budgets /\ DOMAIN spents = budgets /\ DOMAIN left = budgets
    BY <1>2
  <1>6. ASSUME NEW s \in SUBSET budgets
        PROVE  /\ status(s).remaining = SumFunction(limits) - SumFunction(spents)
               /\ status(s).over = Cardinality(overs)
               /\ status(s).lines = Restrict(lines, s)
    BY <1>4 DEF BudgetStatus
  <1> HIDE DEF lines, limits, spents, left, status
  <1>7. SumFunctionOnSet(left, budgets) = SumFunctionOnSet(limits, budgets) - SumFunctionOnSet(spents, budgets)
    <2>1. Numbers(limits, budgets) /\ Numbers(spents, budgets)
      BY <1>1, <1>5 DEF Numbers
    <2>2. \A c \in budgets : left[c] = limits[c] - spents[c]
      BY <1>5
    <2>3. QED
      BY <1>1, <2>1, <2>2, SumOfDifferences
  <1>8. status(shown).remaining = SumFunction(left)
    <2>1. /\ SumFunction(left) = SumFunctionOnSet(left, budgets)
          /\ SumFunction(limits) = SumFunctionOnSet(limits, budgets)
          /\ SumFunction(spents) = SumFunctionOnSet(spents, budgets)
      BY <1>5 DEF SumFunction
    <2>0. shown \in SUBSET budgets
      OBVIOUS
    <2> HIDE DEF budgets, overs, exceeded
    <2>2. status(shown).remaining = SumFunction(limits) - SumFunction(spents)
      BY ZenonT(30), <1>6, <2>0
    <2>3. QED
      BY <1>7, <2>1, <2>2
  <1>9. Cardinality(overs) <= Cardinality(exceeded)
    <2>1. overs \in SUBSET exceeded /\ exceeded \in SUBSET budgets
      BY <1>3
    <2> HIDE DEF overs, exceeded
    <2>2. QED
      BY <1>1, <2>1, FS_Subset
  <1>10. /\ status(shown).over = Cardinality(overs)
         /\ status(shown).lines = [c \in shown |-> lines[c]]
         /\ status(budgets).lines = [c \in budgets |-> lines[c]]
    BY <1>6 DEF Restrict
  <1>11. {c \in budgets : status(budgets).lines[c].remaining < 0} = exceeded
    BY <1>10
  <1>12. \A c \in shown : status(shown).lines[c].state = "over" => status(shown).lines[c].remaining < 0
    BY <1>3, <1>10
  <1>13. status(shown).over <= Cardinality({c \in budgets : status(budgets).lines[c].remaining < 0})
    BY <1>9, <1>10, <1>11
  <1>14. QED
    BY <1>8, <1>12, <1>13 DEF status, left

(***************************************************************************)
(* The steps of a report and of a list.                                    *)
(***************************************************************************)
(* A part is the same as long as the rows are.                             *)
LEMMA PartStands ==
    ASSUME recorded' = recorded, report'.asked = report.asked, report'.range = report.range,
           NEW CONSTANT p
    PROVE  PartValue(p)' = PartValue(p)
  BY DEF PartValue, Totals, ByMonth, ByCategory, ReportRows, Usage, Covered

(* How far a list has come: the rows of the pages read, in their order.    *)
ListedOf(l, s) ==
    LET before == (l.page - 1) * PageSize
    IN /\ l.at = "rows"  => before <= Len(s) /\ l.got = AtMost(before, s)
       /\ l.at = "count" => before <= Len(s) /\ l.got = AtMost(l.page * PageSize, s)
       /\ l.at = "read"  => l.got = s /\ l.total = Len(s)

ReportsShaped ==
    /\ ReportsTypeOK
    /\ report = [asked |-> report.asked, days |-> report.days, range |-> report.range, parts |-> report.parts]
    /\ listing = [at |-> listing.at, sort |-> listing.sort, page |-> listing.page,
                  got |-> listing.got, total |-> listing.total]

(* A comparison is of a range in order.                                    *)
RangeInOrder ==
    report.asked \in Analyses \cup {"summary"} =>
       report.range[1] \in Nat /\ report.range[2] \in Nat /\ report.range[1] <= report.range[2]

(* Undisturbed, what was read is what would be read.                       *)
PartsStand ==
    ~disturbed.report =>
       \A p \in DOMAIN report.parts : report.parts[p] = PartValue(p)

UsageStands == "usage" \in DOMAIN report.parts => report.parts["usage"] \in [DOMAIN Limits -> Nat]

(* Undisturbed, the pages read begin the one order of the rows.            *)
PagesStand ==
    listing.at # "closed" =>
       /\ listing.sort \in Sorts /\ listing.page \in Nat \ {0}
       /\ ~disturbed.listing => \E s \in Orders(recorded, listing.sort) : ListedOf(listing, s)

ReportsInv == ReportsShaped /\ RangeInOrder /\ PartsStand /\ UsageStands /\ PagesStand

(* A report in which nothing was read yet.                                 *)
LEMMA AskedAnew ==
    ASSUME ReportsShaped, NEW asked \in Analyses \cup {"totals", "summary", "budgets"}, NEW days, NEW r,
           AskReport(asked, days, r)
    PROVE  ReportsShaped'
  <1>1. DOMAIN <<>> = {}
    OBVIOUS
  <1>2. /\ report' = [asked |-> asked, days |-> days, range |-> r, parts |-> <<>>]
        /\ disturbed' = [disturbed EXCEPT !.report = FALSE]
        /\ UNCHANGED <<recorded, listing, changes>>
    BY DEF AskReport
  <1>3. /\ report'.asked = asked
        /\ report'.parts = <<>>
        /\ report' = [asked |-> report'.asked, days |-> report'.days, range |-> report'.range,
                      parts |-> report'.parts]
    BY <1>2
  <1>4. disturbed' \in [report : BOOLEAN, listing : BOOLEAN]
    BY <1>2 DEF ReportsShaped, ReportsTypeOK
  <1>5. QED
    BY <1>1, <1>2, <1>3, <1>4 DEF ReportsShaped, ReportsTypeOK

LEMMA ReportsStart == ReportsInit => ReportsShaped
  <1>1. DOMAIN <<>> = {}
    OBVIOUS
  <1>2. 0 \in 0..MaxChanges
    BY ReportsAssumption
  <1>3. QED
    BY <1>1, <1>2 DEF ReportsInit, ReportsShaped, ReportsTypeOK, NoReport, NoListing

LEMMA ReportsStep == ReportsShaped /\ [ReportsNext]_reportsVars => ReportsShaped'
  <1> SUFFICES ASSUME ReportsShaped, [ReportsNext]_reportsVars PROVE ReportsShaped'
    OBVIOUS
  <1>0. DOMAIN <<>> = {}
    OBVIOUS
  <1>1. ASSUME NEW days \in Periods, NEW asked \in Analyses, AskAnalysis(asked, days)
        PROVE  ReportsShaped'
    BY <1>1, AskedAnew DEF AskAnalysis
  <1>2. ASSUME NEW days \in Periods, AskTotals(days)
        PROVE  ReportsShaped'
    BY <1>2, AskedAnew DEF AskTotals
  <1>3. ASSUME NEW days \in Periods, AskSummary(days)
        PROVE  ReportsShaped'
    BY <1>3, AskedAnew DEF AskSummary
  <1>4. ASSUME NEW days \in Periods, AskBudgets(days)
        PROVE  ReportsShaped'
    BY <1>4, AskedAnew DEF AskBudgets
  <1>5. ASSUME NEW p \in PartsOf(report.asked), ReadPart(p)
        PROVE  ReportsShaped'
    <2>1. PICK value : report' = [report EXCEPT !.parts =
             [q \in DOMAIN report.parts \cup {p} |-> IF q = p THEN value ELSE report.parts[q]]]
      BY <1>5 DEF ReadPart
    <2>2. PICK parts :
             parts = [q \in DOMAIN report.parts \cup {p} |-> IF q = p THEN value ELSE report.parts[q]]
      OBVIOUS
    <2>3. DOMAIN parts = DOMAIN report.parts \cup {p}
      BY <2>2
    <2>4. report' = [asked |-> report.asked, days |-> report.days, range |-> report.range, parts |-> parts]
      BY <2>1, <2>2 DEF ReportsShaped
    <2>5. report'.asked = report.asked /\ report'.parts = parts
      BY <2>4
    <2>6. DOMAIN report'.parts \subseteq PartsOf(report'.asked)
      BY <2>3, <2>5 DEF ReportsShaped, ReportsTypeOK
    <2>7. UNCHANGED <<recorded, listing, changes, disturbed>>
      BY <1>5 DEF ReadPart
    <2>8. QED
      BY <2>4, <2>5, <2>6, <2>7 DEF ReportsShaped, ReportsTypeOK
  <1>6. CASE EndReport
    BY <1>0, <1>6 DEF EndReport, NoReport, ReportsShaped, ReportsTypeOK
  <1>7. ASSUME NEW sort \in {"date", "amount"}, OpenList(sort)
        PROVE  ReportsShaped'
    BY <1>7 DEF OpenList, NoListing, ReportsShaped, ReportsTypeOK
  <1>8. CASE ReadRows
    BY <1>8 DEF ReadRows, ReportsShaped, ReportsTypeOK
  <1>9. CASE ReadCount
    <2>1. PICK total, page, stage :
             /\ page = listing.page + 1
             /\ stage \in {"rows", "read"}
             /\ listing' = [listing EXCEPT !.total = total, !.page = page, !.at = stage]
      BY <1>9 DEF ReadCount
    <2>2. listing' = [at |-> stage, sort |-> listing.sort, page |-> page, got |-> listing.got,
                      total |-> total]
      BY <2>1 DEF ReportsShaped
    <2>3. page \in Nat
      BY <2>1 DEF ReportsShaped, ReportsTypeOK
    <2>4. UNCHANGED <<recorded, report, changes, disturbed>>
      BY <1>9 DEF ReadCount
    <2>5. QED
      BY <2>1, <2>2, <2>3, <2>4 DEF ReportsShaped, ReportsTypeOK
  <1>10. CASE CloseList
    BY <1>10 DEF CloseList, NoListing, ReportsShaped, ReportsTypeOK
  <1>11. ASSUME NEW i \in DOMAIN Sheet, ChangeRow(i)
         PROVE  ReportsShaped'
    <2>1. recorded' \subseteq DOMAIN Sheet
      BY <1>11 DEF ChangeRow, ReportsShaped, ReportsTypeOK
    <2>2. changes' \in 0..MaxChanges
      BY <1>11, ReportsAssumption DEF ChangeRow, ReportsShaped, ReportsTypeOK
    <2>3. QED
      BY <1>11, <2>1, <2>2 DEF ChangeRow, ReportsShaped, ReportsTypeOK
  <1>12. CASE UNCHANGED reportsVars
    BY <1>12 DEF reportsVars, ReportsShaped, ReportsTypeOK
  <1>13. QED
    BY <1>1, <1>2, <1>3, <1>4, <1>5, <1>6, <1>7, <1>8, <1>9, <1>10, <1>11, <1>12 DEF ReportsNext

(* A list none of whose rows changed, and which nobody touched.            *)
LEMMA PagesUntouched ==
    ASSUME PagesStand, UNCHANGED <<recorded, listing>>, disturbed'.listing = disturbed.listing
    PROVE  PagesStand'
  BY DEF PagesStand

(* A report which nobody touched.                                          *)
LEMMA PartsUntouched ==
    ASSUME PartsStand, UNCHANGED <<recorded, report>>, disturbed'.report = disturbed.report
    PROVE  PartsStand'
  <1>1. SUFFICES ASSUME ~disturbed'.report, NEW p \in DOMAIN report'.parts
                 PROVE  report'.parts[p] = PartValue(p)'
    BY DEF PartsStand
  <1>2. report.parts[p] = PartValue(p)
    BY <1>1 DEF PartsStand
  <1>3. PartValue(p)' = PartValue(p)
    BY PartStands
  <1>4. QED
    BY <1>2, <1>3

LEMMA AskedStands ==
    ASSUME ReportsInv, NEW asked \in Analyses \cup {"totals", "summary", "budgets"}, NEW days, NEW r,
           AskReport(asked, days, r),
           asked \in Analyses \cup {"summary"} => r[1] \in Nat /\ r[2] \in Nat /\ r[1] <= r[2]
    PROVE  ReportsInv'
  <1>0. DOMAIN <<>> = {}
    OBVIOUS
  <1>1. ReportsShaped'
    BY AskedAnew DEF ReportsInv
  <1>2. /\ report'.asked = asked /\ report'.range = r /\ report'.parts = <<>>
        /\ disturbed' = [disturbed EXCEPT !.report = FALSE]
        /\ UNCHANGED <<recorded, listing>>
    BY DEF AskReport
  <1>3. disturbed'.listing = disturbed.listing
    BY <1>2 DEF ReportsInv, ReportsShaped, ReportsTypeOK
  <1>4. RangeInOrder'
    BY <1>2 DEF RangeInOrder
  <1>5. PartsStand' /\ UsageStands'
    BY <1>0, <1>2 DEF PartsStand, UsageStands
  <1>6. PagesStand'
    BY <1>2, <1>3, PagesUntouched DEF ReportsInv
  <1>7. QED
    BY <1>1, <1>4, <1>5, <1>6 DEF ReportsInv

(* What is spent of a budget.                                              *)
LEMMA UsageIsNumbers ==
    ASSUME recorded \in SUBSET DOMAIN Sheet, NEW r
    PROVE  Usage(r) \in [DOMAIN Limits -> Nat]
  <1>1. ASSUME NEW c \in DOMAIN Limits
        PROVE  SumOf({i \in Covered(r, "expense") : Sheet[i].category = c}) \in Nat
    <2>1. {i \in Covered(r, "expense") : Sheet[i].category = c} \in SUBSET DOMAIN Sheet
      BY DEF Covered
    <2>2. QED
      BY <2>1, SumsOfRows
  <1>2. QED
    BY <1>1 DEF Usage

LEMMA PartReadStands ==
    ASSUME ReportsInv, NEW p \in PartsOf(report.asked), ReadPart(p)
    PROVE  ReportsInv'
  <1>1. PICK parts :
           parts = [q \in DOMAIN report.parts \cup {p} |->
                      IF q = p THEN PartValue(p) ELSE report.parts[q]]
    OBVIOUS
  <1>2. /\ report' = [report EXCEPT !.parts = parts] /\ p \notin DOMAIN report.parts
        /\ UNCHANGED <<recorded, listing, changes, disturbed>>
    BY <1>1 DEF ReadPart
  <1>3. /\ report'.asked = report.asked /\ report'.range = report.range
        /\ report'.parts = parts
    BY <1>2 DEF ReportsInv, ReportsShaped
  <1>4. ReportsShaped'
    BY ReportsStep DEF ReportsInv, ReportsNext
  <1>5. RangeInOrder'
    BY <1>3 DEF ReportsInv, RangeInOrder
  <1>6. PartsStand'
    <2>1. ASSUME ~disturbed.report, NEW q \in DOMAIN parts
          PROVE  parts[q] = PartValue(q)
      <3>1. CASE q = p
        BY <1>1, <3>1
      <3>2. CASE q # p
        BY <1>1, <2>1, <3>2 DEF ReportsInv, PartsStand
      <3>3. QED
        BY <3>1, <3>2
    <2>2. SUFFICES ASSUME ~disturbed'.report, NEW q \in DOMAIN report'.parts
                   PROVE  report'.parts[q] = PartValue(q)'
      BY DEF PartsStand
    <2>3. parts[q] = PartValue(q)
      BY <1>2, <1>3, <2>1, <2>2
    <2>4. PartValue(q)' = PartValue(q)
      BY <1>2, <1>3, PartStands
    <2>5. QED
      BY <1>3, <2>3, <2>4
  <1>7. UsageStands'
    <2>1. CASE p = "usage"
      <3>1. parts["usage"] = PartValue("usage")
        BY <1>1, <2>1
      <3>2. parts["usage"] = Usage(report.range)
        BY <3>1 DEF PartValue
      <3>3. QED
        BY <1>3, <3>2, UsageIsNumbers DEF UsageStands, ReportsInv, ReportsShaped, ReportsTypeOK
    <2>2. CASE p # "usage"
      BY <1>1, <1>3, <2>2 DEF ReportsInv, UsageStands
    <2>3. QED
      BY <2>1, <2>2
  <1>8. PagesStand'
    BY <1>2, PagesUntouched DEF ReportsInv
  <1>9. QED
    BY <1>4, <1>5, <1>6, <1>7, <1>8 DEF ReportsInv

(* The first page of a list.                                               *)
LEMMA ListBegins ==
    ASSUME ReportsInv, NEW sort \in Sorts, OpenList(sort)
    PROVE  PagesStand'
  <1>1. /\ listing' = [NoListing EXCEPT !.at = "rows", !.sort = sort]
        /\ recorded' = recorded
    BY DEF OpenList
  <1>2. /\ listing'.at = "rows" /\ listing'.sort = sort /\ listing'.page = 1 /\ listing'.got = <<>>
    BY <1>1 DEF NoListing
  <1>3. recorded \in SUBSET DOMAIN Sheet
    BY DEF ReportsInv, ReportsShaped, ReportsTypeOK
  <1>4. PICK s \in Orders(recorded, sort) : TRUE
    BY <1>3, OrdersExist
  <1>5. s \in Seq(recorded)
    BY <1>3, <1>4, OrderOf
  <1>6. (1 - 1) * PageSize = 0
    BY ReportsBounds
  <1>7. AtMost(0, s) = <<>>
    <2>1. AtMost(0, s) \in Seq(recorded) /\ Len(AtMost(0, s)) = 0
      BY <1>5, AtMostOf
    <2>2. QED
      BY <2>1
  <1>8. 0 <= Len(s)
    BY <1>5
  <1>9. ListedOf(listing', s)
    BY <1>2, <1>6, <1>7, <1>8 DEF ListedOf
  <1>10. QED
    BY <1>1, <1>2, <1>4, <1>9 DEF PagesStand

(* The rows of a page.                                                     *)
LEMMA RowsContinue ==
    ASSUME ReportsInv, ReadRows
    PROVE  PagesStand'
  <1>1. recorded \in SUBSET DOMAIN Sheet
    BY DEF ReportsInv, ReportsShaped, ReportsTypeOK
  <1>2. listing.at = "rows" /\ listing.sort \in Sorts /\ listing.page \in Nat \ {0}
    BY DEF ReadRows, ReportsInv, PagesStand
  <1>3. PICK t \in Orders(recorded, listing.sort) :
           listing' = [listing EXCEPT !.at = "count", !.got = @ \o OnePage(t, listing.page)]
    BY DEF ReadRows
  <1>4. /\ listing'.at = "count" /\ listing'.sort = listing.sort /\ listing'.page = listing.page
        /\ listing'.got = listing.got \o OnePage(t, listing.page)
    BY <1>3 DEF ReportsInv, ReportsShaped
  <1>5. recorded' = recorded /\ disturbed' = disturbed
    BY DEF ReadRows
  <1>6. ASSUME ~disturbed.listing
        PROVE  \E s \in Orders(recorded, listing.sort) : ListedOf(listing', s)
    <2>1. PICK s \in Orders(recorded, listing.sort) : ListedOf(listing, s)
      BY <1>2, <1>6 DEF ReportsInv, PagesStand
    <2>2. s = t
      BY <1>1, <1>2, <1>3, <2>1, OrdersAreOne
    <2>3. s \in Seq(recorded)
      BY <1>1, <1>2, <2>1, OrderOf
    <2>4. /\ (listing.page - 1) * PageSize <= Len(s)
          /\ listing.got = AtMost((listing.page - 1) * PageSize, s)
      BY <1>2, <2>1 DEF ListedOf
    <2>5. AtMost((listing.page - 1) * PageSize, s) \o OnePage(s, listing.page)
             = AtMost(listing.page * PageSize, s)
      BY <1>2, <2>3, <2>4, PageContinues
    <2>6. listing'.got = AtMost(listing.page * PageSize, s)
      BY <1>4, <2>2, <2>4, <2>5
    <2>7. ListedOf(listing', s)
      BY <1>4, <2>4, <2>6 DEF ListedOf
    <2>8. QED
      BY <2>1, <2>7
  <1>7. QED
    BY <1>2, <1>4, <1>5, <1>6 DEF PagesStand

(* The number of the rows, which tells whether there is another page.      *)
LEMMA CountContinues ==
    ASSUME ReportsInv, ReadCount
    PROVE  PagesStand'
  <1>1. recorded \in SUBSET DOMAIN Sheet
    BY DEF ReportsInv, ReportsShaped, ReportsTypeOK
  <1>2. listing.at = "count" /\ listing.sort \in Sorts /\ listing.page \in Nat \ {0}
    BY DEF ReadCount, ReportsInv, PagesStand
  <1>3. PICK page \in Nat \ {0} : page = listing.page + 1 /\ page - 1 = listing.page
    BY <1>2
  <1>4. PICK more : more <=> listing.page * PageSize < Cardinality(recorded)
    <2> DEFINE ahead == listing.page * PageSize < Cardinality(recorded)
    <2>1. ahead <=> listing.page * PageSize < Cardinality(recorded)
      OBVIOUS
    <2> HIDE DEF ahead
    <2>2. QED
      BY <2>1
  <1>5. listing' = [listing EXCEPT !.total = Cardinality(recorded), !.page = page,
                      !.at = IF more THEN "rows" ELSE "read"]
    BY <1>3, <1>4 DEF ReadCount
  <1>6. /\ listing'.at = IF more THEN "rows" ELSE "read"
        /\ listing'.sort = listing.sort /\ listing'.page = page /\ listing'.got = listing.got
        /\ listing'.total = Cardinality(recorded)
    BY <1>5 DEF ReportsInv, ReportsShaped
  <1>7. recorded' = recorded /\ disturbed' = disturbed
    BY DEF ReadCount
  <1>8. ASSUME ~disturbed.listing
        PROVE  \E s \in Orders(recorded, listing.sort) : ListedOf(listing', s)
    <2>1. PICK s \in Orders(recorded, listing.sort) : ListedOf(listing, s)
      BY <1>2, <1>8 DEF ReportsInv, PagesStand
    <2>2. s \in Seq(recorded) /\ Len(s) = Cardinality(recorded)
      BY <1>1, <1>2, <2>1, OrderOf
    <2>3. listing.got = AtMost(listing.page * PageSize, s)
      BY <1>2, <2>1 DEF ListedOf
    <2>4. PICK read \in Nat : read = listing.page * PageSize
      BY <1>2, ReportsBounds
    <2>5. more <=> read < Len(s)
      BY <1>4, <2>2, <2>4
    <2>6. (page - 1) * PageSize = read
      BY <1>3, <2>4
    <2>7. CASE more
      <3>1. read <= Len(s)
        BY <2>2, <2>5, <2>7
      <3>2. ListedOf(listing', s)
        BY <1>6, <2>3, <2>4, <2>6, <2>7, <3>1 DEF ListedOf
      <3>3. QED
        BY <2>1, <3>2
    <2>8. CASE ~more
      <3>1. Len(s) <= read
        BY <2>2, <2>5, <2>8
      <3>2. AtMost(read, s) = s
        BY <2>2, <3>1, AtMostOf
      <3>3. ListedOf(listing', s)
        BY <1>6, <2>2, <2>3, <2>4, <2>8, <3>2 DEF ListedOf
      <3>4. QED
        BY <2>1, <3>3
    <2>9. QED
      BY <2>7, <2>8
  <1>9. QED
    BY <1>2, <1>3, <1>6, <1>7, <1>8 DEF PagesStand

LEMMA FiguresStart == ReportsInit => ReportsInv
  <1>1. DOMAIN <<>> = {}
    OBVIOUS
  <1>2. ASSUME ReportsInit PROVE ReportsInv
    <2>1. ReportsShaped
      BY <1>2, ReportsStart
    <2>2. report.asked = "nothing" /\ report.parts = <<>> /\ listing.at = "closed"
      BY <1>2 DEF ReportsInit, NoReport, NoListing
    <2>3. RangeInOrder
      BY <2>2 DEF RangeInOrder, Analyses
    <2>4. PartsStand /\ UsageStands /\ PagesStand
      BY <1>1, <2>2 DEF PartsStand, UsageStands, PagesStand
    <2>5. QED
      BY <2>1, <2>3, <2>4 DEF ReportsInv
  <1>3. QED
    BY <1>2

(* The days asked for, in half days.                                       *)
LEMMA DaysInOrder ==
    ASSUME NEW days \in Periods
    PROVE  /\ DayRange(days)[1] \in Nat /\ DayRange(days)[2] \in Nat
           /\ RangeArgs(days)[1] \in Nat /\ RangeArgs(days)[2] \in Nat
           /\ days[1] <= days[2] => RangeArgs(days)[1] <= RangeArgs(days)[2]
  <1>1. days[1] \in Nat /\ days[2] \in Nat
    BY ReportsBounds
  <1>2. QED
    BY <1>1 DEF DayRange, RangeArgs, Midnight, LastDayOf

LEMMA FiguresStep == ReportsInv /\ [ReportsNext]_reportsVars => ReportsInv'
  <1> SUFFICES ASSUME ReportsInv, [ReportsNext]_reportsVars PROVE ReportsInv'
    OBVIOUS
  <1>0. DOMAIN <<>> = {}
    OBVIOUS
  <1>1. ReportsShaped'
    BY ReportsStep DEF ReportsInv
  <1>2. ASSUME NEW days \in Periods, NEW asked \in Analyses, AskAnalysis(asked, days)
        PROVE  ReportsInv'
    <2>1. DayRange(days)[1] <= DayRange(days)[2] /\ AskReport(asked, days, DayRange(days))
      BY <1>2 DEF AskAnalysis, ValidRange
    <2>2. QED
      BY <2>1, DaysInOrder, AskedStands
  <1>3. ASSUME NEW days \in Periods, AskTotals(days)
        PROVE  ReportsInv'
    <2>1. AskReport("totals", days, DayRange(days)) /\ "totals" \notin Analyses \cup {"summary"}
      BY <1>3 DEF AskTotals, Analyses
    <2>2. QED
      BY <2>1, AskedStands
  <1>4. ASSUME NEW days \in Periods, AskSummary(days)
        PROVE  ReportsInv'
    <2>1. AskReport("summary", days, RangeArgs(days)) /\ days[1] <= days[2]
      BY <1>4 DEF AskSummary
    <2>2. QED
      BY <2>1, DaysInOrder, AskedStands
  <1>5. ASSUME NEW days \in Periods, AskBudgets(days)
        PROVE  ReportsInv'
    <2>1. AskReport("budgets", days, MonthRange(days[1])) /\ "budgets" \notin Analyses \cup {"summary"}
      BY <1>5 DEF AskBudgets, Analyses
    <2>2. QED
      BY <2>1, AskedStands
  <1>6. ASSUME NEW p \in PartsOf(report.asked), ReadPart(p)
        PROVE  ReportsInv'
    BY <1>6, PartReadStands
  <1>7. CASE EndReport
    <2>1. /\ report' = NoReport
          /\ UNCHANGED <<recorded, listing, changes, disturbed>>
      BY <1>7 DEF EndReport
    <2>2. report'.asked = "nothing" /\ report'.parts = <<>>
      BY <2>1 DEF NoReport
    <2>3. RangeInOrder'
      BY <2>2 DEF RangeInOrder, Analyses
    <2>4. PartsStand' /\ UsageStands'
      BY <1>0, <2>2 DEF PartsStand, UsageStands
    <2>5. PagesStand'
      BY <2>1, PagesUntouched DEF ReportsInv
    <2>6. QED
      BY <1>1, <2>3, <2>4, <2>5 DEF ReportsInv
  <1>8. ASSUME UNCHANGED <<recorded, report>>, disturbed'.report = disturbed.report, PagesStand'
        PROVE  ReportsInv'
    <2>1. PartsStand'
      BY <1>8, PartsUntouched DEF ReportsInv
    <2>2. RangeInOrder' /\ UsageStands'
      BY <1>8 DEF ReportsInv, RangeInOrder, UsageStands
    <2>3. QED
      BY <1>1, <1>8, <2>1, <2>2 DEF ReportsInv
  <1>9. ASSUME NEW sort \in {"date", "amount"}, OpenList(sort)
        PROVE  ReportsInv'
    <2>1. PagesStand'
      BY <1>9, ListBegins DEF Sorts
    <2>2. UNCHANGED <<recorded, report>> /\ disturbed' = [disturbed EXCEPT !.listing = FALSE]
      BY <1>9 DEF OpenList
    <2>3. disturbed'.report = disturbed.report
      BY <2>2 DEF ReportsInv, ReportsShaped, ReportsTypeOK
    <2>4. QED
      BY <1>8, <2>1, <2>2, <2>3
  <1>10. CASE ReadRows
    BY <1>8, <1>10, RowsContinue DEF ReadRows
  <1>11. CASE ReadCount
    BY <1>8, <1>11, CountContinues DEF ReadCount
  <1>12. CASE CloseList
    <2>1. listing'.at = "closed" /\ UNCHANGED <<recorded, report, disturbed>>
      BY <1>12 DEF CloseList, NoListing
    <2>2. PagesStand'
      BY <2>1 DEF PagesStand
    <2>3. QED
      BY <1>8, <2>1, <2>2
  <1>13. ASSUME NEW i \in DOMAIN Sheet, ChangeRow(i)
         PROVE  ReportsInv'
    <2>1. UNCHANGED <<report, listing>> /\ disturbed'.report /\ disturbed'.listing
      BY <1>13 DEF ChangeRow
    <2>2. RangeInOrder' /\ UsageStands'
      BY <2>1 DEF ReportsInv, RangeInOrder, UsageStands
    <2>3. PartsStand'
      BY <2>1 DEF PartsStand
    <2>4. PagesStand'
      BY <2>1 DEF ReportsInv, PagesStand
    <2>5. QED
      BY <1>1, <2>2, <2>3, <2>4 DEF ReportsInv
  <1>14. CASE UNCHANGED reportsVars
    <2>1. UNCHANGED <<recorded, report, listing, disturbed>>
      BY <1>14 DEF reportsVars
    <2>2. PagesStand'
      BY <2>1, PagesUntouched DEF ReportsInv
    <2>3. QED
      BY <1>8, <2>1, <2>2
  <1>15. QED
    BY <1>2, <1>3, <1>4, <1>5, <1>6, <1>7, <1>9, <1>10, <1>11, <1>12, <1>13, <1>14 DEF ReportsNext

(***************************************************************************)
(* What the figures are.                                                   *)
(***************************************************************************)
(* Of a report undisturbed, each part read is that of the rows there are.  *)
LEMMA PartsAre ==
    ASSUME ReportsInv, ReportDone, ~disturbed.report
    PROVE  /\ DOMAIN report.parts = PartsOf(report.asked)
           /\ \A p \in PartsOf(report.asked) : report.parts[p] = PartValue(p)
           /\ recorded \in SUBSET DOMAIN Sheet
           /\ \A k : Covered(report.range, k) \in SUBSET DOMAIN Sheet
  <1>1. recorded \in SUBSET DOMAIN Sheet
    BY DEF ReportsInv, ReportsShaped, ReportsTypeOK
  <1>2. \A k : Covered(report.range, k) \in SUBSET DOMAIN Sheet
    BY <1>1 DEF Covered
  <1>3. DOMAIN report.parts = PartsOf(report.asked)
    BY DEF ReportDone
  <1>4. QED
    BY <1>1, <1>2, <1>3 DEF ReportsInv, PartsStand

LEMMA TotalsAre ==
    ASSUME ReportsInv, ReportDone, ~disturbed.report, "total" \in PartsOf(report.asked), NEW k \in RowKinds
    PROVE  /\ report.parts["total"][k].total = SumOf(Covered(report.range, k))
           /\ report.parts["total"][k].count = Cardinality(Covered(report.range, k))
  <1>1. report.parts["total"] = PartValue("total")
    BY PartsAre
  <1>2. report.parts["total"] = Totals(report.range)
    BY <1>1 DEF PartValue
  <1>3. QED
    BY <1>2 DEF Totals

LEMMA SlicesDo ==
    ASSUME ReportsInv, ReportDone, ~disturbed.report,
           "total" \in PartsOf(report.asked), "categories" \in PartsOf(report.asked), NEW k \in RowKinds
    PROVE  SlicesAddUp(k)
  <1> DEFINE group == [i \in DOMAIN Sheet |-> Sheet[i].category]
             ids == Covered(report.range, k)
             sums == report.parts["categories"]
  <1>1. sums = PartValue("categories")
    BY PartsAre
  <1>2. sums = ByCategory(report.range)
    BY <1>1 DEF PartValue
  <1>3. sums[k] = GroupBy(ids, group)
    BY <1>2 DEF ByCategory
  <1>4. ids \in SUBSET DOMAIN Sheet
    BY PartsAre
  <1>5. report.parts["total"][k].total = SumOf(ids)
    BY TotalsAre
  <1> HIDE DEF group, ids, sums
  <1>6. LET shares == Breakdown(sums, k)
        IN /\ SumFunction(shares.named) + shares.other = SumOf(ids)
           /\ Cardinality(DOMAIN shares.named) <= TopCategories
           /\ \A c \in DOMAIN shares.named : \A d :
                d \notin DOMAIN shares.named =>
                  shares.named[c] >= (IF d \in DOMAIN sums[k] THEN sums[k][d] ELSE 0)
    BY <1>3, <1>4, SlicesFit
  <1>7. SlicesAddUp(k)
    <2> DEFINE shares == Breakdown(sums, k)
    <2>1. shares = Breakdown(report.parts["categories"], k)
      BY DEF sums
    <2>2. SumFunction(shares.named) + shares.other = report.parts["total"][k].total
      BY <1>5, <1>6
    <2>3. Cardinality(DOMAIN shares.named) <= TopCategories
      BY <1>6
    <2>4. \A c \in DOMAIN shares.named : \A d \in Labels \ DOMAIN shares.named :
             shares.named[c] >= (IF d \in DOMAIN report.parts["categories"][k]
                                 THEN report.parts["categories"][k][d] ELSE 0)
      BY <1>6 DEF sums
    <2> HIDE DEF shares
    <2>5. QED
      BY <2>1, <2>2, <2>3, <2>4 DEF SlicesAddUp
  <1>8. QED
    BY <1>7

LEMMA MonthsDo ==
    ASSUME ReportsInv, ReportDone, ~disturbed.report,
           "total" \in PartsOf(report.asked), "months" \in PartsOf(report.asked), NEW k \in RowKinds
    PROVE  MonthsAddUp(k)
  <1> DEFINE group == [i \in DOMAIN Sheet |-> MonthOf(Sheet[i].time)]
             ids == Covered(report.range, k)
             sums == report.parts["months"]
             r == report.range
  <1>1. sums = PartValue("months")
    BY PartsAre
  <1>2. sums = ByMonth(report.range)
    BY <1>1 DEF PartValue
  <1>3. sums[k] = GroupBy(ids, group)
    BY <1>2 DEF ByMonth
  <1>4. ids \in SUBSET DOMAIN Sheet /\ \A i \in ids : Sheet[i].time \in r[1]..r[2]
    BY PartsAre DEF Covered
  <1>5. report.parts["total"][k].total = SumOf(ids)
    BY TotalsAre
  <1>6. r[1] \in Nat /\ r[2] \in Nat /\ r[1] <= r[2]
    <2>1. report.asked \in Analyses
      BY DEF PartsOf, Analyses
    <2>2. QED
      BY <2>1 DEF ReportsInv, RangeInOrder
  <1> HIDE DEF ids, sums, r
  <1>7. LET values == MonthValues(r, sums, k)
        IN SumFunction(values) = SumOf(ids) /\ MonthsAbove(values, SumOf(ids)) # DOMAIN values
    BY <1>3, <1>4, <1>6, MonthsFit
  <1>8. QED
    BY <1>5, <1>7 DEF MonthsAddUp, sums, r

LEMMA PeriodsDo ==
    ASSUME ReportsInv, ReportDone, ~disturbed.report,
           "total" \in PartsOf(report.asked), "before" \in PartsOf(report.asked), NEW k \in RowKinds
    PROVE  PeriodsMeet(k)
  <1> DEFINE r == report.range
             now == report.parts["total"][k]
             earlier == report.parts["before"][k]
             both == Covered(<<Previous(r)[1], r[2]>>, k)
  <1>1. report.parts["before"] = PartValue("before")
    BY PartsAre
  <1>2. report.parts["before"] = Totals(Previous(r))
    BY <1>1 DEF PartValue
  <1>3. earlier.total = SumOf(Covered(Previous(r), k)) /\ earlier.count = Cardinality(Covered(Previous(r), k))
    BY <1>2 DEF Totals
  <1>4. now.total = SumOf(Covered(r, k)) /\ now.count = Cardinality(Covered(r, k))
    BY TotalsAre
  <1>5. r[1] \in Nat /\ r[2] \in Nat /\ r[1] <= r[2]
    <2>1. report.asked \in Analyses \cup {"summary"}
      BY DEF PartsOf, Analyses
    <2>2. QED
      BY <2>1 DEF ReportsInv, RangeInOrder
  <1>6. recorded \in SUBSET DOMAIN Sheet
    BY PartsAre
  <1>7. now.total \in Nat /\ earlier.total \in Nat
    <2>1. Covered(r, k) \in SUBSET DOMAIN Sheet /\ Covered(Previous(r), k) \in SUBSET DOMAIN Sheet
      BY <1>6 DEF Covered
    <2>2. QED
      BY <1>3, <1>4, <2>1, SumsOfRows
  <1> HIDE DEF r
  <1>8. /\ SumOf(Covered(r, k)) + SumOf(Covered(Previous(r), k)) = SumOf(both)
        /\ Cardinality(Covered(r, k)) + Cardinality(Covered(Previous(r), k)) = Cardinality(both)
    <2>1. r[1] \in Int /\ r[2] \in Int /\ r[1] <= r[2]
      BY <1>5
    <2>2. QED
      BY <1>6, <2>1, PeriodsFit
  <1> HIDE DEF now, earlier, both
  <1>9. now.total + earlier.total = SumOf(both) /\ now.count + earlier.count = Cardinality(both)
    BY <1>3, <1>4, <1>8
  <1>10. (Change(now.total, earlier.total).direction = "up") <=> now.total > earlier.total
    BY <1>7 DEF Change
  <1>11. QED
    BY <1>9, <1>10 DEF PeriodsMeet, now, earlier, both, r

LEMMA RowsDo ==
    ASSUME ReportsInv, ReportDone, ~disturbed.report,
           "rows" \in PartsOf(report.asked), NEW k, k = KindOfReport(report.asked)
    PROVE  RowsAreTop(k)
  <1> DEFINE sort == IF k = "income" THEN "date" ELSE "amount"
             ids == Covered(report.range, k)
             s == report.parts["rows"]
  <1>1. s = PartValue("rows")
    BY PartsAre
  <1>2. s = AtMost(TopRows, ReportRows(report.asked, report.range))
    BY <1>1 DEF PartValue
  <1>3. sort \in Sorts /\ sort = IF report.asked = "income" THEN "date" ELSE "amount"
    BY DEF Sorts, KindOfReport
  <1>4. ids \in SUBSET DOMAIN Sheet
    BY PartsAre
  <1> HIDE DEF sort, ids, s
  <1>5. \E q \in Orders(ids, sort) : TRUE
    BY <1>3, <1>4, OrdersExist
  <1>6. PICK q : q \in Orders(ids, sort) /\ s = AtMost(TopRows, q)
    BY <1>2, <1>3, <1>5 DEF ReportRows, ids
  <1>7. /\ \A a, b \in DOMAIN s : a < b => SortsBefore(sort, s[a], s[b])
        /\ Len(s) < TopRows => Len(s) = Cardinality(ids)
        /\ \A i \in ids \ Range(s) : \A a \in DOMAIN s : SortsBefore(sort, s[a], i)
    BY <1>3, <1>4, <1>6, TopFits
  <1>8. report.parts["total"][k].count = Cardinality(ids)
    <2>1. "total" \in PartsOf(report.asked) /\ k \in RowKinds
      BY DEF PartsOf, KindOfReport, RowKinds
    <2>2. QED
      BY <2>1, TotalsAre DEF ids
  <1>9. QED
    BY <1>7, <1>8 DEF RowsAreTop, sort, ids, s

LEMMA ReportsDoAgree == ReportsInv => UndisturbedReportsAgree
  <1> SUFFICES ASSUME ReportsInv, ReportDone, ~disturbed.report, NEW k \in KindsShown
               PROVE  /\ {"categories", "total"} \subseteq DOMAIN report.parts => SlicesAddUp(k)
                      /\ {"months", "total"} \subseteq DOMAIN report.parts => MonthsAddUp(k)
                      /\ {"total", "before"} \subseteq DOMAIN report.parts => PeriodsMeet(k)
                      /\ "rows" \in DOMAIN report.parts => RowsAreTop(k)
    BY DEF UndisturbedReportsAgree
  <1>1. DOMAIN report.parts = PartsOf(report.asked)
    BY PartsAre
  <1>2. k \in RowKinds
    BY DEF KindsShown, KindOfReport, RowKinds
  <1>3. "rows" \in PartsOf(report.asked) => k = KindOfReport(report.asked)
    BY DEF PartsOf, KindsShown
  <1>4. QED
    BY <1>1, <1>2, <1>3, SlicesDo, MonthsDo, PeriodsDo, RowsDo

LEMMA CardsDoAgree == ReportsInv => BudgetCardsAgree
  <1> SUFFICES ASSUME ReportsInv, ReportDone, report.asked = "budgets", NEW shown \in SUBSET DOMAIN Limits
               PROVE  LET status == BudgetStatus(report.parts["usage"], shown)
                          all == BudgetStatus(report.parts["usage"], DOMAIN Limits).lines
                      IN /\ status.remaining
                              = SumFunction([c \in DOMAIN Limits |-> Limits[c] - report.parts["usage"][c]])
                         /\ status.over <= Cardinality({c \in DOMAIN Limits : all[c].remaining < 0})
                         /\ \A c \in shown : status.lines[c].state = "over" => status.lines[c].remaining < 0
    BY DEF BudgetCardsAgree
  <1>1. report.parts["usage"] \in [DOMAIN Limits -> Nat]
    BY DEF ReportDone, PartsOf, ReportsInv, UsageStands
  <1>2. QED
    BY <1>1, CardsFit

LEMMA PagesDoCover == ReportsInv => PagesCoverOnce
  <1> SUFFICES ASSUME ReportsInv, listing.at = "read", ~disturbed.listing
               PROVE  Range(listing.got) = recorded /\ Len(listing.got) = listing.total
    BY DEF PagesCoverOnce
  <1>1. PICK s \in Orders(recorded, listing.sort) : ListedOf(listing, s)
    BY DEF ReportsInv, PagesStand
  <1>2. listing.got = s /\ listing.total = Len(s)
    BY <1>1 DEF ListedOf
  <1>3. recorded \in SUBSET DOMAIN Sheet /\ listing.sort \in Sorts
    BY DEF ReportsInv, ReportsShaped, ReportsTypeOK, PagesStand
  <1>4. /\ s \in Seq(recorded) /\ DOMAIN s = 1..Cardinality(recorded)
        /\ \A i \in recorded : \E a \in 1..Cardinality(recorded) : s[a] = i
    BY <1>1, <1>3, OrderOf
  <1>5. Range(s) = recorded
    <2>1. \A a \in DOMAIN s : s[a] \in recorded
      <3>1. s \in Seq(recorded)
        BY <1>4
      <3>2. QED
        BY <3>1
    <2>2. \A i \in recorded : \E a \in DOMAIN s : s[a] = i
      BY <1>4
    <2>3. QED
      BY <2>1, <2>2 DEF Range
  <1>6. QED
    BY <1>2, <1>5

(* Every variable has a value the code can give it.                        *)
THEOREM ReportsAreTyped == ReportsSpec => []ReportsTypeOK
  <1>1. ReportsInv => ReportsTypeOK
    BY DEF ReportsInv, ReportsShaped
  <1>2. QED
    BY <1>1, FiguresStart, FiguresStep, PTL DEF ReportsSpec

(* The separate answers of a report nobody disturbed agree with each       *)
(* other, the cards of the budgets with the limits, and the pages of a     *)
(* list nobody disturbed with the rows.                                    *)
THEOREM ReportsAgree ==
    ReportsSpec => [](UndisturbedReportsAgree /\ BudgetCardsAgree /\ PagesCoverOnce)
  <1>1. ReportsInv => UndisturbedReportsAgree /\ BudgetCardsAgree /\ PagesCoverOnce
    BY ReportsDoAgree, CardsDoAgree, PagesDoCover
  <1>2. QED
    BY <1>1, FiguresStart, FiguresStep, PTL DEF ReportsSpec
=============================================================================
