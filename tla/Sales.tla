-------------------------------- MODULE Sales --------------------------------
(***************************************************************************)
(* The sales reports (src/modules/analytics/analytics.service.ts): what    *)
(* the admin is told of the orders, while orders are placed and delivered  *)
(* and the calendar goes on.                                               *)
(*                                                                         *)
(* Instants are numbered from the beginning of year 1, two to a day, the   *)
(* first of which is midnight; all months have the same length.  The       *)
(* server and the database have one time zone.                             *)
(***************************************************************************)
EXTENDS Integers, Sequences, FiniteSetsExt, SequencesExt

CONSTANTS
    SalesOrders, SalesProducts,
    Amounts,        \* totals and quantities that orders have
    DaysPerMonth,
    Moments,        \* bound: the instants at which something happens
    Missing         \* a parameter that the request leaves out

ASSUME SalesAssumption ==
    /\ Amounts \subseteq Nat /\ Moments \subseteq Nat /\ Moments # {}
    /\ DaysPerMonth \in Nat \ {0}
    /\ Missing \notin Nat
    /\ IsFiniteSet(SalesProducts)

SaleRow == [status : {"pending", "delivered"}, createdAt : Moments,
           total : Amounts, product : SalesProducts, quantity : Amounts]

VARIABLES now, sale

salesVars == <<now, sale>>

\* Months are counted from 0 on through all years.
Day(t) == t \div 2
MonthOfDay(d) == d \div DaysPerMonth
Month(t) == MonthOfDay(Day(t))
YearOf(m) == 1 + m \div 12
QuarterOf(m) == (m % 12) \div 3 + 1
January(year) == 12 * (year - 1)
MidnightOf(d) == 2 * d
FirstDay(m) == DaysPerMonth * m
CurrentYear == YearOf(Month(now))

Made == {o \in SalesOrders : sale[o] # Missing}
Delivered == {o \in Made : sale[o].status = "delivered"}
Revenue(S) == MapThenSumSet(LAMBDA o : sale[o].total, S)
Sold(S) == MapThenSumSet(LAMBDA o : sale[o].quantity, S)
OfMonth(m) == {o \in Delivered : Month(sale[o].createdAt) = m}
Between(S, from, to) == {o \in S : from <= sale[o].createdAt /\ sale[o].createdAt <= to}

SalesInit ==
    /\ now = Min(Moments)
    /\ sale = [o \in SalesOrders |-> Missing]

Tick ==
    /\ \E t \in Moments : t > now /\ now' = t
    /\ UNCHANGED sale

PlaceSale(o) ==
    /\ sale[o] = Missing
    /\ \E total, quantity \in Amounts, p \in SalesProducts :
          sale' = [sale EXCEPT ![o] = [status |-> "pending", createdAt |-> now,
                        total |-> total, product |-> p, quantity |-> quantity]]
    /\ UNCHANGED now

DeliverSale(o) ==
    /\ o \in Made \ Delivered
    /\ sale' = [sale EXCEPT ![o].status = "delivered"]
    /\ UNCHANGED now

SalesNext == Tick \/ \E o \in SalesOrders : PlaceSale(o) \/ DeliverSale(o)
SalesSpec == SalesInit /\ [][SalesNext]_salesVars
-----------------------------------------------------------------------------
(* The reports: sequences of [label, revenue], a label being a number.      *)

Entries(from, to, RevenueOf(_)) ==
    [i \in 1..(to - from + 1) |-> [label |-> from + i - 1, revenue |-> RevenueOf(from + i - 1)]]

\* Number(year) || the current year
Selected(year) == IF year = 0 THEN CurrentYear ELSE year

\* The current year has months up to the current one.
LastMonth(year) == IF year = CurrentYear THEN Month(now) ELSE January(year) + 11

revenueByMonth(year) ==
    LET y == Selected(year)
    IN Entries(January(y), LastMonth(y), LAMBDA m : Revenue(OfMonth(m)))

revenueByQuarter(year) ==
    LET y == Selected(year)
        last == IF y = CurrentYear THEN QuarterOf(Month(now)) ELSE 4
        InQuarter(q) == {o \in Delivered : LET m == Month(sale[o].createdAt)
                                           IN YearOf(m) = y /\ QuarterOf(m) = q}
    IN Entries(1, last, LAMBDA q : Revenue(InQuarter(q)))

revenueByYear ==
    Entries(CurrentYear - 1, CurrentYear, LAMBDA y :
        Revenue({o \in Delivered : YearOf(Month(sale[o].createdAt)) = y}))

\* Mutant: the last day is not counted.
RangeEnd_Excluded(end) == MidnightOf(end)

\* endPlusOne
RangeEnd(end) == MidnightOf(end + 1)

\* All months from the first day's to the last day's; those at the ends count
\* the orders of the given days alone.
revenueByRange(start, end) ==
    LET InRange == {o \in Delivered : /\ MidnightOf(start) <= sale[o].createdAt
                                      /\ sale[o].createdAt < RangeEnd(end)}
    IN Entries(MonthOfDay(start), MonthOfDay(end), LAMBDA m : Revenue(InRange \cap OfMonth(m)))

\* getRevenue: a report, or Missing for a request that is refused.
getRevenue(type, year, start, end) ==
    CASE type = "month" -> IF year = Missing THEN Missing ELSE revenueByMonth(year)
      [] type = "quarter" -> IF year = Missing THEN Missing ELSE revenueByQuarter(year)
      [] type = "year" -> revenueByYear
      [] type = "range" -> IF Missing \in {start, end} THEN Missing ELSE revenueByRange(start, end)

\* The numbers of the current month; the orders are counted with the first
\* instant of the next one.
getAnalytics ==
    LET start == MidnightOf(FirstDay(Month(now)))
        end == MidnightOf(FirstDay(Month(now) + 1))
        ThisMonth == Between(Delivered, start, end - 1)
    IN [totalRevenue |-> Revenue(ThisMonth),
        totalProductSold |-> Sold(ThisMonth),
        totalOrders |-> Cardinality(Between(Delivered, start, end))]

\* getTopProducts' period: endOf('year') plus a day is the end of 1 January, and
\* for a range the first instant of the day after it counts too.
TopPeriod(type, year, start, end) ==
    LET FromYear(y) == MidnightOf(FirstDay(January(y)))
        ToYear(y) == MidnightOf(FirstDay(January(y + 1)) + 1) - 1
    IN CASE type \in {"month", "quarter"} -> <<FromYear(year), ToYear(year)>>
         [] type = "year" -> <<FromYear(CurrentYear - 1), ToYear(CurrentYear)>>
         [] type = "range" -> <<MidnightOf(start), MidnightOf(end + 1)>>

\* The products sold, each with its number; sorted in one of two directions.
getTopProducts(type, sellerType, limit, year, start, end) ==
    LET period == TopPeriod(type, year, start, end)
        counted == Between(Delivered, period[1], period[2])
        rows == {[label |-> p, quantitySold |-> Sold({o \in counted : sale[o].product = p})] :
                    p \in {sale[o].product : o \in counted}}
        Before(a, b) == IF sellerType = "best" THEN a.quantitySold >= b.quantitySold
                        ELSE a.quantitySold <= b.quantitySold
    IN IF \/ type \in {"month", "quarter"} /\ year \in {0, Missing}
          \/ type = "range" /\ Missing \in {start, end}
       THEN Missing
       ELSE {SubSeq(s, 1, Min({limit, Len(s)})) :
                s \in {t \in SetToSeqs(rows) : \A i, j \in DOMAIN t : i < j => Before(t[i], t[j])}}
-----------------------------------------------------------------------------
SalesTypeOK ==
    /\ now \in Moments
    /\ sale \in [SalesOrders -> SaleRow \cup {Missing}]

TotalRevenue(report) == FoldSeq(LAMBDA e, sum : e.revenue + sum, 0, report)
TotalPieces(list) == FoldSeq(LAMBDA e, sum : e.quantitySold + sum, 0, list)
Days == {Day(t) : t \in Moments}

(* Whatever the date, the reports tell one story: the months and the        *)
(* quarters of a year add up to the same revenue, the year's in the report  *)
(* by years and the range's from its first day to its last; the dashboard's *)
(* month is the last one listed; two ranges that meet add up to the whole;  *)
(* and the products sold this year are the pieces sold this year.           *)
OneStory ==
    /\ \A y \in 1..CurrentYear :
          LET months == TotalRevenue(getRevenue("month", y, Missing, Missing))
              from == FirstDay(January(y))
              to == FirstDay(January(y + 1)) - 1
          IN /\ months = TotalRevenue(getRevenue("quarter", y, Missing, Missing))
             /\ months = TotalRevenue(getRevenue("range", Missing, from, to))
             /\ \A i \in 1..2 : revenueByYear[i].label = y => revenueByYear[i].revenue = months
    /\ getAnalytics.totalRevenue = Last(revenueByMonth(0)).revenue
    /\ getAnalytics.totalOrders = Cardinality(OfMonth(Month(now)))
    /\ \A a, b, c \in Days : a <= b /\ b < c =>
          TotalRevenue(revenueByRange(a, c)) = TotalRevenue(revenueByRange(a, b)) + TotalRevenue(revenueByRange(b + 1, c))
    /\ LET thisYear == {o \in Delivered : YearOf(Month(sale[o].createdAt)) = CurrentYear}
       IN \A list \in getTopProducts("month", "best", Cardinality(SalesProducts), CurrentYear, Missing, Missing) :
             TotalPieces(list) = Sold(thisYear)

(* analytics.service.ts: the reports agree with each other, which says      *)
(* something as soon as there are orders.                                   *)
ReportsAgree == Made # {} => OneStory
=============================================================================
