------------------------- MODULE CardBillingProofs -------------------------
(***************************************************************************)
(* Safety of card billing: for any cards, expenses, calendar, closing days *)
(* and terms, and billing runs however late.                               *)
(***************************************************************************)
EXTENDS CardBilling, FiniteSetTheorems, WellFoundedInduction, TLAPS

-----------------------------------------------------------------------------
(* Numbers and the calendar.                                                 *)

\* A set of numbers that is not empty has a least one.
LEMMA Least ==
  ASSUME NEW T, T \subseteq Nat, T # {}
  PROVE  \E x \in T : \A y \in T : x <= y
<1> DEFINE R == OpToRel(<, Nat)
<1>1. IsWellFoundedOn(R, Nat)
  BY NatLessThanWellFounded, Zenon
<1>2. \A x, y \in Nat : x < y => <<x, y>> \in R
  BY DEF OpToRel
<1> HIDE DEF R
<1>3. PICK x \in T : \A y \in T : ~(<<y, x>> \in R)
  BY <1>1, WFMin
<1>4. \A y \in T : ~(y < x)
  BY <1>2, <1>3
<1> QED
  BY <1>4

LEMMA MinIsLeast ==
  ASSUME NEW T, T \subseteq Nat, T # {}
  PROVE  Min(T) \in T /\ \A y \in T : Min(T) <= y
<1>1. \E x \in T : \A y \in T : x <= y
  BY Least
<1> QED
  BY <1>1, Zenon DEF Min

\* A set of numbers below a bound has a greatest one.
LEMMA MaxIsGreatest ==
  ASSUME NEW n \in Nat, NEW T, T \subseteq 1 .. n, T # {}
  PROVE  Max(T) \in T
<1> DEFINE Below == {n - t : t \in T}
<1>6. \A t \in T : t \in Nat /\ t <= n /\ n - t \in Nat
  OBVIOUS
<1>1. Below \subseteq Nat /\ Below # {}
  BY <1>6
<1>2. PICK b \in Below : \A y \in Below : b <= y
  BY <1>1, Least
<1>3. PICK t \in T : b = n - t
  BY <1>2
<1>4. ASSUME NEW y \in T PROVE t >= y
  <2>1. n - y \in Below /\ n - t <= n - y
    BY <1>2, <1>3
  <2> QED
    BY <1>6, <2>1
<1>5. \E x \in T : \A y \in T : x >= y
  BY <1>4
<1> QED
  BY <1>5, Zenon DEF Max

\* Months are counted from 1, days too, and every month ends on a day.
LEMMA Calendar ==
  /\ NMonths \in Nat \ {0} /\ MinCycle \in Nat \ {0} /\ Months = 1 .. NMonths
  /\ \A m \in 0 .. NMonths : MonthEnd[m] \in Nat
  /\ \A m \in Months : /\ m \in 0 .. NMonths /\ m - 1 \in 0 .. NMonths
                       /\ MonthEnd[m - 1] + MinCycle <= MonthEnd[m]
  /\ Days \subseteq Nat \ {0} /\ Null \notin Days
<1>1. NMonths \in Nat \ {0} /\ MinCycle \in Nat \ {0} /\ Months = 1 .. NMonths
  BY BillingAssumption DEF Months
<1>2. \A m \in 0 .. NMonths : MonthEnd[m] \in Nat
  BY BillingAssumption
<1>3. \A m \in Months : m \in 0 .. NMonths /\ m - 1 \in 0 .. NMonths
  BY <1>1
<1>4. Days \subseteq Nat \ {0} /\ Null \notin Days
  BY <1>1, <1>2 DEF Days, Null
<1> QED
  BY <1>1, <1>2, <1>3, <1>4, BillingAssumption

\* A later month ends later.
LEMMA MonthsInOrder ==
  ASSUME NEW m \in 0 .. NMonths, NEW n \in 0 .. NMonths, m <= n
  PROVE  MonthEnd[m] <= MonthEnd[n]
<1> DEFINE Bad == {k \in Nat : m + k <= NMonths /\ ~(MonthEnd[m] <= MonthEnd[m + k])}
<1>1. Bad = {}
  <2>1. SUFFICES ASSUME Bad # {} PROVE FALSE
    OBVIOUS
  <2>2. PICK k \in Bad : \A j \in Bad : k <= j
    BY <2>1, Least
  <2>3. k \in Nat /\ m + k <= NMonths /\ ~(MonthEnd[m] <= MonthEnd[m + k])
    BY <2>2
  <2>4. m \in Nat /\ NMonths \in Nat /\ MonthEnd[m] \in Nat
    BY Calendar
  <2>5. k # 0
    BY <2>3, <2>4
  <2>6. k - 1 \in Nat /\ m + (k - 1) <= NMonths /\ ~(k <= k - 1)
    BY <2>3, <2>4, <2>5
  <2>7. MonthEnd[m] <= MonthEnd[m + (k - 1)]
    BY <2>2, <2>6
  <2>8. m + k \in Months /\ m + (k - 1) = (m + k) - 1
    BY <2>3, <2>4, <2>5, Calendar
  <2>9. MonthEnd[m + (k - 1)] + MinCycle <= MonthEnd[m + k]
        /\ MonthEnd[m + (k - 1)] \in Nat /\ MonthEnd[m + k] \in Nat
    BY <2>8, Calendar
  <2> QED
    BY <2>3, <2>4, <2>7, <2>9, Calendar
<1>2. n - m \in Nat /\ m + (n - m) = n /\ n <= NMonths
  BY Calendar
<1>3. n - m \notin Bad
  BY <1>1
<1> QED
  BY <1>2, <1>3

\* Every day has its month.
LEMMA MonthOfDay ==
  ASSUME NEW d \in Days
  PROVE  MonthOf(d) \in Months
<1> DEFINE After == {m \in Months : d <= MonthEnd[m]}
<1>1. d \in Nat \ {0} /\ d <= MonthEnd[NMonths] /\ NMonths \in Months
  BY Calendar DEF Days
<1>2. After \subseteq Nat /\ After # {}
  <2>1. NMonths \in After
    BY <1>1
  <2>2. Months \subseteq Nat
    BY Calendar
  <2> QED
    BY <2>1, <2>2
<1>3. PICK m \in After : \A n \in After : m <= n
  BY <1>2, Least
<1>4. MonthEnd[m - 1] < d
  <2>1. CASE m = 1
    BY <1>1, <2>1, BillingAssumption
  <2>2. CASE m # 1
    <3>1. m - 1 \in Months /\ ~(m <= m - 1)
      BY <1>3, <2>2, Calendar
    <3>2. ~(d <= MonthEnd[m - 1]) /\ MonthEnd[m - 1] \in Nat
      BY <1>3, <3>1, Calendar
    <3> QED
      BY <1>1, <3>2
  <2> QED
    BY <2>1, <2>2
<1>5. \E n \in Months : MonthEnd[n - 1] < d /\ d <= MonthEnd[n]
  BY <1>3, <1>4
<1>6. MonthOf(d) = CHOOSE n \in Months : MonthEnd[n - 1] < d /\ d <= MonthEnd[n]
  BY DEF MonthOf, monthOf
<1> QED
  BY <1>5, <1>6

\* A closing day falls in its month, on the month's last day if it is shorter.
LEMMA ClosingDayType ==
  ASSUME NEW m \in Months, NEW k \in Nat \ {0}
  PROVE  /\ DayIn(m, k) \in Days
         /\ DayIn(m, k) = (IF MonthEnd[m - 1] + k <= MonthEnd[m]
                           THEN MonthEnd[m - 1] + k ELSE MonthEnd[m])
         /\ MonthEnd[m - 1] < DayIn(m, k) /\ DayIn(m, k) <= MonthEnd[m]
<1> DEFINE a == MonthEnd[m - 1] + k
           b == MonthEnd[m]
<1>1. a \in Nat /\ b \in Nat /\ MonthEnd[m - 1] \in Nat
  BY Calendar
<1>2. MonthEnd[m - 1] < b
  BY <1>1, Calendar
<1>3. Min({a, b}) \in {a, b} /\ Min({a, b}) <= a /\ Min({a, b}) <= b
  <2> HIDE DEF a, b
  <2>1. Min({a, b}) \in {a, b} /\ \A y \in {a, b} : Min({a, b}) <= y
    BY <1>1, MinIsLeast
  <2> QED
    BY <2>1
<1>4. DayIn(m, k) = Min({a, b})
  BY DEF DayIn
<1>5. DayIn(m, k) = IF a <= b THEN a ELSE b
  BY <1>1, <1>3, <1>4
<1>6. b <= MonthEnd[NMonths] /\ MonthEnd[NMonths] \in Nat
  BY MonthsInOrder, Calendar
<1> QED
  BY <1>1, <1>2, <1>5, <1>6 DEF Days

\* Two closings on the same day of different months are a month apart.
LEMMA ClosingsAreFarApart ==
  ASSUME NEW m \in Months, NEW n \in Months, NEW k \in Nat \ {0},
         DayIn(m, k) < DayIn(n, k)
  PROVE  DayIn(n, k) - DayIn(m, k) >= MinCycle
<1> DEFINE a == DayIn(m, k)
           b == DayIn(n, k)
<1>1. /\ MonthEnd[m - 1] \in Nat /\ MonthEnd[m] \in Nat
      /\ MonthEnd[n - 1] \in Nat /\ MonthEnd[n] \in Nat
      /\ MonthEnd[m - 1] + MinCycle <= MonthEnd[m]
      /\ MonthEnd[n - 1] + MinCycle <= MonthEnd[n]
      /\ MinCycle \in Nat
  BY Calendar
<1>2. /\ a = (IF MonthEnd[m - 1] + k <= MonthEnd[m]
              THEN MonthEnd[m - 1] + k ELSE MonthEnd[m])
      /\ b = (IF MonthEnd[n - 1] + k <= MonthEnd[n]
              THEN MonthEnd[n - 1] + k ELSE MonthEnd[n])
      /\ MonthEnd[m - 1] < a /\ a <= MonthEnd[m]
      /\ MonthEnd[n - 1] < b /\ b <= MonthEnd[n]
      /\ a \in Nat /\ b \in Nat
  BY ClosingDayType, Calendar
<1>3. m \in Nat /\ n \in Nat /\ m - 1 \in 0 .. NMonths /\ n - 1 \in 0 .. NMonths
      /\ m \in 0 .. NMonths /\ n \in 0 .. NMonths
  BY Calendar
<1>4. a < b
  OBVIOUS
<1> HIDE DEF a, b
<1>5. m < n
  <2>1. m # n
    BY <1>2, <1>4
  <2>2. ~(n <= m - 1)
    <3>1. SUFFICES ASSUME n <= m - 1 PROVE FALSE
      OBVIOUS
    <3>2. MonthEnd[n] <= MonthEnd[m - 1]
      BY <1>3, <3>1, MonthsInOrder
    <3> QED
      BY <1>1, <1>2, <1>4, <3>2
  <2> QED
    BY <1>3, <2>1, <2>2
<1>6. MonthEnd[m] <= MonthEnd[n - 1]
  BY <1>3, <1>5, MonthsInOrder
<1>7. b - a >= MinCycle
  BY <1>1, <1>2, <1>6
<1> QED
  BY <1>7 DEF a, b
-----------------------------------------------------------------------------
(* The row of a card through a billing run.                                  *)

\* A card that can close cycles.  What the next closing is measured from: the
\* last one, on the closing day or, after a change of it, held back to MinCycle.
Billable(k) ==
  /\ k \in Card
  /\ k.created \in Days /\ k.closingDay \in ClosingDays
  /\ k.last # Null =>
       /\ k.created < k.last
       /\ IF k.minNext = 0 THEN \E m \in Months : k.last = DayIn(m, k.closingDay)
          ELSE k.minNext = k.last + MinCycle

\* The next closing lies after the last one, no earlier than MinCycle after it.
LEMMA NextClosing ==
  ASSUME NEW k, Billable(k), NEW until \in Nat, ClosingsOf(k, until) # {}
  PROVE  LET on == Min(ClosingsOf(k, until)) IN
         /\ on \in Days /\ CycleStart(k) \in Days
         /\ CycleStart(k) < on /\ on <= until
         /\ \E m \in Months : on = DayIn(m, k.closingDay)
         /\ k.last # Null => on - CycleStart(k) >= MinCycle
<1> DEFINE open == ClosingsOf(k, until)
           on == Min(open)
<1>1. k.closingDay \in Nat \ {0} /\ CycleStart(k) \in Days /\ k.minNext \in Nat
  BY BillingAssumption DEF Billable, Card, CycleStart
<1>2. \A m \in Months : DayIn(m, k.closingDay) \in Days
  BY <1>1, ClosingDayType
<1>3. open \subseteq Nat /\ open # {}
  BY <1>2, Calendar DEF ClosingsOf
<1>4. on \in open
  BY <1>3, MinIsLeast
<1>5. /\ \E m \in Months : on = DayIn(m, k.closingDay)
      /\ CycleStart(k) < on /\ on <= until /\ k.minNext <= on
  BY <1>4 DEF ClosingsOf
<1>6. on \in Days
  BY <1>2, <1>5
<1> HIDE DEF on
<1>7. ASSUME k.last # Null
      PROVE  on - CycleStart(k) >= MinCycle
  <2>1. CycleStart(k) = k.last
    BY <1>7 DEF CycleStart
  <2>2. CASE k.minNext = 0
    <3>1. PICK m \in Months : k.last = DayIn(m, k.closingDay)
      BY <1>7, <2>2 DEF Billable
    <3>2. PICK n \in Months : on = DayIn(n, k.closingDay)
      BY <1>5
    <3>3. DayIn(m, k.closingDay) < DayIn(n, k.closingDay)
      BY <1>5, <2>1, <3>1, <3>2
    <3> QED
      BY <1>1, <2>1, <3>1, <3>2, <3>3, ClosingsAreFarApart
  <2>3. CASE k.minNext # 0
    <3>1. k.minNext = k.last + MinCycle
      BY <1>7, <2>3 DEF Billable
    <3>2. on \in Nat /\ k.last \in Nat
      BY <1>1, <1>6, <2>1, Calendar
    <3> QED
      BY <1>5, <2>1, <3>1, <3>2, Calendar
  <2> QED
    BY <2>2, <2>3
<1> QED
  BY <1>1, <1>5, <1>6, <1>7 DEF on

\* A closed cycle leaves a card that can close the next one.
LEMMA ClosedIsBillable ==
  ASSUME NEW k, Billable(k), NEW on \in Days, CycleStart(k) < on,
         NEW m \in Months, on = DayIn(m, k.closingDay)
  PROVE  /\ Billable(Closed(k, on))
         /\ Closed(k, on).last = on
         /\ Closed(k, on).created = k.created /\ Closed(k, on).state = k.state
<1> DEFINE done == [k EXCEPT !.last = on]
           minNext == on + MinCycle
           changed == [done EXCEPT !.closingDay = k.pending, !.pending = Null,
                                   !.setAt = Null, !.minNext = minNext]
           regular == [done EXCEPT !.minNext = Null]
<1>1. k \in Card /\ k.created \in Days /\ on \in Nat \ {0} /\ k.closingDay \in ClosingDays
  BY Calendar DEF Billable
<1>2. k.created < on
  <2>1. k.created \in Nat /\ (k.last # Null => k.last \in Nat)
    BY <1>1, Calendar DEF Card
  <2> QED
    BY <1>1, <2>1 DEF Billable, CycleStart
<1>3. done \in Card /\ done.last = on /\ done.created = k.created /\ done.state = k.state
      /\ done.closingDay = k.closingDay /\ done.pending = k.pending
  BY <1>1 DEF Card
<1> HIDE DEF done
<1>4. CASE k.pending # Null /\ on >= k.setAt
  <2>1. minNext \in Nat /\ minNext # 0
    BY <1>1, Calendar
  <2>2. k.pending \in ClosingDays
    BY <1>1, <1>4 DEF Card
  <2>3. Closed(k, on) = changed
    BY <1>4 DEF Closed, done
  <2> HIDE DEF minNext
  <2>4. changed \in Card /\ changed.last = on /\ changed.created = k.created
        /\ changed.state = k.state /\ changed.closingDay = k.pending
        /\ changed.minNext = minNext
    BY <1>3, <2>1, <2>2 DEF Card
  <2> HIDE DEF changed
  <2> QED
    BY <1>1, <1>2, <2>1, <2>2, <2>3, <2>4 DEF Billable, minNext
<1>5. CASE ~(k.pending # Null /\ on >= k.setAt)
  <2>1. Closed(k, on) = regular
    BY <1>5 DEF Closed, done
  <2>2. regular \in Card /\ regular.last = on /\ regular.created = k.created
        /\ regular.state = k.state /\ regular.closingDay = k.closingDay
        /\ regular.minNext = 0
    BY <1>3 DEF Card, Null
  <2> HIDE DEF regular
  <2> QED
    BY <1>1, <1>2, <2>1, <2>2 DEF Billable
<1> QED
  BY <1>4, <1>5

\* One closing of a run, if there is one to make.
Closing(k, until) ==
  LET open == ClosingsOf(k, until) IN IF open = {} THEN k ELSE Closed(k, Min(open))

\* The rows of a run are reached one closing after the other.
LEMMA RowsFollow ==
  ASSUME NEW k, NEW until
  PROVE  /\ RowsAfter(k, until)[0] = k
         /\ \A n \in 1 .. NMonths :
              RowsAfter(k, until)[n] = Closing(RowsAfter(k, until)[n - 1], until)
<1> DEFINE IsRun(g, N) ==
             g = [n \in 0 .. N |-> IF n = 0 THEN k ELSE Closing(g[n - 1], until)]
           Bad == {N \in Nat : ~\E g : IsRun(g, N)}
<1>1. Bad = {}
  <2>1. SUFFICES ASSUME Bad # {} PROVE FALSE
    OBVIOUS
  <2>2. PICK N \in Bad : \A j \in Bad : N <= j
    BY <2>1, Least
  <2>3. N # 0
    <3>1. IsRun([n \in 0 .. 0 |-> k], 0)
      OBVIOUS
    <3> QED
      BY <2>2, <3>1
  <2>4. N - 1 \in Nat /\ N \in Nat /\ ~(N <= N - 1)
    BY <2>2, <2>3
  <2>5. PICK h : IsRun(h, N - 1)
    BY <2>2, <2>4
  <2> DEFINE g == [n \in 0 .. N |-> IF n = N THEN Closing(h[N - 1], until) ELSE h[n]]
  <2>6. ASSUME NEW n \in 0 .. N
        PROVE  g[n] = IF n = 0 THEN k ELSE Closing(g[n - 1], until)
    <3>1. CASE n = N
      <4>1. n - 1 \in 0 .. N /\ n - 1 # N /\ n # 0
        BY <2>4, <3>1
      <4> QED
        BY <3>1, <4>1
    <3>2. CASE n # N
      <4>1. n \in 0 .. N - 1
        BY <2>4, <3>2
      <4>2. h[n] = IF n = 0 THEN k ELSE Closing(h[n - 1], until)
        BY <2>5, <4>1
      <4>3. n # 0 => n - 1 \in 0 .. N /\ n - 1 # N
        BY <2>4
      <4> QED
        BY <3>2, <4>2, <4>3
    <3> QED
      BY <3>1, <3>2
  <2>7. IsRun(g, N)
    <3>1. g = [n \in 0 .. N |-> g[n]]
      OBVIOUS
    <3> HIDE DEF g
    <3> QED
      BY <2>6, <3>1
  <2> QED
    BY <2>2, <2>7
<1>2. \E g : IsRun(g, NMonths)
  BY <1>1, Calendar
<1> DEFINE row == RowsAfter(k, until)
<1>3. row = CHOOSE g : g = [n \in 0 .. NMonths |->
               IF n = 0 THEN k
               ELSE LET open == ClosingsOf(g[n - 1], until)
                    IN IF open = {} THEN g[n - 1] ELSE Closed(g[n - 1], Min(open))]
  BY DEF RowsAfter
<1>4. row = CHOOSE g : IsRun(g, NMonths)
  BY <1>3 DEF Closing
<1> HIDE DEF row
<1>5. IsRun(row, NMonths)
  BY <1>2, <1>4
<1>6. row = [n \in 0 .. NMonths |-> IF n = 0 THEN k ELSE Closing(row[n - 1], until)]
  BY <1>5
<1>7. 0 \in 0 .. NMonths /\ \A n \in 1 .. NMonths : n \in 0 .. NMonths /\ n # 0
  BY Calendar
<1>8. row[0] = k /\ \A n \in 1 .. NMonths : row[n] = Closing(row[n - 1], until)
  BY <1>6, <1>7
<1> QED
  BY <1>8 DEF row
-----------------------------------------------------------------------------
(* What an expense charges.                                                  *)

\* An expense has terms from its creation on; a one-off has one version of them
\* and its cash payment.
Settled(x) ==
  /\ x \in Expense /\ Len(x.terms) <= MaxTerms
  /\ x.kind = "none" => x.terms = <<>>
  /\ x.kind # "none" => Len(x.terms) >= 1 /\ x.day \in Days
  /\ x.kind = "once" => Len(x.terms) = 1 /\ x.paid = PaymentOf(x)

LEMMA TermsType ==
  ASSUME NEW x, Settled(x)
  PROVE  /\ Len(x.terms) \in Nat /\ DOMAIN x.terms = 1 .. Len(x.terms)
         /\ \A i \in DOMAIN x.terms : /\ x.terms[i] \in Terms
                                       /\ x.terms[i].share \in Allocations
                                       /\ x.terms[i].month \in Months
<1>1. x.terms \in Seq(Terms)
  BY DEF Settled, Expense
<1>2. Len(x.terms) \in Nat /\ DOMAIN x.terms = 1 .. Len(x.terms)
      /\ \A i \in DOMAIN x.terms : x.terms[i] \in Terms
  BY <1>1
<1> QED
  BY <1>2 DEF Terms

\* An occurrence is charged on some version of the terms.
LEMMA SomeTermsApply ==
  ASSUME NEW x, Settled(x), x.kind # "none", NEW d \in Days
  PROVE  \E i \in DOMAIN x.terms : TermsOf(x, d) = x.terms[i].share
<1>1. Len(x.terms) \in DOMAIN x.terms /\ Len(x.terms) \in Nat
      /\ DOMAIN x.terms = 1 .. Len(x.terms)
  BY TermsType DEF Settled
<1>2. CASE x.kind = "once" \/ VersionsBy(x, MonthOf(d)) = {}
  BY <1>1, <1>2 DEF TermsOf, TermsIn, Live
<1>3. CASE ~(x.kind = "once" \/ VersionsBy(x, MonthOf(d)) = {})
  <2> DEFINE old == VersionsBy(x, MonthOf(d))
  <2>1. old \subseteq 1 .. Len(x.terms) /\ old # {}
    BY <1>1, <1>3 DEF VersionsBy
  <2>2. TermsOf(x, d) = x.terms[Max(old)].share
    BY <1>3 DEF TermsOf, TermsIn
  <2> HIDE DEF old
  <2>3. Max(old) \in old
    BY <1>1, <2>1, MaxIsGreatest
  <2> QED
    BY <1>1, <2>1, <2>2, <2>3
<1> QED
  BY <1>2, <1>3

\* A charge is dated, a one-off's on its date, and made on a card of the terms.
LEMMA ChargeFacts ==
  ASSUME NEW x, Settled(x), NEW c \in Cards, NEW d \in Charges(x, c)
  PROVE  /\ d \in Days /\ c \in EveryCardOf(x)
         /\ x.kind \in {"once"} \cup Recurring
         /\ x.kind = "once" => d = x.day
<1>1. d \in Occurrences(x) /\ TermsOf(x, d)[c] > 0
  BY DEF Charges
<1>2. /\ d \in Days /\ x.kind \in {"once"} \cup Recurring
      /\ x.kind = "once" => d = x.day
  <2>1. CASE x.kind = "once"
    <3>1. Occurrences(x) = {x.day}
      BY <2>1 DEF Occurrences
    <3> QED
      BY <1>1, <2>1, <3>1 DEF Settled
  <2>2. CASE x.kind = "weekly"
    <3>1. Occurrences(x) \subseteq Days
      BY <2>2 DEF Occurrences
    <3> QED
      BY <1>1, <2>2, <3>1 DEF Recurring
  <2>3. CASE x.kind = "monthly"
    <3>1. Occurrences(x) \subseteq Days
      BY <2>3 DEF Occurrences
    <3> QED
      BY <1>1, <2>3, <3>1 DEF Recurring
  <2>4. CASE x.kind \notin {"once", "weekly", "monthly"}
    <3>1. Occurrences(x) = {}
      BY <2>4 DEF Occurrences
    <3> QED
      BY <1>1, <3>1
  <2> QED
    BY <2>1, <2>2, <2>3, <2>4
<1>3. PICK i \in DOMAIN x.terms : TermsOf(x, d) = x.terms[i].share
  BY <1>2, SomeTermsApply DEF Recurring
<1>4. c \in CardsOf(x.terms[i].share)
  BY <1>1, <1>3 DEF CardsOf
<1>5. c \in EveryCardOf(x)
  BY <1>3, <1>4 DEF EveryCardOf
<1> QED
  BY <1>2, <1>5

\* What a cycle charges falls in its window, or is a one-off that a first cycle,
\* or the first one of a run, finds unbilled.
LEMMA CycleCharges ==
  ASSUME NEW c \in Cards, NEW k, CycleStart(k) \in Days, NEW on \in Days,
         CycleStart(k) <= on, NEW late, NEW final,
         NEW e \in Expenses, Settled(expense[e]), NEW d,
         <<e, d>> \in CycleOf(c, k, on, late, final).charges
  PROVE  /\ d \in Charges(expense[e], c) /\ d <= on
         /\ \/ CycleStart(k) < d
            \/ k.last = Null /\ d = CycleStart(k)
            \/ /\ expense[e].kind = "once"
               /\ k.last = Null \/ (late /\ c \notin expense[e].seen)
<1> DEFINE x == expense[e]
<1>1. CycleOf(c, k, on, late, final).charges =
        UNION {{f} \X ((Charges(expense[f], c) \cap InWindow(k, on))
                       \cup Earlier(c, k, expense[f], late)) : f \in Expenses}
  BY DEF CycleOf
<1>2. d \in (Charges(x, c) \cap InWindow(k, on)) \cup Earlier(c, k, x, late)
  BY <1>1
<1>3. CASE d \in Charges(x, c) \cap InWindow(k, on)
  BY <1>3 DEF InWindow
<1>4. CASE d \in Earlier(c, k, x, late)
  <2>1. /\ x.kind = "once"
        /\ k.last = Null \/ (late /\ c \notin x.seen)
        /\ x.day < CycleStart(k) + (IF k.last = Null THEN 0 ELSE 1)
        /\ d \in Charges(x, c)
    BY <1>4 DEF Earlier
  <2>4. Settled(x)
    OBVIOUS
  <2> HIDE DEF x
  <2>5. d = x.day /\ d \in Days
    BY <2>1, <2>4, ChargeFacts
  <2>2. d = x.day /\ d \in Nat /\ CycleStart(k) \in Nat /\ on \in Nat
    BY <2>5, Calendar
  <2>3. d <= on
    BY <2>1, <2>2
  <2> QED
    BY <2>1, <2>3 DEF x
<1> QED
  BY <1>2, <1>3, <1>4

\* The total of an amount no card carries is its cash share.
LEMMA CashTotal ==
  ASSUME NEW share \in [Payers -> Nat], CardsOf(share) = {}
  PROVE  Total(share) = share[Cash]
<1> DEFINE pick(s) == CHOOSE x \in s : TRUE
           IsSum(g) == g = [s \in SUBSET Payers |->
             IF s = {} THEN 0 ELSE share[pick(s)] + g[s \ {pick(s)}]]
           F == [s \in SUBSET Payers |-> IF Cash \in s THEN share[Cash] ELSE 0]
           iter == CHOOSE g : IsSum(g)
<1>1. share[Cash] \in Nat /\ \A p \in Payers : p # Cash => share[p] = 0
  BY DEF Payers, CardsOf
<1>2. \A s : s # {} => pick(s) \in s
  OBVIOUS
<1>3. Total(share) = iter[Payers]
  BY DEF Total, MapThenSumSet, MapThenFoldSet
<1> HIDE DEF pick
<1>4. ASSUME NEW s \in SUBSET Payers, s # {}
      PROVE  F[s] = share[pick(s)] + F[s \ {pick(s)}]
  <2>1. pick(s) \in s /\ s \ {pick(s)} \in SUBSET Payers
    BY <1>2, <1>4
  <2>2. CASE pick(s) = Cash
    BY <1>1, <2>1, <2>2
  <2>3. CASE pick(s) # Cash
    BY <1>1, <2>1, <2>3
  <2> QED
    BY <2>2, <2>3
<1>5. F[{}] = 0
  OBVIOUS
<1>6. IsSum(F)
  <2>1. F = [s \in SUBSET Payers |-> F[s]]
    OBVIOUS
  <2> HIDE DEF F
  <2> QED
    BY <1>4, <1>5, <2>1
<1>7. IsSum(iter)
  BY <1>6
<1> HIDE DEF iter
<1>8. iter[{}] = 0 /\ \A s \in SUBSET Payers : s # {} =>
        iter[s] = share[pick(s)] + iter[s \ {pick(s)}]
  BY <1>7
<1> HIDE DEF IsSum, F
<1> DEFINE Bad == {s \in SUBSET Payers : iter[s] # F[s]}
           Sizes == {Cardinality(s) : s \in Bad}
<1>9. \A s \in SUBSET Payers : IsFiniteSet(s)
  <2>1. IsFiniteSet(Payers)
    BY BillingAssumption, FS_AddElement DEF Payers
  <2> QED
    BY <2>1, FS_Subset
<1>10. Bad = {}
  <2>1. SUFFICES ASSUME Bad # {} PROVE FALSE
    OBVIOUS
  <2>2. Sizes \subseteq Nat /\ Sizes # {}
    BY <1>9, <2>1, FS_CardinalityType
  <2>3. PICK n \in Sizes : \A m \in Sizes : n <= m
    <3> HIDE DEF Sizes
    <3> QED
      BY <2>2, Least
  <2>4. PICK s \in Bad : n = Cardinality(s)
    BY <2>3
  <2>5. s # {} /\ s \in SUBSET Payers /\ iter[s] # F[s]
    BY <1>5, <1>8, <2>4
  <2> DEFINE t == s \ {pick(s)}
  <2>6. pick(s) \in s /\ t \in SUBSET Payers
    BY <1>2, <2>5
  <2>7. Cardinality(t) = Cardinality(s) - 1 /\ Cardinality(s) \in Nat
    BY <1>9, <2>5, <2>6, FS_RemoveElement, FS_CardinalityType
  <2>8. iter[t] # F[t]
    BY <1>4, <1>8, <2>5
  <2>9. Cardinality(t) \in Sizes
    BY <2>6, <2>8
  <2>10. n <= Cardinality(t)
    BY <2>3, <2>9, Zenon
  <2> HIDE DEF Bad, Sizes, t
  <2> QED
    BY <2>4, <2>7, <2>10
<1>11. iter[Payers] = F[Payers] /\ F[Payers] = share[Cash]
  BY <1>10 DEF F, Payers
<1> QED
  BY <1>3, <1>11

-----------------------------------------------------------------------------
(* The cycles of a card.                                                     *)

\* They follow each other up to the last one, none shorter than it may be.
Ordered(k, C) ==
  /\ k.last = Null => C = {}
  /\ k.last # Null => \E y \in C : y.on = k.last
  /\ \A y \in C : y \in Cycle /\ k.created <= y.from /\ y.from <= y.on /\ y.on <= k.last
  /\ \A y \in C : \/ y.from = k.created
                  \/ /\ \E z \in C : z.on = y.from
                     /\ y.final \/ y.on - y.from >= MinCycle
  /\ \A y, z \in C : y # z => y.on <= z.from \/ z.on <= y.from

\* A charge they hold still is one of its expense: a one-off's on its day, any
\* other within the cycle.
Explained(X, c, k, C) ==
  \A y \in C, e \in Expenses, d \in Days : <<e, d>> \in y.charges =>
    /\ d <= y.on /\ c \in EveryCardOf(X[e])
    /\ X[e].kind \in {"once"} \cup Recurring
    /\ IF X[e].kind = "once" THEN d = X[e].day
       ELSE y.from < d \/ (d = y.from /\ y.from = k.created)

\* A one-off that was billed is marked.
Marked(X, c, C) ==
  \A y \in C, e \in Expenses, d \in Days :
    <<e, d>> \in y.charges /\ X[e].kind = "once" => c \in X[e].seen

Disjoint(C) == \A y, z \in C : y # z => y.charges \cap z.charges = {}

\* A one-off on card c that the last closing of row k has reached.
Reached(x, c, k) ==
  x.kind = "once" /\ Live(x)[c] > 0 /\ k.last # Null /\ x.day <= k.last

HeldBy(e, d, C) == \E y \in C : <<e, d>> \in y.charges

\* A marked one-off is held by a cycle as soon as a closing has reached it.
Complete(X, c, k, C) ==
  \A e \in Expenses :
    Reached(X[e], c, k) /\ c \in X[e].seen => HeldBy(e, X[e].day, C)

\* So it is after a run, marked before it or not.
AllHeld(c, k, C) ==
  \A e \in Expenses : Reached(expense[e], c, k) => HeldBy(e, expense[e].day, C)

\* A cycle holds the one-offs of its window, those of before a first cycle, and
\* those of before the first one of a run that are not marked.
LEMMA CycleHolds ==
  ASSUME NEW c \in Cards, NEW k, CycleStart(k) \in Nat, NEW on \in Nat, NEW late, NEW final,
         NEW e \in Expenses, Settled(expense[e]), expense[e].kind = "once",
         Live(expense[e])[c] > 0, expense[e].day <= on,
         \/ expense[e].day > CycleStart(k)
         \/ k.last = Null
         \/ late /\ c \notin expense[e].seen
  PROVE  <<e, expense[e].day>> \in CycleOf(c, k, on, late, final).charges
<1> DEFINE x == expense[e]
           d == x.day
<1>1. d \in Days /\ d \in Nat
  BY Calendar DEF Settled
<1>2. d \in Charges(x, c)
  BY DEF Charges, Occurrences, TermsOf
<1>3. d \in InWindow(k, on) \/ d \in Earlier(c, k, x, late)
  <2>1. CASE d > CycleStart(k) \/ (k.last = Null /\ d = CycleStart(k))
    BY <1>1, <2>1 DEF InWindow
  <2>2. CASE ~(d > CycleStart(k) \/ (k.last = Null /\ d = CycleStart(k)))
    <3>1. k.last = Null \/ (late /\ c \notin x.seen)
      BY <2>2
    <3>2. d < CycleStart(k) + (IF k.last = Null THEN 0 ELSE 1)
      BY <1>1, <2>2
    <3> QED
      BY <1>2, <3>1, <3>2 DEF Earlier
  <2> QED
    BY <2>1, <2>2
<1>4. CycleOf(c, k, on, late, final).charges =
        UNION {{f} \X ((Charges(expense[f], c) \cap InWindow(k, on))
                       \cup Earlier(c, k, expense[f], late)) : f \in Expenses}
  BY DEF CycleOf
<1> HIDE DEF d
<1>5. <<e, d>> \in {e} \X ((Charges(expense[e], c) \cap InWindow(k, on))
                           \cup Earlier(c, k, expense[e], late))
  BY <1>2, <1>3
<1>6. <<e, d>> \in CycleOf(c, k, on, late, final).charges
  BY <1>4, <1>5
<1> QED
  BY <1>6 DEF d

\* The first cycle a run closes, and every further one, leaves no one-off out.
LEMMA OneMoreHeld ==
  ASSUME \A e \in Expenses : Settled(expense[e]), NEW c \in Cards,
         NEW k, CycleStart(k) \in Nat, NEW on \in Nat, NEW late, NEW final,
         NEW C, (late /\ Complete(expense, c, k, C)) \/ AllHeld(c, k, C),
         NEW r, r.last = on
  PROVE  AllHeld(c, r, C \cup {CycleOf(c, k, on, late, final)})
<1> DEFINE z == CycleOf(c, k, on, late, final)
<1>1. SUFFICES ASSUME NEW e \in Expenses, Reached(expense[e], c, r)
               PROVE  HeldBy(e, expense[e].day, C \cup {z})
  BY DEF AllHeld
<1> DEFINE x == expense[e]
<1>2. x.kind = "once" /\ Live(x)[c] > 0 /\ x.day <= on /\ x.day \in Nat
  BY <1>1, Calendar DEF Reached, Settled
<1>3. CASE x.day > CycleStart(k) \/ k.last = Null \/ (late /\ c \notin x.seen)
  <2>1. <<e, x.day>> \in z.charges
    BY <1>2, <1>3, CycleHolds
  <2> HIDE DEF z
  <2> QED
    BY <2>1 DEF HeldBy
<1>4. CASE ~(x.day > CycleStart(k) \/ k.last = Null \/ (late /\ c \notin x.seen))
  <2>1. x.day <= k.last /\ k.last # Null
    BY <1>2, <1>4 DEF CycleStart
  <2>2. Reached(x, c, k)
    BY <1>2, <2>1 DEF Reached
  <2>3. HeldBy(e, x.day, C)
    BY <1>4, <2>2 DEF Complete, AllHeld
  <2> HIDE DEF z
  <2> QED
    BY <2>3 DEF HeldBy
<1> QED
  BY <1>3, <1>4

\* One more cycle, closed by the billing run or by the archiving of the card.
LEMMA OneMoreCycle ==
  ASSUME \A e \in Expenses : Settled(expense[e]), NEW c \in Cards,
         NEW k, k.created \in Days, k.last \in Days \cup {Null},
         k.last # Null => k.created < k.last,
         NEW on \in Days, CycleStart(k) <= on,
         NEW late \in BOOLEAN, NEW final \in BOOLEAN,
         k.last # Null => final \/ on - CycleStart(k) >= MinCycle,
         NEW C, Ordered(k, C), Explained(expense, c, k, C), Disjoint(C),
         late => Marked(expense, c, C), late \/ k.last # Null,
         NEW r, r.created = k.created, r.last = on
  PROVE  LET D == C \cup {CycleOf(c, k, on, late, final)} IN
         Ordered(r, D) /\ Explained(expense, c, r, D) /\ Disjoint(D)
<1> DEFINE z == CycleOf(c, k, on, late, final)
           D == C \cup {z}
<1>1. /\ CycleStart(k) \in Days /\ k.created <= CycleStart(k)
      /\ CycleStart(k) = (IF k.last = Null THEN k.created ELSE k.last)
      /\ CycleStart(k) \in Nat /\ on \in Nat \ {0} /\ k.created \in Nat
  <2>1. k.created \in Nat /\ on \in Nat \ {0} /\ (k.last # Null => k.last \in Nat)
    BY Calendar
  <2> QED
    BY <2>1 DEF CycleStart
<1>2. z.from = CycleStart(k) /\ z.on = on /\ z.final = final
  BY DEF CycleOf
<1>3. ASSUME NEW e \in Expenses, NEW d, <<e, d>> \in z.charges
      PROVE  /\ d \in Charges(expense[e], c) /\ d <= on /\ d \in Days
             /\ c \in EveryCardOf(expense[e])
             /\ expense[e].kind \in {"once"} \cup Recurring
             /\ expense[e].kind = "once" => d = expense[e].day
             /\ \/ CycleStart(k) < d
                \/ k.last = Null /\ d = CycleStart(k)
                \/ /\ expense[e].kind = "once"
                   /\ k.last = Null \/ (late /\ c \notin expense[e].seen)
  BY <1>1, <1>3, CycleCharges, ChargeFacts
<1>4. z \in Cycle
  <2>1. z.charges \subseteq Expenses \X Days
    <3>1. SUFFICES ASSUME NEW q \in z.charges PROVE q \in Expenses \X Days
      OBVIOUS
    <3>2. PICK e \in Expenses : q \in {e} \X ((Charges(expense[e], c) \cap InWindow(k, on))
                                             \cup Earlier(c, k, expense[e], late))
      BY <3>1 DEF CycleOf
    <3>3. PICK d : q = <<e, d>>
      BY <3>2
    <3> QED
      BY <1>3, <3>1, <3>3
  <2>2. z = [from |-> z.from, on |-> z.on, final |-> z.final, charges |-> z.charges]
    BY DEF CycleOf
  <2> HIDE DEF z
  <2> QED
    BY <1>1, <1>2, <2>1, <2>2 DEF Cycle
<1> HIDE DEF z
<1>5. /\ \A y \in C : y \in Cycle /\ k.created <= y.from /\ y.from <= y.on /\ y.on <= k.last
      /\ \A y \in C : y.from \in Nat /\ y.on \in Nat
      /\ C # {} => k.last # Null
  BY Calendar DEF Ordered, Cycle
<1>6. \A y \in C : y.on <= z.from
  BY <1>1, <1>2, <1>5
<1>7. Ordered(r, D)
  <2>1. r.last # Null /\ \E y \in D : y.on = r.last
    BY <1>1, <1>2, Calendar DEF Null
  <2>2. \A y \in D : y \in Cycle /\ r.created <= y.from /\ y.from <= y.on /\ y.on <= r.last
    <3>1. ASSUME NEW y \in C PROVE y.on <= on
      BY <1>1, <1>2, <1>5, <1>6
    <3> QED
      BY <1>1, <1>2, <1>4, <1>5, <3>1
  <2>3. ASSUME NEW y \in D
        PROVE  \/ y.from = r.created
               \/ /\ \E x \in D : x.on = y.from
                  /\ y.final \/ y.on - y.from >= MinCycle
    <3>1. CASE y \in C
      BY <3>1 DEF Ordered
    <3>2. CASE y = z
      <4>1. CASE k.last = Null
        BY <1>1, <1>2, <3>2, <4>1
      <4>2. CASE k.last # Null
        <5>1. \E x \in C : x.on = k.last
          BY <4>2 DEF Ordered
        <5> QED
          BY <1>1, <1>2, <3>2, <4>2, <5>1
      <4> QED
        BY <4>1, <4>2
    <3> QED
      BY <3>1, <3>2
  <2>4. \A x, y \in D : x # y => x.on <= y.from \/ y.on <= x.from
    BY <1>6 DEF Ordered
  <2> QED
    BY <2>1, <2>2, <2>3, <2>4 DEF Ordered
<1>8. Explained(expense, c, r, D)
  <2>1. SUFFICES ASSUME NEW y \in D, NEW e \in Expenses, NEW d \in Days, <<e, d>> \in y.charges
        PROVE  /\ d <= y.on /\ c \in EveryCardOf(expense[e])
               /\ expense[e].kind \in {"once"} \cup Recurring
               /\ IF expense[e].kind = "once" THEN d = expense[e].day
                  ELSE y.from < d \/ (d = y.from /\ y.from = r.created)
    BY DEF Explained
  <2>2. CASE y \in C
    BY <2>1, <2>2 DEF Explained
  <2>3. CASE y = z
    BY <1>1, <1>2, <1>3, <2>1, <2>3
  <2> QED
    BY <2>2, <2>3
<1>9. Disjoint(D)
  <2>1. ASSUME NEW y \in C, NEW q \in y.charges \cap z.charges PROVE FALSE
    <3>1. PICK e \in Expenses, d \in Days : q = <<e, d>>
      BY <1>5, <2>1 DEF Cycle
    <3>2. d <= y.on /\ y.on <= CycleStart(k) /\ k.last # Null /\ d \in Nat /\ y.on \in Nat
      BY <1>2, <1>5, <1>6, <2>1, <3>1, Calendar DEF Explained
    <3>3. expense[e].kind = "once" /\ late /\ c \notin expense[e].seen
      BY <1>1, <1>3, <2>1, <3>1, <3>2
    <3> QED
      BY <2>1, <3>1, <3>3 DEF Marked
  <2> QED
    BY <2>1 DEF Disjoint
<1> QED
  BY <1>7, <1>8, <1>9 DEF z
-----------------------------------------------------------------------------
(* The invariant.                                                            *)

CardOk(c) ==
  /\ card[c].state = "none" => card[c] = NoCard
  /\ card[c].state # "none" => card[c].created \in Days /\ card[c].created <= today
  /\ card[c].state = "active" =>
       Billable(card[c]) /\ (card[c].last # Null => card[c].last < today)
  /\ Ordered(card[c], cycles[c])
  /\ Explained(expense, c, card[c], cycles[c])
  /\ Marked(expense, c, cycles[c])
  /\ Disjoint(cycles[c])
  /\ Complete(expense, c, card[c], cycles[c])

IInv ==
  /\ TypeOK
  /\ \A e \in Expenses : Settled(expense[e])
  /\ \A c \in Cards : CardOk(c)

\* Seen only marks the expenses that exist.
LEMMA SeenFacts ==
  ASSUME \A e \in Expenses : Settled(expense[e]), NEW cards \in SUBSET Cards
  PROVE  /\ Seen(cards) \in [Expenses -> Expense]
         /\ \A e \in Expenses :
              /\ Settled(Seen(cards)[e])
              /\ Seen(cards)[e].kind = expense[e].kind
              /\ Seen(cards)[e].day = expense[e].day
              /\ Seen(cards)[e].terms = expense[e].terms
              /\ expense[e].seen \subseteq Seen(cards)[e].seen
              /\ Seen(cards)[e].seen \subseteq expense[e].seen \cup cards
              /\ expense[e].kind # "none" => cards \subseteq Seen(cards)[e].seen
<1>1. ASSUME NEW e \in Expenses
      PROVE  /\ Seen(cards)[e] \in Expense /\ Settled(Seen(cards)[e])
             /\ Seen(cards)[e].kind = expense[e].kind
             /\ Seen(cards)[e].day = expense[e].day
             /\ Seen(cards)[e].terms = expense[e].terms
             /\ expense[e].seen \subseteq Seen(cards)[e].seen
             /\ Seen(cards)[e].seen \subseteq expense[e].seen \cup cards
             /\ expense[e].kind # "none" => cards \subseteq Seen(cards)[e].seen
  <2> DEFINE x == expense[e]
             y == Seen(cards)[e]
  <2>1. Settled(x) /\ x \in Expense
    BY DEF Settled
  <2>2. y = IF x.kind = "none" THEN x ELSE [x EXCEPT !.seen = @ \cup cards]
    BY DEF Seen
  <2> HIDE DEF x, y
  <2>3. CASE x.kind = "none"
    BY <2>1, <2>2, <2>3 DEF x, y
  <2>4. CASE x.kind # "none"
    <3>1. y \in Expense /\ y.kind = x.kind /\ y.day = x.day /\ y.terms = x.terms
          /\ y.ends = x.ends /\ y.due = x.due /\ y.paid = x.paid
          /\ y.seen = x.seen \cup cards
      BY <2>1, <2>2, <2>4 DEF Expense
    <3>2. PaymentOf(y) = PaymentOf(x)
      BY <3>1 DEF PaymentOf, Live
    <3>3. Settled(y)
      BY <2>1, <3>1, <3>2 DEF Settled
    <3> QED
      BY <3>1, <3>3 DEF x, y
  <2> QED
    BY <2>3, <2>4
<1>2. Seen(cards) = [e \in Expenses |-> Seen(cards)[e]]
  BY DEF Seen
<1> QED
  BY <1>1, <1>2

\* What explains the cycles is the kind, day and terms of an expense.
LEMMA StillExplained ==
  ASSUME NEW X, NEW Y, NEW c, NEW k, NEW C, Explained(X, c, k, C),
         \A e \in Expenses :
           Y[e].kind = X[e].kind /\ Y[e].day = X[e].day /\ Y[e].terms = X[e].terms
  PROVE  Explained(Y, c, k, C)
<1>1. \A e \in Expenses : EveryCardOf(Y[e]) = EveryCardOf(X[e])
  BY DEF EveryCardOf
<1> QED
  BY <1>1 DEF Explained

-----------------------------------------------------------------------------
(* The billing run.                                                          *)

Rows(c) == RowsAfter(card[c], today - 1)

\* The cycles of card c after n closings of the run.
RunCycles(c, n) ==
  cycles[c] \cup {CycleOf(c, Rows(c)[i - 1], Rows(c)[i].last, i = 1, FALSE) :
                    i \in {j \in 1 .. n : Rows(c)[j] # Rows(c)[j - 1]}}

RunInv(c, n) ==
  /\ Billable(Rows(c)[n])
  /\ Rows(c)[n].created = card[c].created /\ Rows(c)[n].state = card[c].state
  /\ n # 0 => Rows(c)[n].last # Null /\ Rows(c)[n].last < today
  /\ Ordered(Rows(c)[n], RunCycles(c, n))
  /\ Explained(expense, c, Rows(c)[n], RunCycles(c, n))
  /\ Disjoint(RunCycles(c, n))
  /\ Complete(expense, c, Rows(c)[n], RunCycles(c, n))
  /\ n # 0 => AllHeld(c, Rows(c)[n], RunCycles(c, n))

\* The n-th step of the run closes a cycle of card c.
ClosesOn(c, n, on) ==
  LET k == Rows(c)[n - 1]
      r == Rows(c)[n]
  IN /\ CycleStart(k) \in Days /\ CycleStart(k) < on /\ on <= today - 1
     /\ k.last # Null => on - CycleStart(k) >= MinCycle
     /\ r.last = on /\ r.created = k.created /\ r.state = k.state
     /\ Billable(r)
     /\ RunCycles(c, n) = RunCycles(c, n - 1) \cup {CycleOf(c, k, on, n = 1, FALSE)}

\* A step closes one more cycle or, after the first one, none.
LEMMA RunUnfolds ==
  ASSUME IInv, NEW c \in Cards, Overdue(c),
         NEW n \in 1 .. NMonths, Billable(Rows(c)[n - 1])
  PROVE  /\ n = 1 => RunCycles(c, n - 1) = cycles[c] /\ Rows(c)[n - 1] = card[c]
         /\ \/ /\ n # 1 /\ Rows(c)[n] = Rows(c)[n - 1]
               /\ RunCycles(c, n) = RunCycles(c, n - 1)
            \/ \E on \in Days : ClosesOn(c, n, on)
<1> DEFINE k == Rows(c)[n - 1]
           open == ClosingsOf(k, today - 1)
           on == Min(open)
           C == RunCycles(c, n - 1)
<1>1. n - 1 \in Nat /\ n \in Nat /\ n # 0 /\ today - 1 \in Nat /\ today \in Nat
  BY Calendar DEF IInv, TypeOK
<1>2. Rows(c)[0] = card[c] /\ Rows(c)[n] = Closing(k, today - 1)
  BY RowsFollow DEF Rows
<1>3. n = 1 => open # {} /\ C = cycles[c] /\ k = card[c]
  <2>1. ASSUME n = 1 PROVE open # {}
    BY <1>2, <2>1 DEF Overdue
  <2>2. ASSUME n = 1 PROVE C = cycles[c]
    <3>1. 1 .. n - 1 = {}
      BY <2>2
    <3> QED
      BY <3>1 DEF RunCycles
  <2> QED
    BY <1>2, <2>1, <2>2
<1>4. CASE open = {}
  <2>1. Rows(c)[n] = k /\ n # 1
    BY <1>1, <1>2, <1>3, <1>4 DEF Closing
  <2>2. RunCycles(c, n) = C
    <3>1. {j \in 1 .. n : Rows(c)[j] # Rows(c)[j - 1]}
            = {j \in 1 .. n - 1 : Rows(c)[j] # Rows(c)[j - 1]}
      <4>1. \A j : j \in 1 .. n <=> j \in 1 .. n - 1 \/ j = n
        BY <1>1
      <4> QED
        BY <2>1, <4>1
    <3> QED
      BY <3>1 DEF RunCycles
  <2> QED
    BY <1>3, <2>1, <2>2
<1>5. CASE open # {}
  <2>1. Billable(k)
    OBVIOUS
  <2>2. /\ on \in Days /\ CycleStart(k) \in Days
        /\ CycleStart(k) < on /\ on <= today - 1
        /\ k.last # Null => on - CycleStart(k) >= MinCycle
        /\ \E m \in Months : on = DayIn(m, k.closingDay)
    BY <1>1, <1>5, <2>1, NextClosing
  <2>3. Rows(c)[n] = Closed(k, on)
    BY <1>2, <1>5 DEF Closing
  <2> HIDE DEF on, open
  <2>4. /\ Billable(Closed(k, on)) /\ Closed(k, on).last = on
        /\ Closed(k, on).created = k.created /\ Closed(k, on).state = k.state
    <3>1. PICK m \in Months : on = DayIn(m, k.closingDay)
      BY <2>2
    <3> HIDE DEF k
    <3> QED
      BY <2>1, <2>2, <3>1, ClosedIsBillable
  <2> DEFINE r == Rows(c)[n]
  <2>5. r.last = on /\ r.created = k.created /\ r.state = k.state /\ Billable(r)
    BY <2>3, <2>4
  <2>6. r # k
    BY <2>2, <2>5, Calendar DEF CycleStart
  <2>7. RunCycles(c, n) = C \cup {CycleOf(c, k, on, n = 1, FALSE)}
    <3>1. {j \in 1 .. n : Rows(c)[j] # Rows(c)[j - 1]}
            = {j \in 1 .. n - 1 : Rows(c)[j] # Rows(c)[j - 1]} \cup {n}
      <4>1. \A j : j \in 1 .. n <=> j \in 1 .. n - 1 \/ j = n
        BY <1>1
      <4> QED
        BY <2>6, <4>1
    <3> DEFINE closed(i) == CycleOf(c, Rows(c)[i - 1], Rows(c)[i].last, i = 1, FALSE)
               closings(m) == {j \in 1 .. m : Rows(c)[j] # Rows(c)[j - 1]}
    <3>2. \A m : RunCycles(c, m) = cycles[c] \cup {closed(i) : i \in closings(m)}
      BY DEF RunCycles
    <3>3. closed(n) = CycleOf(c, k, on, n = 1, FALSE)
      BY <2>5
    <3>4. closings(n) = closings(n - 1) \cup {n}
      BY <3>1
    <3> HIDE DEF closed, closings, r, k
    <3>5. RunCycles(c, n) = RunCycles(c, n - 1) \cup {closed(n)}
      BY <3>2, <3>4
    <3> QED
      BY <3>3, <3>5
  <2>8. ClosesOn(c, n, on) /\ on \in Days
    BY <2>2, <2>5, <2>7 DEF ClosesOn
  <2> QED
    BY <1>3, <2>8
<1> QED
  BY <1>4, <1>5

LEMMA RunStep ==
  ASSUME IInv, NEW c \in Cards, card[c].state = "active", Overdue(c),
         NEW n \in 1 .. NMonths, RunInv(c, n - 1)
  PROVE  RunInv(c, n)
<1> DEFINE k == Rows(c)[n - 1]
           r == Rows(c)[n]
           C == RunCycles(c, n - 1)
<1>1. n \in Nat /\ n # 0 /\ today - 1 \in Nat /\ today \in Nat /\ (n # 1 => n - 1 # 0)
  BY Calendar DEF IInv, TypeOK
<1>2. Billable(k) /\ k.created = card[c].created /\ k.state = card[c].state
  BY DEF RunInv
<1>3. n = 1 => C = cycles[c]
  BY <1>2, RunUnfolds
<1>4. CASE n # 1 /\ r = k /\ RunCycles(c, n) = C
  BY <1>1, <1>4 DEF RunInv
<1>5. ASSUME NEW on \in Days, ClosesOn(c, n, on)
      PROVE  RunInv(c, n)
  <2>1. /\ CycleStart(k) \in Days /\ CycleStart(k) < on /\ on <= today - 1
        /\ k.last # Null => on - CycleStart(k) >= MinCycle
        /\ r.last = on /\ r.created = k.created /\ r.state = k.state /\ Billable(r)
        /\ RunCycles(c, n) = C \cup {CycleOf(c, k, on, n = 1, FALSE)}
        /\ on \in Nat \ {0} /\ CycleStart(k) \in Nat
    BY <1>5, Calendar DEF ClosesOn
  <2>2. /\ k.created \in Days /\ k.last \in Days \cup {Null}
        /\ k.last # Null => k.created < k.last
        /\ CycleStart(k) <= on
        /\ k.last # Null => FALSE \/ on - CycleStart(k) >= MinCycle
    <3> HIDE DEF k
    <3> QED
      BY <1>2, <2>1 DEF Billable, Card
  <2>3. /\ \A e \in Expenses : Settled(expense[e])
        /\ Ordered(k, C) /\ Explained(expense, c, k, C) /\ Disjoint(C)
        /\ n = 1 => Marked(expense, c, C)
        /\ n = 1 \/ k.last # Null
        /\ (n = 1 /\ Complete(expense, c, k, C)) \/ AllHeld(c, k, C)
    BY <1>1, <1>3 DEF IInv, CardOk, RunInv
  <2>4. (n = 1) \in BOOLEAN
    OBVIOUS
  <2> HIDE DEF r, k, C
  <2>5. LET D == C \cup {CycleOf(c, k, on, n = 1, FALSE)} IN
        Ordered(r, D) /\ Explained(expense, c, r, D) /\ Disjoint(D)
    BY <2>1, <2>2, <2>3, <2>4, OneMoreCycle
  <2>6. AllHeld(c, r, C \cup {CycleOf(c, k, on, n = 1, FALSE)})
    BY <2>1, <2>3, OneMoreHeld
  <2>7. Ordered(r, RunCycles(c, n)) /\ Explained(expense, c, r, RunCycles(c, n))
        /\ Disjoint(RunCycles(c, n)) /\ AllHeld(c, r, RunCycles(c, n))
    BY <2>1, <2>5, <2>6
  <2>8. Complete(expense, c, r, RunCycles(c, n))
    BY <2>7 DEF Complete, AllHeld
  <2>9. r.last # Null /\ r.last < today
    BY <1>1, <2>1 DEF Null
  <2> QED
    BY <1>2, <2>1, <2>7, <2>8, <2>9 DEF RunInv, r
<1> QED
  BY <1>2, <1>4, <1>5, RunUnfolds

LEMMA RunResult ==
  ASSUME IInv, NEW c \in Cards, card[c].state = "active", Overdue(c)
  PROVE  RunInv(c, NMonths)
<1> DEFINE Bad == {n \in 0 .. NMonths : ~RunInv(c, n)}
<1>1. RunInv(c, 0)
  <2>1. Rows(c)[0] = card[c]
    BY RowsFollow DEF Rows
  <2>2. RunCycles(c, 0) = cycles[c]
    <3>1. 1 .. 0 = {}
      OBVIOUS
    <3> QED
      BY <3>1 DEF RunCycles
  <2> QED
    BY <2>1, <2>2 DEF RunInv, IInv, CardOk
<1>2. SUFFICES ASSUME Bad # {} PROVE FALSE
  BY Calendar
<1>3. PICK n \in Bad : \A j \in Bad : n <= j
  <2>1. Bad \subseteq Nat
    OBVIOUS
  <2> HIDE DEF Bad
  <2> QED
    BY <1>2, <2>1, Least
<1>4. n \in 1 .. NMonths /\ n - 1 \in 0 .. NMonths /\ ~(n <= n - 1)
  BY <1>1, <1>3, Calendar
<1>5. RunInv(c, n - 1)
  BY <1>3, <1>4
<1> QED
  BY <1>3, <1>4, <1>5, RunStep
\* After a run, and after an archiving, the one-offs of its cards are marked.
LEMMA ReadAgain ==
  ASSUME IInv, NEW cards \in SUBSET Cards, NEW c \in Cards, NEW k, NEW C,
         Explained(expense, c, k, C)
  PROVE  /\ Explained(Seen(cards), c, k, C)
         /\ c \in cards \/ Marked(expense, c, C) => Marked(Seen(cards), c, C)
         /\ (c \notin cards /\ Complete(expense, c, k, C)) \/ AllHeld(c, k, C)
              => Complete(Seen(cards), c, k, C)
<1> DEFINE Y == Seen(cards)
<1>1. \A e \in Expenses :
        /\ Y[e].kind = expense[e].kind /\ Y[e].day = expense[e].day
        /\ Y[e].terms = expense[e].terms
        /\ expense[e].seen \subseteq Y[e].seen /\ Y[e].seen \subseteq expense[e].seen \cup cards
        /\ expense[e].kind # "none" => cards \subseteq Y[e].seen
  BY SeenFacts DEF IInv
<1> HIDE DEF Y
<1>2. Explained(Y, c, k, C)
  BY <1>1, StillExplained
<1>3. c \in cards \/ Marked(expense, c, C) => Marked(Y, c, C)
  <2>1. SUFFICES ASSUME c \in cards \/ Marked(expense, c, C), NEW y \in C,
                        NEW e \in Expenses, NEW d \in Days,
                        <<e, d>> \in y.charges, Y[e].kind = "once"
                 PROVE  c \in Y[e].seen
    BY DEF Marked
  <2>2. expense[e].kind = "once"
    BY <1>1, <2>1
  <2>3. CASE c \in cards
    BY <1>1, <2>2, <2>3
  <2>4. CASE Marked(expense, c, C)
    BY <1>1, <2>1, <2>2, <2>4 DEF Marked
  <2> QED
    BY <2>1, <2>3, <2>4
<1>4. (c \notin cards /\ Complete(expense, c, k, C)) \/ AllHeld(c, k, C)
        => Complete(Y, c, k, C)
  <2>1. SUFFICES ASSUME (c \notin cards /\ Complete(expense, c, k, C)) \/ AllHeld(c, k, C),
                        NEW e \in Expenses, Reached(Y[e], c, k), c \in Y[e].seen
                 PROVE  HeldBy(e, Y[e].day, C)
    BY DEF Complete
  <2>2. Reached(expense[e], c, k) /\ Y[e].day = expense[e].day
    BY <1>1, <2>1 DEF Reached, Live
  <2>3. c \notin cards => c \in expense[e].seen
    BY <1>1, <2>1
  <2> QED
    BY <2>1, <2>2, <2>3 DEF Complete, AllHeld
<1> QED
  BY <1>2, <1>3, <1>4 DEF Y

LEMMA BillStep ==
  ASSUME IInv, BillCards
  PROVE  IInv'
<1> DEFINE due == {c \in Active : Overdue(c)}
<1>1. due \in SUBSET Cards /\ \A c \in due : card[c].state = "active" /\ Overdue(c)
  BY DEF Active
<1>2. expense' = Seen(due) /\ today' = today
  BY DEF BillCards
<1>3. card' = [c \in Cards |-> IF c \in due THEN Rows(c)[NMonths] ELSE card[c]]
  BY DEF BillCards, Rows
<1>4. cycles' = [c \in Cards |-> IF c \notin due THEN cycles[c] ELSE RunCycles(c, NMonths)]
  <2> DEFINE rows == [c \in due |-> RowsAfter(card[c], today - 1)]
             closing(c) == {n \in 1 .. NMonths : rows[c][n] # rows[c][n - 1]}
  <2>1. cycles' = [c \in Cards |->
          IF c \notin due THEN cycles[c]
          ELSE cycles[c] \cup
               {CycleOf(c, rows[c][n - 1], rows[c][n].last, n = 1, FALSE) :
                  n \in closing(c)}]
    BY DEF BillCards
  <2>2. \A c \in due : rows[c] = Rows(c)
    BY DEF Rows
  <2>3. ASSUME NEW c \in due
        PROVE  cycles[c] \cup {CycleOf(c, rows[c][n - 1], rows[c][n].last, n = 1, FALSE) :
                                 n \in closing(c)}
                 = RunCycles(c, NMonths)
    <3> DEFINE closed(n) == CycleOf(c, rows[c][n - 1], rows[c][n].last, n = 1, FALSE)
               ran(n) == CycleOf(c, Rows(c)[n - 1], Rows(c)[n].last, n = 1, FALSE)
    <3>1. rows[c] = Rows(c)
      BY <2>2, <2>3
    <3>2. closing(c) = {j \in 1 .. NMonths : Rows(c)[j] # Rows(c)[j - 1]}
      BY <3>1
    <3>3. \A n : closed(n) = ran(n)
      BY <3>1
    <3>4. RunCycles(c, NMonths) = cycles[c] \cup {ran(n) : n \in closing(c)}
      BY <3>2 DEF RunCycles
    <3> HIDE DEF closed, ran, closing
    <3>5. {closed(n) : n \in closing(c)} = {ran(n) : n \in closing(c)}
      BY <3>3
    <3> QED
      BY <3>4, <3>5 DEF closed
  <2> HIDE DEF rows, due
  <2> QED
    BY <2>1, <2>3
<1> HIDE DEF due
<1>5. ASSUME NEW c \in due PROVE RunInv(c, NMonths)
  BY <1>1, RunResult
<1>6. ASSUME NEW c \in due
      PROVE  /\ Billable(card'[c]) /\ card'[c].created = card[c].created
             /\ card'[c].state = "active" /\ card'[c].last # Null /\ card'[c].last < today
             /\ Ordered(card'[c], cycles'[c]) /\ Explained(expense, c, card'[c], cycles'[c])
             /\ Disjoint(cycles'[c]) /\ AllHeld(c, card'[c], cycles'[c])
  <2>1. card'[c] = Rows(c)[NMonths] /\ cycles'[c] = RunCycles(c, NMonths)
        /\ card[c].state = "active"
    BY <1>1, <1>3, <1>4
  <2> QED
    BY <1>5, <2>1, Calendar DEF RunInv
<1>7. ASSUME NEW c \in Cards, c \notin due
      PROVE  card'[c] = card[c] /\ cycles'[c] = cycles[c]
  BY <1>3, <1>4, <1>7
<1>8. \A e \in Expenses : Settled(expense'[e])
  BY <1>1, <1>2, SeenFacts DEF IInv
<1>9. ASSUME NEW c \in Cards PROVE CardOk(c)'
  <2>1. CASE c \in due
    <3>1. Explained(expense', c, card'[c], cycles'[c]) /\ Marked(expense', c, cycles'[c])
          /\ Complete(expense', c, card'[c], cycles'[c])
      BY <1>1, <1>2, <1>6, <2>1, ReadAgain
    <3>2. card[c].created \in Days /\ card[c].created <= today
      BY <1>1, <2>1 DEF IInv, CardOk
    <3> QED
      BY <1>2, <1>6, <2>1, <3>1, <3>2 DEF CardOk
  <2>2. CASE c \notin due
    <3>1. CardOk(c)
      BY DEF IInv
    <3>2. Explained(expense', c, card[c], cycles[c]) /\ Marked(expense', c, cycles[c])
          /\ Complete(expense', c, card[c], cycles[c])
      BY <1>1, <1>2, <2>2, <3>1, ReadAgain DEF CardOk
    <3> QED
      BY <1>2, <1>7, <2>2, <3>1, <3>2 DEF CardOk
  <2> QED
    BY <2>1, <2>2
<1>10. TypeOK'
  <2>1. \A c \in Cards : card'[c] \in Card /\ cycles'[c] \in SUBSET Cycle
    BY <1>6, <1>7 DEF IInv, TypeOK, Billable, Ordered
  <2>2. card' = [c \in Cards |-> card'[c]] /\ cycles' = [c \in Cards |-> cycles'[c]]
    BY <1>3, <1>4
  <2>3. card' \in [Cards -> Card] /\ cycles' \in [Cards -> SUBSET Cycle]
    BY <2>1, <2>2
  <2>4. expense' \in [Expenses -> Expense]
    BY <1>1, <1>2, SeenFacts DEF IInv
  <2>5. \A e \in Expenses : Len(expense'[e].terms) <= MaxTerms
    BY <1>8 DEF Settled
  <2> QED
    BY <1>2, <2>3, <2>4, <2>5 DEF TypeOK, IInv
<1> QED
  BY <1>8, <1>9, <1>10 DEF IInv

-----------------------------------------------------------------------------
(* Cards and days.                                                           *)

\* A step on one card that leaves its cycles alone.
LEMMA OneCard ==
  ASSUME IInv, NEW c \in Cards, NEW r \in Card,
         card' = [card EXCEPT ![c] = r], UNCHANGED <<today, expense, cycles>>,
         r.state = "active", Billable(r), r.last = card[c].last,
         r.last # Null => r.last < today,
         r.created <= today, cycles[c] # {} => r.created = card[c].created
  PROVE  IInv'
<1>1. card'[c] = r /\ \A b \in Cards : b # c => card'[b] = card[b]
  BY DEF IInv, TypeOK
<1>2. card' \in [Cards -> Card]
  BY DEF IInv, TypeOK
<1>3. CardOk(c)
  BY DEF IInv
<1>4. Ordered(r, cycles[c]) /\ Explained(expense, c, r, cycles[c])
  <2>1. CASE cycles[c] = {}
    BY <1>3, <2>1 DEF CardOk, Ordered, Explained
  <2>2. CASE cycles[c] # {}
    <3>1. r.created = card[c].created /\ r.last = card[c].last
      BY <2>2
    <3> QED
      BY <1>3, <3>1 DEF CardOk, Ordered, Explained
  <2> QED
    BY <2>1, <2>2
<1>5. CardOk(c)'
  <2>1. Complete(expense, c, r, cycles[c])
    BY <1>3 DEF CardOk, Complete, Reached
  <2> QED
    BY <1>1, <1>3, <1>4, <2>1 DEF CardOk, Billable
<1>6. ASSUME NEW b \in Cards, b # c PROVE CardOk(b)'
  BY <1>1, <1>6 DEF IInv, CardOk
<1>7. TypeOK'
  BY <1>2 DEF IInv, TypeOK
<1> QED
  BY <1>5, <1>6, <1>7 DEF IInv

LEMMA CreateCardStep ==
  ASSUME IInv, NEW c \in Cards, NEW d \in ClosingDays, CreateCard(c, d)
  PROVE  IInv'
<1> DEFINE r == [NoCard EXCEPT !.state = "active", !.created = today, !.closingDay = d]
<1>1. card[c] = NoCard /\ today \in Days /\ cycles[c] = {}
  BY DEF CreateCard, IInv, CardOk, TypeOK, Ordered, NoCard
<1>2. r \in Card /\ r.state = "active" /\ r.created = today /\ r.last = Null
      /\ r.closingDay = d
  BY <1>1 DEF NoCard, Card, Null
<1>3. card' = [card EXCEPT ![c] = r] /\ UNCHANGED <<today, expense, cycles>>
  BY DEF CreateCard
<1> HIDE DEF r
<1>4. Billable(r) /\ r.last = card[c].last
  BY <1>1, <1>2 DEF Billable, NoCard
<1>5. r.created <= today
  BY <1>1, <1>2, Calendar
<1> QED
  BY <1>1, <1>2, <1>3, <1>4, <1>5, OneCard

LEMMA UpdateCardStep ==
  ASSUME IInv, NEW c \in Cards, NEW d \in ClosingDays, UpdateCard(c, d)
  PROVE  IInv'
<1> DEFINE k == card[c]
           r == IF d = k.closingDay THEN [k EXCEPT !.pending = Null, !.setAt = Null]
                ELSE IF d # k.pending THEN [k EXCEPT !.pending = d, !.setAt = today]
                ELSE k
<1>1. k.state = "active" /\ k \in Card /\ today \in Days /\ CardOk(c)
  BY DEF UpdateCard, IInv, TypeOK
<1>2. r \in Card /\ r.state = k.state /\ r.created = k.created /\ r.last = k.last
      /\ r.closingDay = k.closingDay /\ r.minNext = k.minNext
  BY <1>1 DEF Card, Null
<1>3. card' = [card EXCEPT ![c] = r] /\ UNCHANGED <<today, expense, cycles>>
  BY <1>1 DEF UpdateCard, IInv, TypeOK
<1> HIDE DEF r
<1>4. Billable(r) /\ (r.last # Null => r.last < today) /\ r.created <= today
  BY <1>1, <1>2 DEF CardOk, Billable
<1> QED
  BY <1>1, <1>2, <1>3, <1>4, OneCard

LEMMA ArchiveCardStep ==
  ASSUME IInv, NEW c \in Cards, ArchiveCard(c)
  PROVE  IInv'
<1> DEFINE k == card[c]
           r == [k EXCEPT !.state = "archived", !.last = today]
           z == CycleOf(c, k, today, TRUE, TRUE)
           C == cycles[c]
<1>1. k.state = "active" /\ k \in Card /\ today \in Days /\ CardOk(c) /\ Billable(k)
  BY DEF ArchiveCard, IInv, TypeOK, CardOk
<1>2. r \in Card /\ r.state = "archived" /\ r.last = today /\ r.created = k.created
  BY <1>1 DEF Card
<1>3. /\ card' = [card EXCEPT ![c] = r] /\ cycles' = [cycles EXCEPT ![c] = C \cup {z}]
      /\ expense' = Seen({c}) /\ today' = today
  BY DEF ArchiveCard, IInv, TypeOK
<1> HIDE DEF r
<1>4. /\ k.created \in Days /\ k.last \in Days \cup {Null} /\ k.created <= today
      /\ k.last # Null => k.created < k.last /\ k.last < today
  BY <1>1 DEF CardOk, Billable, Card
<1>5. CycleStart(k) <= today
  <2>1. today \in Nat /\ k.created \in Nat /\ (k.last # Null => k.last \in Nat)
    BY <1>1, <1>4, Calendar
  <2> HIDE DEF k
  <2> QED
    BY <1>4, <2>1 DEF CycleStart
<1>6. Ordered(r, C \cup {z}) /\ Explained(expense, c, r, C \cup {z}) /\ Disjoint(C \cup {z})
  <2>1. /\ \A e \in Expenses : Settled(expense[e])
        /\ Ordered(k, C) /\ Explained(expense, c, k, C) /\ Disjoint(C)
        /\ Marked(expense, c, C)
    BY <1>1 DEF CardOk, IInv
  <2> HIDE DEF k, C, z
  <2>2. LET D == C \cup {CycleOf(c, k, today, TRUE, TRUE)} IN
        Ordered(r, D) /\ Explained(expense, c, r, D) /\ Disjoint(D)
    BY <1>1, <1>2, <1>4, <1>5, <2>1, OneMoreCycle
  <2> QED
    BY <2>2 DEF z
<1>7. AllHeld(c, r, C \cup {z})
  <2>1. /\ \A e \in Expenses : Settled(expense[e])
        /\ Complete(expense, c, k, C)
    BY <1>1 DEF CardOk, IInv
  <2>2. CycleStart(k) \in Nat /\ today \in Nat
    BY <1>1, <1>4, Calendar DEF CycleStart
  <2> HIDE DEF k, C, z
  <2>3. AllHeld(c, r, C \cup {CycleOf(c, k, today, TRUE, TRUE)})
    BY <1>2, <2>1, <2>2, OneMoreHeld
  <2> QED
    BY <2>3 DEF z
<1>8. /\ card'[c] = r /\ cycles'[c] = C \cup {z}
      /\ \A b \in Cards : b # c => card'[b] = card[b] /\ cycles'[b] = cycles[b]
  BY <1>3 DEF IInv, TypeOK
<1> HIDE DEF z
<1>9. \A e \in Expenses : Settled(expense'[e])
  BY <1>3, SeenFacts DEF IInv
<1>10. CardOk(c)'
  <2>1. Explained(expense', c, r, C \cup {z}) /\ Marked(expense', c, C \cup {z})
        /\ Complete(expense', c, r, C \cup {z})
    BY <1>3, <1>6, <1>7, ReadAgain
  <2> HIDE DEF k, C
  <2>2. r.created \in Days /\ r.created <= today
    BY <1>2, <1>4
  <2> QED
    BY <1>2, <1>3, <1>6, <1>8, <2>1, <2>2 DEF CardOk
<1>11. ASSUME NEW b \in Cards, b # c PROVE CardOk(b)'
  <2>1. CardOk(b)
    BY DEF IInv
  <2>2. Explained(expense', b, card[b], cycles[b]) /\ Marked(expense', b, cycles[b])
        /\ Complete(expense', b, card[b], cycles[b])
    BY <1>3, <1>11, <2>1, ReadAgain DEF CardOk
  <2>3. card'[b] = card[b] /\ cycles'[b] = cycles[b] /\ today' = today
    BY <1>3, <1>8, <1>11
  <2> QED
    BY <2>1, <2>2, <2>3 DEF CardOk
<1>12. TypeOK'
  <2>1. C \cup {z} \in SUBSET Cycle
    BY <1>6 DEF Ordered
  <2>2. card' \in [Cards -> Card] /\ cycles' \in [Cards -> SUBSET Cycle]
    BY <1>2, <1>3, <2>1 DEF IInv, TypeOK
  <2>3. expense' \in [Expenses -> Expense]
    BY <1>3, SeenFacts DEF IInv
  <2> QED
    BY <1>1, <1>3, <1>9, <2>2, <2>3 DEF TypeOK, Settled
<1> QED
  BY <1>9, <1>10, <1>11, <1>12 DEF IInv

LEMMA MidnightStep ==
  ASSUME IInv, Midnight
  PROVE  IInv'
<1>1. today' = today + 1 /\ UNCHANGED <<card, expense, cycles>> /\ today < LastToday
      /\ today \in Days
  BY DEF Midnight, IInv, TypeOK
<1>2. today' \in Days
  BY <1>1, BillingAssumption, Calendar DEF Days
<1>3. ASSUME NEW c \in Cards PROVE CardOk(c)'
  <2>1. CardOk(c) /\ card[c] \in Card
    BY DEF IInv, TypeOK
  <2>2. (card[c].created \in Days /\ card[c].created <= today => card[c].created <= today')
        /\ (card[c].last # Null /\ card[c].last < today => card[c].last < today')
    BY <1>1, <2>1, Calendar DEF Card
  <2> QED
    BY <1>1, <2>1, <2>2 DEF CardOk
<1>4. TypeOK'
  BY <1>1, <1>2 DEF IInv, TypeOK
<1> QED
  BY <1>1, <1>3, <1>4 DEF IInv

-----------------------------------------------------------------------------
(* Expenses.                                                                 *)

\* What is known of an expense that a closed cycle charges.
LEMMA BilledFacts ==
  ASSUME IInv, NEW c \in Cards, NEW y \in cycles[c], NEW e \in Expenses,
         NEW d \in Days, <<e, d>> \in y.charges
  PROVE  /\ card[c].last # Null /\ d <= card[c].last
         /\ c \in EveryCardOf(expense[e])
         /\ expense[e].kind \in {"once"} \cup Recurring
         /\ expense[e].kind = "once" => d = expense[e].day /\ c \in expense[e].seen
<1>1. Ordered(card[c], cycles[c]) /\ Explained(expense, c, card[c], cycles[c])
      /\ Marked(expense, c, cycles[c]) /\ card[c] \in Card
  BY DEF IInv, CardOk, TypeOK
<1>2. card[c].last # Null /\ y \in Cycle /\ y.on <= card[c].last
  BY <1>1 DEF Ordered
<1>3. d <= y.on
  BY <1>1 DEF Explained
<1>4. d \in Nat /\ y.on \in Nat /\ card[c].last \in Nat
  BY <1>1, <1>2, Calendar DEF Card, Cycle
<1>5. d <= card[c].last
  BY <1>2, <1>3, <1>4
<1> QED
  BY <1>1, <1>2, <1>5 DEF Explained, Marked

\* A step on one expense: what it was billed for must stay explained.
LEMMA OneExpense ==
  ASSUME IInv, NEW e \in Expenses, NEW new, Settled(new),
         expense' = [expense EXCEPT ![e] = new], UNCHANGED <<today, card, cycles>>,
         \A c \in Cards : \A y \in cycles[c], d \in Days : <<e, d>> \in y.charges =>
           /\ c \in EveryCardOf(new) /\ new.kind \in {"once"} \cup Recurring
           /\ new.kind = expense[e].kind \/ "once" \notin {new.kind, expense[e].kind}
           /\ new.kind = "once" => new.day = expense[e].day /\ expense[e].seen \subseteq new.seen,
         \A c \in Cards : Reached(new, c, card[c]) => c \notin new.seen
  PROVE  IInv'
<1>1. expense'[e] = new /\ \A f \in Expenses : f # e => expense'[f] = expense[f]
  BY DEF IInv, TypeOK
<1>2. expense' \in [Expenses -> Expense] /\ \A f \in Expenses : Settled(expense'[f])
  BY <1>1 DEF IInv, TypeOK, Settled
<1>3. TypeOK'
  BY <1>2 DEF IInv, TypeOK, Settled
<1>4. ASSUME NEW c \in Cards PROVE CardOk(c)'
  <2>1. CardOk(c)
    BY DEF IInv
  <2>2. ASSUME NEW y \in cycles[c], NEW f \in Expenses, NEW d \in Days,
               <<f, d>> \in y.charges
        PROVE  /\ d <= y.on /\ c \in EveryCardOf(expense'[f])
               /\ expense'[f].kind \in {"once"} \cup Recurring
               /\ IF expense'[f].kind = "once" THEN d = expense'[f].day
                  ELSE y.from < d \/ (d = y.from /\ y.from = card[c].created)
               /\ expense'[f].kind = "once" => c \in expense'[f].seen
    <3>1. /\ d <= y.on /\ c \in EveryCardOf(expense[f])
          /\ expense[f].kind \in {"once"} \cup Recurring
          /\ IF expense[f].kind = "once" THEN d = expense[f].day
             ELSE y.from < d \/ (d = y.from /\ y.from = card[c].created)
          /\ expense[f].kind = "once" => c \in expense[f].seen
      BY <2>1, <2>2 DEF CardOk, Explained, Marked
    <3>2. CASE f # e
      BY <1>1, <3>1, <3>2
    <3>3. CASE f = e
      <4>1. /\ c \in EveryCardOf(new) /\ new.kind \in {"once"} \cup Recurring
            /\ new.kind = expense[e].kind \/ "once" \notin {new.kind, expense[e].kind}
            /\ new.kind = "once" => new.day = expense[e].day
                                    /\ expense[e].seen \subseteq new.seen
        BY <2>2, <3>3
      <4> QED
        BY <1>1, <3>1, <3>3, <4>1
    <3> QED
      BY <3>2, <3>3
  <2>3. Explained(expense', c, card[c], cycles[c])
    BY <2>2 DEF Explained
  <2>4. Marked(expense', c, cycles[c])
    BY <2>2 DEF Marked
  <2>5. Complete(expense', c, card[c], cycles[c])
    BY <1>1, <2>1 DEF CardOk, Complete
  <2> QED
    BY <2>1, <2>3, <2>4, <2>5 DEF CardOk
<1> QED
  BY <1>2, <1>3, <1>4 DEF IInv

\* A row as a user types it in.
LEMMA RowType ==
  ASSUME NEW asked, asked \in OneOffs \cup Recurrences, NEW terms \in Seq(Terms),
         NEW seen \in SUBSET Cards, NEW paid \in SUBSET Payment,
         NEW x,
         x = [kind |-> asked.kind, day |-> asked.day, ends |-> asked.ends,
              due |-> asked.due, terms |-> terms, seen |-> seen, paid |-> paid]
  PROVE  /\ x \in Expense /\ x.kind = asked.kind /\ x.day = asked.day
         /\ x.terms = terms /\ x.seen = seen /\ x.paid = paid
<1>1. /\ asked.kind \in {"once"} \cup Recurring /\ asked.day \in Days
      /\ asked.ends \in Days \cup {Null} /\ asked.due \in DueDays \cup {Null}
      /\ asked.share \in Allocations
  BY BillingAssumption DEF OneOffs, Recurrences
<1>2. x \in Expense
  BY <1>1 DEF Expense
<1> QED
  BY <1>2

\* The cash payment of an expense is dated and of an amount.
LEMMA PaymentType ==
  ASSUME NEW x, x.day \in Days, Live(x) \in Allocations
  PROVE  PaymentOf(x) \in SUBSET Payment
<1>1. Live(x)[Cash] \in Nat /\ MonthOf(x.day) \in Months
  BY BillingAssumption, MonthOfDay DEF Payers
<1> QED
  BY <1>1 DEF PaymentOf, Payment

\* First terms of an expense.
LEMMA FirstTerms ==
  ASSUME NEW asked \in OneOffs \cup Recurrences
  PROVE  LET terms == <<[month |-> MonthOf(asked.day), share |-> asked.share]>> IN
         /\ terms \in Seq(Terms) /\ Len(terms) = 1 /\ Len(terms) <= MaxTerms
         /\ terms[Len(terms)].share = asked.share
<1>1. asked.day \in Days /\ asked.share \in Allocations
  BY BillingAssumption DEF OneOffs, Recurrences
<1>2. MonthOf(asked.day) \in Months /\ MaxTerms \in Nat \ {0}
  BY <1>1, MonthOfDay, BillingAssumption
<1>3. [month |-> MonthOf(asked.day), share |-> asked.share] \in Terms
  BY <1>1, <1>2 DEF Terms
<1> HIDE DEF Terms
<1> QED
  BY <1>2, <1>3

LEMMA CreateExpenseStep ==
  ASSUME IInv, NEW e \in Expenses, NEW asked \in OneOffs \cup Recurrences,
         CreateExpense(e, asked)
  PROVE  IInv'
<1> DEFINE terms == <<[month |-> MonthOf(asked.day), share |-> asked.share]>>
           row == Row(asked, terms, {})
           new == [row EXCEPT !.paid = PaymentOf(row)]
<1>1. expense[e].kind = "none" /\ expense' = [expense EXCEPT ![e] = new]
      /\ UNCHANGED <<today, card, cycles>>
  BY DEF CreateExpense
<1>2. terms \in Seq(Terms) /\ Len(terms) = 1 /\ Len(terms) <= MaxTerms
      /\ terms[Len(terms)].share = asked.share
  BY FirstTerms
<1> HIDE DEF terms
<1>3. row.terms = terms /\ row.day = asked.day /\ Live(row) = asked.share
      /\ row.kind = asked.kind
  BY <1>2 DEF Row, Live
<1>4. asked.day \in Days /\ asked.share \in Allocations
      /\ asked.kind \in {"once"} \cup Recurring
  BY BillingAssumption DEF OneOffs, Recurrences
<1>5. PaymentOf(row) \in SUBSET Payment
  BY <1>3, <1>4, PaymentType
<1>6. /\ new \in Expense /\ new.day = asked.day /\ new.kind = asked.kind
      /\ new.terms = terms /\ new.paid = PaymentOf(row) /\ new.seen = {}
  <2>1. {} \in SUBSET Cards
    OBVIOUS
  <2>2. new = [kind |-> asked.kind, day |-> asked.day, ends |-> asked.ends,
                   due |-> asked.due, terms |-> terms, seen |-> {}, paid |-> PaymentOf(row)]
    BY DEF row, Row
  <2> HIDE DEF new, row
  <2> QED
    BY <1>2, <1>5, <2>1, <2>2, RowType
<1> HIDE DEF new, row
<1>7. PaymentOf(new) = PaymentOf(row)
  BY <1>3, <1>6 DEF PaymentOf, Live
<1>8. Settled(new)
  <2>1. new.kind # "none" /\ new.paid = PaymentOf(new) /\ Len(new.terms) = 1
        /\ Len(new.terms) <= MaxTerms /\ new.day \in Days
    BY <1>2, <1>4, <1>6, <1>7 DEF Recurring
  <2> QED
    BY <1>6, <2>1 DEF Settled
<1>9. ASSUME NEW c \in Cards, NEW y \in cycles[c], NEW d \in Days, <<e, d>> \in y.charges
      PROVE  FALSE
  BY <1>1, <1>9, BilledFacts DEF Recurring
<1> QED
  BY <1>1, <1>6, <1>8, <1>9, OneExpense

LEMMA UpdateRecurringStep ==
  ASSUME IInv, NEW e \in Expenses, NEW asked \in Recurrences, UpdateRecurring(e, asked)
  PROVE  IInv'
<1> DEFINE old == expense[e]
           revision == [month |-> MonthOf(today), share |-> asked.share]
           terms == IF asked.share # Live(old) THEN Append(old.terms, revision)
                    ELSE old.terms
           new == [Row(asked, terms, old.seen) EXCEPT !.paid = old.paid]
<1>1. old.kind \in Recurring /\ Len(terms) <= MaxTerms
      /\ expense' = [expense EXCEPT ![e] = new] /\ UNCHANGED <<today, card, cycles>>
  BY DEF UpdateRecurring
<1>2. Settled(old) /\ old \in Expense /\ today \in Days
  BY DEF IInv, TypeOK
<1>3. old.terms \in Seq(Terms) /\ old.seen \in SUBSET Cards /\ old.paid \in SUBSET Payment
      /\ Len(old.terms) >= 1
  BY <1>1, <1>2 DEF Settled, Expense, Recurring
<1>4. asked.kind \in Recurring /\ asked.day \in Days /\ asked.share \in Allocations
  BY BillingAssumption DEF Recurrences
<1>5. revision \in Terms
  BY <1>2, <1>4, MonthOfDay DEF Terms
<1> HIDE DEF revision, old
<1>6. /\ terms \in Seq(Terms) /\ Len(terms) >= 1
      /\ \A i \in DOMAIN old.terms : i \in DOMAIN terms /\ terms[i] = old.terms[i]
  <2>1. CASE asked.share # Live(old)
    <3>1. terms = Append(old.terms, revision)
      BY <2>1
    <3> HIDE DEF terms, Terms
    <3>2. terms \in Seq(Terms) /\ Len(terms) = Len(old.terms) + 1
          /\ \A i \in 1 .. Len(old.terms) : terms[i] = old.terms[i]
      BY <1>3, <1>5, <3>1
    <3>3. DOMAIN old.terms = 1 .. Len(old.terms) /\ DOMAIN terms = 1 .. Len(terms)
          /\ Len(old.terms) \in Nat
      BY <1>3, <3>2
    <3> QED
      BY <1>3, <3>2, <3>3
  <2>2. CASE ~(asked.share # Live(old))
    BY <1>3, <2>2
  <2> QED
    BY <2>1, <2>2
<1> HIDE DEF terms
<1>7. /\ new \in Expense /\ new.day = asked.day /\ new.kind = asked.kind
      /\ new.terms = terms /\ new.seen = old.seen /\ new.paid = old.paid
  <2>1. asked.ends \in Days \cup {Null} /\ asked.due \in DueDays \cup {Null}
    BY BillingAssumption DEF Recurrences
  <2>2. new = [kind |-> asked.kind, day |-> asked.day, ends |-> asked.ends,
               due |-> asked.due, terms |-> terms, seen |-> old.seen, paid |-> old.paid]
    BY DEF Row
  <2>3. terms \in Seq(Terms) /\ old.seen \in SUBSET Cards /\ old.paid \in SUBSET Payment
    BY <1>3, <1>6
  <2> HIDE DEF new, Payment, Terms
  <2>4. new \in Expense
    BY <1>4, <2>1, <2>2, <2>3 DEF Expense
  <2> QED
    BY <2>2, <2>4
<1> HIDE DEF new
<1>8. Settled(new)
  BY <1>1, <1>4, <1>6, <1>7 DEF Settled, Recurring
<1>9. EveryCardOf(old) \subseteq EveryCardOf(new)
  BY <1>6, <1>7 DEF EveryCardOf
<1>10. ASSUME NEW c \in Cards, NEW y \in cycles[c], NEW d \in Days, <<e, d>> \in y.charges
       PROVE  c \in EveryCardOf(old)
  BY <1>10, BilledFacts DEF old
<1>11. new.kind \in {"once"} \cup Recurring /\ "once" \notin {new.kind, expense[e].kind}
  BY <1>1, <1>4, <1>7 DEF Recurring, old
<1>12. \A c \in Cards : ~Reached(new, c, card[c])
  BY <1>11 DEF Reached
<1> QED
  BY <1>1, <1>8, <1>9, <1>10, <1>11, <1>12, OneExpense

LEMMA UpdateOnceStep ==
  ASSUME IInv, NEW e \in Expenses, NEW asked \in OneOffs, UpdateOnce(e, asked)
  PROVE  IInv'
<1> DEFINE old == expense[e]
           terms == <<[month |-> MonthOf(asked.day), share |-> asked.share]>>
           row == Row(asked, terms, old.seen)
           paid == PaidAfter(old, row)
           new == [row EXCEPT !.paid = paid]
<1>1. /\ old.kind \in {"once"} \cup Recurring
      /\ old.kind \in Recurring => EveryCardOf(old) = {}
      /\ MayBecome(old, row)
      /\ expense' = [expense EXCEPT ![e] = new] /\ UNCHANGED <<today, card, cycles>>
  BY DEF UpdateOnce
<1>2. Settled(old) /\ old \in Expense /\ old.seen \in SUBSET Cards
  BY DEF IInv, TypeOK, Expense
<1>3. terms \in Seq(Terms) /\ Len(terms) = 1 /\ Len(terms) <= MaxTerms
      /\ terms[Len(terms)].share = asked.share
  BY FirstTerms
<1> HIDE DEF terms, old
<1>4. asked.day \in Days /\ asked.share \in Allocations /\ asked.kind = "once"
  BY BillingAssumption DEF OneOffs
<1>5. row.terms = terms /\ row.day = asked.day /\ Live(row) = asked.share
      /\ row.kind = "once" /\ row.paid = {}
  BY <1>3, <1>4 DEF Row, Live
<1> HIDE DEF row
<1>6. paid = PaymentOf(row)
  <2>1. CASE CashCorrection(old, row)
    <3>1. CardsOf(asked.share) = {}
      BY <1>5, <2>1 DEF CashCorrection
    <3>2. asked.share \in [Payers -> Nat] /\ \E p \in Payers : asked.share[p] > 0
      BY <1>4, BillingAssumption
    <3>3. asked.share[Cash] > 0
      BY <3>1, <3>2 DEF CardsOf, Payers
    <3>4. Total(asked.share) = asked.share[Cash]
      BY <3>1, <3>2, CashTotal
    <3>5. paid = {[month |-> MonthOf(row.day), amount |-> asked.share[Cash], on |-> row.day]}
      BY <1>5, <2>1, <3>4 DEF PaidAfter
    <3>6. asked.share[Cash] # 0
      BY <3>2, <3>3 DEF Payers
    <3> QED
      BY <1>5, <3>5, <3>6 DEF PaymentOf
  <2>2. CASE ~CashCorrection(old, row)
    <3>1. old.paid = {}
      BY <1>1, <2>2 DEF MayBecome
    <3> QED
      BY <2>2, <3>1 DEF PaidAfter
  <2> QED
    BY <2>1, <2>2
<1> HIDE DEF paid
<1>7. paid \in SUBSET Payment
  BY <1>4, <1>5, <1>6, PaymentType
<1>8. /\ new \in Expense /\ new.day = asked.day /\ new.kind = "once"
      /\ new.terms = terms /\ new.seen = old.seen /\ new.paid = paid
  <2>1. asked \in OneOffs \cup Recurrences
    OBVIOUS
  <2>2. new = [kind |-> asked.kind, day |-> asked.day, ends |-> asked.ends,
                   due |-> asked.due, terms |-> terms, seen |-> old.seen, paid |-> paid]
    BY DEF row, Row
  <2> HIDE DEF new
  <2> QED
    BY <1>2, <1>3, <1>4, <1>7, <2>1, <2>2, RowType
<1> HIDE DEF new
<1>9. PaymentOf(new) = PaymentOf(row)
  BY <1>5, <1>8 DEF PaymentOf, Live
<1>10. Settled(new)
  <2>1. Len(new.terms) = 1 /\ Len(new.terms) <= MaxTerms /\ new.day \in Days
        /\ new.paid = PaymentOf(new)
    BY <1>3, <1>4, <1>6, <1>8, <1>9
  <2> QED
    BY <1>8, <2>1 DEF Settled
<1>11. ASSUME NEW c \in Cards, NEW y \in cycles[c], NEW d \in Days, <<e, d>> \in y.charges
       PROVE  FALSE
  <2>1. /\ card[c].last # Null /\ d <= card[c].last /\ c \in EveryCardOf(old)
        /\ old.kind = "once" => d = old.day /\ c \in old.seen
    BY <1>11, BilledFacts DEF old
  <2>2. old.kind = "once"
    BY <1>1, <2>1
  <2>3. Len(old.terms) = 1 /\ DOMAIN old.terms = 1 .. 1
    BY <1>2, <2>2, TermsType DEF Settled
  <2>4. c \in CardsOf(Live(old))
    <3>1. \A i \in 1 .. 1 : i = 1
      OBVIOUS
    <3> QED
      BY <2>1, <2>3, <3>1 DEF EveryCardOf, Live
  <2>5. SettledOnce(c, old, row)
    <3>1. d \in Nat /\ card[c].last \in Nat
      BY <2>1, Calendar DEF IInv, TypeOK, Card
    <3>2. card[c].last >= old.day
      BY <2>1, <2>2, <3>1
    <3> QED
      BY <2>1, <2>2, <3>2 DEF SettledOnce
  <2>6. ~CashCorrection(old, row)
    BY <2>4 DEF CashCorrection
  <2> QED
    BY <1>1, <2>4, <2>5, <2>6 DEF MayBecome
<1>12. ASSUME NEW c \in Cards, Reached(new, c, card[c]), c \in new.seen PROVE FALSE
  <2>1. Live(new) = Live(row) /\ new.day = row.day /\ new.seen = old.seen
    BY <1>5, <1>8 DEF Live
  <2>2. c \in CardsOf(Live(row))
    BY <1>12, <2>1 DEF Reached, CardsOf
  <2>3. SettledOnce(c, old, row)
    <3>1. card[c].last # Null /\ row.day <= card[c].last
      BY <1>12, <2>1 DEF Reached
    <3>2. card[c].last \in Days /\ row.day \in Days
      BY <1>4, <1>5, <3>1 DEF IInv, TypeOK, Card
    <3>3. card[c].last \in Nat /\ row.day \in Nat
      BY <3>2, Calendar
    <3>4. card[c].last >= row.day
      BY <3>1, <3>3
    <3> QED
      BY <1>12, <2>1, <3>1, <3>4 DEF SettledOnce
  <2>4. ~CashCorrection(old, row)
    BY <2>2 DEF CashCorrection
  <2> QED
    BY <1>1, <2>2, <2>3, <2>4 DEF MayBecome
<1> QED
  BY <1>1, <1>10, <1>11, <1>12, OneExpense

LEMMA ArchiveExpenseStep ==
  ASSUME IInv, NEW e \in Expenses, ArchiveExpense(e)
  PROVE  IInv'
<1> DEFINE old == expense[e]
           new == [old EXCEPT !.kind = "void"]
<1>1. old.kind \in {"once"} \cup Recurring /\ EveryCardOf(old) = {}
      /\ expense' = [expense EXCEPT ![e] = new] /\ UNCHANGED <<today, card, cycles>>
  BY DEF ArchiveExpense, IInv, TypeOK
<1>2. Settled(old) /\ old \in Expense
  BY DEF IInv, TypeOK
<1>3. ASSUME NEW c \in Cards, NEW y \in cycles[c], NEW d \in Days, <<e, d>> \in y.charges
      PROVE  FALSE
  BY <1>1, <1>3, BilledFacts
<1> HIDE DEF old
<1>4. new \in Expense /\ new.kind = "void" /\ new.terms = old.terms /\ new.day = old.day
  BY <1>2 DEF Expense
<1> HIDE DEF new
<1>5. Settled(new)
  <2>1. Len(new.terms) >= 1 /\ Len(new.terms) <= MaxTerms /\ new.day \in Days
    BY <1>1, <1>2, <1>4 DEF Settled, Recurring
  <2> QED
    BY <1>4, <2>1 DEF Settled
<1>6. \A c \in Cards : ~Reached(new, c, card[c])
  BY <1>4 DEF Reached
<1> QED
  BY <1>1, <1>3, <1>5, <1>6, OneExpense

LEMMA PayExpenseStep ==
  ASSUME IInv, NEW e \in Expenses, NEW m \in Months, PayExpense(e, m)
  PROVE  IInv'
<1> DEFINE old == expense[e]
           payment == [month |-> m, amount |-> Live(old)[Cash], on |-> Null]
           new == [old EXCEPT !.paid = @ \cup {payment}]
<1>1. old.kind = "monthly"
      /\ expense' = [expense EXCEPT ![e] = new] /\ UNCHANGED <<today, card, cycles>>
  BY DEF PayExpense, IInv, TypeOK
<1>2. Settled(old) /\ old \in Expense
  BY DEF IInv, TypeOK
<1>3. payment \in Payment
  <2>1. Len(old.terms) \in DOMAIN old.terms
    BY <1>1, <1>2, TermsType DEF Settled
  <2>2. Live(old) \in Allocations
    BY <1>2, <2>1, TermsType DEF Live
  <2>3. Live(old)[Cash] \in Nat
    BY <2>2, BillingAssumption DEF Payers
  <2> QED
    BY <2>3 DEF Payment
<1>4. ASSUME NEW c \in Cards, NEW y \in cycles[c], NEW d \in Days, <<e, d>> \in y.charges
      PROVE  c \in EveryCardOf(old)
  BY <1>4, BilledFacts
<1> HIDE DEF old, payment
<1>5. new \in Expense /\ new.kind = old.kind /\ new.terms = old.terms /\ new.day = old.day
      /\ new.seen = old.seen
  BY <1>2, <1>3 DEF Expense
<1> HIDE DEF new
<1>6. Settled(new) /\ EveryCardOf(new) = EveryCardOf(old)
  BY <1>1, <1>2, <1>5 DEF Settled, EveryCardOf
<1>7. new.kind \in {"once"} \cup Recurring /\ new.kind = expense[e].kind
      /\ new.kind # "once"
  BY <1>1, <1>5 DEF Recurring, old
<1>8. \A c \in Cards : ~Reached(new, c, card[c])
  BY <1>7 DEF Reached
<1> QED
  BY <1>1, <1>4, <1>6, <1>7, <1>8, OneExpense

-----------------------------------------------------------------------------
(* The theorems.                                                             *)

LEMMA InitInvariant == Init => IInv
<1> SUFFICES ASSUME Init PROVE IInv
  OBVIOUS
<1>1. today = 1 /\ today \in Days
  BY BillingAssumption, Calendar DEF Init, Days
<1>2. NoCard \in Card /\ NoExpense \in Expense
  <2>1. <<>> \in Seq(Terms)
    OBVIOUS
  <2> QED
    BY <2>1 DEF NoCard, Card, NoExpense, Expense, Null
<1>3. /\ \A c \in Cards : card[c] = NoCard /\ cycles[c] = {}
      /\ \A e \in Expenses : expense[e] = NoExpense
  BY DEF Init
<1>4. Settled(NoExpense)
  <2>1. MaxTerms \in Nat \ {0}
    BY BillingAssumption
  <2> QED
    BY <1>2, <2>1 DEF Settled, NoExpense
<1>5. \A c \in Cards : CardOk(c)
  BY <1>3 DEF CardOk, NoCard, Ordered, Explained, Marked, Disjoint, Complete, Reached
<1>6. TypeOK
  BY <1>1, <1>2, <1>3, <1>4 DEF TypeOK, Init, Settled
<1> QED
  BY <1>3, <1>4, <1>5, <1>6 DEF IInv

LEMMA InvariantStep == IInv /\ [Next]_vars => IInv'
<1> SUFFICES ASSUME IInv, [Next]_vars PROVE IInv'
  OBVIOUS
<1>1. CASE Midnight
  BY <1>1, MidnightStep
<1>2. CASE BillCards
  BY <1>2, BillStep
<1>3. ASSUME NEW c \in Cards, NEW k \in ClosingDays, CreateCard(c, k) \/ UpdateCard(c, k)
      PROVE  IInv'
  BY <1>3, CreateCardStep, UpdateCardStep
<1>4. ASSUME NEW c \in Cards, ArchiveCard(c) PROVE IInv'
  BY <1>4, ArchiveCardStep
<1>5. ASSUME NEW e \in Expenses, NEW asked \in OneOffs \cup Recurrences,
             CreateExpense(e, asked)
      PROVE  IInv'
  BY <1>5, CreateExpenseStep
<1>6. ASSUME NEW e \in Expenses, NEW asked \in Recurrences, UpdateRecurring(e, asked)
      PROVE  IInv'
  BY <1>6, UpdateRecurringStep
<1>7. ASSUME NEW e \in Expenses, NEW asked \in OneOffs, UpdateOnce(e, asked) PROVE IInv'
  BY <1>7, UpdateOnceStep
<1>8. ASSUME NEW e \in Expenses, ArchiveExpense(e) PROVE IInv'
  BY <1>8, ArchiveExpenseStep
<1>9. ASSUME NEW e \in Expenses, NEW m \in Months, PayExpense(e, m) PROVE IInv'
  BY <1>9, PayExpenseStep
<1>10. CASE UNCHANGED vars
  BY <1>10 DEF vars, IInv, TypeOK, CardOk
<1> QED
  BY <1>1, <1>2, <1>3, <1>4, <1>5, <1>6, <1>7, <1>8, <1>9, <1>10 DEF Next

\* What the theorems below rest on: of a card its row, the order of its cycles,
\* where what they charge comes from and that they leave no one-off out; of an
\* expense its terms and payment.
THEOREM Invariant == Spec => []IInv
<1> QED
  BY InitInvariant, InvariantStep, PTL DEF Spec

\* Every row keeps its shape: no operation writes a closing day, a date or a
\* version of the terms that the schema would not hold.
THEOREM TypeCorrect == Spec => []TypeOK
<1>1. IInv => TypeOK
  BY DEF IInv
<1> QED
  BY <1>1, Invariant, PTL

\* No charge is on two invoices of a card, whatever is entered late, edited
\* after it was billed or billed months late (planCardBilling with the
\* lastBillingProcessedAt cut, and the refusals of retroactive-recurring.ts).
THEOREM NoDoubleCharge == Spec => []NoChargeTwice
<1>1. IInv => NoChargeTwice
  BY DEF IInv, CardOk, Disjoint, NoChargeTwice
<1> QED
  BY <1>1, Invariant, PTL

\* A purchase is billed to a card exactly when a cycle that has read it reached
\* its day: for any amounts, late runs, corrections and moves between cards, and
\* archived cards.  Of recurring expenses this is not so (planCardBilling,
\* assertAffectedCardsCaughtUp, updateExpense).
THEOREM OneOffsAreBilled ==
  Spec => [](\A e \in Expenses, c \in Cards :
               expense[e].kind = "once" => Billed(e, c) = Owed(e, c))
<1>1. ASSUME IInv, NEW e \in Expenses, NEW c \in Cards, expense[e].kind = "once"
      PROVE  Billed(e, c) = Owed(e, c)
  <2> DEFINE x == expense[e]
             k == card[c]
  <2>1. /\ Settled(x) /\ CardOk(c) /\ x.day \in Days /\ x.kind = "once"
        /\ Len(x.terms) = 1 /\ x.terms \in Seq(Terms)
    BY <1>1 DEF IInv, Settled, Expense
  <2>2. Live(x) \in Allocations /\ Live(x)[c] \in Nat
    <3>1. Len(x.terms) \in DOMAIN x.terms
      BY <2>1, TermsType
    <3> QED
      BY <2>1, <3>1, TermsType, BillingAssumption DEF Live, Payers
  <2>3. Charges(x, c) = IF Live(x)[c] > 0 THEN {x.day} ELSE {}
    BY <2>1 DEF Charges, Occurrences, TermsOf
  <2>4. \A d : d \in Owed(e, c) <=> d = x.day /\ Reached(x, c, k) /\ c \in x.seen
    <3> HIDE DEF x, k
    <3>1. Owed(e, c) = IF k.last = Null THEN {}
                       ELSE {d \in Charges(x, c) : d <= k.last /\ c \in x.seen}
      BY <2>1 DEF Owed, x, k
    <3> QED
      BY <2>1, <2>3, <3>1 DEF Reached
  <2>5. \A d : d \in Billed(e, c) <=> HeldBy(e, d, cycles[c])
    <3>1. \A y \in cycles[c] : y.charges \in SUBSET (Expenses \X Days)
      BY <1>1 DEF IInv, TypeOK, Cycle
    <3>2. ASSUME NEW d, d \in Billed(e, c) PROVE HeldBy(e, d, cycles[c])
      <4>1. PICK q \in UNION {y.charges : y \in cycles[c]} : q[1] = e /\ q[2] = d
        BY <3>2 DEF Billed
      <4>2. PICK y \in cycles[c] : q \in y.charges
        BY <4>1
      <4>3. q = <<e, d>>
        BY <3>1, <4>1, <4>2
      <4> QED
        BY <4>2, <4>3 DEF HeldBy
    <3>3. ASSUME NEW d, HeldBy(e, d, cycles[c]) PROVE d \in Billed(e, c)
      <4>1. <<e, d>> \in UNION {y.charges : y \in cycles[c]}
        BY <3>3 DEF HeldBy
      <4> QED
        BY <4>1 DEF Billed
    <3> QED
      BY <3>2, <3>3
  <2>6. ASSUME NEW d, HeldBy(e, d, cycles[c])
        PROVE  d = x.day /\ Reached(x, c, k) /\ c \in x.seen
    <3>1. PICK y \in cycles[c] : <<e, d>> \in y.charges
      BY <2>6 DEF HeldBy
    <3>2. d \in Days
      BY <1>1, <3>1 DEF IInv, TypeOK, Cycle
    <3>3. /\ k.last # Null /\ d <= k.last /\ c \in EveryCardOf(x)
          /\ d = x.day /\ c \in x.seen
      BY <1>1, <3>1, <3>2, BilledFacts
    <3>4. Live(x)[c] > 0
      <4>1. DOMAIN x.terms = 1 .. 1 /\ \A i \in 1 .. 1 : i = 1
        BY <2>1, TermsType
      <4> HIDE DEF x
      <4> QED
        BY <2>1, <3>3, <4>1 DEF EveryCardOf, CardsOf, Live
    <3> QED
      BY <2>1, <3>3, <3>4 DEF Reached
  <2>7. Reached(x, c, k) /\ c \in x.seen => HeldBy(e, x.day, cycles[c])
    BY <2>1 DEF CardOk, Complete
  <2> HIDE DEF x, k
  <2> QED
    BY <2>4, <2>5, <2>6, <2>7
<1>2. IInv => \A e \in Expenses, c \in Cards :
                expense[e].kind = "once" => Billed(e, c) = Owed(e, c)
  BY <1>1
<1> QED
  BY <1>2, Invariant, PTL

\* A change of the closing day never makes a cycle shorter than MinCycle days,
\* whenever it is asked for and however late the run that closes it, and cycles
\* follow each other without a gap (planCardBilling).
THEOREM CyclesKeepLength == Spec => []CyclesKeepTheirLength
<1>1. IInv => CyclesKeepTheirLength
  BY DEF IInv, CardOk, Ordered, CyclesKeepTheirLength
<1> QED
  BY <1>1, Invariant, PTL

\* A one-off's cash share is in the account exactly once, under its own date,
\* through every correction (createExpense, updateExpense).
THEOREM CashRecorded == Spec => []CashIsRecorded
<1>1. IInv => CashIsRecorded
  BY DEF IInv, Settled, CashIsRecorded
<1> QED
  BY <1>1, Invariant, PTL

=============================================================================
