---------------------------- MODULE IncomeProofs ----------------------------
(****************************************************************************)
(* Safety of the income: for any entries, amounts, days and number of       *)
(* confirmations under way.                                                 *)
(*                                                                          *)
(* The two halves share no variable and have an invariant each.             *)
(****************************************************************************)
EXTENDS Income, FiniteSetTheorems, WellFoundedInduction, TLAPS

-----------------------------------------------------------------------------
(* Days and months.                                                          *)

\* Days and months are counted from 1, and every day has its month.
LEMMA Calendar ==
  /\ Days \subseteq Nat \ {0} /\ Months \subseteq Nat \ {0} /\ 1 \in Days /\ 1 \in Months
  /\ \A d \in Days : MonthOf(d) \in Months
  /\ \A d, e \in Days : d <= e => MonthOf(d) <= MonthOf(e)
  /\ \A m, n \in Months : m - 1 \in Months \cup {0} /\ (n < m => n <= m - 1)
  /\ Null \notin Months /\ Null \notin Nat
<1>1. LastDay \in Nat \ {0} /\ DaysPerMonth \in Nat \ {0} /\ Null \notin Nat
  BY IncomeAssumption
<1>2. Days = {d \in Nat : 1 <= d /\ d <= LastDay} /\ LastDay \in Days
  BY <1>1 DEF Days
<1>3. \A d, e \in Days : d <= e => MonthOf(d) <= MonthOf(e) /\ MonthOf(d) \in Nat \ {0}
  <2> SUFFICES ASSUME NEW d \in Days, NEW e \in Days, d <= e
               PROVE  MonthOf(d) <= MonthOf(e) /\ MonthOf(d) \in Nat \ {0}
    OBVIOUS
  <2>1. d - 1 \in Nat /\ e - 1 \in Nat /\ d - 1 <= e - 1
    BY <1>2
  <2>2. (d - 1) \div DaysPerMonth <= (e - 1) \div DaysPerMonth
        /\ (d - 1) \div DaysPerMonth \in Nat /\ (e - 1) \div DaysPerMonth \in Nat
    BY <1>1, <2>1
  <2> QED
    BY <2>2 DEF MonthOf
<1>4. \A d \in Days : MonthOf(d) \in Nat \ {0} /\ MonthOf(d) <= MonthOf(LastDay)
  BY <1>2, <1>3
<1>5. MonthOf(LastDay) \in Nat \ {0}
  BY <1>2, <1>4
<1>6. \A m : m \in Months <=> m \in Nat /\ 1 <= m /\ m <= MonthOf(LastDay)
  BY <1>5 DEF Months
<1> QED
  BY <1>1, <1>2, <1>3, <1>4, <1>5, <1>6

\* A set of numbers that is not empty has a least one.
LEMMA Least ==
  ASSUME NEW T, T \subseteq Nat, T # {}
  PROVE  \E x \in T : \A y \in T : x <= y
<1> DEFINE R == OpToRel(<, Nat)
<1>1. IsWellFoundedOn(R, Nat)
  BY NatLessThanWellFounded, Zenon
<1>2. \A x, y \in Nat : x < y => <<x, y>> \in R
  BY DEF OpToRel
<1> HIDE DEF R
<1>3. PICK x \in T : \A y \in T : ~(<<y, x>> \in R)
  BY <1>1, WFMin
<1>4. \A y \in T : ~(y < x)
  BY <1>2, <1>3
<1> QED
  BY <1>4

\* Months that are not none have a latest one.
LEMMA Latest ==
  ASSUME NEW K, K \subseteq Months, K # {}
  PROVE  \E k \in K : \A l \in K : l <= k
<1>1. MonthOf(LastDay) \in Nat /\ \A m \in Months : m \in Nat /\ m <= MonthOf(LastDay)
  <2>1. LastDay \in Days
    BY IncomeAssumption DEF Days
  <2> QED
    BY <2>1, Calendar DEF Months
<1> DEFINE T == {MonthOf(LastDay) - k : k \in K}
<1>2. T \subseteq Nat /\ T # {}
  BY <1>1
<1>3. PICK x \in T : \A y \in T : x <= y
  <2> HIDE DEF T
  <2> QED
    BY <1>2, Least
<1>4. PICK k \in K : x = MonthOf(LastDay) - k
  OBVIOUS
<1>5. \A l \in K : MonthOf(LastDay) - k <= MonthOf(LastDay) - l
  BY <1>3, <1>4
<1> QED
  BY <1>1, <1>5

-----------------------------------------------------------------------------
(* The salary.                                                               *)

\* Versions lie in the past or the current month.
NoVersionAhead ==
  \A m \in Months : m > CurrentMonth => salary.versions[m] = Null

\* The month after the end has the version 0, and it is the last.
EndIsRecorded ==
  salary.endsIn # Null =>
    /\ salary.endsIn + 1 \in Months
    /\ salary.versions[salary.endsIn + 1] = 0
    /\ \A m \in Months : m > salary.endsIn + 1 => salary.versions[m] = Null

\* No month of the salary is both received and on hold.
SalaryIsReceivedOnce ==
  \A m \in Months :
    /\ salary.receipts[m] = Null \/ m \notin salary.holds
    /\ salary.receivedForMonth = m => salary.receipts[m] # Null
    /\ salary.receiptHoldForMonth = m => m \in salary.holds

SalaryInv ==
  /\ today \in Days
  /\ salary \in SalaryRow
  /\ salary.exists \/ salary = NoSalary
  /\ NoVersionAhead
  /\ EndIsRecorded
  /\ SalaryIsReceivedOnce

\* Two salaries with the same versions up to a month pay the same in it.
LEMMA RateInSame ==
  ASSUME NEW s, NEW t, NEW m \in Months,
         \A k \in Months : k <= m => s.versions[k] = t.versions[k]
  PROVE  RateIn(s, m) = RateIn(t, m)
<1> DEFINE known(r) == {k \in Months : k <= m /\ r.versions[k] # Null}
<1>1. known(s) = known(t)
  OBVIOUS
<1>2. CASE known(s) = {}
  BY <1>1, <1>2 DEF RateIn
<1>3. CASE known(s) # {}
  <2>1. PICK k \in known(s) : \A l \in known(s) : l <= k
    <3>1. known(s) \subseteq Months
      OBVIOUS
    <3> HIDE DEF known
    <3> QED
      BY <1>3, <3>1, Latest
  <2> DEFINE last == CHOOSE j \in known(s) : \A l \in known(s) : l <= j
  <2>2. last \in known(s)
    <3> HIDE DEF known
    <3> QED
      BY <2>1
  <2>3. RateIn(s, m) = s.versions[last]
    BY <1>3 DEF RateIn
  <2>4. RateIn(t, m) = t.versions[last]
    <3>1. RateIn(t, m) = IF known(t) = {} THEN Null
                         ELSE t.versions[CHOOSE j \in known(t) : \A l \in known(t) : l <= j]
      BY DEF RateIn
    <3> HIDE DEF known
    <3> QED
      BY <1>1, <1>3, <3>1
  <2>5. last \in Months /\ last <= m
    BY <2>2
  <2> HIDE DEF last, known
  <2> QED
    BY <2>3, <2>4, <2>5
<1> QED
  BY <1>2, <1>3

\* What is paid in a month is its latest version.
LEMMA RateInLatest ==
  ASSUME NEW s, NEW m \in Months, NEW k \in Months, k <= m, s.versions[k] # Null,
         \A l \in Months : k < l /\ l <= m => s.versions[l] = Null
  PROVE  RateIn(s, m) = s.versions[k]
<1> DEFINE known == {j \in Months : j <= m /\ s.versions[j] # Null}
           last == CHOOSE j \in known : \A l \in known : l <= j
<1>1. k \in known /\ \A l \in known : l \in Nat /\ l <= k
  BY Calendar
<1>2. last \in known /\ \A l \in known : l <= last
  <2> HIDE DEF known
  <2> QED
    BY <1>1
<1>3. last = k
  <2>1. last \in Nat /\ k \in Nat /\ last <= k /\ k <= last
    BY <1>1, <1>2
  <2> QED
    BY <2>1
<1>4. known # {}
  BY <1>1
<1>5. RateIn(s, m) = s.versions[last]
  BY <1>4 DEF RateIn
<1> QED
  BY <1>3, <1>5

\* What is paid is a level, or nothing is known.
LEMMA RateInType ==
  ASSUME NEW s \in SalaryRow, NEW m \in Months
  PROVE  RateIn(s, m) \in Levels \cup {0, Null}
<1> DEFINE known == {k \in Months : k <= m /\ s.versions[k] # Null}
           last == CHOOSE j \in known : \A l \in known : l <= j
<1>1. CASE known = {}
  BY <1>1 DEF RateIn
<1>2. CASE known # {}
  <2>1. known \subseteq Months
    OBVIOUS
  <2>2. last \in Months
    <3> HIDE DEF known
    <3>1. PICK k \in known : \A l \in known : l <= k
      BY <1>2, <2>1, Latest
    <3> QED
      BY <2>1, <3>1
  <2>3. RateIn(s, m) = s.versions[last]
    BY <1>2 DEF RateIn
  <2> HIDE DEF last, known
  <2> QED
    BY <2>2, <2>3 DEF SalaryRow
<1> QED
  BY <1>1, <1>2

\* The entry of before the versions pays its amount from the first month on.
LEMMA BaselineEffect ==
  ASSUME NEW s \in SalaryRow
  PROVE  /\ WithBaseline(s) \in SalaryRow
         /\ WithBaseline(s).exists = s.exists
         /\ WithBaseline(s).receipts = s.receipts /\ WithBaseline(s).holds = s.holds
         /\ WithBaseline(s).receivedForMonth = s.receivedForMonth
         /\ WithBaseline(s).receiptHoldForMonth = s.receiptHoldForMonth
         /\ \A k \in Months : WithBaseline(s).versions[k] =
              IF s.versions = Nothing /\ k = 1 THEN s.amount ELSE s.versions[k]
<1>1. CASE s.versions = Nothing
  <2> DEFINE v == [s.versions EXCEPT ![1] = s.amount]
  <2>1. WithBaseline(s) = [s EXCEPT !.versions = v]
    BY <1>1 DEF WithBaseline
  <2>2. /\ v \in [Months -> Levels \cup {0, Null}]
        /\ \A k \in Months : v[k] = IF k = 1 THEN s.amount ELSE s.versions[k]
    BY Calendar DEF SalaryRow
  <2> HIDE DEF v
  <2> QED
    BY <1>1, <2>1, <2>2 DEF SalaryRow
<1>2. CASE s.versions # Nothing
  BY <1>2 DEF WithBaseline
<1> QED
  BY <1>1, <1>2

LEMMA WithSalaryEffect ==
  ASSUME NEW s \in SalaryRow, NEW level \in Levels, NEW m \in Months
  PROVE  LET t == WithSalary(s, level, m) IN
         /\ t \in SalaryRow
         /\ t.exists = s.exists /\ t.amount = level
         /\ t.endsIn = IF level > 0 THEN Null ELSE m - 1
         /\ t.receipts = s.receipts /\ t.holds = s.holds
         /\ t.receivedForMonth = s.receivedForMonth
         /\ t.receiptHoldForMonth = s.receiptHoldForMonth
         /\ t.versions[m] = level
         /\ \A k \in Months : k # m => t.versions[k] =
              IF s.versions = Nothing /\ k = 1 THEN s.amount ELSE s.versions[k]
<1> DEFINE b == WithBaseline(s)
           v == [b.versions EXCEPT ![m] = level]
           e == IF level > 0 THEN Null ELSE m - 1
           t == WithSalary(s, level, m)
<1>1. t = [b EXCEPT !.amount = level, !.versions = v, !.endsIn = e]
  BY DEF WithSalary
<1>2. b \in SalaryRow
  BY BaselineEffect
<1>3. e \in Months \cup {0, Null}
  BY Calendar
<1>4. /\ v \in [Months -> Levels \cup {0, Null}] /\ v[m] = level
      /\ \A k \in Months : k # m => v[k] = b.versions[k]
  BY <1>2 DEF SalaryRow
<1>5. /\ t \in SalaryRow /\ t.versions = v /\ t.endsIn = e /\ t.amount = level
      /\ t.exists = b.exists /\ t.receipts = b.receipts /\ t.holds = b.holds
      /\ t.receivedForMonth = b.receivedForMonth
      /\ t.receiptHoldForMonth = b.receiptHoldForMonth
  <2> HIDE DEF v, e, b
  <2> QED
    BY <1>1, <1>2, <1>3, <1>4 DEF SalaryRow
<1>6. /\ b.exists = s.exists /\ b.receipts = s.receipts /\ b.holds = s.holds
      /\ b.receivedForMonth = s.receivedForMonth
      /\ b.receiptHoldForMonth = s.receiptHoldForMonth
      /\ \A k \in Months : b.versions[k] =
           IF s.versions = Nothing /\ k = 1 THEN s.amount ELSE s.versions[k]
  BY BaselineEffect
<1> HIDE DEF v, b
<1> QED
  BY <1>4, <1>5, <1>6

LEMMA InitSalary == Init => SalaryInv
<1> SUFFICES ASSUME Init PROVE SalaryInv
  OBVIOUS
<1>1. today \in Days /\ Nothing \in [Months -> {Null}]
  BY Calendar DEF Init, Nothing
<1>2. NoSalary \in SalaryRow
  BY <1>1 DEF NoSalary, SalaryRow
<1>3. \/ salary = NoSalary
      \/ \E l \in Levels : salary = [NoSalary EXCEPT !.exists = TRUE, !.amount = l]
  BY DEF Init
<1>4. /\ salary.versions = Nothing /\ salary.endsIn = Null /\ salary.receipts = Nothing
      /\ salary.holds = {} /\ salary.receivedForMonth = Null
      /\ salary.receiptHoldForMonth = Null
      /\ salary.exists \/ salary = NoSalary
  <2>1. CASE salary = NoSalary
    BY <2>1 DEF NoSalary
  <2>2. ASSUME NEW l \in Levels, salary = [NoSalary EXCEPT !.exists = TRUE, !.amount = l]
        PROVE  <1>4
    BY <2>2 DEF NoSalary
  <2> QED
    BY <1>3, <2>1, <2>2
<1>5. salary \in SalaryRow
  BY <1>2, <1>3 DEF SalaryRow
<1>6. \A m \in Months : m # Null /\ Nothing[m] = Null
  BY Calendar DEF Nothing
<1> QED
  BY <1>1, <1>4, <1>5, <1>6
  DEF SalaryInv, NoVersionAhead, EndIsRecorded, SalaryIsReceivedOnce

\* A salary that is created, changed, ended or resumed.
LEMMA ProfileStep ==
  ASSUME SalaryInv, NEW level \in Levels, UpdateProfile(level)
  PROVE  /\ SalaryInv'
         /\ \A m \in Months : m < CurrentMonth => Forecast(salary', m) = Forecast(salary, m)
<1> DEFINE now == CurrentMonth
<1>1. /\ today' = today /\ today \in Days /\ salary \in SalaryRow
      /\ now \in Months /\ CurrentMonth' = now
  BY Calendar DEF SalaryInv, UpdateProfile, CurrentMonth
<1>2. level \in Nat /\ 0 # Null /\ Null \notin Nat
  BY IncomeAssumption
<1>3. CASE salary.exists /\ salary' = WithSalary(salary, level, now)
  <2>1. /\ salary' \in SalaryRow
        /\ salary'.exists /\ salary'.amount = level
        /\ salary'.endsIn = IF level > 0 THEN Null ELSE now - 1
        /\ salary'.receipts = salary.receipts /\ salary'.holds = salary.holds
        /\ salary'.receivedForMonth = salary.receivedForMonth
        /\ salary'.receiptHoldForMonth = salary.receiptHoldForMonth
        /\ salary'.versions[now] = level
        /\ \A k \in Months : k # now => salary'.versions[k] =
             IF salary.versions = Nothing /\ k = 1 THEN salary.amount ELSE salary.versions[k]
    BY <1>1, <1>3, WithSalaryEffect
  <2>2. now \in Nat /\ now >= 1 /\ \A k \in Months : k \in Nat /\ k >= 1
    BY <1>1, Calendar
  <2>3. \A k \in Months : k > now => salary'.versions[k] = Null
    BY <1>1, <2>1, <2>2 DEF SalaryInv, NoVersionAhead
  <2>4. EndIsRecorded'
    BY <1>1, <1>2, <2>1, <2>2, <2>3 DEF EndIsRecorded
  <2>5. SalaryIsReceivedOnce'
    BY <2>1 DEF SalaryInv, SalaryIsReceivedOnce
  <2>6. ASSUME NEW m \in Months, m < now
        PROVE  Forecast(salary', m) = Forecast(salary, m)
    <3>1. ~(salary'.endsIn # Null /\ salary'.endsIn < m)
      BY <2>1, <2>2, <2>6
    <3>2. salary'.versions # Nothing
      BY <1>1, <1>2, <2>1 DEF Nothing
    <3>3. Forecast(salary', m) = IF RateIn(salary', m) = Null THEN 0 ELSE RateIn(salary', m)
      BY <2>1, <3>1, <3>2 DEF Forecast
    <3>4. CASE salary.versions = Nothing
      <4>1. \A k \in Months : salary.versions[k] = Null
        BY <3>4 DEF Nothing
      <4>2. salary.endsIn = Null
        BY <1>2, <4>1 DEF SalaryInv, EndIsRecorded
      <4>3. Forecast(salary, m) = salary.amount /\ salary.amount \in Nat
        <5>1. salary.amount \in Nat
          <6>1. salary.amount \in Levels \cup {0}
            BY <1>1 DEF SalaryRow
          <6>2. Levels \cup {0} \subseteq Nat
            BY IncomeAssumption
          <6> QED
            BY <6>1, <6>2
        <5>2. Forecast(salary, m) = salary.amount
          BY <1>3, <3>4, <4>2 DEF Forecast
        <5> QED
          BY <5>1, <5>2
      <4>4. salary'.versions[1] = salary.amount /\ 1 \in Months /\ 1 <= m
        BY <2>1, <2>2, <2>6, <3>4, Calendar
      <4>5. \A l \in Months : 1 < l /\ l <= m => salary'.versions[l] = Null
        BY <2>1, <2>2, <2>6, <4>1
      <4>6. RateIn(salary', m) = salary.amount
        BY <1>2, <4>3, <4>4, <4>5, RateInLatest
      <4> QED
        BY <1>2, <3>3, <4>3, <4>6
    <3>5. CASE salary.versions # Nothing
      <4>1. \A k \in Months : k <= m => salary'.versions[k] = salary.versions[k]
        BY <2>1, <2>2, <2>6, <3>5
      <4>2. RateIn(salary', m) = RateIn(salary, m)
        BY <4>1, RateInSame
      <4>3. CASE salary.endsIn # Null /\ salary.endsIn < m
        <5> DEFINE e == salary.endsIn + 1
        <5>1. /\ e \in Months /\ salary.versions[e] = 0
              /\ \A k \in Months : k > e => salary.versions[k] = Null
          BY <4>3 DEF SalaryInv, EndIsRecorded
        <5>2. e <= m
          <6>1. salary.endsIn \in Nat
            <7>1. salary.endsIn \in Months \cup {0, Null}
              BY <1>1 DEF SalaryRow
            <7> QED
              BY <2>2, <4>3, <7>1
          <6> QED
            BY <2>2, <4>3, <6>1
        <5> HIDE DEF e
        <5>3. RateIn(salary, m) = 0
          BY <1>2, <5>1, <5>2, RateInLatest
        <5>4. Forecast(salary, m) = 0
          BY <4>3 DEF Forecast
        <5> QED
          BY <1>2, <3>3, <4>2, <5>3, <5>4
      <4>4. CASE ~(salary.endsIn # Null /\ salary.endsIn < m)
        <5>1. Forecast(salary, m) = IF RateIn(salary, m) = Null THEN 0 ELSE RateIn(salary, m)
          BY <1>3, <3>5, <4>4 DEF Forecast
        <5> QED
          BY <3>3, <4>2, <5>1
      <4> QED
        BY <4>3, <4>4
    <3> QED
      BY <3>4, <3>5
  <2> QED
    BY <1>1, <2>1, <2>3, <2>4, <2>5, <2>6 DEF SalaryInv, NoVersionAhead
<1>4. CASE /\ ~salary.exists /\ level > 0
           /\ salary' = [NoSalary EXCEPT !.exists = TRUE, !.amount = level,
                                         !.versions[now] = level]
  <2> DEFINE v == [Nothing EXCEPT ![now] = level]
  <2>1. salary' = [NoSalary EXCEPT !.exists = TRUE, !.amount = level, !.versions = v]
    BY <1>4 DEF NoSalary
  <2>2. /\ v \in [Months -> Levels \cup {0, Null}] /\ v[now] = level
        /\ \A k \in Months : k # now => v[k] = Null
    BY <1>1 DEF Nothing
  <2>3. salary = NoSalary /\ NoSalary \in SalaryRow
    BY <1>1, <1>4 DEF SalaryInv
  <2> HIDE DEF v
  <2>4. /\ salary'.exists /\ salary'.endsIn = Null /\ salary'.versions = v
        /\ salary'.receipts = salary.receipts /\ salary'.holds = salary.holds
        /\ salary'.receivedForMonth = salary.receivedForMonth
        /\ salary'.receiptHoldForMonth = salary.receiptHoldForMonth
    BY <2>1, <2>3 DEF NoSalary
  <2>5. salary' \in SalaryRow
    BY <2>1, <2>2, <2>3 DEF SalaryRow
  <2>6. \A k \in Months : k \in Nat
    BY Calendar
  <2>7. NoVersionAhead' /\ EndIsRecorded'
    BY <1>1, <2>2, <2>4, <2>6 DEF NoVersionAhead, EndIsRecorded
  <2>8. SalaryIsReceivedOnce'
    BY <2>4 DEF SalaryInv, SalaryIsReceivedOnce
  <2>9. ASSUME NEW m \in Months, m < now
        PROVE  Forecast(salary', m) = Forecast(salary, m)
    <3>1. \A k \in Months : k <= m => v[k] = Null
      BY <1>1, <2>2, <2>6, <2>9
    <3>2. RateIn(salary', m) = Null
      BY <2>4, <3>1 DEF RateIn
    <3>3. v # Nothing
      BY <1>1, <1>2, <2>2 DEF Nothing
    <3> QED
      BY <1>4, <2>4, <3>2, <3>3 DEF Forecast
  <2> QED
    BY <1>1, <2>4, <2>5, <2>7, <2>8, <2>9 DEF SalaryInv
<1> QED
  BY <1>3, <1>4 DEF UpdateProfile

\* A month of the salary is received, put on hold, or left to the calendar.
LEMMA SalaryStateStep ==
  ASSUME SalaryInv, NEW m \in Months, NEW state \in {"automatic", "received", "waiting"},
         SetSalaryState(m, state)
  PROVE  /\ SalaryInv'
         /\ \A k \in Months : Forecast(salary', k) = Forecast(salary, k)
<1> DEFINE rate == RateIn(salary, m)
           paid == [salary.receipts EXCEPT ![m] =
                      IF state # "received" THEN Null ELSE IF @ = Null THEN rate ELSE @]
           held == HoldsAfter(salary, m, state)
           received == IF state = "received" THEN m ELSE Null
           waiting == IF state = "waiting" THEN m ELSE Null
<1>1. today \in Days /\ today' = today /\ salary \in SalaryRow /\ salary.exists /\ rate # Null
  BY DEF SalaryInv, SetSalaryState
<1>2. rate \in Levels \cup {0, Null}
  BY <1>1, RateInType
<1>3. salary' = [salary EXCEPT !.receipts = paid, !.holds = held,
                               !.receivedForMonth = received,
                               !.receiptHoldForMonth = waiting]
  BY DEF SetSalaryState
<1> HIDE DEF rate
<1>4. /\ paid \in [Months -> Levels \cup {0, Null}]
      /\ paid[m] # Null <=> state = "received"
      /\ \A k \in Months : k # m => paid[k] = salary.receipts[k]
  BY <1>1, <1>2 DEF SalaryRow
<1>5. /\ held \in SUBSET Months
      /\ m \in held <=> state = "waiting"
      /\ \A k \in Months : k # m => (k \in held <=> k \in salary.holds)
  BY <1>1 DEF HoldsAfter, SalaryRow
<1> HIDE DEF paid, held
<1>6. /\ salary' \in SalaryRow
      /\ salary'.exists = salary.exists /\ salary'.amount = salary.amount
      /\ salary'.endsIn = salary.endsIn /\ salary'.versions = salary.versions
      /\ salary'.receipts = paid /\ salary'.holds = held
      /\ salary'.receivedForMonth = received /\ salary'.receiptHoldForMonth = waiting
  BY <1>1, <1>3, <1>4, <1>5 DEF SalaryRow
<1>7. SalaryIsReceivedOnce'
  <2> SUFFICES ASSUME NEW k \in Months
               PROVE  /\ paid[k] = Null \/ k \notin held
                      /\ received = k => paid[k] # Null
                      /\ waiting = k => k \in held
    BY <1>6 DEF SalaryIsReceivedOnce
  <2>1. k # Null
    BY Calendar
  <2> QED
    BY <1>4, <1>5, <2>1 DEF SalaryInv, SalaryIsReceivedOnce
<1>8. NoVersionAhead' /\ EndIsRecorded'
  BY <1>1, <1>6 DEF SalaryInv, NoVersionAhead, EndIsRecorded, CurrentMonth
<1>9. \A k \in Months : Forecast(salary', k) = Forecast(salary, k)
  BY <1>6 DEF Forecast, RateIn
<1> QED
  BY <1>1, <1>6, <1>7, <1>8, <1>9 DEF SalaryInv

\* Steps of the manual entries and of time.
LEMMA SalaryFrame ==
  ASSUME SalaryInv, salary' = salary, today' = today \/ (Midnight /\ today < LastDay)
  PROVE  SalaryInv'
<1>1. today' \in Days /\ today <= today' /\ today \in Days
  BY IncomeAssumption DEF SalaryInv, Midnight, Days
<1>2. CurrentMonth' \in Nat /\ CurrentMonth \in Nat /\ CurrentMonth <= CurrentMonth'
  BY <1>1, Calendar DEF CurrentMonth
<1>3. \A m \in Months : m \in Nat
  BY Calendar
<1>4. NoVersionAhead'
  BY <1>2, <1>3 DEF SalaryInv, NoVersionAhead
<1>5. EndIsRecorded' /\ SalaryIsReceivedOnce'
  BY DEF SalaryInv, EndIsRecorded, SalaryIsReceivedOnce
<1> QED
  BY <1>1, <1>4, <1>5 DEF SalaryInv

-----------------------------------------------------------------------------
(* The manual entries.                                                       *)

EntryTypes ==
  /\ clock \in 0 .. MaxMs
  /\ entry \in [Entries -> EntryRow]
  /\ receipt \in [Entries -> Receipts]
  /\ sent \subseteq Confirmation
  /\ \A c \in sent : c.state = "received" => c.receivedOn \in Days

\* An entry that is there is worth something, and one that is not has no
\* receipt.
EntriesAreWhole ==
  \A e \in Entries :
    /\ entry[e].status = "open" => entry[e].amount \in Amounts
    /\ entry[e].status = "absent" => Received(e) = {}

\* An entry has one receipt at most, and is a one-off while it has it.
OneReceipt ==
  \A e \in Entries :
    /\ \A m, n \in Received(e) : m = n
    /\ Received(e) # {} => entry[e].frequency = "unica"

\* As long as an entry is open and has the version of a confirmation, it and
\* its receipts are what was seen; versions only grow.
SeenIsCurrent ==
  \A c \in sent :
    LET e == c.entry IN
      /\ entry[e].status # "absent"
      /\ entry[e].status = "open" =>
           /\ c.expectedUpdatedAt <= entry[e].updatedAt
           /\ c.expectedUpdatedAt = entry[e].updatedAt =>
                c.seen = [entry |-> entry[e], receipt |-> receipt[e]]

EntryInv == EntryTypes /\ EntriesAreWhole /\ OneReceipt /\ SeenIsCurrent

\* A row replaced leaves the others as they are.
LEMMA OneRow ==
  ASSUME EntryTypes, NEW e \in Entries, NEW row \in EntryRow,
         entry' = [entry EXCEPT ![e] = row]
  PROVE  /\ entry' \in [Entries -> EntryRow] /\ entry'[e] = row
         /\ \A f \in Entries : f # e => entry'[f] = entry[f]
  BY DEF EntryTypes

\* A step that makes or removes the receipt of one month, as the model writes it
\* and as the proofs read it.
SetsReceipt(e, m, r) == receipt' = [receipt EXCEPT ![e][m] = r]

OnlyReceiptChanged(e, m, r) ==
  /\ receipt' \in [Entries -> Receipts] /\ receipt'[e][m] = r
  /\ \A n \in Months : n # m => receipt'[e][n] = receipt[e][n]
  /\ \A f \in Entries : f # e => receipt'[f] = receipt[f]

\* A receipt made or removed leaves the others as they are.
LEMMA OneReceiptOfMany ==
  ASSUME EntryTypes, NEW e \in Entries, NEW m \in Months, NEW r \in Receipt \cup {Null},
         SetsReceipt(e, m, r)
  PROVE  OnlyReceiptChanged(e, m, r)
<1> DEFINE row == [receipt[e] EXCEPT ![m] = r]
<1>1. receipt \in [Entries -> Receipts] /\ receipt[e] \in Receipts
  BY DEF EntryTypes
<1>2. /\ row \in Receipts /\ row[m] = r
      /\ \A n \in Months : n # m => row[n] = receipt[e][n]
  BY <1>1 DEF Receipts
<1>3. receipt' = [receipt EXCEPT ![e] = row]
  BY DEF SetsReceipt
<1> HIDE DEF row
<1> QED
  BY <1>1, <1>2, <1>3 DEF OnlyReceiptChanged

LEMMA InitEntries == Init => EntryInv
<1> SUFFICES ASSUME Init PROVE EntryInv
  OBVIOUS
<1>1. /\ \A e \in Entries : entry[e].status = "absent" /\ Received(e) = {}
      /\ sent = {} /\ clock = 0
  BY DEF Init, Received, Nothing
<1>2. EntryTypes
  <2>1. clock \in 0 .. MaxMs
    BY <1>1, IncomeAssumption
  <2>2. entry \in [Entries -> EntryRow]
    BY DEF Init, EntryRow, Versions
  <2>3. receipt \in [Entries -> Receipts]
    BY DEF Init, Receipts, Nothing
  <2> QED
    BY <1>1, <2>1, <2>2, <2>3 DEF EntryTypes
<1> QED
  BY <1>1, <1>2 DEF EntryInv, EntriesAreWhole, OneReceipt, SeenIsCurrent

\* The fields of a confirmation.
LEMMA ConfirmationFields ==
  ASSUME EntryTypes, NEW c \in sent
  PROVE  /\ c.entry \in Entries /\ c.month \in Months
         /\ c.state \in {"received", "waiting"} /\ c.receivedOn \in Days \cup {Null}
         /\ c.expectedUpdatedAt \in Nat
  BY DEF EntryTypes, Confirmation, Versions

\* An entry without a receipt appears.
LEMMA CreateStep ==
  ASSUME EntryInv, NEW e \in Entries, NEW f \in {"unica", "mensal"}, NEW a \in Amounts,
         CreateEntry(e, f, a)
  PROVE  EntryInv'
<1> DEFINE row == [status |-> "open", frequency |-> f, amount |-> a, updatedAt |-> clock]
<1>1. /\ entry[e].status = "absent" /\ entry' = [entry EXCEPT ![e] = row]
      /\ receipt' = receipt /\ sent' = sent /\ clock' = clock
  BY DEF CreateEntry
<1>2. EntryTypes /\ clock \in Nat
  BY IncomeAssumption DEF EntryInv, EntryTypes
<1>3. row \in EntryRow /\ row.status = "open" /\ row.amount \in Amounts
  BY <1>2 DEF EntryRow, Versions
<1> HIDE DEF row
<1>4. /\ entry' \in [Entries -> EntryRow] /\ entry'[e] = row
      /\ \A g \in Entries : g # e => entry'[g] = entry[g]
  BY <1>1, <1>2, <1>3, OneRow
<1>5. \A g \in Entries : Received(g)' = Received(g)
  BY <1>1 DEF Received
<1>6. Received(e) = {}
  BY <1>1 DEF EntryInv, EntriesAreWhole
<1>7. EntryTypes'
  BY <1>1, <1>2, <1>4 DEF EntryTypes
<1>8. EntriesAreWhole' /\ OneReceipt'
  BY <1>3, <1>4, <1>5, <1>6 DEF EntryInv, EntriesAreWhole, OneReceipt
<1>9. SeenIsCurrent'
  <2>1. \A c \in sent : c.entry # e /\ c.entry \in Entries
    BY <1>1, <1>2, ConfirmationFields DEF EntryInv, SeenIsCurrent
  <2> QED
    BY <1>1, <1>4, <2>1 DEF EntryInv, SeenIsCurrent
<1> QED
  BY <1>7, <1>8, <1>9 DEF EntryInv

\* An entry with its receipt appears.
LEMMA CreateReceivedStep ==
  ASSUME EntryInv, NEW e \in Entries, NEW a \in Amounts, NEW d \in Days,
         CreateReceivedEntry(e, a, d)
  PROVE  EntryInv'
<1> DEFINE row == [status |-> "open", frequency |-> "unica", amount |-> a, updatedAt |-> clock]
           new == [day |-> d, amount |-> a]
           m == MonthOf(d)
<1>1. /\ entry[e].status = "absent" /\ entry' = [entry EXCEPT ![e] = row]
      /\ receipt' = [receipt EXCEPT ![e][m] = new] /\ sent' = sent /\ clock' = clock
  BY DEF CreateReceivedEntry
<1>2. EntryTypes /\ clock \in Nat /\ m \in Months
  BY IncomeAssumption, Calendar DEF EntryInv, EntryTypes
<1>3. row \in EntryRow /\ row.status = "open" /\ row.amount \in Amounts
      /\ row.frequency = "unica" /\ new \in Receipt
  BY <1>2 DEF EntryRow, Versions, Receipt
<1> HIDE DEF row, new, m
<1>4. /\ entry' \in [Entries -> EntryRow] /\ entry'[e] = row
      /\ \A g \in Entries : g # e => entry'[g] = entry[g]
  BY <1>1, <1>2, <1>3, OneRow
<1>5. /\ receipt' \in [Entries -> Receipts]
      /\ \A n \in Months : n # m => receipt'[e][n] = receipt[e][n]
      /\ \A g \in Entries : g # e => receipt'[g] = receipt[g]
  <2>1. SetsReceipt(e, m, new)
    BY <1>1 DEF SetsReceipt
  <2>2. OnlyReceiptChanged(e, m, new)
    BY <1>2, <1>3, <2>1, OneReceiptOfMany
  <2> QED
    BY <2>2 DEF OnlyReceiptChanged
<1>6. /\ \A g \in Entries : g # e => Received(g)' = Received(g)
      /\ Received(e)' \subseteq {m}
  <2>1. Received(e) = {}
    BY <1>1 DEF EntryInv, EntriesAreWhole
  <2> QED
    BY <1>5, <2>1 DEF Received
<1>7. EntryTypes'
  BY <1>1, <1>2, <1>4, <1>5 DEF EntryTypes
<1>8. EntriesAreWhole' /\ OneReceipt'
  BY <1>3, <1>4, <1>6 DEF EntryInv, EntriesAreWhole, OneReceipt
<1>9. SeenIsCurrent'
  <2>1. \A c \in sent : c.entry # e /\ c.entry \in Entries
    BY <1>1, <1>2, ConfirmationFields DEF EntryInv, SeenIsCurrent
  <2> QED
    BY <1>1, <1>4, <1>5, <2>1 DEF EntryInv, SeenIsCurrent
<1> QED
  BY <1>7, <1>8, <1>9 DEF EntryInv

\* An open entry is edited: its version is newer than any a confirmation has.
LEMMA UpdateStep ==
  ASSUME EntryInv, NEW e \in Entries, NEW f \in {"unica", "mensal"}, NEW a \in Amounts,
         UpdateEntry(e, f, a)
  PROVE  EntryInv'
<1> DEFINE row == [[[entry[e] EXCEPT !.frequency = f] EXCEPT !.amount = a]
                     EXCEPT !.updatedAt = clock]
<1>1. /\ entry[e].status = "open" /\ FrequencyMayChange(e, f) /\ clock > entry[e].updatedAt
      /\ receipt' = receipt /\ sent' = sent /\ clock' = clock
  BY DEF UpdateEntry
<1>2. EntryTypes /\ clock \in Nat /\ entry[e] \in EntryRow
  BY IncomeAssumption DEF EntryInv, EntryTypes
<1>3. row \in EntryRow /\ row.status = "open" /\ row.amount = a
      /\ row.frequency = f /\ row.updatedAt = clock
  BY <1>1, <1>2 DEF EntryRow, Versions
<1>4. entry' = [entry EXCEPT ![e] = row]
  BY <1>2 DEF UpdateEntry, EntryTypes
<1> HIDE DEF row
<1>5. /\ entry' \in [Entries -> EntryRow] /\ entry'[e] = row
      /\ \A g \in Entries : g # e => entry'[g] = entry[g]
  BY <1>2, <1>3, <1>4, OneRow
<1>6. \A g \in Entries : Received(g)' = Received(g)
  BY <1>1 DEF Received
<1>7. EntryTypes'
  BY <1>1, <1>2, <1>5 DEF EntryTypes
<1>8. EntriesAreWhole' /\ OneReceipt'
  <2>1. Received(e) # {} => f = "unica"
    BY <1>1 DEF EntryInv, OneReceipt, FrequencyMayChange
  <2> QED
    BY <1>1, <1>3, <1>5, <1>6, <2>1 DEF EntryInv, EntriesAreWhole, OneReceipt
<1>9. SeenIsCurrent'
  <2> SUFFICES ASSUME NEW c \in sent
               PROVE  /\ entry'[c.entry].status # "absent"
                      /\ entry'[c.entry].status = "open" =>
                           /\ c.expectedUpdatedAt <= entry'[c.entry].updatedAt
                           /\ c.expectedUpdatedAt = entry'[c.entry].updatedAt =>
                                c.seen = [entry |-> entry'[c.entry], receipt |-> receipt'[c.entry]]
    BY <1>1 DEF SeenIsCurrent
  <2>1. c.entry \in Entries /\ c.expectedUpdatedAt \in Nat
    BY <1>2, ConfirmationFields
  <2>2. CASE c.entry = e
    <3>1. c.expectedUpdatedAt <= entry[e].updatedAt /\ entry[e].updatedAt \in Nat
      BY <1>1, <1>2, <2>2 DEF EntryInv, SeenIsCurrent, EntryRow, Versions
    <3> QED
      BY <1>1, <1>2, <1>3, <1>5, <2>1, <2>2, <3>1
  <2>3. CASE c.entry # e
    BY <1>1, <1>5, <2>1, <2>3 DEF EntryInv, SeenIsCurrent
  <2> QED
    BY <2>2, <2>3
<1> QED
  BY <1>7, <1>8, <1>9 DEF EntryInv

\* An entry that is archived is not open again.
LEMMA ArchiveStep ==
  ASSUME EntryInv, NEW e \in Entries, ArchiveEntry(e)
  PROVE  EntryInv'
<1> DEFINE row == [[entry[e] EXCEPT !.status = "archived"] EXCEPT !.updatedAt = clock]
<1>1. /\ entry[e].status = "open"
      /\ receipt' = receipt /\ sent' = sent /\ clock' = clock
  BY DEF ArchiveEntry
<1>2. EntryTypes /\ clock \in Nat /\ entry[e] \in EntryRow
  BY IncomeAssumption DEF EntryInv, EntryTypes
<1>3. row \in EntryRow /\ row.status = "archived" /\ row.frequency = entry[e].frequency
  BY <1>1, <1>2 DEF EntryRow, Versions
<1>4. entry' = [entry EXCEPT ![e] = row]
  BY <1>2 DEF ArchiveEntry, EntryTypes
<1> HIDE DEF row
<1>5. /\ entry' \in [Entries -> EntryRow] /\ entry'[e] = row
      /\ \A g \in Entries : g # e => entry'[g] = entry[g]
  BY <1>2, <1>3, <1>4, OneRow
<1>6. \A g \in Entries : Received(g)' = Received(g)
  BY <1>1 DEF Received
<1>7. EntryTypes'
  BY <1>1, <1>2, <1>5 DEF EntryTypes
<1>8. EntriesAreWhole' /\ OneReceipt'
  BY <1>1, <1>3, <1>5, <1>6 DEF EntryInv, EntriesAreWhole, OneReceipt
<1>9. SeenIsCurrent'
  <2>1. \A c \in sent : c.entry \in Entries
    BY <1>2, ConfirmationFields
  <2> QED
    BY <1>1, <1>3, <1>5, <2>1 DEF EntryInv, SeenIsCurrent
<1> QED
  BY <1>7, <1>8, <1>9 DEF EntryInv

\* A confirmation is sent: it names the version, and what was seen, of now.
LEMMA AskStep ==
  ASSUME EntryInv, NEW e \in Entries, NEW m \in Months, NEW state \in {"received", "waiting"},
         NEW d \in Days \cup {Null}, Ask(e, m, state, d)
  PROVE  EntryInv'
<1> DEFINE c0 == [entry |-> e, month |-> m, state |-> state, receivedOn |-> d,
                  expectedUpdatedAt |-> entry[e].updatedAt,
                  seen |-> [entry |-> entry[e], receipt |-> receipt[e]]]
<1>1. /\ entry[e].status = "open" /\ sent' = sent \cup {c0}
      /\ c0.state = "received" => c0.receivedOn \in Days
      /\ clock' = clock /\ entry' = entry /\ receipt' = receipt
  BY DEF Ask
<1>2. EntryTypes /\ entry[e] \in EntryRow /\ receipt[e] \in Receipts
      /\ entry[e].updatedAt \in Nat
  BY DEF EntryInv, EntryTypes, EntryRow, Versions
<1>3. c0 \in Confirmation
  BY <1>2 DEF Confirmation, Versions
<1>4. /\ c0.entry = e /\ c0.expectedUpdatedAt = entry[e].updatedAt
      /\ c0.seen = [entry |-> entry[e], receipt |-> receipt[e]]
  OBVIOUS
<1> HIDE DEF c0
<1>5. EntryTypes'
  BY <1>1, <1>2, <1>3 DEF EntryTypes
<1>6. EntriesAreWhole' /\ OneReceipt'
  BY <1>1 DEF EntryInv, EntriesAreWhole, OneReceipt, Received
<1>7. SeenIsCurrent'
  BY <1>1, <1>2, <1>4 DEF EntryInv, SeenIsCurrent
<1> QED
  BY <1>5, <1>6, <1>7 DEF EntryInv

\* A confirmation takes effect: it makes the first receipt or removes the only
\* one, and the version moves on.
LEMMA ConfirmStep ==
  ASSUME EntryInv, NEW c \in sent, SetReceiptState(c)
  PROVE  EntryInv'
<1> DEFINE e == c.entry
           m == c.month
           old == receipt[e][m]
           new == IF c.state = "received"
                  THEN IF old = Null THEN [day |-> c.receivedOn, amount |-> entry[e].amount]
                       ELSE old
                  ELSE Null
           row == [entry[e] EXCEPT !.updatedAt = NextUpdatedAt(e)]
<1>1. /\ IsCurrent(e, c) /\ SameReceiptOrNone(e, c)
      /\ (c.state = "received") = (Received(e) = {})
      /\ sent' = sent /\ clock' = clock
      /\ receipt' = [receipt EXCEPT ![e][m] = new]
      /\ entry' = [entry EXCEPT ![e] = row]
  BY DEF SetReceiptState
<1>2. EntryTypes /\ clock \in Nat /\ e \in Entries /\ m \in Months
      /\ entry[e] \in EntryRow /\ receipt[e] \in Receipts
      /\ c.expectedUpdatedAt \in Nat
  <2>1. EntryTypes /\ clock \in Nat
    BY IncomeAssumption DEF EntryInv, EntryTypes
  <2> QED
    BY <2>1, ConfirmationFields DEF EntryTypes
<1>3. entry[e].status = "open" /\ entry[e].frequency = "unica"
      /\ entry[e].updatedAt = c.expectedUpdatedAt /\ entry[e].updatedAt \in Nat
  BY <1>1, <1>2 DEF IsCurrent
<1>4. new \in Receipt \cup {Null}
  <2>1. old \in Receipt \cup {Null}
    BY <1>2 DEF Receipts
  <2>2. c.state = "received" => [day |-> c.receivedOn, amount |-> entry[e].amount] \in Receipt
    BY <1>2, <1>3 DEF EntryInv, EntryTypes, EntriesAreWhole, Receipt
  <2> QED
    BY <2>1, <2>2
<1>5. NextUpdatedAt(e) \in Nat /\ NextUpdatedAt(e) > entry[e].updatedAt
  BY <1>2, <1>3 DEF NextUpdatedAt
<1>6. row \in EntryRow /\ row.status = "open" /\ row.frequency = "unica"
      /\ row.amount = entry[e].amount /\ row.updatedAt = NextUpdatedAt(e)
  <2>1. NextUpdatedAt(e) \in Versions
    BY <1>5 DEF Versions
  <2> QED
    BY <1>2, <1>3, <2>1 DEF EntryRow
<1>7. c.state # "received" => new = Null
  OBVIOUS
<1> HIDE DEF row, new
<1>8. /\ entry' \in [Entries -> EntryRow] /\ entry'[e] = row
      /\ \A g \in Entries : g # e => entry'[g] = entry[g]
  BY <1>1, <1>2, <1>6, OneRow
<1>9. /\ receipt' \in [Entries -> Receipts] /\ receipt'[e][m] = new
      /\ \A n \in Months : n # m => receipt'[e][n] = receipt[e][n]
      /\ \A g \in Entries : g # e => receipt'[g] = receipt[g]
  <2>1. SetsReceipt(e, m, new)
    BY <1>1 DEF SetsReceipt
  <2>2. EntryTypes /\ e \in Entries /\ m \in Months
    BY <1>2
  <2> HIDE DEF e, m, old
  <2>3. OnlyReceiptChanged(e, m, new)
    BY <1>4, <2>1, <2>2, OneReceiptOfMany
  <2> QED
    BY <2>3 DEF OnlyReceiptChanged
<1>10. /\ \A g \in Entries : g # e => Received(g)' = Received(g)
       /\ Received(e)' \subseteq {m}
  <2>1. \A n \in Received(e) : n = m
    BY <1>1 DEF SameReceiptOrNone
  <2> QED
    BY <1>9, <2>1 DEF Received
<1>11. EntryTypes'
  BY <1>1, <1>2, <1>8, <1>9 DEF EntryTypes
<1>12. EntriesAreWhole' /\ OneReceipt'
  BY <1>3, <1>6, <1>8, <1>10 DEF EntryInv, EntriesAreWhole, OneReceipt
<1>13. SeenIsCurrent'
  <2> SUFFICES ASSUME NEW b \in sent
               PROVE  /\ entry'[b.entry].status # "absent"
                      /\ entry'[b.entry].status = "open" =>
                           /\ b.expectedUpdatedAt <= entry'[b.entry].updatedAt
                           /\ b.expectedUpdatedAt = entry'[b.entry].updatedAt =>
                                b.seen = [entry |-> entry'[b.entry], receipt |-> receipt'[b.entry]]
    BY <1>1 DEF SeenIsCurrent
  <2>1. b.entry \in Entries /\ b.expectedUpdatedAt \in Nat
    BY <1>2, ConfirmationFields
  <2>2. CASE b.entry = e
    <3>1. b.expectedUpdatedAt <= entry[e].updatedAt
      BY <1>3, <2>2 DEF EntryInv, SeenIsCurrent
    <3>2. entry'[e].status = "open" /\ entry'[e].updatedAt = NextUpdatedAt(e)
      BY <1>6, <1>8
    <3> QED
      BY <1>3, <1>5, <2>1, <2>2, <3>1, <3>2
  <2>3. CASE b.entry # e
    BY <1>8, <1>9, <2>1, <2>3 DEF EntryInv, SeenIsCurrent
  <2> QED
    BY <2>2, <2>3
<1> QED
  BY <1>11, <1>12, <1>13 DEF EntryInv

\* Steps of the salary and of time.
LEMMA EntryFrame ==
  ASSUME EntryInv, UNCHANGED oneOffs, clock' \in 0 .. MaxMs
  PROVE  EntryInv'
<1>1. entry' = entry /\ receipt' = receipt /\ sent' = sent
  BY DEF oneOffs
<1> QED
  BY <1>1 DEF EntryInv, EntryTypes, EntriesAreWhole, OneReceipt, SeenIsCurrent, Received

-----------------------------------------------------------------------------
(* The theorems.                                                             *)

IInv == SalaryInv /\ EntryInv

PastIsKept == \A m \in Months : m < CurrentMonth => Forecast(salary', m) = Forecast(salary, m)

LEMMA Inductive == IInv /\ [Next]_vars => IInv' /\ PastIsKept
<1> SUFFICES ASSUME IInv, [Next]_vars PROVE IInv' /\ PastIsKept
  OBVIOUS
<1> USE DEF IInv
<1>1. clock \in 0 .. MaxMs
  BY DEF EntryInv, EntryTypes
<1>2. ASSUME salary' = salary, today' = today, EntryInv'
      PROVE  IInv' /\ PastIsKept
  BY <1>2, SalaryFrame DEF PastIsKept
<1>3. ASSUME NEW e \in Entries, NEW f \in {"unica", "mensal"}, NEW a \in Amounts,
             CreateEntry(e, f, a) \/ UpdateEntry(e, f, a)
      PROVE  IInv' /\ PastIsKept
  BY <1>2, <1>3, CreateStep, UpdateStep DEF CreateEntry, UpdateEntry
<1>4. ASSUME NEW e \in Entries, NEW a \in Amounts, NEW d \in Days,
             CreateReceivedEntry(e, a, d)
      PROVE  IInv' /\ PastIsKept
  BY <1>2, <1>4, CreateReceivedStep DEF CreateReceivedEntry
<1>5. ASSUME NEW e \in Entries, ArchiveEntry(e)
      PROVE  IInv' /\ PastIsKept
  BY <1>2, <1>5, ArchiveStep DEF ArchiveEntry
<1>6. ASSUME NEW e \in Entries, NEW m \in Months, NEW s \in {"received", "waiting"},
             NEW d \in Days \cup {Null}, Ask(e, m, s, d)
      PROVE  IInv' /\ PastIsKept
  BY <1>2, <1>6, AskStep DEF Ask
<1>7. ASSUME NEW c \in sent, SetReceiptState(c)
      PROVE  IInv' /\ PastIsKept
  BY <1>2, <1>7, ConfirmStep DEF SetReceiptState
<1>8. ASSUME NEW l \in Levels, UpdateProfile(l)
      PROVE  IInv' /\ PastIsKept
  BY <1>1, <1>8, ProfileStep, EntryFrame DEF UpdateProfile, PastIsKept
<1>9. ASSUME NEW m \in Months, NEW s \in {"automatic", "received", "waiting"},
             SetSalaryState(m, s)
      PROVE  IInv' /\ PastIsKept
  BY <1>1, <1>9, SalaryStateStep, EntryFrame DEF SetSalaryState, PastIsKept
<1>10. CASE Tick
  <2>1. clock' \in 0 .. MaxMs
    BY <1>1, <1>10, IncomeAssumption DEF Tick
  <2> QED
    BY <1>2, <1>10, <2>1, EntryFrame DEF Tick
<1>11. CASE Midnight
  BY <1>1, <1>11, SalaryFrame, EntryFrame DEF Midnight, PastIsKept
<1>12. CASE UNCHANGED vars
  BY <1>1, <1>2, <1>12, EntryFrame DEF vars, oneOffs
<1> QED
  BY <1>3, <1>4, <1>5, <1>6, <1>7, <1>8, <1>9, <1>10, <1>11, <1>12 DEF Next

\* The invariant holds in every reachable state (entries, receipts and
\* profile).
THEOREM Invariant == Spec => []IInv
<1>1. Init => IInv
  BY InitSalary, InitEntries DEF IInv
<1>2. IInv /\ [Next]_vars => IInv'
  BY Inductive
<1> QED
  BY <1>1, <1>2, PTL DEF Spec

\* Every variable keeps its type.
THEOREM TypeCorrect == Spec => []TypeOK
<1>1. IInv => TypeOK
  BY DEF IInv, SalaryInv, EntryInv, EntryTypes, TypeOK
<1> QED
  BY <1>1, Invariant, PTL

\* No income is recorded twice: a one-off has one receipt at most and stays a
\* one-off with it, and no month of the salary is both received and on hold
\* (entry-receipts.ts, profile-salary.ts).
THEOREM ReceivedOnce == Spec => []EachIncomeIsReceivedOnce
<1>1. ASSUME IInv PROVE EachIncomeIsReceivedOnce
  <2>1. ASSUME NEW e \in Entries
        PROVE  Cardinality(Received(e)) <= 1
    <3>1. CASE Received(e) = {}
      BY <3>1, FS_EmptySet
    <3>2. CASE Received(e) # {}
      <4>1. PICK m \in Received(e) : Received(e) = {m}
        BY <1>1, <3>2 DEF IInv, EntryInv, OneReceipt
      <4> QED
        BY <4>1, FS_Singleton
    <3> QED
      BY <3>1, <3>2
  <2>2. \A e \in Entries : Received(e) # {} => entry[e].frequency = "unica"
    BY <1>1 DEF IInv, EntryInv, OneReceipt
  <2>3. SalaryIsReceivedOnce
    BY <1>1 DEF IInv, SalaryInv
  <2> QED
    BY <2>1, <2>2, <2>3 DEF EachIncomeIsReceivedOnce, SalaryIsReceivedOnce
<1> QED
  BY <1>1, Invariant, PTL

\* A confirmation changes a receipt only while the entry and its receipts are
\* what the user saw, however late or often it arrives (expectedUpdatedAt,
\* nextUpdatedAt).
THEOREM ConfirmationsActOnlyOnWhatWasSeen == Spec => ConfirmationsActOnWhatWasSeen
<1> DEFINE Seen == \A c \in sent :
             SetReceiptState(c) => c.seen = [entry   |-> entry[c.entry],
                                             receipt |-> receipt[c.entry]]
<1>1. IInv => Seen
  <2> SUFFICES ASSUME IInv, NEW c \in sent, SetReceiptState(c)
               PROVE  c.seen = [entry |-> entry[c.entry], receipt |-> receipt[c.entry]]
    OBVIOUS
  <2>1. entry[c.entry].status = "open" /\ entry[c.entry].updatedAt = c.expectedUpdatedAt
    BY DEF SetReceiptState, IsCurrent
  <2> QED
    BY <2>1 DEF IInv, EntryInv, SeenIsCurrent
<1>2. IInv /\ [Next]_vars => [Seen]_vars
  BY <1>1
<1> QED
  BY <1>2, Invariant, PTL DEF Spec, ConfirmationsActOnWhatWasSeen

\* Whatever the salary is changed to, ended or resumed, the months before the
\* current one keep their forecast (upsertSalaryVersion and the baseline).
THEOREM PastSalaryKept == Spec => PastSalaryIsKept
<1>1. IInv /\ [Next]_vars => [PastIsKept]_vars
  BY Inductive
<1> QED
  BY <1>1, Invariant, PTL DEF Spec, PastSalaryIsKept, PastIsKept
=============================================================================
