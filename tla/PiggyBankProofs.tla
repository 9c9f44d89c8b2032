-------------------------- MODULE PiggyBankProofs --------------------------
(***************************************************************************)
(* Proofs about PiggyBank, for every calendar, every set of banks and      *)
(* requests and every bound.  The inductive invariant is IInv: the types,  *)
(* the age of a request's clock, and the safety invariants that the runs   *)
(* check on small instances.                                               *)
(***************************************************************************)
EXTENDS PiggyBank, WellFoundedInduction, TLAPS

-----------------------------------------------------------------------------
(* The calendar.  Induction on months is by a least element.                 *)

\* A non-empty set of naturals has a least element.
LEMMA LeastNatural ==
  ASSUME NEW T, T \subseteq Nat, T # {}
  PROVE  \E n \in T : \A k \in T : n <= k
<1> DEFINE Less == {ss \in Nat \X Nat : ss[1] < ss[2]}
<1>1. IsWellFoundedOn(Less, Nat)
  BY NatLessThanWellFounded DEF OpToRel
<1>2. PICK n \in T : \A k \in T : <<k, n>> \notin Less
  BY <1>1, WFMin
<1>3. SUFFICES ASSUME NEW k \in T PROVE n <= k
  OBVIOUS
<1>4. <<k, n>> \notin Less
  BY <1>2
<1> QED
  BY <1>4

\* Months are numbers and end on a day.
LEMMA MonthEndType ==
  /\ NMonths \in Nat /\ NMonths >= 1
  /\ \A m \in 0 .. NMonths : MonthEnd[m] \in Nat
  /\ \A m \in Months : m - 1 \in 0 .. NMonths /\ m \in 0 .. NMonths
BY CalendarAssumption DEF Months

\* No month ends after the last one.
LEMMA LastMonthEndsLast ==
  ASSUME NEW m \in Months
  PROVE  MonthEnd[m] <= MonthEnd[NMonths]
<1> DEFINE Bad == {k \in Nat : k < NMonths /\ NMonths - k \in Months
                                /\ ~(MonthEnd[NMonths - k] <= MonthEnd[NMonths])}
<1>1. Bad = {}
  <2>1. SUFFICES ASSUME Bad # {} PROVE FALSE
    OBVIOUS
  <2>2. PICK k \in Bad : \A j \in Bad : k <= j
    BY <2>1, LeastNatural
  <2>3. k # 0
    BY MonthEndType
  <2>4. k - 1 \notin Bad
    BY <2>2, <2>3
  <2>5. k - 1 \in Nat /\ k - 1 < NMonths /\ NMonths - (k - 1) \in Months
    BY <2>3, MonthEndType DEF Months
  <2>6. MonthEnd[NMonths - (k - 1)] <= MonthEnd[NMonths]
    BY <2>4, <2>5
  <2>7. NMonths - (k - 1) - 1 = NMonths - k
    BY MonthEndType
  <2>8. MonthEnd[NMonths - k] < MonthEnd[NMonths - (k - 1)]
    BY <2>5, <2>7, CalendarAssumption
  <2>9. MonthEnd[NMonths - k] \in Nat /\ MonthEnd[NMonths - (k - 1)] \in Nat
        /\ MonthEnd[NMonths] \in Nat
    BY <2>5, MonthEndType DEF Months
  <2>10. MonthEnd[NMonths - k] <= MonthEnd[NMonths]
    BY <2>6, <2>8, <2>9
  <2> QED
    BY <2>10
<1>2. NMonths - m \notin Bad
  BY <1>1
<1>3. NMonths - m \in Nat /\ NMonths - m < NMonths /\ NMonths - (NMonths - m) = m
  BY MonthEndType DEF Months
<1> QED
  BY <1>2, <1>3

\* Every day falls in the month that MonthOf names.
LEMMA MonthOfType ==
  ASSUME NEW d \in Days
  PROVE  /\ MonthOf(d) \in Months
         /\ MonthEnd[MonthOf(d) - 1] < d
         /\ d <= MonthEnd[MonthOf(d)]
<1> DEFINE After == {m \in Months : d <= MonthEnd[m]}
<1>1. After \subseteq Nat /\ NMonths \in After
  BY MonthEndType DEF Months, Days
<1>2. PICK m \in After : \A k \in After : m <= k
  BY <1>1, LeastNatural
<1>3. MonthEnd[m - 1] < d
  <2>1. CASE m = 1
    BY <2>1, CalendarAssumption DEF Days
  <2>2. CASE m # 1
    <3>1. m - 1 \in Months /\ m - 1 \notin After
      BY <1>2, <2>2, MonthEndType DEF Months
    <3> QED
      BY <3>1, MonthEndType DEF Months, Days
  <2> QED
    BY <2>1, <2>2
<1>4. \E k \in Months : MonthEnd[k - 1] < d /\ d <= MonthEnd[k]
  BY <1>2, <1>3
<1> QED
  BY <1>4 DEF MonthOf

\* A due day is a day of its own month, clamped to the month's end.
LEMMA DueDayType ==
  ASSUME NEW m \in Months, NEW debitDay \in Nat \ {0}
  PROVE  /\ DueDay(m, debitDay) \in Days
         /\ MonthEnd[m - 1] < DueDay(m, debitDay)
         /\ DueDay(m, debitDay) <= MonthEnd[m]
<1>1. MonthEnd[m - 1] \in Nat /\ MonthEnd[m] \in Nat /\ MonthEnd[NMonths] \in Nat
  BY MonthEndType DEF Months
<1>2. MonthEnd[m - 1] < MonthEnd[m] /\ MonthEnd[m] <= MonthEnd[NMonths]
  BY CalendarAssumption, LastMonthEndsLast
<1> QED
  BY <1>1, <1>2 DEF DueDay, AtMost, Days

\* There is a second day, so Days holds the first two.
LEMMA DaysType == /\ Days \subseteq Nat \ {0}
                  /\ 1 \in Days /\ 2 \in Days
                  /\ Null \notin Days
                  /\ \A d \in Days : \A e \in 1 .. d : e \in Days
BY MonthEndType, CalendarAssumption DEF Days, Null, Months

-----------------------------------------------------------------------------
(* The goal.                                                                 *)

\* At least one payment is left, so that the monthly amount is defined.
LEMMA MonthsUntilTargetType ==
  ASSUME NEW row \in BankRow, row.target # Null,
         NEW from \in Days, NEW paid \in BOOLEAN
  PROVE  MonthsUntilTarget(row, from, paid) \in Nat \ {0}
<1>1. row.target \in Days
  BY DEF BankRow
<1>2. MonthOf(row.target) \in Int /\ MonthOf(from) \in Int
  BY <1>1, MonthOfType, MonthEndType DEF Months
<1> QED
  BY <1>2 DEF MonthsUntilTarget, AtLeast

\* The monthly amount is a whole number of cents.
LEMMA MonthlyGoalType ==
  ASSUME NEW row \in BankRow, row.target # Null, NEW l \in Ledger, NEW from \in Days
  PROVE  MonthlyGoal(row, l, from) \in Int
<1> DEFINE n == MonthsUntilTarget(row, from, HasAutoDebitIn(l, MonthOf(from)))
<1>1. HasAutoDebitIn(l, MonthOf(from)) \in BOOLEAN
  BY DEF HasAutoDebitIn
<1>2. n \in Nat \ {0}
  BY <1>1, MonthsUntilTargetType
<1>3. Remaining(row, l.balance) \in Int
  BY DEF Remaining, BankRow, Ledger
<1>4. (2 * Remaining(row, l.balance) + n) \div (2 * n) \in Int
  BY <1>2, <1>3
<1> QED
  BY <1>4 DEF MonthlyGoal

\* Recomputing the monthly amount changes nothing else of the row.
LEMMA RequotaType ==
  ASSUME NEW row \in BankRow, NEW l \in Ledger, NEW from \in Days
  PROVE  /\ Requota(row, l, from) \in BankRow
         /\ Requota(row, l, from).status = row.status
         /\ Requota(row, l, from).autoDebit = row.autoDebit
         /\ Requota(row, l, from).enabledAt = row.enabledAt
         /\ Requota(row, l, from).goal = row.goal
         /\ Requota(row, l, from).completedAt = row.completedAt
<1>1. CASE ~Planned(row)
  BY <1>1 DEF Requota
<1>2. CASE Planned(row)
  <2>1. MonthlyGoal(row, l, from) \in Int
    BY <1>2, MonthlyGoalType DEF Planned
  <2> QED
    BY <1>2, <2>1 DEF Requota, BankRow
<1> QED
  BY <1>1, <1>2

-----------------------------------------------------------------------------
(* What the operations make of a row: always a row again, and which of the   *)
(* columns the invariants read may change.                                   *)

\* What a deposit makes of a row.
DepositOutcome(row, l, new) ==
  /\ new \in BankRow /\ new.status = row.status
  /\ new.autoDebit = row.autoDebit /\ new.enabledAt = row.enabledAt
  /\ new.goal = row.goal
  /\ new.completedAt # Null <=>
       row.completedAt # Null \/ (row.goal # 0 /\ l.balance >= row.goal)

\* A deposit completes the bank whose goal it reaches, and never reopens one.
LEMMA AfterDepositType ==
  ASSUME NEW row \in BankRow, NEW l \in Ledger, NEW day \in Days, today \in Days
  PROVE  DepositOutcome(row, l, AfterDeposit(row, l, day))
<1> DEFINE completedAt ==
             IF row.goal # 0 /\ l.balance >= row.goal /\ row.completedAt = Null
             THEN day ELSE row.completedAt
           new == [row EXCEPT !.completedAt = completedAt]
<1>1. /\ new \in BankRow /\ new.status = row.status
      /\ new.autoDebit = row.autoDebit /\ new.enabledAt = row.enabledAt
      /\ new.goal = row.goal
      /\ new.completedAt # Null <=>
           row.completedAt # Null \/ (row.goal # 0 /\ l.balance >= row.goal)
  <2>1. /\ completedAt \in Days \cup {Null}
        /\ completedAt # Null <=>
             row.completedAt # Null \/ (row.goal # 0 /\ l.balance >= row.goal)
    BY DaysType DEF BankRow
  <2> HIDE DEF completedAt
  <2> QED
    BY <2>1 DEF BankRow
<1>2. AfterDeposit(row, l, day) = Requota(new, l, today)
  BY DEF AfterDeposit
<1> HIDE DEF new
<1> QED
  BY <1>1, <1>2, RequotaType DEF DepositOutcome

\* What interest makes of a row.
InterestOutcome(row, l, gain, new) ==
  /\ new \in BankRow /\ new.status = row.status
  /\ new.autoDebit = row.autoDebit /\ new.enabledAt = row.enabledAt
  /\ new.goal = row.goal
  /\ IF gain > 0
     THEN new.completedAt # Null <=>
            row.completedAt # Null \/ (row.goal # 0 /\ l.balance >= row.goal)
     ELSE new.completedAt = row.completedAt

\* Interest that posts a cent completes the bank whose goal is reached, and
\* interest never reopens one.
LEMMA AfterInterestType ==
  ASSUME NEW row \in BankRow, NEW l \in Ledger, NEW gain \in Nat,
         NEW last \in Days \cup {Null}, gain = 0 \/ last \in Days, NEW now \in Days
  PROVE  InterestOutcome(row, l, gain, AfterInterest(row, l, gain, last, now))
<1> DEFINE completedAt == IF gain > 0 /\ row.goal # 0
                             /\ l.balance >= row.goal /\ row.completedAt = Null
                          THEN last ELSE row.completedAt
           new == [row EXCEPT !.through = last, !.completedAt = completedAt]
<1>1. /\ new \in BankRow /\ new.status = row.status
      /\ new.autoDebit = row.autoDebit /\ new.enabledAt = row.enabledAt
      /\ new.goal = row.goal
      /\ new.completedAt = completedAt
  <2>1. completedAt \in Days \cup {Null}
    BY DaysType DEF BankRow
  <2> HIDE DEF completedAt
  <2> QED
    BY <2>1 DEF BankRow
<1>3. new.completedAt = (IF gain > 0 /\ row.goal # 0
                            /\ l.balance >= row.goal /\ row.completedAt = Null
                         THEN last ELSE row.completedAt)
  <2> HIDE DEF new
  <2> QED
    BY <1>1
<1>4. IF gain > 0
      THEN new.completedAt # Null <=>
             row.completedAt # Null \/ (row.goal # 0 /\ l.balance >= row.goal)
      ELSE new.completedAt = row.completedAt
  <2>1. gain > 0 => last # Null
    BY DaysType
  <2> HIDE DEF new
  <2> QED
    BY <1>3, <2>1
<1>2. AfterInterest(row, l, gain, last, now)
        = IF gain > 0 THEN Requota(new, l, now) ELSE new
  BY DEF AfterInterest
<1> HIDE DEF new
<1>5. InterestOutcome(row, l, gain, new)
  BY <1>1, <1>4 DEF InterestOutcome
<1>6. CASE gain > 0
  BY <1>1, <1>2, <1>4, <1>6, RequotaType DEF InterestOutcome
<1> QED
  BY <1>2, <1>5, <1>6

\* A balance that falls short of a goal reopens the bank.
FallsShort(goal, balance) == goal # 0 /\ balance < goal

\* What a withdrawal makes of a row.
WithdrawalOutcome(row, l, day, new) ==
  LET reopened == FallsShort(row.goal, l.balance) IN
  /\ new \in BankRow /\ new.status = row.status
  /\ new.autoDebit = row.autoDebit /\ new.goal = row.goal
  /\ new.completedAt = (IF reopened THEN Null ELSE row.completedAt)
  /\ new.enabledAt = (IF row.autoDebit /\ row.completedAt # Null /\ reopened
                      THEN day ELSE row.enabledAt)

\* A withdrawal that reopens a complete bank with automatic debit restarts the
\* debit on its day; nothing else touches the restart day.
LEMMA AfterWithdrawalType ==
  ASSUME NEW row \in BankRow, NEW l \in Ledger, NEW day \in Days, today \in Days
  PROVE  WithdrawalOutcome(row, l, day, AfterWithdrawal(row, l, day))
<1> DEFINE reopened == FallsShort(row.goal, l.balance)
           completedAt == IF reopened THEN Null ELSE row.completedAt
           enabledAt == IF row.autoDebit /\ row.completedAt # Null /\ reopened
                        THEN day ELSE row.enabledAt
           new == [row EXCEPT !.completedAt = completedAt, !.enabledAt = enabledAt]
<1>1. /\ new \in BankRow /\ new.status = row.status /\ new.autoDebit = row.autoDebit
      /\ new.goal = row.goal
      /\ new.completedAt = (IF reopened THEN Null ELSE row.completedAt)
      /\ new.enabledAt = (IF row.autoDebit /\ row.completedAt # Null /\ reopened
                          THEN day ELSE row.enabledAt)
  <2>1. completedAt \in Days \cup {Null} /\ enabledAt \in Days \cup {Null}
    BY DaysType DEF BankRow
  <2> HIDE DEF completedAt, enabledAt
  <2>2. /\ new \in BankRow /\ new.status = row.status /\ new.autoDebit = row.autoDebit
        /\ new.goal = row.goal
        /\ new.completedAt = completedAt /\ new.enabledAt = enabledAt
    BY <2>1 DEF BankRow
  <2> QED
    BY <2>2 DEF completedAt, enabledAt
<1>2. AfterWithdrawal(row, l, day) = Requota(new, l, today)
  BY DEF AfterWithdrawal, FallsShort
<1> HIDE DEF new
<1>3. LET last == Requota(new, l, today)
      IN  last \in BankRow /\ last.status = new.status /\ last.autoDebit = new.autoDebit
          /\ last.enabledAt = new.enabledAt /\ last.goal = new.goal
          /\ last.completedAt = new.completedAt
  BY <1>1, RequotaType
<1> QED
  BY <1>1, <1>2, <1>3 DEF WithdrawalOutcome

\* The monthly amount a form asks for is a whole number of cents.
LEMMA ResolvedQuotaType ==
  ASSUME NEW row \in BankRow, NEW l \in Ledger, NEW typed \in Int, today \in Days
  PROVE  ResolvedQuota(row, l, typed) \in Int
BY MonthlyGoalType DEF ResolvedQuota, Planned

\* The rows a behaviour starts from are rows.
LEMMA FirstRowsType ==
  /\ AbsentRow \in BankRow
  /\ EmptyLedger \in Ledger
  /\ \A day \in DebitDays, quota \in Quotas : LegacyRow(day, quota) \in BankRow
  /\ Idle \in Worker
<1>1. AbsentRow \in BankRow
  BY DaysType DEF AbsentRow, BankRow, Null
<1>2. EmptyLedger \in Ledger
  BY DEF EmptyLedger, Ledger
<1>3. \A day \in DebitDays, quota \in Quotas : LegacyRow(day, quota) \in BankRow
  <2>1. SUFFICES ASSUME NEW day \in DebitDays, NEW quota \in Quotas
                 PROVE  LegacyRow(day, quota) \in BankRow
    OBVIOUS
  <2>2. day \in Nat \ {0} /\ quota \in Int
    BY InputAssumption
  <2> QED
    BY <1>1, <2>2, DaysType DEF LegacyRow, BankRow
<1>4. (CHOOSE b \in Banks : TRUE) \in Banks
  BY InputAssumption
<1>5. Idle \in Worker
  BY <1>4, DaysType DEF Idle, Worker, Op
<1> QED
  BY <1>1, <1>2, <1>3, <1>5

-----------------------------------------------------------------------------
(* Every step keeps the types.  One lemma per action.                        *)

LEMMA InitType == Init => TypeOK
<1> SUFFICES ASSUME Init PROVE TypeOK
  OBVIOUS
<1>1. today \in Days \ {1} /\ requests \in 0 .. MaxRequests
  BY DaysType, InputAssumption DEF Init
<1>2. bank \in [Banks -> BankRow]
  BY FirstRowsType DEF Init
<1>3. ledger \in [Banks -> Ledger] /\ worker \in [Workers -> Worker]
  BY FirstRowsType DEF Init
<1>4. completeDays \in [Banks -> SUBSET Days]
  BY DEF Init
<1> QED
  BY <1>1, <1>2, <1>3, <1>4 DEF TypeOK

\* The queue a request computes holds cycles.
LEMMA ListDueCyclesType ==
  ASSUME TypeOK, NEW b \in Banks, NEW now \in Days
  PROVE  ListDueCycles(b, now) \subseteq Cycle
<1> SUFFICES ASSUME NEW m \in Months
             PROVE  [bank |-> b, month |-> m, due |-> DueDay(m, bank[b].debitDay)] \in Cycle
  BY DEF ListDueCycles, DueMonths
<1>1. bank[b].debitDay \in Nat \ {0}
  BY DEF TypeOK, BankRow
<1> QED
  BY <1>1, DueDayType DEF Cycle

LEMMA BeginType ==
  ASSUME TypeOK, NEW w \in Workers, NEW op \in Op, Begin(w, op)
  PROVE  TypeOK'
<1> DEFINE queue == UNION {ListDueCycles(b, today) :
                             b \in {x \in Banks : DebitCandidate(bank[x])}}
           new == [Idle EXCEPT !.pc = "debits", !.op = op, !.now = today,
                               !.queue = queue]
<1>1. today \in Days
  BY DEF TypeOK
<1>2. queue \subseteq Cycle
  BY <1>1, ListDueCyclesType
<1>3. new \in Worker
  <2> HIDE DEF queue
  <2> QED
    BY <1>1, <1>2, FirstRowsType DEF Worker
<1>4. worker' = [worker EXCEPT ![w] = new]
  BY DEF Begin
<1>5. worker' \in [Workers -> Worker]
  <2> HIDE DEF new
  <2> QED
    BY <1>3, <1>4 DEF TypeOK
<1>6. requests' \in 0 .. MaxRequests
  BY InputAssumption DEF Begin, TypeOK
<1>7. UNCHANGED <<today, bank, ledger, history>>
  BY DEF Begin
<1> QED
  BY <1>5, <1>6, <1>7 DEF TypeOK, history

\* What DebitCycle knows of the cycle it takes from the queue.
LEMMA NextCyclesType ==
  ASSUME TypeOK, NEW w \in Workers, NEW c \in NextCycles(w)
  PROVE  /\ c \in worker[w].queue
         /\ c.bank \in Banks /\ c.month \in Months /\ c.due \in Days
         /\ worker[w] \in Worker /\ bank[c.bank] \in BankRow
         /\ ledger[c.bank] \in Ledger
<1>1. worker[w] \in Worker /\ c \in worker[w].queue
  BY DEF TypeOK, NextCycles
<1>2. c \in Cycle
  BY <1>1 DEF Worker
<1>3. c.bank \in Banks /\ c.month \in Months /\ c.due \in Days
  BY <1>2 DEF Cycle
<1> QED
  BY <1>1, <1>3 DEF TypeOK

\* A clamped deposit is a positive amount, never more than what was asked.
LEMMA ClampType ==
  ASSUME NEW row \in BankRow, NEW l \in Ledger, NEW amount \in Int, amount > 0,
         row.goal # 0 => Remaining(row, l.balance) > 0
  PROVE  /\ Clamp(row, l, amount) \in Nat \ {0}
         /\ Clamp(row, l, amount) <= amount
BY DEF Clamp, Remaining, AtMost, BankRow, Ledger

LEMMA PostDebitType ==
  ASSUME TypeOK, NEW w \in Workers, NEW c \in NextCycles(w), PostDebit(w, c)
  PROVE  TypeOK'
<1> DEFINE b == c.bank
           row == bank[b]
           l == [ledger[b] EXCEPT !.balance = @ + Clamp(row, ledger[b], row.quota),
                                  !.moved = TRUE, !.debits[c.month] = @ + 1]
<1>1. row \in BankRow /\ ledger[b] \in Ledger /\ b \in Banks /\ c.month \in Months
      /\ c.due \in Days /\ today \in Days
  BY NextCyclesType DEF TypeOK
<1>2. row.quota \in Int /\ row.quota > 0
      /\ (row.goal # 0 => Remaining(row, ledger[b].balance) > 0)
  BY <1>1 DEF PostDebit, BankRow
<1>3. Clamp(row, ledger[b], row.quota) \in Nat
  BY <1>1, <1>2, ClampType
<1>4. l \in Ledger
  <2> DEFINE paid == Clamp(row, ledger[b], row.quota)
  <2>1. ledger[b].balance + paid \in Int
    BY <1>1, <1>3 DEF Ledger
  <2>2. [ledger[b].debits EXCEPT ![c.month] = @ + 1] \in [Months -> Nat]
    BY <1>1 DEF Ledger
  <2> HIDE DEF paid
  <2> QED
    BY <1>1, <2>1, <2>2 DEF Ledger, paid
<1>5. AfterDeposit(row, l, c.due) \in BankRow
  <2> HIDE DEF l
  <2> QED
    BY <1>1, <1>4, AfterDepositType DEF DepositOutcome
<1>6. bank' = [bank EXCEPT ![b] = AfterDeposit(row, l, c.due)]
      /\ ledger' = [ledger EXCEPT ![b] = l]
  BY DEF PostDebit
<1>7. bank' \in [Banks -> BankRow] /\ ledger' \in [Banks -> Ledger]
  <2> HIDE DEF l
  <2> QED
    BY <1>1, <1>4, <1>5, <1>6 DEF TypeOK
<1>8. worker' \in [Workers -> Worker]
  BY SMTT(30) DEF PostDebit, TypeOK, Worker
<1>9. UNCHANGED <<today, requests, history>>
  BY DEF PostDebit
<1> QED
  BY <1>7, <1>8, <1>9 DEF TypeOK, history

\* The cycles that are dropped, skipped or failed leave rows and ledgers alone.
LEMMA DebitCycleType ==
  ASSUME TypeOK, NEW w \in Workers, DebitCycle(w)
  PROVE  TypeOK'
<1>1. PICK c \in NextCycles(w) :
        StopDebits(w, c) \/ SkipCycle(w, c) \/ PostDebit(w, c) \/ FailDebit(w, c)
  BY DEF DebitCycle
<1>2. worker[w] \in Worker /\ c.bank \in Banks
  BY NextCyclesType
<1>3. CASE StopDebits(w, c)
  BY <1>2, <1>3 DEF StopDebits, TypeOK, Worker, history
<1>4. CASE SkipCycle(w, c)
  BY <1>2, <1>4 DEF SkipCycle, TypeOK, Worker, history
<1>5. CASE PostDebit(w, c)
  BY <1>5, PostDebitType
<1>6. CASE FailDebit(w, c)
  BY <1>2, <1>6 DEF FailDebit, TypeOK, Worker, history
<1> QED
  BY <1>1, <1>3, <1>4, <1>5, <1>6

LEMMA FetchSeriesType ==
  ASSUME TypeOK, NEW w \in Workers, FetchSeries(w)
  PROVE  TypeOK'
<1> DEFINE asked == {b \in Banks \ worker[w].failed : Yielding(bank[b], today)}
<1>1. PICK got \in SUBSET asked, old \in BOOLEAN :
        worker' = [worker EXCEPT ![w].pc = "accrue", ![w].now = today,
                                 ![w].series = got,
                                 ![w].stale = @ \/ old \/ got # asked]
  BY DEF FetchSeries
<1>2. got \in SUBSET Banks /\ worker[w] \in Worker /\ today \in Days
  BY DEF TypeOK
<1> DEFINE new == [worker[w] EXCEPT !.pc = "accrue", !.now = today, !.series = got,
                                    !.stale = @ \/ old \/ got # asked]
<1>3. new \in Worker
  <2> HIDE DEF asked
  <2> QED
    BY <1>2 DEF Worker
<1>4. worker' = [worker EXCEPT ![w] = new]
  <2> HIDE DEF asked
  <2> QED
    BY <1>1, <1>2
<1>5. worker' \in [Workers -> Worker]
  <2> HIDE DEF new
  <2> QED
    BY <1>3, <1>4 DEF TypeOK
<1>6. UNCHANGED <<today, bank, ledger, requests, history>>
  BY DEF FetchSeries
<1> QED
  BY <1>5, <1>6 DEF TypeOK, history

LEMMA AfterCatchUpType ==
  ASSUME TypeOK, NEW w \in Workers, NEW stale \in BOOLEAN
  PROVE  AfterCatchUp(w, stale) \in Worker
<1>1. worker[w] \in Worker /\ today \in Days
  BY DEF TypeOK
<1>2. [worker[w] EXCEPT !.pc = "apply", !.now = today,
                        !.series = {}, !.failed = {}] \in Worker
  BY <1>1 DEF Worker
<1> QED
  BY <1>2, FirstRowsType DEF AfterCatchUp

\* Interest only adds to a ledger, and adds no debit.
LEMMA CreditedType ==
  ASSUME NEW l \in Ledger, NEW gain \in Nat
  PROVE  /\ Credited(l, gain) \in Ledger
         /\ Credited(l, gain).debits = l.debits
         /\ Credited(l, gain).balance = l.balance + gain
         /\ Credited(l, gain).balance >= l.balance
<1> DEFINE balance == l.balance + gain
           moved == l.moved \/ gain > 0
           new == [l EXCEPT !.balance = balance, !.moved = moved]
<1>1. balance \in Int /\ balance >= l.balance /\ moved \in BOOLEAN
  BY DEF Ledger
<1>2. new \in Ledger /\ new.debits = l.debits /\ new.balance = balance
  <2> HIDE DEF balance, moved
  <2> QED
    BY <1>1 DEF Ledger
<1>3. Credited(l, gain) = new
  BY DEF Credited
<1> HIDE DEF new
<1> QED
  BY <1>1, <1>2, <1>3

\* A movement that adds to a bank keeps its goal and completes it exactly when
\* the goal is reached; one of nothing leaves the flag as it is.
Tracks(row, l, newRow, newLedger) ==
  /\ newRow.goal = row.goal
  /\ \/ newRow.completedAt = row.completedAt /\ newLedger.balance = l.balance
     \/ newRow.completedAt # Null <=>
          row.completedAt # Null \/ (row.goal # 0 /\ newLedger.balance >= row.goal)

\* How one bank goes through a round of interest: it stays open, and neither
\* loses money nor reopens.
Kept(row, l, newRow, newLedger) ==
  /\ newRow \in BankRow /\ newLedger \in Ledger
  /\ row.status = "open" /\ newRow.status = "open"
  /\ newRow.autoDebit = row.autoDebit
  /\ newRow.enabledAt = row.enabledAt
  /\ row.completedAt # Null => newRow.completedAt # Null
  /\ Tracks(row, l, newRow, newLedger)
  /\ newLedger.debits = l.debits
  /\ newLedger.balance >= l.balance

LEMMA AccruedBank ==
  ASSUME NEW row \in BankRow, row.status = "open", NEW l \in Ledger, NEW gain \in Nat,
         NEW last \in Days \cup {Null}, gain = 0 \/ last \in Days, NEW now \in Days
  PROVE  Kept(row, l, AfterInterest(row, Credited(l, gain), gain, last, now),
              Credited(l, gain))
<1> DEFINE new == Credited(l, gain)
           newRow == AfterInterest(row, new, gain, last, now)
<1>1. new \in Ledger /\ new.debits = l.debits /\ new.balance >= l.balance
      /\ new.balance = l.balance + gain /\ l.balance \in Int
  BY CreditedType DEF Ledger
<1> HIDE DEF new
<1>7. InterestOutcome(row, new, gain, newRow)
  BY <1>1, AfterInterestType
<1> HIDE DEF newRow
<1>3. newRow \in BankRow /\ newRow.status = row.status
      /\ newRow.autoDebit = row.autoDebit /\ newRow.enabledAt = row.enabledAt
  BY <1>7 DEF InterestOutcome
<1>4. gain > 0 \/ new.balance = l.balance
  BY <1>1
<1>5. Tracks(row, l, newRow, new)
  BY <1>7, <1>4 DEF Tracks, InterestOutcome
<1>6. row.completedAt # Null => newRow.completedAt # Null
  BY <1>7 DEF InterestOutcome
<1>2. Kept(row, l, AfterInterest(row, new, gain, last, now), new)
  BY <1>1, <1>3, <1>5, <1>6 DEF Kept, newRow
<1> QED
  BY <1>2 DEF new

\* What Accrue does: a bank that yields goes through the round, every other
\* bank is left alone.
LEMMA AccrueEffect ==
  ASSUME TypeOK, NEW w \in Workers, Accrue(w)
  PROVE  /\ bank' \in [Banks -> BankRow] /\ ledger' \in [Banks -> Ledger]
         /\ worker' = [worker EXCEPT ![w] = AfterCatchUp(w, worker[w].stale)]
         /\ UNCHANGED <<today, requests, history>>
         /\ \A b \in Banks :
              \/ bank'[b] = bank[b] /\ ledger'[b] = ledger[b]
              \/ Kept(bank[b], ledger[b], bank'[b], ledger'[b])
<1> DEFINE now  == worker[w].now
           open == {b \in worker[w].series : Yielding(bank[b], now)}
<1>1. PICK gain \in [open -> 0 .. MaxGain], last \in [open -> Days \cup {Null}] :
       /\ \A b \in open :
            /\ gain[b] > 0 => ledger[b].moved
            /\ \/ last[b] \in PostingDays(bank[b], now)
               \/ gain[b] = 0 /\ last[b] = bank[b].through
       /\ ledger' = [b \in Banks |->
            IF b \in open THEN Credited(ledger[b], gain[b]) ELSE ledger[b]]
       /\ bank' = [b \in Banks |->
            IF b \in open
            THEN AfterInterest(bank[b], Credited(ledger[b], gain[b]), gain[b], last[b], now)
            ELSE bank[b]]
  BY DEF Accrue
<1>2. open \subseteq Banks /\ now \in Days
  BY DEF TypeOK, Worker
<1>3. ASSUME NEW b \in open
      PROVE  Kept(bank[b], ledger[b], bank'[b], ledger'[b])
  <2>1. gain[b] \in Nat /\ last[b] \in Days \cup {Null}
        /\ ledger[b] \in Ledger /\ bank[b] \in BankRow
    BY <1>2, InputAssumption DEF TypeOK
  <2>2. gain[b] = 0 \/ last[b] \in Days
    BY <1>1 DEF PostingDays
  <2>3. bank[b].status = "open"
    BY DEF Yielding
  <2>4. Kept(bank[b], ledger[b],
             AfterInterest(bank[b], Credited(ledger[b], gain[b]), gain[b], last[b], now),
             Credited(ledger[b], gain[b]))
    <3> HIDE DEF open, now
    <3> QED
      BY <1>2, <2>1, <2>2, <2>3, AccruedBank
  <2> QED
    BY <1>1, <1>2, <2>4
<1>4. ASSUME NEW b \in Banks, b \notin open
      PROVE  bank'[b] = bank[b] /\ ledger'[b] = ledger[b]
  BY <1>1, <1>4
<1>5. bank' = [b \in Banks |-> bank'[b]] /\ ledger' = [b \in Banks |-> ledger'[b]]
  <2> HIDE DEF open
  <2> QED
    BY <1>1
<1> HIDE DEF open, now
<1>6. \A b \in Banks : bank'[b] \in BankRow /\ ledger'[b] \in Ledger
  BY <1>3, <1>4 DEF TypeOK, Kept
<1>7. bank' \in [Banks -> BankRow] /\ ledger' \in [Banks -> Ledger]
  BY <1>5, <1>6
<1>8. worker' = [worker EXCEPT ![w] = AfterCatchUp(w, worker[w].stale)]
      /\ UNCHANGED <<today, requests, history>>
  BY DEF Accrue
<1> QED
  BY <1>3, <1>4, <1>7, <1>8

LEMMA AccrueType ==
  ASSUME TypeOK, NEW w \in Workers, Accrue(w)
  PROVE  TypeOK'
<1>1. worker[w].stale \in BOOLEAN
  BY DEF TypeOK, Worker
<1>2. worker' \in [Workers -> Worker]
  BY <1>1, AfterCatchUpType, AccrueEffect DEF TypeOK
<1> QED
  BY <1>2, AccrueEffect DEF TypeOK, history

LEMMA FailAccrueType ==
  ASSUME TypeOK, NEW w \in Workers, FailAccrue(w)
  PROVE  TypeOK'
<1>1. worker' \in [Workers -> Worker]
  BY AfterCatchUpType DEF FailAccrue, TypeOK
<1> QED
  BY <1>1 DEF FailAccrue, TypeOK, history

\* The request an operation belongs to.
LEMMA OpType ==
  ASSUME TypeOK, NEW w \in Workers
  PROVE  /\ worker[w] \in Worker /\ worker[w].now \in Days
         /\ worker[w].op.bank \in Banks /\ worker[w].op.amount \in Nat
         /\ worker[w].op.yields \in BOOLEAN
         /\ bank[worker[w].op.bank] \in BankRow
         /\ ledger[worker[w].op.bank] \in Ledger
BY DEF TypeOK, Worker, Op

\* A request that ends is idle.
LEMMA ToIdle ==
  ASSUME TypeOK, NEW w \in Workers, worker' = [worker EXCEPT ![w] = Idle]
  PROVE  worker' \in [Workers -> Worker]
BY FirstRowsType DEF TypeOK

\* The balance moves and no automatic debit is added.
LEMMA MovedLedger ==
  ASSUME NEW l \in Ledger, NEW balance \in Int
  PROVE  [l EXCEPT !.balance = balance, !.moved = TRUE] \in Ledger
BY DEF Ledger

LEMMA DepositType ==
  ASSUME TypeOK, NEW w \in Workers, Deposit(w)
  PROVE  TypeOK'
<1> DEFINE b == worker[w].op.bank
           row == bank[b]
           paid == Clamp(row, ledger[b], worker[w].op.amount)
           l == [ledger[b] EXCEPT !.balance = @ + paid, !.moved = TRUE]
<1>1. b \in Banks /\ row \in BankRow /\ ledger[b] \in Ledger
      /\ worker[w].op.amount \in Nat /\ today \in Days
  BY OpType DEF TypeOK
<1>2. paid \in Int
  BY <1>1 DEF Clamp, Remaining, AtMost, BankRow, Ledger
<1>3. l \in Ledger
  <2>1. ledger[b].balance + paid \in Int
    BY <1>1, <1>2 DEF Ledger
  <2> QED
    BY <1>1, <2>1, MovedLedger
<1>4. bank' = [bank EXCEPT ![b] = AfterDeposit(row, l, today)]
      /\ ledger' = [ledger EXCEPT ![b] = l]
      /\ worker' = [worker EXCEPT ![w] = Idle]
      /\ UNCHANGED <<today, requests, history>>
  BY DEF Deposit
<1> HIDE DEF l
<1>7. AfterDeposit(row, l, today) \in BankRow
  BY <1>1, <1>3, AfterDepositType DEF DepositOutcome
<1>5. bank' \in [Banks -> BankRow] /\ ledger' \in [Banks -> Ledger]
  BY <1>1, <1>3, <1>4, <1>7 DEF TypeOK
<1>6. worker' \in [Workers -> Worker]
  BY <1>4, ToIdle
<1> QED
  BY <1>4, <1>5, <1>6 DEF TypeOK, history

LEMMA WithdrawType ==
  ASSUME TypeOK, NEW w \in Workers, Withdraw(w)
  PROVE  TypeOK'
<1> DEFINE b == worker[w].op.bank
           row == bank[b]
           l == [ledger[b] EXCEPT !.balance = @ - worker[w].op.amount, !.moved = TRUE]
           day == worker[w].now
<1>1. b \in Banks /\ row \in BankRow /\ ledger[b] \in Ledger
      /\ worker[w].op.amount \in Nat /\ today \in Days /\ day \in Days
  BY OpType DEF TypeOK
<1>2. l \in Ledger
  <2>1. ledger[b].balance - worker[w].op.amount \in Int
    BY <1>1 DEF Ledger
  <2> QED
    BY <1>1, <2>1, MovedLedger
<1>3. bank' = [bank EXCEPT ![b] = AfterWithdrawal(row, l, day)]
      /\ ledger' = [ledger EXCEPT ![b] = l]
      /\ completeDays' = [completeDays EXCEPT ![b] = @ \ Reopened(row, l, day)]
      /\ worker' = [worker EXCEPT ![w] = Idle]
      /\ UNCHANGED <<today, requests>>
  BY DEF Withdraw
<1> HIDE DEF l, day
<1>4. AfterWithdrawal(row, l, day) \in BankRow
  BY <1>1, <1>2, AfterWithdrawalType DEF WithdrawalOutcome
<1>5. bank' \in [Banks -> BankRow] /\ ledger' \in [Banks -> Ledger]
  BY <1>1, <1>2, <1>3, <1>4 DEF TypeOK
<1>6. worker' \in [Workers -> Worker]
  BY <1>3, ToIdle
<1>7. completeDays' \in [Banks -> SUBSET Days]
  BY <1>1, <1>3 DEF TypeOK
<1> QED
  BY <1>3, <1>5, <1>6, <1>7 DEF TypeOK

LEMMA SetYieldType ==
  ASSUME TypeOK, NEW w \in Workers, SetYield(w)
  PROVE  TypeOK'
<1> DEFINE b == worker[w].op.bank
           row == bank[b]
           through == AccruedThrough(row, worker[w].op.yields)
           new == [row EXCEPT !.yields = worker[w].op.yields, !.through = through]
           quota == ResolvedQuota(new, ledger[b], row.quota)
<1>1. b \in Banks /\ row \in BankRow /\ ledger[b] \in Ledger
      /\ worker[w].op.yields \in BOOLEAN /\ today \in Days
  BY OpType DEF TypeOK
<1>2. through \in Days \cup {Null}
  <2>1. today - 1 \in Days
    BY <1>1, DaysType DEF TypeOK, Days
  <2> QED
    BY <1>1, <2>1 DEF AccruedThrough, BankRow
<1>3. new \in BankRow
  <2> HIDE DEF through
  <2> QED
    BY <1>1, <1>2 DEF BankRow
<1>4. row.quota \in Int
  BY <1>1 DEF BankRow
<1>5. bank' = [bank EXCEPT ![b] = [new EXCEPT !.quota = quota]]
      /\ worker' = [worker EXCEPT ![w] = Idle]
      /\ UNCHANGED <<today, ledger, requests, history>>
  BY DEF SetYield
<1> HIDE DEF new
<1>6. quota \in Int
  BY <1>1, <1>3, <1>4, ResolvedQuotaType
<1> HIDE DEF quota
<1>7. [new EXCEPT !.quota = quota] \in BankRow
  BY <1>3, <1>6 DEF BankRow
<1>8. bank' \in [Banks -> BankRow]
  BY <1>5, <1>7 DEF TypeOK
<1>9. worker' \in [Workers -> Worker]
  BY <1>5, ToIdle
<1> QED
  BY <1>5, <1>8, <1>9 DEF TypeOK, history

\* A form names a goal, a target day and a debit day of the right kinds.
LEMMA ConfigureType ==
  ASSUME TypeOK, NEW b \in Banks, Configure(b)
  PROVE  TypeOK'
<1>1. PICK goal \in Goals, target \in FutureTargets \cup {bank[b].target},
           autoDebit \in BOOLEAN, day \in DebitDays \cup {bank[b].debitDay} :
        \/ \E typed \in Quotas, yields \in BOOLEAN :
             /\ target \in FutureTargets
             /\ Create(b, goal, target, autoDebit, day, typed, yields)
        \/ \E typed \in Quotas \cup {bank[b].quota} :
             UpdateSettings(b, goal, target, autoDebit, day, typed)
  BY DEF Configure
<1>2. bank[b] \in BankRow /\ ledger[b] \in Ledger /\ today \in Days
  BY DEF TypeOK
<1>3. goal \in Nat /\ target \in Days \cup {Null} /\ day \in Nat \ {0}
  BY <1>2, InputAssumption DEF FutureTargets, BankRow
<1>4. ASSUME NEW typed \in Quotas, NEW yields \in BOOLEAN,
             Create(b, goal, target, autoDebit, day, typed, yields)
      PROVE  TypeOK'
  <2> DEFINE debitDay == IF autoDebit THEN day ELSE 1
             enabledAt == IF autoDebit THEN today ELSE Null
             row == [AbsentRow EXCEPT !.status = "open", !.createdAt = today,
                !.goal = goal, !.target = target, !.autoDebit = autoDebit,
                !.debitDay = debitDay, !.enabledAt = enabledAt, !.yields = yields]
             quota == ResolvedQuota(row, EmptyLedger, typed)
  <2>1. row \in BankRow
    <3>1. debitDay \in Nat \ {0} /\ enabledAt \in Days \cup {Null}
      BY <1>2, <1>3
    <3> HIDE DEF debitDay, enabledAt
    <3> QED
      BY <1>2, <1>3, <3>1, FirstRowsType DEF BankRow
  <2>2. bank' = [bank EXCEPT ![b] = [row EXCEPT !.quota = quota]]
        /\ requests' = requests + 1 /\ requests < MaxRequests
        /\ UNCHANGED <<today, ledger, worker, history>>
    BY <1>4 DEF Create
  <2> HIDE DEF row
  <2>3. quota \in Int
    BY <1>2, <2>1, FirstRowsType, ResolvedQuotaType, InputAssumption
  <2> HIDE DEF quota
  <2>4. [row EXCEPT !.quota = quota] \in BankRow
    BY <2>1, <2>3 DEF BankRow
  <2>5. bank' \in [Banks -> BankRow]
    BY <2>2, <2>4 DEF TypeOK
  <2>6. requests' \in 0 .. MaxRequests
    BY <2>2, InputAssumption DEF TypeOK
  <2> QED
    BY <2>2, <2>5, <2>6 DEF TypeOK, history
<1>5. ASSUME NEW typed \in Quotas \cup {bank[b].quota},
             UpdateSettings(b, goal, target, autoDebit, day, typed)
      PROVE  TypeOK'
  <2> DEFINE enabledAt == NextEnabledAt(bank[b], autoDebit)
             new == [bank[b] EXCEPT !.goal = goal, !.target = target,
                                    !.autoDebit = autoDebit, !.debitDay = day,
                                    !.enabledAt = enabledAt]
             quota == ResolvedQuota(new, ledger[b], typed)
  <2>1. enabledAt \in Days \cup {Null}
    BY <1>2 DEF NextEnabledAt, BankRow
  <2>2. bank' = [bank EXCEPT ![b] = [new EXCEPT !.quota = quota]]
        /\ requests' = requests + 1 /\ requests < MaxRequests
        /\ UNCHANGED <<today, ledger, worker, history>>
    BY <1>5 DEF UpdateSettings
  <2>3. new \in BankRow
    <3> HIDE DEF enabledAt
    <3> QED
      BY <1>2, <1>3, <2>1 DEF BankRow
  <2> HIDE DEF new
  <2>4. typed \in Int
    BY <1>2, InputAssumption DEF BankRow
  <2>5. quota \in Int
    BY <1>2, <2>3, <2>4, ResolvedQuotaType
  <2> HIDE DEF quota
  <2>6. [new EXCEPT !.quota = quota] \in BankRow
    BY <2>3, <2>5 DEF BankRow
  <2>7. bank' \in [Banks -> BankRow]
    BY <2>2, <2>6 DEF TypeOK
  <2>8. requests' \in 0 .. MaxRequests
    BY <2>2, InputAssumption DEF TypeOK
  <2> QED
    BY <2>2, <2>7, <2>8 DEF TypeOK, history
<1> QED
  BY <1>1, <1>4, <1>5

LEMMA CloseType ==
  ASSUME TypeOK, NEW b \in Banks, Archive(b) \/ Delete(b)
  PROVE  TypeOK'
<1>1. PICK status \in {"archived", "deleted"} : bank' = [bank EXCEPT ![b].status = status]
  BY DEF Archive, Delete
<1>2. bank' \in [Banks -> BankRow]
  <2> DEFINE new == [bank[b] EXCEPT !.status = status]
  <2>1. new \in BankRow
    BY DEF TypeOK, BankRow
  <2>2. bank' = [bank EXCEPT ![b] = new]
    BY <1>1
  <2> HIDE DEF new
  <2> QED
    BY <2>1, <2>2 DEF TypeOK
<1>3. UNCHANGED <<today, ledger, worker, requests, history>>
  BY DEF Archive, Delete
<1> QED
  BY <1>2, <1>3 DEF TypeOK, history

LEMMA MidnightType ==
  ASSUME TypeOK, Midnight
  PROVE  TypeOK'
<1>1. today' \in Days \ {1}
  BY DaysType DEF Midnight, TypeOK
<1>2. completeDays' \in [Banks -> SUBSET Days]
  BY DEF Midnight, TypeOK
<1>3. UNCHANGED <<bank, ledger, worker, requests>>
  BY DEF Midnight
<1> QED
  BY <1>1, <1>2, <1>3 DEF TypeOK

\* A request that only ends.
LEMMA EndType ==
  ASSUME TypeOK, NEW w \in Workers, Refuse(w) \/ Abandon(w)
  PROVE  TypeOK'
<1>1. worker' = [worker EXCEPT ![w] = Idle]
      /\ UNCHANGED <<today, bank, ledger, requests, history>>
  BY DEF Refuse, Abandon
<1> QED
  BY <1>1, ToIdle DEF TypeOK, history

\* The requests that begin carry an operation.
LEMMA BeginsType ==
  ASSUME TypeOK, NEW w \in Workers, Run(w) \/ Ask(w) \/ AskYield(w)
  PROVE  \E op \in Op : Begin(w, op)
<1>1. CASE Run(w)
  <2>1. Idle.op \in Op
    BY FirstRowsType DEF Worker
  <2> QED
    BY <1>1, <2>1 DEF Run
<1>2. CASE Ask(w)
  BY <1>2, InputAssumption DEF Ask, Op, Known
<1>3. CASE AskYield(w)
  BY <1>3 DEF AskYield, Op, Known
<1> QED
  BY <1>1, <1>2, <1>3

\* The actions of a step, one by one.
LEMMA StepCases ==
  ASSUME TypeOK, Next
  PROVE  \/ \E w \in Workers, op \in Op : Begin(w, op)
         \/ \E w \in Workers :
              \/ DebitCycle(w) \/ FetchSeries(w) \/ Accrue(w) \/ FailAccrue(w)
              \/ Deposit(w) \/ Withdraw(w) \/ SetYield(w) \/ Refuse(w) \/ Abandon(w)
         \/ \E b \in Banks : Configure(b) \/ Archive(b) \/ Delete(b)
         \/ Midnight
BY BeginsType DEF Next, Step

\* Every step, and stuttering, keeps the types.
LEMMA TypeStep == TypeOK /\ [Next]_vars => TypeOK'
<1> SUFFICES ASSUME TypeOK, [Next]_vars PROVE TypeOK'
  OBVIOUS
<1>1. CASE UNCHANGED vars
  BY <1>1 DEF vars, history, TypeOK
<1>2. CASE Next
  BY <1>2, StepCases, BeginType, DebitCycleType, FetchSeriesType, AccrueType,
     FailAccrueType, DepositType, WithdrawType, SetYieldType, EndType,
     ConfigureType, CloseType, MidnightType
<1> QED
  BY <1>1, <1>2

\* Every variable always has its type, whatever the calendar, the banks, the
\* requests in flight and the order of their steps.
THEOREM TypeCorrect == Spec => []TypeOK
BY InitType, TypeStep, PTL DEF Spec

-----------------------------------------------------------------------------
(* Safety.  IInv is inductive: the types, the age of the clock a request has *)
(* read, what a bank starts from, and the four invariants.                   *)

\* The clock of a running request is at most one midnight old.
ClockIsFresh ==
  \A w \in Workers : worker[w].pc # "idle" =>
    worker[w].now <= today /\ today <= worker[w].now + 1

\* A bank that was never created has no goal, no money and no completion day.
AbsentBanksAreEmpty ==
  \A b \in Banks : bank[b].status = "absent" =>
    bank[b].goal = 0 /\ bank[b].completedAt = Null /\ ledger[b].balance = 0

IInv ==
  /\ TypeOK
  /\ ClockIsFresh
  /\ AbsentBanksAreEmpty
  /\ OneDebitPerMonth
  /\ NeverOverdrawn
  /\ ClosedBanksAreFrozen
  /\ DebitRestartsAfterCompletion

\* What a step may do to one bank, in the fields the invariants read: nothing,
\* an automatic debit of month m, a deposit or a round of interest (Kept), a
\* withdrawal, a change of settings, or its closing.
Untouched(b) == bank'[b] = bank[b] /\ ledger'[b] = ledger[b]

SameSchedule(b) ==
  /\ bank'[b].autoDebit = bank[b].autoDebit
  /\ bank'[b].enabledAt = bank[b].enabledAt
  /\ bank'[b].completedAt = Null => bank[b].completedAt = Null

Charged(b, m) ==
  /\ DebitCandidate(bank[b])
  /\ CycleIsDue(bank[b], m, today)
  /\ ledger[b].debits[m] = 0
  /\ ledger'[b].debits = [ledger[b].debits EXCEPT ![m] = 1]
  /\ ledger'[b].balance >= ledger[b].balance
  /\ Tracks(bank[b], ledger[b], bank'[b], ledger'[b])
  /\ bank'[b].status = "open"
  /\ SameSchedule(b)

WithdrawnOn(b, day) ==
  LET reopened == FallsShort(bank[b].goal, ledger'[b].balance) IN
  /\ day <= today /\ today <= day + 1
  /\ bank[b].status = "open" /\ bank'[b].status = "open"
  /\ ledger'[b].balance >= 0 /\ ledger'[b].debits = ledger[b].debits
  /\ ledger'[b].balance <= ledger[b].balance /\ bank'[b].goal = bank[b].goal
  /\ bank'[b].autoDebit = bank[b].autoDebit
  /\ bank'[b].completedAt = (IF reopened THEN Null ELSE bank[b].completedAt)
  /\ bank'[b].enabledAt =
       (IF bank[b].autoDebit /\ bank[b].completedAt # Null /\ reopened
        THEN day ELSE bank[b].enabledAt)
  /\ completeDays'[b] = completeDays[b] \ (IF reopened THEN {day} ELSE {})

Withdrawn(b) == \E day \in Days : WithdrawnOn(b, day)

Configured(b) ==
  /\ bank[b].status \in {"absent", "open"} /\ bank'[b].status = "open"
  /\ ledger'[b] = ledger[b]
  /\ IF bank[b].status = "absent"
     THEN bank'[b].goal \in Goals /\ bank'[b].completedAt = Null
     ELSE /\ bank'[b].goal \in Goals \cup {bank[b].goal}
          /\ bank'[b].completedAt = bank[b].completedAt
  /\ \/ ~bank'[b].autoDebit
     \/ bank'[b].enabledAt = today
     \/ SameSchedule(b)

Closed(b) ==
  /\ bank[b].status # "absent" /\ ledger'[b] = ledger[b]
  /\ \/ bank'[b].status = "archived" /\ ledger[b].balance <= 0
     \/ bank'[b].status = "deleted" /\ ~ledger[b].moved
  /\ bank'[b].goal = bank[b].goal /\ bank'[b].completedAt = bank[b].completedAt
  /\ SameSchedule(b)

Changed(b) ==
  /\ completeDays'[b] = completeDays[b]
  /\ \/ Untouched(b)
     \/ \E m \in Months : Charged(b, m)
     \/ Kept(bank[b], ledger[b], bank'[b], ledger'[b])
     \/ Configured(b)
     \/ Closed(b)

\* A cycle due on an earlier day is due today.
LEMMA DueStaysDue ==
  ASSUME NEW row \in BankRow, NEW m \in Months, NEW now \in Days, today \in Days,
         now <= today, CycleIsDue(row, m, now)
  PROVE  CycleIsDue(row, m, today)
<1>1. row.debitDay \in Nat \ {0}
  BY DEF BankRow
<1>2. DueDay(m, row.debitDay) \in Nat
  BY <1>1, DueDayType, DaysType
<1> QED
  BY <1>2, DaysType DEF CycleIsDue

LEMMA PostDebitEffect ==
  ASSUME IInv, NEW w \in Workers, worker[w].pc = "debits",
         NEW c \in NextCycles(w), PostDebit(w, c)
  PROVE  \A b \in Banks : Changed(b)
<1> DEFINE x == c.bank
           row == bank[x]
           paid == Clamp(row, ledger[x], row.quota)
           l == [ledger[x] EXCEPT !.balance = @ + paid,
                                  !.moved = TRUE, !.debits[c.month] = @ + 1]
<1>1. row \in BankRow /\ ledger[x] \in Ledger /\ x \in Banks /\ c.month \in Months
      /\ c.due \in Days /\ today \in Days /\ worker[w] \in Worker
  BY NextCyclesType DEF IInv, TypeOK
<1>2. paid \in Nat
  <2>1. row.quota \in Int /\ row.quota > 0
        /\ (row.goal # 0 => Remaining(row, ledger[x].balance) > 0)
    BY <1>1 DEF PostDebit, BankRow
  <2> QED
    BY <1>1, <2>1, ClampType
<1>3. DebitCandidate(row) /\ StillDue(c, row, worker[w].now)
      /\ ledger[x].debits[c.month] = 0
  <2>1. ledger[x].debits[c.month] \in Nat
    BY <1>1 DEF Ledger
  <2> QED
    BY <2>1 DEF PostDebit, HasAutoDebitIn
<1>4. CycleIsDue(row, c.month, today)
  <2>1. worker[w].now \in Days /\ worker[w].now <= today
    BY <1>1 DEF IInv, ClockIsFresh, Worker
  <2> QED
    BY <1>1, <1>3, <2>1, DueStaysDue DEF StillDue
<1>5. l \in Ledger
  <2>1. ledger[x].balance + paid \in Int
    BY <1>1, <1>2 DEF Ledger
  <2>2. [ledger[x].debits EXCEPT ![c.month] = @ + 1] \in [Months -> Nat]
    BY <1>1 DEF Ledger
  <2> HIDE DEF paid
  <2> QED
    BY <1>1, <2>1, <2>2 DEF Ledger
<1>6. l.debits = [ledger[x].debits EXCEPT ![c.month] = 1]
      /\ l.balance >= ledger[x].balance
  <2>1. l.debits = [ledger[x].debits EXCEPT ![c.month] = @ + 1]
        /\ l.balance = ledger[x].balance + paid
    <3> HIDE DEF paid
    <3> QED
      BY <1>1 DEF Ledger
  <2>2. ledger[x].balance \in Int
    BY <1>1 DEF Ledger
  <2> HIDE DEF l, paid
  <2> QED
    BY <1>2, <1>3, <2>1, <2>2
<1>7. bank' = [bank EXCEPT ![x] = AfterDeposit(row, l, c.due)]
      /\ ledger' = [ledger EXCEPT ![x] = l] /\ UNCHANGED completeDays
  BY DEF PostDebit, history
<1> HIDE DEF l
<1>8. bank'[x] = AfterDeposit(row, l, c.due) /\ ledger'[x] = l
  BY <1>1, <1>7 DEF IInv, TypeOK
<1>9. /\ bank'[x].status = "open" /\ SameSchedule(x)
      /\ Tracks(bank[x], ledger[x], bank'[x], ledger'[x])
  <2> DEFINE new == AfterDeposit(row, l, c.due)
  <2>1. new.status = row.status /\ new.autoDebit = row.autoDebit
        /\ new.enabledAt = row.enabledAt
        /\ new.goal = row.goal
        /\ (new.completedAt # Null <=>
              row.completedAt # Null \/ (row.goal # 0 /\ l.balance >= row.goal))
    <3>1. DepositOutcome(row, l, new)
      BY <1>1, <1>5, AfterDepositType
    <3> QED
      BY <3>1 DEF DepositOutcome
  <2>2. row.status = "open"
    BY <1>3 DEF DebitCandidate
  <2> HIDE DEF new
  <2>3. bank'[x] = new
    BY <1>8 DEF new
  <2> QED
    BY <1>8, <2>1, <2>2, <2>3 DEF SameSchedule, Tracks
<1>10. Charged(x, c.month)
  BY <1>3, <1>4, <1>6, <1>8, <1>9 DEF Charged
<1>11. ASSUME NEW b \in Banks, b # x PROVE Untouched(b)
  BY <1>7, <1>11 DEF Untouched, IInv, TypeOK
<1> QED
  BY <1>1, <1>7, <1>10, <1>11 DEF Changed

LEMMA DepositEffect ==
  ASSUME IInv, NEW w \in Workers, Deposit(w)
  PROVE  \A b \in Banks : Changed(b)
<1> DEFINE x == worker[w].op.bank
           row == bank[x]
           paid == Clamp(row, ledger[x], worker[w].op.amount)
           l == [ledger[x] EXCEPT !.balance = @ + paid, !.moved = TRUE]
           new == AfterDeposit(row, l, today)
<1>1. x \in Banks /\ row \in BankRow /\ ledger[x] \in Ledger
      /\ worker[w].op.amount \in Nat /\ today \in Days
  BY OpType DEF IInv, TypeOK
<1>2. paid \in Nat
  BY <1>1 DEF Deposit, Clamp, Remaining, AtMost, BankRow, Ledger
<1>3. l \in Ledger /\ l.debits = ledger[x].debits /\ l.balance >= ledger[x].balance
  <2>1. ledger[x].balance + paid \in Int /\ ledger[x].balance + paid >= ledger[x].balance
    BY <1>1, <1>2 DEF Ledger
  <2> HIDE DEF paid
  <2>2. l.debits = ledger[x].debits /\ l.balance = ledger[x].balance + paid
    BY <1>1 DEF Ledger
  <2> QED
    BY <1>1, <2>1, <2>2, MovedLedger
<1>4. bank' = [bank EXCEPT ![x] = new] /\ ledger' = [ledger EXCEPT ![x] = l]
      /\ UNCHANGED completeDays /\ row.status = "open"
  BY DEF Deposit, history
<1> HIDE DEF l
<1>9. DepositOutcome(row, l, new)
  BY <1>1, <1>3, AfterDepositType
<1> HIDE DEF new
<1>5. new \in BankRow /\ new.status = row.status /\ new.autoDebit = row.autoDebit
      /\ new.enabledAt = row.enabledAt
      /\ (row.completedAt # Null => new.completedAt # Null)
  BY <1>9 DEF DepositOutcome
<1>6. bank'[x] = new /\ ledger'[x] = l
  BY <1>1, <1>4 DEF IInv, TypeOK
<1>7. Kept(bank[x], ledger[x], bank'[x], ledger'[x])
  <2>1. Tracks(row, ledger[x], new, l)
    BY <1>9 DEF Tracks, DepositOutcome
  <2> QED
    BY <1>3, <1>4, <1>5, <1>6, <2>1 DEF Kept
<1>8. ASSUME NEW b \in Banks, b # x PROVE Untouched(b)
  BY <1>4, <1>8 DEF Untouched, IInv, TypeOK
<1> QED
  BY <1>1, <1>4, <1>7, <1>8 DEF Changed

LEMMA WithdrawEffect ==
  ASSUME IInv, NEW w \in Workers, Withdraw(w)
  PROVE  \A b \in Banks : Changed(b) \/ Withdrawn(b)
<1> DEFINE x == worker[w].op.bank
           row == bank[x]
           amount == worker[w].op.amount
           l == [ledger[x] EXCEPT !.balance = @ - amount, !.moved = TRUE]
           day == worker[w].now
           new == AfterWithdrawal(row, l, day)
           reopened == FallsShort(row.goal, l.balance)
<1>1. x \in Banks /\ row \in BankRow /\ ledger[x] \in Ledger
      /\ amount \in Nat /\ today \in Days /\ day \in Days
  BY OpType DEF IInv, TypeOK
<1>2. row.status = "open" /\ amount <= ledger[x].balance
  BY DEF Withdraw, CanWithdraw
<1>3. l \in Ledger /\ l.debits = ledger[x].debits /\ l.balance >= 0
      /\ l.balance <= ledger[x].balance
  <2>1. ledger[x].balance - amount \in Int /\ ledger[x].balance - amount >= 0
        /\ ledger[x].balance - amount <= ledger[x].balance
    BY <1>1, <1>2 DEF Ledger
  <2> HIDE DEF amount
  <2>2. l.debits = ledger[x].debits /\ l.balance = ledger[x].balance - amount
    BY <1>1 DEF Ledger
  <2> QED
    BY <1>1, <2>1, <2>2, MovedLedger
<1>4. bank' = [bank EXCEPT ![x] = new] /\ ledger' = [ledger EXCEPT ![x] = l]
      /\ completeDays' = [completeDays EXCEPT ![x] = @ \ Reopened(row, l, day)]
  BY DEF Withdraw
<1>5. day <= today /\ today <= day + 1
  BY DEF Withdraw, IInv, ClockIsFresh
<1> HIDE DEF l, day
<1>10. WithdrawalOutcome(row, l, day, new)
  BY <1>1, <1>3, AfterWithdrawalType
<1> HIDE DEF new
<1>6. /\ new.status = row.status /\ new.autoDebit = row.autoDebit
      /\ new.goal = row.goal
      /\ new.completedAt = (IF reopened THEN Null ELSE row.completedAt)
      /\ new.enabledAt = (IF row.autoDebit /\ row.completedAt # Null /\ reopened
                          THEN day ELSE row.enabledAt)
  BY <1>10 DEF WithdrawalOutcome
<1>7. bank'[x] = new /\ ledger'[x] = l
      /\ completeDays'[x] = completeDays[x] \ (IF reopened THEN {day} ELSE {})
  BY <1>1, <1>4 DEF IInv, TypeOK, Reopened, FallsShort
<1>8. Withdrawn(x)
  <2>1. day <= today /\ today <= day + 1 /\ bank[x].status = "open"
        /\ bank'[x].status = "open" /\ ledger'[x].balance >= 0
        /\ ledger'[x].debits = ledger[x].debits
        /\ ledger'[x].balance <= ledger[x].balance /\ bank'[x].goal = bank[x].goal
    BY <1>2, <1>3, <1>5, <1>6, <1>7
  <2>2. bank'[x].autoDebit = bank[x].autoDebit
        /\ bank'[x].completedAt = (IF reopened THEN Null ELSE row.completedAt)
        /\ bank'[x].enabledAt =
             (IF row.autoDebit /\ row.completedAt # Null /\ reopened
              THEN day ELSE row.enabledAt)
    BY <1>6, <1>7
  <2>3. reopened = FallsShort(bank[x].goal, ledger'[x].balance)
    BY <1>7
  <2> HIDE DEF reopened
  <2>4. WithdrawnOn(x, day)
    BY <1>7, <2>1, <2>2, <2>3 DEF WithdrawnOn
  <2> QED
    BY <1>1, <2>4 DEF Withdrawn
<1>9. ASSUME NEW b \in Banks, b # x PROVE Changed(b)
  BY <1>4, <1>9 DEF Changed, Untouched, IInv, TypeOK
<1> QED
  BY <1>8, <1>9

LEMMA SetYieldEffect ==
  ASSUME IInv, NEW w \in Workers, SetYield(w)
  PROVE  \A b \in Banks : Changed(b)
<1> DEFINE x == worker[w].op.bank
           row == bank[x]
           yields == worker[w].op.yields
           through == AccruedThrough(row, yields)
           new == [row EXCEPT !.yields = yields, !.through = through]
           quota == ResolvedQuota(new, ledger[x], row.quota)
           last == [new EXCEPT !.quota = quota]
<1>1. x \in Banks /\ row \in BankRow
  BY OpType DEF IInv, TypeOK
<1>2. bank' = [bank EXCEPT ![x] = last] /\ row.status = "open"
      /\ UNCHANGED <<ledger, completeDays>>
  BY DEF SetYield, history
<1>3. last.status = row.status /\ last.autoDebit = row.autoDebit
      /\ last.enabledAt = row.enabledAt /\ last.completedAt = row.completedAt
      /\ last.goal = row.goal
  <2> HIDE DEF through, quota, yields
  <2> QED
    BY <1>1 DEF BankRow
<1> HIDE DEF last
<1>4. bank'[x] = last
  BY <1>1, <1>2 DEF IInv, TypeOK
<1>5. Configured(x)
  BY <1>2, <1>3, <1>4 DEF Configured, SameSchedule
<1>6. ASSUME NEW b \in Banks, b # x PROVE Untouched(b)
  BY <1>2, <1>6 DEF Untouched, IInv, TypeOK
<1> QED
  BY <1>2, <1>5, <1>6 DEF Changed

\* A form touches only its bank.
LEMMA ConfigureFrame ==
  ASSUME NEW x, Configure(x)
  PROVE  UNCHANGED <<today, worker>>
<1>1. PICK goal, target, autoDebit, day, typed, yields :
        \/ Create(x, goal, target, autoDebit, day, typed, yields)
        \/ UpdateSettings(x, goal, target, autoDebit, day, typed)
  BY DEF Configure
<1> QED
  BY <1>1 DEF Create, UpdateSettings

LEMMA ConfigureEffect ==
  ASSUME IInv, NEW x \in Banks, Configure(x)
  PROVE  \A b \in Banks : Changed(b)
<1>1. PICK goal \in Goals, target \in FutureTargets \cup {bank[x].target},
           autoDebit \in BOOLEAN, day \in DebitDays \cup {bank[x].debitDay} :
        \/ \E typed \in Quotas, yields \in BOOLEAN :
             Create(x, goal, target, autoDebit, day, typed, yields)
        \/ \E typed \in Quotas \cup {bank[x].quota} :
             UpdateSettings(x, goal, target, autoDebit, day, typed)
  BY DEF Configure
<1>2. bank[x] \in BankRow
  BY DEF IInv, TypeOK
<1>3. ASSUME NEW typed \in Quotas, NEW yields \in BOOLEAN,
             Create(x, goal, target, autoDebit, day, typed, yields)
      PROVE  /\ Configured(x) /\ UNCHANGED <<ledger, completeDays>>
             /\ \A b \in Banks \ {x} : bank'[b] = bank[b]
  <2> DEFINE debitDay == IF autoDebit THEN day ELSE 1
             enabledAt == IF autoDebit THEN today ELSE Null
             row == [AbsentRow EXCEPT !.status = "open", !.createdAt = today,
                !.goal = goal, !.target = target, !.autoDebit = autoDebit,
                !.debitDay = debitDay, !.enabledAt = enabledAt, !.yields = yields]
             quota == ResolvedQuota(row, EmptyLedger, typed)
             new == [row EXCEPT !.quota = quota]
  <2>1. bank' = [bank EXCEPT ![x] = new] /\ UNCHANGED <<ledger, completeDays>>
        /\ bank[x].status = "absent"
    BY <1>3 DEF Create, history
  <2>2. new.status = "open" /\ new.autoDebit = autoDebit /\ new.enabledAt = enabledAt
        /\ new.goal = goal /\ new.completedAt = Null
    <3> HIDE DEF debitDay, enabledAt, quota
    <3> QED
      BY DEF AbsentRow
  <2>3. autoDebit => enabledAt = today
    OBVIOUS
  <2> HIDE DEF new, enabledAt
  <2>4. bank'[x] = new /\ \A b \in Banks \ {x} : bank'[b] = bank[b]
    BY <2>1 DEF IInv, TypeOK
  <2>5. ~bank'[x].autoDebit \/ bank'[x].enabledAt = today
    BY <2>2, <2>3, <2>4
  <2> QED
    BY <2>1, <2>2, <2>4, <2>5 DEF Configured
<1>4. ASSUME NEW typed \in Quotas \cup {bank[x].quota},
             UpdateSettings(x, goal, target, autoDebit, day, typed)
      PROVE  /\ Configured(x) /\ UNCHANGED <<ledger, completeDays>>
             /\ \A b \in Banks \ {x} : bank'[b] = bank[b]
  <2> DEFINE enabledAt == NextEnabledAt(bank[x], autoDebit)
             row == [bank[x] EXCEPT !.goal = goal, !.target = target,
                                    !.autoDebit = autoDebit, !.debitDay = day,
                                    !.enabledAt = enabledAt]
             quota == ResolvedQuota(row, ledger[x], typed)
             new == [row EXCEPT !.quota = quota]
  <2>1. bank' = [bank EXCEPT ![x] = new] /\ UNCHANGED <<ledger, completeDays>>
        /\ bank[x].status = "open"
    BY <1>4 DEF UpdateSettings, history
  <2>2. new.status = "open" /\ new.autoDebit = autoDebit /\ new.enabledAt = enabledAt
        /\ new.goal = goal /\ new.completedAt = bank[x].completedAt
    <3> HIDE DEF enabledAt, quota
    <3> QED
      BY <1>2, <2>1 DEF BankRow
  <2>3. \/ ~autoDebit
        \/ enabledAt = today
        \/ autoDebit = bank[x].autoDebit /\ enabledAt = bank[x].enabledAt
    BY <1>2 DEF NextEnabledAt, BankRow
  <2> HIDE DEF new, enabledAt
  <2>4. bank'[x] = new /\ \A b \in Banks \ {x} : bank'[b] = bank[b]
    BY <2>1 DEF IInv, TypeOK
  <2>5. \/ ~bank'[x].autoDebit \/ bank'[x].enabledAt = today \/ SameSchedule(x)
    BY <2>2, <2>3, <2>4 DEF SameSchedule
  <2> QED
    BY <2>1, <2>2, <2>4, <2>5 DEF Configured
<1>5. /\ Configured(x) /\ UNCHANGED <<ledger, completeDays>>
      /\ \A b \in Banks \ {x} : bank'[b] = bank[b]
  BY <1>1, <1>3, <1>4
<1> QED
  BY <1>5 DEF Changed, Untouched

LEMMA CloseEffect ==
  ASSUME IInv, NEW x \in Banks, Archive(x) \/ Delete(x)
  PROVE  \A b \in Banks : Changed(b)
<1>1. PICK status \in {"archived", "deleted"} :
        /\ bank' = [bank EXCEPT ![x].status = status]
        /\ bank[x].status # "absent"
        /\ status = "archived" => ledger[x].balance <= 0
        /\ status = "deleted" => ~ledger[x].moved
  BY DEF Archive, Delete
<1>2. UNCHANGED <<ledger, completeDays>>
  BY DEF Archive, Delete, history
<1>3. bank[x] \in BankRow
  BY DEF IInv, TypeOK
<1>4. bank'[x].status = status /\ SameSchedule(x)
      /\ bank'[x].goal = bank[x].goal /\ bank'[x].completedAt = bank[x].completedAt
  BY <1>1, <1>3 DEF IInv, TypeOK, BankRow, SameSchedule
<1>5. Closed(x)
  BY <1>1, <1>2, <1>4 DEF Closed
<1>6. ASSUME NEW b \in Banks, b # x PROVE Untouched(b)
  BY <1>1, <1>2, <1>6 DEF Untouched, IInv, TypeOK
<1> QED
  BY <1>2, <1>5, <1>6 DEF Changed

\* A step that leaves the banks alone changes nothing.
LEMMA NoEffect ==
  ASSUME UNCHANGED <<bank, ledger, completeDays>>
  PROVE  \A b \in Banks : Changed(b)
BY DEF Changed, Untouched

LEMMA DebitCycleEffect ==
  ASSUME IInv, NEW w \in Workers, DebitCycle(w)
  PROVE  \A b \in Banks : Changed(b)
<1>1. worker[w].pc = "debits"
  BY DEF DebitCycle
<1>2. PICK c \in NextCycles(w) :
        StopDebits(w, c) \/ SkipCycle(w, c) \/ PostDebit(w, c) \/ FailDebit(w, c)
  BY DEF DebitCycle
<1>3. CASE PostDebit(w, c)
  BY <1>1, <1>3, PostDebitEffect
<1>4. CASE StopDebits(w, c) \/ SkipCycle(w, c) \/ FailDebit(w, c)
  <2>1. UNCHANGED <<bank, ledger, completeDays>>
    BY <1>4 DEF StopDebits, SkipCycle, FailDebit, history
  <2> QED
    BY <2>1, NoEffect
<1> QED
  BY <1>2, <1>3, <1>4

\* Every step but midnight and stuttering, seen from the banks.
LEMMA StepEffect ==
  ASSUME IInv, Next
  PROVE  \/ Midnight
         \/ today' = today /\ \A b \in Banks : Changed(b) \/ Withdrawn(b)
<1>1. TypeOK
  BY DEF IInv
<1>2. CASE \E w \in Workers, op \in Op : Begin(w, op)
  BY <1>2, NoEffect DEF Begin, history
<1>3. ASSUME NEW w \in Workers, DebitCycle(w)
      PROVE  today' = today /\ \A b \in Banks : Changed(b)
  <2>1. today' = today
    BY <1>3 DEF DebitCycle, StopDebits, SkipCycle, PostDebit, FailDebit
  <2> QED
    BY <1>3, <2>1, DebitCycleEffect
<1>4. ASSUME NEW w \in Workers, FetchSeries(w) \/ FailAccrue(w) \/ Refuse(w) \/ Abandon(w)
      PROVE  today' = today /\ \A b \in Banks : Changed(b)
  BY <1>4, NoEffect DEF FetchSeries, FailAccrue, Refuse, Abandon, history
<1>5. ASSUME NEW w \in Workers, Accrue(w)
      PROVE  today' = today /\ \A b \in Banks : Changed(b)
  <2>1. UNCHANGED <<today, requests, history>>
        /\ \A b \in Banks :
              \/ bank'[b] = bank[b] /\ ledger'[b] = ledger[b]
              \/ Kept(bank[b], ledger[b], bank'[b], ledger'[b])
    BY <1>1, <1>5, AccrueEffect
  <2>2. today' = today /\ completeDays' = completeDays
    BY <2>1 DEF history
  <2>3. ASSUME NEW b \in Banks PROVE Changed(b)
    <3>1. Untouched(b) \/ Kept(bank[b], ledger[b], bank'[b], ledger'[b])
      BY <2>1 DEF Untouched
    <3> QED
      BY <2>2, <3>1 DEF Changed
  <2> QED
    BY <2>2, <2>3
<1>6. ASSUME NEW w \in Workers, Deposit(w)
      PROVE  today' = today /\ \A b \in Banks : Changed(b)
  <2>1. today' = today
    BY <1>6, Zenon DEF Deposit
  <2> QED
    BY <1>6, <2>1, DepositEffect
<1>7. ASSUME NEW w \in Workers, Withdraw(w)
      PROVE  today' = today /\ \A b \in Banks : Changed(b) \/ Withdrawn(b)
  <2>1. today' = today
    BY <1>7, Zenon DEF Withdraw
  <2> QED
    BY <1>7, <2>1, WithdrawEffect
<1>8. ASSUME NEW w \in Workers, SetYield(w)
      PROVE  today' = today /\ \A b \in Banks : Changed(b)
  BY <1>8, SetYieldEffect DEF SetYield
<1>9. ASSUME NEW x \in Banks, Configure(x)
      PROVE  today' = today /\ \A b \in Banks : Changed(b)
  BY <1>9, ConfigureEffect, ConfigureFrame
<1>10. ASSUME NEW x \in Banks, Archive(x) \/ Delete(x)
       PROVE  today' = today /\ \A b \in Banks : Changed(b)
  BY <1>10, CloseEffect DEF Archive, Delete
<1> QED
  BY <1>1, <1>2, <1>3, <1>4, <1>5, <1>6, <1>7, <1>8, <1>9, <1>10, StepCases

-----------------------------------------------------------------------------
(* The invariants, one at a time.                                            *)

\* Every bank starts absent or from before, without a goal.
LEMMA InitRows ==
  ASSUME Init, NEW b \in Banks
  PROVE  /\ bank[b].completedAt = Null /\ bank[b].goal = 0 /\ ledger[b].balance = 0
         /\ bank[b].status \in {"absent", "open"}
         /\ bank[b].status = "open" <=> b \in LegacyBanks
<1>1. bank[b] \in {AbsentRow} \cup {LegacyRow(d, q) : d \in DebitDays, q \in Quotas}
  BY DEF Init
<1>2. CASE bank[b] = AbsentRow
  BY <1>2 DEF AbsentRow, Init, EmptyLedger
<1>3. ASSUME NEW d \in DebitDays, NEW q \in Quotas, bank[b] = LegacyRow(d, q)
      PROVE  bank[b].completedAt = Null /\ bank[b].goal = 0 /\ bank[b].status = "open"
  BY <1>3 DEF LegacyRow, AbsentRow
<1>4. ledger[b].balance = 0 /\ (bank[b].status = "open" <=> b \in LegacyBanks)
  BY DEF Init, EmptyLedger
<1> QED
  BY <1>1, <1>2, <1>3, <1>4

LEMMA InitInvariant == Init => IInv
<1> SUFFICES ASSUME Init PROVE IInv
  OBVIOUS
<1>1. TypeOK
  BY InitType
<1>2. ClockIsFresh
  BY DEF Init, Idle, ClockIsFresh
<1>3. OneDebitPerMonth /\ NeverOverdrawn
  BY DEF Init, EmptyLedger, OneDebitPerMonth, NeverOverdrawn
<1>4. ClosedBanksAreFrozen
  BY DEF Init, EmptyLedger, ClosedBanksAreFrozen
<1>5. DebitRestartsAfterCompletion
  BY DEF Init, DebitRestartsAfterCompletion
<1>6. AbsentBanksAreEmpty
  BY InitRows DEF AbsentBanksAreEmpty
<1> QED
  BY <1>1, <1>2, <1>3, <1>4, <1>5, <1>6 DEF IInv

\* A phase reads the clock when it begins, and keeps it until it ends.
LEMMA ClockStep ==
  ASSUME IInv, Next
  PROVE  ClockIsFresh'
<1>1. TypeOK /\ ClockIsFresh
  BY DEF IInv
<1>2. CASE Midnight
  BY <1>1, <1>2, DaysType DEF Midnight, ClockIsFresh, TypeOK
<1>3. ASSUME NEW w \in Workers, \A v \in Workers \ {w} : worker'[v] = worker[v],
             today' = today,
             \/ worker'[w].pc = "idle" \/ worker'[w].now = today
             \/ worker[w].pc # "idle" /\ worker'[w].now = worker[w].now
      PROVE  ClockIsFresh'
  <2>1. ASSUME NEW v \in Workers, worker'[v].pc # "idle"
        PROVE  worker'[v].now <= today' /\ today' <= worker'[v].now + 1
    <3>1. CASE v # w
      BY <1>1, <1>3, <2>1, <3>1 DEF ClockIsFresh
    <3>2. CASE v = w
      <4>1. CASE worker'[w].now = today
        <5>1. today \in Nat
          BY <1>1, DaysType DEF TypeOK
        <5> QED
          BY <1>3, <3>2, <4>1, <5>1
      <4>2. CASE worker[w].pc # "idle" /\ worker'[w].now = worker[w].now
        BY <1>1, <1>3, <3>2, <4>2 DEF ClockIsFresh
      <4> QED
        BY <1>3, <2>1, <3>2, <4>1, <4>2
    <3> QED
      BY <3>1, <3>2
  <2> QED
    BY <2>1 DEF ClockIsFresh
<1>4. ASSUME worker' = worker, today' = today
      PROVE  ClockIsFresh'
  BY <1>1, <1>4 DEF ClockIsFresh
<1>5. Idle.pc = "idle"
  BY DEF Idle
<1>6. ASSUME NEW w \in Workers, NEW op \in Op, Begin(w, op)
      PROVE  ClockIsFresh'
  <2> DEFINE new == [Idle EXCEPT !.pc = "debits", !.op = op, !.now = today,
                       !.queue = UNION {ListDueCycles(b, today) :
                                   b \in {x \in Banks : DebitCandidate(bank[x])}}]
  <2>1. worker' = [worker EXCEPT ![w] = new] /\ today' = today
    BY <1>6 DEF Begin
  <2>2. new.now = today
    BY DEF Idle
  <2> HIDE DEF new
  <2>3. worker'[w] = new /\ \A v \in Workers \ {w} : worker'[v] = worker[v]
    BY <1>1, <2>1 DEF TypeOK
  <2> QED
    BY <1>3, <2>1, <2>2, <2>3
<1>7. ASSUME NEW w \in Workers, DebitCycle(w)
      PROVE  ClockIsFresh'
  <2>1. worker[w] \in Worker /\ worker[w].pc # "idle"
    BY <1>1, <1>7 DEF DebitCycle, TypeOK
  <2>2. PICK c \in NextCycles(w) :
          StopDebits(w, c) \/ SkipCycle(w, c) \/ PostDebit(w, c) \/ FailDebit(w, c)
    BY <1>7 DEF DebitCycle
  <2>3. today' = today
    BY <2>2 DEF StopDebits, SkipCycle, PostDebit, FailDebit
  <2>4. /\ \A v \in Workers \ {w} : worker'[v] = worker[v]
        /\ worker'[w].now = worker[w].now
    <3>1. CASE StopDebits(w, c)
      BY <1>1, <2>1, <3>1 DEF StopDebits, TypeOK, Worker
    <3>2. CASE SkipCycle(w, c)
      BY <1>1, <2>1, <3>2 DEF SkipCycle, TypeOK, Worker
    <3>3. CASE PostDebit(w, c)
      BY <1>1, <2>1, <3>3 DEF PostDebit, TypeOK, Worker
    <3>4. CASE FailDebit(w, c)
      BY <1>1, <2>1, <3>4 DEF FailDebit, TypeOK, Worker
    <3> QED
      BY <2>2, <3>1, <3>2, <3>3, <3>4
  <2> QED
    BY <1>3, <2>1, <2>3, <2>4
<1>8. ASSUME NEW w \in Workers, FetchSeries(w)
      PROVE  ClockIsFresh'
  <2>1. today' = today
    BY <1>8 DEF FetchSeries
  <2>2. /\ \A v \in Workers \ {w} : worker'[v] = worker[v]
        /\ worker'[w].now = today
    BY <1>1, <1>8 DEF FetchSeries, TypeOK, Worker
  <2> QED
    BY <1>3, <2>1, <2>2
<1>9. ASSUME NEW w \in Workers, Accrue(w) \/ FailAccrue(w)
      PROVE  ClockIsFresh'
  <2>1. PICK stale : worker' = [worker EXCEPT ![w] = AfterCatchUp(w, stale)]
    BY <1>9 DEF Accrue, FailAccrue
  <2>2. AfterCatchUp(w, stale).pc = "idle" \/ AfterCatchUp(w, stale).now = today
    BY <1>1, <1>5 DEF AfterCatchUp, TypeOK, Worker
  <2>3. today' = today
    BY <1>9 DEF Accrue, FailAccrue
  <2>4. worker'[w] = AfterCatchUp(w, stale)
        /\ \A v \in Workers \ {w} : worker'[v] = worker[v]
    BY <1>1, <2>1 DEF TypeOK
  <2> QED
    BY <1>3, <2>2, <2>3, <2>4
<1>10. ASSUME NEW w \in Workers,
              Deposit(w) \/ Withdraw(w) \/ SetYield(w) \/ Refuse(w) \/ Abandon(w)
       PROVE  ClockIsFresh'
  <2>1. worker' = [worker EXCEPT ![w] = Idle] /\ today' = today
    BY <1>10 DEF Deposit, Withdraw, SetYield, Refuse, Abandon
  <2>2. worker'[w].pc = "idle" /\ \A v \in Workers \ {w} : worker'[v] = worker[v]
    BY <1>1, <1>5, <2>1 DEF TypeOK
  <2> QED
    BY <1>3, <2>1, <2>2
<1>11. ASSUME NEW b \in Banks, Configure(b) \/ Archive(b) \/ Delete(b)
       PROVE  ClockIsFresh'
  <2>1. CASE Configure(b)
    BY <1>4, <2>1, ConfigureFrame
  <2>2. CASE Archive(b) \/ Delete(b)
    BY <1>4, <2>2 DEF Archive, Delete
  <2> QED
    BY <1>11, <2>1, <2>2
<1> QED
  BY <1>1, <1>2, <1>6, <1>7, <1>8, <1>9, <1>10, <1>11, StepCases

LEMMA OneDebitPerMonthStep ==
  ASSUME IInv, Next
  PROVE  OneDebitPerMonth'
<1> SUFFICES ASSUME NEW b \in Banks, NEW m \in Months
             PROVE  ledger'[b].debits[m] <= 1
  BY DEF OneDebitPerMonth
<1>1. ledger[b].debits[m] <= 1 /\ ledger[b].debits \in [Months -> Nat]
  BY DEF IInv, TypeOK, OneDebitPerMonth, Ledger
<1>2. ledger' = ledger \/ Changed(b) \/ Withdrawn(b)
  BY StepEffect DEF Midnight
<1>3. CASE ledger'[b].debits = ledger[b].debits
  BY <1>1, <1>3
<1>4. ASSUME NEW k \in Months, Charged(b, k)
      PROVE  ledger'[b].debits[m] <= 1
  <2>1. ledger'[b].debits = [ledger[b].debits EXCEPT ![k] = 1]
    BY <1>4 DEF Charged
  <2> QED
    BY <1>1, <2>1
<1>5. Withdrawn(b) => ledger'[b].debits = ledger[b].debits
  BY DEF Withdrawn, WithdrawnOn, FallsShort
<1>6. Changed(b) => \/ ledger'[b].debits = ledger[b].debits
                    \/ \E k \in Months : Charged(b, k)
  BY DEF Changed, Untouched, Kept, Configured, Closed
<1> QED
  BY <1>2, <1>3, <1>4, <1>5, <1>6

LEMMA NeverOverdrawnStep ==
  ASSUME IInv, Next
  PROVE  NeverOverdrawn'
<1> SUFFICES ASSUME NEW b \in Banks
             PROVE  ledger'[b].balance >= 0
  BY DEF NeverOverdrawn
<1>1. ledger[b].balance >= 0 /\ ledger[b].balance \in Int
  BY DEF IInv, TypeOK, NeverOverdrawn, Ledger
<1>2. ledger'[b].balance \in Int
  BY TypeStep DEF IInv, TypeOK, Ledger
<1>3. ledger' = ledger \/ Changed(b) \/ Withdrawn(b)
  BY StepEffect DEF Midnight
<1>4. Withdrawn(b) => ledger'[b].balance >= 0
  BY DEF Withdrawn, WithdrawnOn, FallsShort
<1>5. Changed(b) => ledger'[b].balance = ledger[b].balance
                    \/ ledger'[b].balance >= ledger[b].balance
  BY DEF Changed, Untouched, Charged, Kept, Configured, Closed
<1> QED
  BY <1>1, <1>2, <1>3, <1>4, <1>5

LEMMA ClosedBanksAreFrozenStep ==
  ASSUME IInv, Next
  PROVE  ClosedBanksAreFrozen'
<1> SUFFICES ASSUME NEW b \in Banks
             PROVE  /\ bank'[b].status = "archived" => ledger'[b].balance = 0
                    /\ bank'[b].status \in {"absent", "deleted"} => ~ledger'[b].moved
  BY DEF ClosedBanksAreFrozen
<1>1. /\ bank[b].status = "archived" => ledger[b].balance = 0
      /\ bank[b].status \in {"absent", "deleted"} => ~ledger[b].moved
      /\ ledger[b].balance >= 0 /\ ledger[b].balance \in Int
  BY DEF IInv, TypeOK, ClosedBanksAreFrozen, NeverOverdrawn, Ledger
<1>2. UNCHANGED <<bank, ledger>> \/ Changed(b) \/ Withdrawn(b)
  BY StepEffect DEF Midnight
<1>3. Withdrawn(b) => bank'[b].status = "open"
  BY DEF Withdrawn, WithdrawnOn, FallsShort
<1>4. Changed(b) => \/ Untouched(b)
                    \/ bank'[b].status = "open"
                    \/ Closed(b)
  BY DEF Changed, Charged, Kept, Configured
<1>5. CASE Closed(b)
  BY <1>1, <1>5 DEF Closed
<1>6. CASE Untouched(b)
  BY <1>1, <1>6 DEF Untouched
<1> QED
  BY <1>1, <1>2, <1>3, <1>4, <1>5, <1>6

LEMMA DebitRestartsStep ==
  ASSUME IInv, Next
  PROVE  DebitRestartsAfterCompletion'
<1> SUFFICES ASSUME NEW b \in Banks, NEW d \in Days, d \in completeDays'[b]
             PROVE  /\ d < today'
                    /\ bank'[b].autoDebit /\ bank'[b].completedAt = Null
                         => d < bank'[b].enabledAt
  BY DEF DebitRestartsAfterCompletion
<1>1. /\ d \in completeDays[b] => d < today
      /\ d \in completeDays[b] /\ bank[b].autoDebit /\ bank[b].completedAt = Null
           => d < bank[b].enabledAt
      /\ d \in Nat /\ today \in Nat
  BY DaysType DEF IInv, TypeOK, DebitRestartsAfterCompletion
<1>2. CASE Midnight
  <2>1. bank' = bank /\ today' = today + 1
    BY <1>2 DEF Midnight
  <2>2. completeDays'[b] = (IF bank[b].completedAt # Null
                            THEN completeDays[b] \cup {today} ELSE completeDays[b])
    BY <1>2 DEF Midnight
  <2> QED
    BY <1>1, <2>1, <2>2
<1>3. CASE today' = today /\ Changed(b)
  <2>1. d \in completeDays[b] /\ d < today
    BY <1>1, <1>3 DEF Changed
  <2>2. CASE SameSchedule(b)
    BY <1>1, <1>3, <2>1, <2>2 DEF SameSchedule
  <2>3. CASE Configured(b)
    BY <1>1, <1>3, <2>1, <2>2, <2>3 DEF Configured
  <2>4. CASE Untouched(b)
    BY <1>1, <1>3, <2>1, <2>4 DEF Untouched
  <2>5. CASE Kept(bank[b], ledger[b], bank'[b], ledger'[b])
    <3>1. SameSchedule(b)
      BY <2>5 DEF Kept, SameSchedule
    <3> QED
      BY <2>2, <3>1
  <2> QED
    BY <1>3, <2>2, <2>3, <2>4, <2>5 DEF Changed, Charged, Closed
<1>4. CASE today' = today /\ Withdrawn(b)
  <2>1. PICK day \in Days :
    LET reopened == bank[b].goal # 0 /\ ledger'[b].balance < bank[b].goal IN
    /\ day <= today /\ today <= day + 1
    /\ bank'[b].autoDebit = bank[b].autoDebit
    /\ bank'[b].completedAt = (IF reopened THEN Null ELSE bank[b].completedAt)
    /\ bank'[b].enabledAt =
         (IF bank[b].autoDebit /\ bank[b].completedAt # Null /\ reopened
          THEN day ELSE bank[b].enabledAt)
    /\ completeDays'[b] = completeDays[b] \ (IF reopened THEN {day} ELSE {})
    BY <1>4 DEF Withdrawn, WithdrawnOn, FallsShort
  <2>2. d \in completeDays[b] /\ d < today /\ day \in Nat
    BY <1>1, <2>1, DaysType
  <2>3. CASE bank[b].goal # 0 /\ ledger'[b].balance < bank[b].goal
    <3>1. d # day
      BY <2>1, <2>3
    <3>2. d < day
      BY <1>1, <2>1, <2>2, <3>1
    <3> QED
      BY <1>1, <1>4, <2>1, <2>2, <2>3, <3>2
  <2>4. CASE ~(bank[b].goal # 0 /\ ledger'[b].balance < bank[b].goal)
    BY <1>1, <1>4, <2>1, <2>2, <2>4
  <2> QED
    BY <2>3, <2>4
<1> QED
  BY <1>2, <1>3, <1>4, StepEffect

\* A bank leaves the absent state by its creation, and never returns.
LEMMA AbsentBanksStep ==
  ASSUME IInv, Next
  PROVE  AbsentBanksAreEmpty'
<1> SUFFICES ASSUME NEW b \in Banks, bank'[b].status = "absent"
             PROVE  bank'[b].goal = 0 /\ bank'[b].completedAt = Null
                    /\ ledger'[b].balance = 0
  BY DEF AbsentBanksAreEmpty
<1>1. UNCHANGED <<bank, ledger>> \/ Changed(b) \/ Withdrawn(b)
  BY StepEffect DEF Midnight
<1>2. UNCHANGED <<bank, ledger>> \/ Untouched(b)
  BY <1>1 DEF Changed, Withdrawn, WithdrawnOn, FallsShort, Charged, Kept, Configured, Closed
<1> QED
  BY <1>2 DEF Untouched, IInv, AbsentBanksAreEmpty

\* IInv is inductive.
LEMMA InvariantStep == IInv /\ [Next]_vars => IInv'
<1> SUFFICES ASSUME IInv, [Next]_vars PROVE IInv'
  OBVIOUS
<1>1. TypeOK'
  BY TypeStep DEF IInv
<1>2. CASE Next
  BY <1>1, <1>2, ClockStep, OneDebitPerMonthStep, NeverOverdrawnStep,
     ClosedBanksAreFrozenStep, DebitRestartsStep, AbsentBanksStep DEF IInv
<1>3. CASE UNCHANGED vars
  <2>1. UNCHANGED <<today, bank, ledger, worker, completeDays>>
    BY <1>3 DEF vars, history
  <2> QED
    BY <1>1, <2>1 DEF IInv, ClockIsFresh, OneDebitPerMonth, NeverOverdrawn,
       ClosedBanksAreFrozen, DebitRestartsAfterCompletion, AbsentBanksAreEmpty
<1> QED
  BY <1>2, <1>3

\* The invariant holds in every reachable state of the requests and their banks.
THEOREM Invariant == Spec => []IInv
BY InitInvariant, InvariantStep, PTL DEF Spec

\* However many requests catch up at once and however the debit day is moved in
\* between, no bank is debited automatically twice in a month.
THEOREM DebitedOnce == Spec => []OneDebitPerMonth
<1>1. IInv => OneDebitPerMonth
  BY DEF IInv
<1> QED
  BY <1>1, Invariant, PTL

\* No interleaving of requests takes a bank below zero.
THEOREM NotOverdrawn == Spec => []NeverOverdrawn
<1>1. IInv => NeverOverdrawn
  BY DEF IInv
<1> QED
  BY <1>1, Invariant, PTL

\* Nothing is posted on a bank after it was archived or deleted.
THEOREM ClosedBanksKept == Spec => []ClosedBanksAreFrozen
<1>1. IInv => ClosedBanksAreFrozen
  BY DEF IInv
<1> QED
  BY <1>1, Invariant, PTL

\* The automatic debit of a reopened bank restarts after its complete days.
THEOREM DebitRestarts == Spec => []DebitRestartsAfterCompletion
<1>1. IInv => DebitRestartsAfterCompletion
  BY DEF IInv
<1> QED
  BY <1>1, Invariant, PTL

\* A step that adds a debit to a month is that month's charge.
LEMMA DebitedIsCharged ==
  ASSUME IInv, [Next]_vars, NEW b \in Banks, NEW m \in Months, Debited(b, m)
  PROVE  Charged(b, m)
<1>1. ledger[b].debits \in [Months -> Nat] /\ ledger'[b].debits[m] # ledger[b].debits[m]
  BY DEF IInv, TypeOK, Ledger, Debited
<1>2. Next
  BY <1>1 DEF vars
<1>3. Changed(b)
  BY <1>1, <1>2, StepEffect DEF Midnight, Withdrawn, WithdrawnOn, FallsShort
<1>4. PICK k \in Months : Charged(b, k)
  BY <1>1, <1>3 DEF Changed, Untouched, Kept, Configured, Closed
<1>5. ledger'[b].debits = [ledger[b].debits EXCEPT ![k] = 1]
  BY <1>4 DEF Charged
<1>6. k = m
  BY <1>1, <1>5
<1> QED
  BY <1>4, <1>6

\* A debit posted from a queue computed earlier follows the settings of the
\* moment it is posted.
THEOREM DebitsFollow == Spec => DebitsFollowSettings
<1>1. ASSUME IInv, [Next]_vars, NEW b \in Banks, NEW m \in Months, Debited(b, m)
      PROVE  bank[b].status = "open" /\ bank[b].autoDebit /\ CycleIsDue(bank[b], m, today)
  BY <1>1, DebitedIsCharged DEF Charged, DebitCandidate
<1>2. IInv /\ [Next]_vars =>
        [\A b \in Banks, m \in Months : Debited(b, m) =>
           /\ bank[b].status = "open"
           /\ bank[b].autoDebit
           /\ CycleIsDue(bank[b], m, today)]_vars
  BY <1>1
<1> QED
  BY <1>2, Invariant, PTL DEF Spec, DebitsFollowSettings

\* No debit is ever dated on a day the bank ended complete.
THEOREM CompleteDaysFree == Spec => CompleteDaysNotCharged
<1>1. ASSUME IInv, [Next]_vars, NEW b \in Banks, NEW m \in Months, Debited(b, m)
      PROVE  DueDay(m, bank[b].debitDay) \notin completeDays[b]
  <2> DEFINE due == DueDay(m, bank[b].debitDay)
  <2>1. DebitCandidate(bank[b]) /\ CycleIsDue(bank[b], m, today)
    BY <1>1, DebitedIsCharged DEF Charged
  <2>2. SUFFICES ASSUME due \in completeDays[b] PROVE FALSE
    OBVIOUS
  <2>3. bank[b] \in BankRow
    BY <1>1 DEF IInv, TypeOK
  <2>4. due \in Days /\ bank[b].enabledAt \in Days \cup {Null}
    BY <2>3, DueDayType DEF BankRow
  <2>5. due < bank[b].enabledAt
    BY <1>1, <2>1, <2>2, <2>4 DEF IInv, DebitRestartsAfterCompletion, DebitCandidate
  <2>6. bank[b].enabledAt # Null => bank[b].enabledAt <= due
    BY <2>1 DEF CycleIsDue
  <2> DEFINE restart == bank[b].enabledAt
  <2> HIDE DEF due, restart
  <2>7. due \in Nat /\ due > 0 /\ restart \in Nat
    <3>1. due \in Days /\ restart \in Days \cup {Null}
      BY <2>4 DEF restart
    <3>2. Days \subseteq Nat \ {0}
      BY DaysType
    <3>3. due \in Nat \ {0}
      BY <3>1, <3>2
    <3> QED
      BY <3>1, <3>2, <3>3 DEF Null
  <2>8. due < restart /\ (restart # 0 => restart <= due)
    BY <2>5, <2>6 DEF restart, Null
  <2> QED
    BY <2>7, <2>8
<1>2. IInv /\ [Next]_vars =>
        [\A b \in Banks, m \in Months :
           Debited(b, m) => DueDay(m, bank[b].debitDay) \notin completeDays[b]]_vars
  BY <1>1
<1> QED
  BY <1>2, Invariant, PTL DEF Spec, CompleteDaysNotCharged

-----------------------------------------------------------------------------
(* The completion flag and the goal.                                         *)

\* The flag of b says whether the goal is reached.
FlagFits(b) ==
  bank[b].completedAt # Null <=>
    bank[b].goal # 0 /\ ledger[b].balance >= bank[b].goal

\* Only an edit of the goal of a bank that exists may part flag and goal.
GoalKept(b) == bank[b].status = "absent" \/ bank'[b].goal = bank[b].goal

LEMMA FlagStep ==
  ASSUME IInv, [Next]_vars, NEW b \in Banks, FlagFits(b), GoalKept(b)
  PROVE  FlagFits(b)'
<1>1. /\ bank[b].goal \in Nat /\ ledger[b].balance \in Int
      /\ bank'[b].goal \in Nat /\ ledger'[b].balance \in Int
  BY TypeStep DEF IInv, TypeOK, BankRow, Ledger
<1>2. UNCHANGED <<bank, ledger>> \/ Changed(b) \/ Withdrawn(b)
  BY StepEffect DEF Midnight, vars
<1>3. CASE UNCHANGED <<bank, ledger>> \/ Untouched(b)
  BY <1>3 DEF Untouched, FlagFits
<1>4. ASSUME bank[b].status = "open",
             Tracks(bank[b], ledger[b], bank'[b], ledger'[b]),
             ledger'[b].balance >= ledger[b].balance
      PROVE  FlagFits(b)'
  BY <1>1, <1>4 DEF Tracks, FlagFits
<1>5. CASE \E m \in Months : Charged(b, m)
  BY <1>4, <1>5 DEF Charged, DebitCandidate
<1>6. CASE Kept(bank[b], ledger[b], bank'[b], ledger'[b])
  BY <1>4, <1>6 DEF Kept
<1>7. CASE Configured(b)
  <2>1. CASE bank[b].status = "absent"
    <3>1. ledger'[b].balance = 0 /\ bank'[b].completedAt = Null
      BY <1>7, <2>1 DEF Configured, IInv, AbsentBanksAreEmpty
    <3> QED
      BY <1>1, <3>1 DEF FlagFits
  <2>2. CASE bank[b].status # "absent"
    BY <1>7, <2>2 DEF Configured, GoalKept, FlagFits
  <2> QED
    BY <2>1, <2>2
<1>8. CASE Closed(b)
  BY <1>8 DEF Closed, FlagFits
<1>9. CASE Withdrawn(b)
  <2>1. PICK day \in Days :
    LET reopened == bank[b].goal # 0 /\ ledger'[b].balance < bank[b].goal IN
    /\ ledger'[b].balance <= ledger[b].balance /\ bank'[b].goal = bank[b].goal
    /\ bank'[b].completedAt = (IF reopened THEN Null ELSE bank[b].completedAt)
    BY <1>9 DEF Withdrawn, WithdrawnOn, FallsShort
  <2> QED
    BY <1>1, <2>1 DEF FlagFits
<1> QED
  BY <1>2, <1>3, <1>5, <1>6, <1>7, <1>8, <1>9 DEF Changed

\* Deposits, interest and withdrawals, of however many requests at once, never
\* part the completion flag from the goal: only an edit of the goal does, which
\* writes it without looking at completedAt.
THEOREM OnlyEditsPartFlagAndGoal ==
  Spec => [][\A b \in Banks : FlagFits(b) /\ GoalKept(b) => FlagFits(b)']_vars
<1>1. IInv /\ [Next]_vars =>
        [\A b \in Banks : FlagFits(b) /\ GoalKept(b) => FlagFits(b)']_vars
  BY FlagStep
<1> QED
  BY <1>1, Invariant, PTL DEF Spec

\* A goal that is given when a bank is created, and not edited, is marked
\* complete exactly while it is reached.  With one goal to choose an edit cannot
\* change it; a bank from before has no goal.
THEOREM FlagInStep ==
  ASSUME NEW goal, Goals = {goal}, LegacyBanks = {} \/ goal = 0
  PROVE  Spec => []FlagTracksGoal
<1> DEFINE OneGoal == \A b \in Banks : bank[b].status # "absent" => bank[b].goal = goal
           Inv == IInv /\ FlagTracksGoal /\ OneGoal
<1>1. Init => Inv
  <2>1. SUFFICES ASSUME Init PROVE FlagTracksGoal /\ OneGoal
    BY InitInvariant
  <2> QED
    BY <2>1, InitRows DEF FlagTracksGoal
<1>2. Inv /\ [Next]_vars => Inv'
  <2>1. SUFFICES ASSUME Inv, [Next]_vars PROVE (FlagTracksGoal /\ OneGoal)'
    BY InvariantStep
  <2>2. ASSUME NEW b \in Banks
        PROVE  /\ GoalKept(b)
               /\ bank'[b].status # "absent" => bank'[b].goal = goal
    <3>1. UNCHANGED <<bank, ledger>> \/ Changed(b) \/ Withdrawn(b)
      BY <2>1, StepEffect DEF Midnight, vars
    <3>2. \/ bank'[b] = bank[b]
          \/ bank[b].status # "absent" /\ bank'[b].goal = bank[b].goal
          \/ Configured(b)
          \/ Closed(b)
      BY <3>1 DEF Changed, Untouched, Charged, DebitCandidate, Kept, Tracks,
                  Withdrawn, WithdrawnOn, FallsShort
    <3>3. bank[b].status # "absent" => bank[b].goal = goal
      BY <2>1
    <3>4. CASE Closed(b)
      BY <3>3, <3>4 DEF Closed, GoalKept
    <3>5. CASE Configured(b)
      BY <3>3, <3>5 DEF Configured, GoalKept
    <3> QED
      BY <3>2, <3>3, <3>4, <3>5 DEF GoalKept
  <2>3. ASSUME NEW b \in Banks PROVE FlagFits(b)'
    <3>1. FlagFits(b)
      BY <2>1 DEF FlagTracksGoal, FlagFits
    <3> QED
      BY <2>1, <2>2, <3>1, FlagStep
  <2>4. FlagTracksGoal'
    BY <2>3 DEF FlagTracksGoal, FlagFits
  <2> QED
    BY <2>2, <2>4
<1>3. Inv => FlagTracksGoal
  OBVIOUS
<1> QED
  BY <1>1, <1>2, <1>3, PTL DEF Spec

=============================================================================
