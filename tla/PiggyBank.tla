------------------------------ MODULE PiggyBank ------------------------------
(***************************************************************************)
(* The piggy banks ("cofrinhos") of one user: deposits, withdrawals, the   *)
(* monthly automatic debit, the daily CDI interest and the saving goal.    *)
(*                                                                         *)
(* Every write runs in a transaction that first locks the user's row       *)
(* (withUserWriteLockTransaction), so one transaction is one step here.    *)
(* What is NOT atomic is a request: it reads the candidate banks outside   *)
(* the lock, posts each due automatic debit in a transaction of its own,   *)
(* reads the yielding banks outside the lock, fetches the CDI series,      *)
(* posts the interest in one more transaction and only then applies the    *)
(* operation that was asked for.  Other requests, midnight, a failed       *)
(* transaction or a restart may fall between any two of these steps.       *)
(*                                                                         *)
(* Abstractions.  A civil day is a number, cut into months by MonthEnd; a  *)
(* request is a worker; amounts are whole cents.  Of a bank's ledger the   *)
(* model keeps what the code reads back: its balance, whether it has any   *)
(* row, and the number of automatic debits dated in each month.  The       *)
(* interest of one run is any gain up to MaxGain, posted on any day of its *)
(* range (its arithmetic is another subject).  The correction of a wrong   *)
(* deposit, which skips the catch-up, is not in this module.               *)
(***************************************************************************)
EXTENDS Integers, FiniteSets

CONSTANTS
  Banks,          \* ids a piggy bank of this user may have
  Workers,        \* requests in flight
  NMonths,        \* months of the calendar
  MonthEnd,       \* last day of each month; MonthEnd[0] = 0
  DebitDays,      \* days of the month an automatic debit may be set to
  Goals,          \* goal amounts a user may set; 0 is "no goal"
  Targets,        \* target days of a goal; Null is "no target date"
  Quotas,         \* monthly amounts a user may type in
  Amounts,        \* amounts of manual deposits and withdrawals
  LegacyBanks,    \* banks created before autoDebitEnabledAt existed
  Weekend,        \* days without a CDI rate
  MaxCatchUp,     \* MAX_AUTO_DEBIT_CATCH_UP_CYCLES
  MaxGain,        \* bound: cents of interest one run may post on a bank
  MaxRequests,    \* bound: requests and settings changes in a behaviour
  MidnightRace    \* may midnight fall inside a request?

Null   == 0
Months == 1 .. NMonths
Days   == 1 .. MonthEnd[NMonths]

ASSUME CalendarAssumption ==
  /\ NMonths \in Nat \ {0}
  /\ MonthEnd \in [0 .. NMonths -> Nat]
  /\ MonthEnd[0] = 0
  /\ \A m \in Months : MonthEnd[m - 1] < MonthEnd[m]
  /\ MonthEnd[NMonths] >= 2

ASSUME InputAssumption ==
  /\ Banks # {}
  /\ DebitDays \subseteq Nat \ {0}
  /\ Goals \subseteq Nat
  /\ Targets \subseteq Days \cup {Null}
  /\ Quotas \subseteq Nat \ {0}
  /\ Amounts \subseteq Nat \ {0}
  /\ LegacyBanks \subseteq Banks
  /\ Weekend \subseteq Days
  /\ MaxCatchUp \in Nat \ {0}
  /\ MaxGain \in Nat
  /\ MaxRequests \in Nat
  /\ MidnightRace \in BOOLEAN

VARIABLES
  today,      \* the civil day in Sao Paulo
  bank,       \* bank[b]: the PiggyBank row of b
  ledger,     \* ledger[b]: what its PiggyTransaction rows add up to
  worker,     \* worker[w]: the local state of request w
  requests,   \* requests and settings changes made so far (a bound)
  completeDays   \* history: completeDays[b], days b ended with completedAt set

history == completeDays
vars == <<today, bank, ledger, worker, requests, history>>

-----------------------------------------------------------------------------
(* Rows, requests and cycles. *)

BankRow ==
  [status      : {"absent", "open", "archived", "deleted"},
   createdAt   : Days \cup {Null},
   goal        : Nat,
   target      : Days \cup {Null},
   quota       : Int,                    \* monthlyGoal
   autoDebit   : BOOLEAN,
   debitDay    : Nat \ {0},
   enabledAt   : Days \cup {Null},       \* autoDebitEnabledAt
   yields      : BOOLEAN,                \* yieldEnabled /\ cdiPercent > 0
   through     : Days \cup {Null},       \* interestAccruedThrough
   completedAt : Days \cup {Null}]

Ledger == [balance : Int, moved : BOOLEAN, debits : [Months -> Nat]]

Cycle == [bank : Banks, month : Months, due : Days]

Op == [kind : {"run", "deposit", "withdraw", "yield"},
       bank : Banks, amount : Nat, yields : BOOLEAN]

Worker ==
  [pc     : {"idle", "debits", "accrue", "apply"},
   op     : Op,
   now    : Days,               \* the clock the current phase has read
   queue  : SUBSET Cycle,       \* due cycles not yet attempted
   failed : SUBSET Banks,       \* banks whose automatic debit failed
   series : SUBSET Banks,       \* banks whose CDI series was fetched
   stale  : BOOLEAN]

AbsentRow ==
  [status |-> "absent", createdAt |-> Null, goal |-> 0, target |-> Null,
   quota |-> 0, autoDebit |-> FALSE, debitDay |-> 1, enabledAt |-> Null,
   yields |-> FALSE, through |-> Null, completedAt |-> Null]

EmptyLedger ==
  [balance |-> 0, moved |-> FALSE, debits |-> [m \in Months |-> 0]]

-----------------------------------------------------------------------------
(* The calendar. *)

AtMost(a, b) == IF a <= b THEN a ELSE b
AtLeast(a, b) == IF a >= b THEN a ELSE b

MonthOf(day) == CHOOSE m \in Months : MonthEnd[m - 1] < day /\ day <= MonthEnd[m]

\* The due day of month m: a day past the month's end is its last day.
DueDay(m, debitDay) == AtMost(MonthEnd[m - 1] + debitDay, MonthEnd[m])

-----------------------------------------------------------------------------
(* The automatic-debit schedule. *)

\* A cycle is due once its day came, never on or before the creation day, and
\* never before the day automatic debit was last switched on.
CycleIsDue(row, m, now) ==
  LET due == DueDay(m, row.debitDay) IN
  /\ now >= due
  /\ row.createdAt < due
  /\ row.enabledAt # Null => row.enabledAt <= due

DueMonths(row, now) == {m \in Months : CycleIsDue(row, m, now)}

\* Faulty variant: only the current month's cycle, no back-fill.
ListDueCyclesThisMonth(b, now) ==
  {[bank |-> b, month |-> m, due |-> DueDay(m, bank[b].debitDay)] :
     m \in DueMonths(bank[b], now) \cap {MonthOf(now)}}

\* Oldest first, and only the newest MaxCatchUp of them.
ListDueCycles(b, now) ==
  LET due == DueMonths(bank[b], now) IN
  {[bank |-> b, month |-> m, due |-> DueDay(m, bank[b].debitDay)] :
     m \in {k \in due : Cardinality({l \in due : l >= k}) <= MaxCatchUp}}

\* Faulty variant: the recheck only compares the day.
StillDueByDay(c, row, now) == DueDay(c.month, row.debitDay) = c.due

\* The recheck under the lock: the queued cycle, with its exact day, is still
\* what the current row prescribes.
StillDue(c, row, now) ==
  /\ CycleIsDue(row, c.month, now)
  /\ DueDay(c.month, row.debitDay) = c.due

\* Faulty variant: the first debit of the month is not counted.
HasAnotherAutoDebitIn(l, m) == l.debits[m] > 1

HasAutoDebitIn(l, m) == l.debits[m] > 0

\* Faulty variant: whether the bank is still open is not asked.
DebitCandidateAnyStatus(row) == row.autoDebit /\ row.completedAt = Null

DebitCandidate(row) ==
  row.status = "open" /\ row.autoDebit /\ row.completedAt = Null

-----------------------------------------------------------------------------
(* The goal. *)

Remaining(row, balance) == row.goal - balance

\* Faulty variant: this month's payment counts even when it was made or missed.
MonthsUntilTargetAll(row, from, paid) ==
  AtLeast(1, MonthOf(row.target) - MonthOf(from) + 1)

\* Payments left until the target day: with automatic debit, only the future
\* scheduled ones.
MonthsUntilTarget(row, from, paid) ==
  LET all    == MonthOf(row.target) - MonthOf(from) + 1
      missed == IF paid \/ from > DueDay(MonthOf(from), row.debitDay)
                THEN 1 ELSE 0
      beyond == IF row.target < DueDay(MonthOf(row.target), row.debitDay)
                THEN 1 ELSE 0
  IN  IF row.autoDebit /\ all > 0
      THEN AtLeast(1, all - missed - beyond)
      ELSE AtLeast(1, all)

\* computeMonthlyGoal: what is left over the payments left, half up to cents.
MonthlyGoal(row, l, from) ==
  IF Remaining(row, l.balance) <= 0 THEN 0
  ELSE LET n == MonthsUntilTarget(row, from, HasAutoDebitIn(l, MonthOf(from)))
       IN  (2 * Remaining(row, l.balance) + n) \div (2 * n)

Planned(row) == row.goal # 0 /\ row.target # Null

\* Only a goal with a target date has its monthly amount recomputed.
Requota(row, l, from) ==
  IF Planned(row) THEN [row EXCEPT !.quota = MonthlyGoal(row, l, from)] ELSE row

-----------------------------------------------------------------------------
(* Initial state: a bank is absent, or a row from before the column           *)
(* autoDebitEnabledAt: automatic debit is on and the column is null.          *)

LegacyRow(day, quota) ==
  [AbsentRow EXCEPT !.status = "open", !.createdAt = 1, !.quota = quota,
                    !.autoDebit = TRUE, !.debitDay = day]

Idle ==
  [pc |-> "idle", now |-> 1, queue |-> {}, failed |-> {}, series |-> {},
   stale |-> FALSE,
   op |-> [kind |-> "run", bank |-> CHOOSE b \in Banks : TRUE,
           amount |-> 0, yields |-> FALSE]]

Init ==
  /\ today = 2
  /\ bank \in [Banks -> {AbsentRow} \cup
                        {LegacyRow(d, q) : d \in DebitDays, q \in Quotas}]
  /\ \A b \in Banks : bank[b].status = "open" <=> b \in LegacyBanks
  /\ ledger = [b \in Banks |-> EmptyLedger]
  /\ worker = [w \in Workers |-> Idle]
  /\ requests = 0
  /\ completeDays = [b \in Banks |-> {}]

-----------------------------------------------------------------------------
(* A request, first phase: the automatic debits.                             *)

\* The banks are read before any lock; their cycles are queued.
Begin(w, op) ==
  /\ worker[w].pc = "idle"
  /\ requests' = IF op.kind = "run" THEN requests ELSE requests + 1
  /\ requests' <= MaxRequests
  /\ worker' = [worker EXCEPT ![w] =
       [Idle EXCEPT !.pc = "debits", !.op = op, !.now = today,
          !.queue = UNION {ListDueCycles(b, today) :
                             b \in {x \in Banks : DebitCandidate(bank[x])}}]]
  /\ UNCHANGED <<today, bank, ledger, history>>

\* Cycles of one bank run oldest first; banks are independent rows.
NextCycles(w) ==
  {c \in worker[w].queue :
     \A d \in worker[w].queue : d.bank = c.bank => c.month <= d.month}

OfBank(w, b) == {c \in worker[w].queue : c.bank = b}

\* Outcome 'stop': the bank no longer qualifies, its other cycles are dropped.
StopDebits(w, c) ==
  LET row == bank[c.bank] IN
  /\ \/ ~DebitCandidate(row)
     \/ row.quota <= 0
     \/ /\ StillDue(c, row, worker[w].now)
        /\ ~HasAutoDebitIn(ledger[c.bank], c.month)
        /\ row.goal # 0
        /\ Remaining(row, ledger[c.bank].balance) <= 0
  /\ worker' = [worker EXCEPT ![w].queue = @ \ OfBank(w, c.bank)]
  /\ UNCHANGED <<today, bank, ledger, requests, history>>

\* Outcome 'skipped': rescheduled meanwhile, or already debited this month.
SkipCycle(w, c) ==
  LET row == bank[c.bank] IN
  /\ DebitCandidate(row)
  /\ row.quota > 0
  /\ \/ ~StillDue(c, row, worker[w].now)
     \/ HasAutoDebitIn(ledger[c.bank], c.month)
  /\ worker' = [worker EXCEPT ![w].queue = @ \ {c}]
  /\ UNCHANGED <<today, bank, ledger, requests, history>>

\* What a deposit of amount, dated day, makes of the row: it completes the
\* goal it reaches, and the monthly amount follows.
AfterDeposit(row, l, day) ==
  Requota([row EXCEPT !.completedAt =
             IF row.goal # 0 /\ l.balance >= row.goal /\ row.completedAt = Null
             THEN day ELSE @], l, today)

\* A deposit is clamped to what the goal still lacks.
Clamp(row, l, amount) ==
  IF row.goal = 0 THEN amount
  ELSE AtMost(amount, Remaining(row, l.balance))

\* Outcome 'created': the debit is posted, dated on its due day.
PostDebit(w, c) ==
  LET b   == c.bank
      row == bank[b]
      l   == [ledger[b] EXCEPT !.balance = @ + Clamp(row, ledger[b], row.quota),
                               !.moved = TRUE, !.debits[c.month] = @ + 1]
  IN
  /\ DebitCandidate(row)
  /\ row.quota > 0
  /\ StillDue(c, row, worker[w].now)
  /\ ~HasAutoDebitIn(ledger[b], c.month)
  /\ row.goal # 0 => Remaining(row, ledger[b].balance) > 0
  /\ ledger' = [ledger EXCEPT ![b] = l]
  /\ bank' = [bank EXCEPT ![b] = AfterDeposit(row, l, c.due)]
  /\ worker' = [worker EXCEPT ![w].queue = @ \ {c}]
  /\ UNCHANGED <<today, requests, history>>

\* Faulty variant: a failed debit does not keep the bank out of the round.
FailDebitForgotten(w, c) ==
  /\ worker' = [worker EXCEPT ![w].queue = @ \ OfBank(w, c.bank),
                              ![w].stale = TRUE]
  /\ UNCHANGED <<today, bank, ledger, requests, history>>

\* The cycle's transaction fails: the bank is left alone for this round.
FailDebit(w, c) ==
  /\ worker' = [worker EXCEPT ![w].queue  = @ \ OfBank(w, c.bank),
                              ![w].failed = @ \cup {c.bank},
                              ![w].stale  = TRUE]
  /\ UNCHANGED <<today, bank, ledger, requests, history>>

DebitCycle(w) ==
  /\ worker[w].pc = "debits"
  /\ \E c \in NextCycles(w) :
       StopDebits(w, c) \/ SkipCycle(w, c) \/ PostDebit(w, c) \/ FailDebit(w, c)

-----------------------------------------------------------------------------
(* Second phase: the CDI interest.                                           *)

LastCompletedWeekday(now) ==
  LET past == {d \in Days \ Weekend : d < now} IN
  IF past = {} THEN Null ELSE CHOOSE d \in past : \A e \in past : e <= d

StartDay(row) == IF row.through # Null THEN row.through + 1 ELSE row.createdAt

Yielding(row, now) ==
  /\ row.status = "open"
  /\ row.yields
  /\ StartDay(row) <= LastCompletedWeekday(now)

\* Outside the lock: which banks yield, and whose series could be fetched.
FetchSeries(w) ==
  LET asked == {b \in Banks \ worker[w].failed : Yielding(bank[b], today)} IN
  /\ worker[w].pc = "debits"
  /\ worker[w].queue = {}
  /\ \E got \in SUBSET asked, old \in BOOLEAN :
       /\ old => got # {}
       /\ worker' = [worker EXCEPT ![w].pc = "accrue", ![w].now = today,
                                   ![w].series = got,
                                   ![w].stale = @ \/ old \/ got # asked]
  /\ UNCHANGED <<today, bank, ledger, requests, history>>

\* What follows the catch-up: nothing, a refusal (stale), or the operation.
AfterCatchUp(w, stale) ==
  IF worker[w].op.kind = "run" \/ stale THEN Idle
  ELSE [worker[w] EXCEPT !.pc = "apply", !.now = today,
                         !.series = {}, !.failed = {}]

\* The days a run may post interest on, from the row as it is under the lock.
PostingDays(row, now) ==
  {d \in Days \ Weekend : StartDay(row) <= d /\ d <= LastCompletedWeekday(now)}

\* Faulty variant: interest that reaches the goal does not complete it.
AfterInterestUncompleted(row, l, gain, last, now) ==
  LET next == [row EXCEPT !.through = last]
  IN IF gain > 0 THEN Requota(next, l, now) ELSE next

\* A run posts gain cents up to day last; with no cent posted the row may
\* still advance (to a day whose carry is zero) or stay where it is.  Of
\* completedAt only its presence is ever read back, so the posting that
\* reaches the goal is dated last.
AfterInterest(row, l, gain, last, now) ==
  LET next == [row EXCEPT !.through = last,
                 !.completedAt = IF gain > 0 /\ row.goal # 0
                                    /\ l.balance >= row.goal /\ @ = Null
                                 THEN last ELSE @]
  IN IF gain > 0 THEN Requota(next, l, now) ELSE next

Credited(l, gain) ==
  [l EXCEPT !.balance = @ + gain, !.moved = @ \/ gain > 0]

Accrue(w) ==
  LET now  == worker[w].now
      open == {b \in worker[w].series : Yielding(bank[b], now)}
  IN
  /\ worker[w].pc = "accrue"
  /\ \E gain \in [open -> 0 .. MaxGain], last \in [open -> Days \cup {Null}] :
       /\ \A b \in open :
            /\ gain[b] > 0 => ledger[b].moved
            /\ \/ last[b] \in PostingDays(bank[b], now)
               \/ gain[b] = 0 /\ last[b] = bank[b].through
       /\ ledger' = [b \in Banks |->
            IF b \in open THEN Credited(ledger[b], gain[b]) ELSE ledger[b]]
       /\ bank' = [b \in Banks |->
            IF b \in open
            THEN AfterInterest(bank[b], Credited(ledger[b], gain[b]), gain[b], last[b], now)
            ELSE bank[b]]
  /\ worker' = [worker EXCEPT ![w] = AfterCatchUp(w, worker[w].stale)]
  /\ UNCHANGED <<today, requests, history>>

\* The interest transaction fails: nothing is posted, the request is refused.
FailAccrue(w) ==
  /\ worker[w].pc = "accrue"
  /\ worker' = [worker EXCEPT ![w] = AfterCatchUp(w, TRUE)]
  /\ UNCHANGED <<today, bank, ledger, requests, history>>

-----------------------------------------------------------------------------
(* Third phase: the operation itself, in its own transaction.                *)

\* A refused operation (wrong state, balance or goal) changes nothing.
Refuse(w) ==
  /\ worker[w].pc = "apply"
  /\ worker' = [worker EXCEPT ![w] = Idle]
  /\ UNCHANGED <<today, bank, ledger, requests, history>>

Deposit(w) ==
  LET b   == worker[w].op.bank
      row == bank[b]
      l   == [ledger[b] EXCEPT
                !.balance = @ + Clamp(row, ledger[b], worker[w].op.amount),
                !.moved = TRUE]
  IN
  /\ worker[w].pc = "apply"
  /\ worker[w].op.kind = "deposit"
  /\ row.status = "open"
  /\ row.goal # 0 => Remaining(row, ledger[b].balance) > 0
  /\ ledger' = [ledger EXCEPT ![b] = l]
  /\ bank' = [bank EXCEPT ![b] = AfterDeposit(row, l, today)]
  /\ worker' = [worker EXCEPT ![w] = Idle]
  /\ UNCHANGED <<today, requests, history>>

\* Faulty variant: reopening does not restart the automatic debit.
AfterWithdrawalUnrestarted(row, l, day) ==
  Requota([row EXCEPT
             !.completedAt = IF row.goal # 0 /\ l.balance < row.goal
                             THEN Null ELSE @], l, today)

\* A withdrawal that takes a bank below its goal reopens it, and automatic
\* debit resumes on the withdrawal's day, read before the lock was taken.
AfterWithdrawal(row, l, day) ==
  LET reopened == row.goal # 0 /\ l.balance < row.goal IN
  Requota([row EXCEPT
             !.completedAt = IF reopened THEN Null ELSE @,
             !.enabledAt = IF row.autoDebit /\ row.completedAt # Null /\ reopened
                           THEN day ELSE @], l, today)

\* For the history: the day a withdrawal reopens did not end complete.
Reopened(row, l, day) == IF row.goal # 0 /\ l.balance < row.goal THEN {day} ELSE {}

\* Faulty variant: only asks whether there is a balance at all.
CanWithdrawSomething(l, amount) == l.balance > 0

CanWithdraw(l, amount) == amount <= l.balance

Withdraw(w) ==
  LET b   == worker[w].op.bank
      row == bank[b]
      l   == [ledger[b] EXCEPT !.balance = @ - worker[w].op.amount, !.moved = TRUE]
      new == AfterWithdrawal(row, l, worker[w].now)
  IN
  /\ worker[w].pc = "apply"
  /\ worker[w].op.kind = "withdraw"
  /\ row.status = "open"
  /\ CanWithdraw(ledger[b], worker[w].op.amount)
  /\ ledger' = [ledger EXCEPT ![b] = l]
  /\ bank' = [bank EXCEPT ![b] = new]
  /\ completeDays' = [completeDays EXCEPT ![b] = @ \ Reopened(row, l, worker[w].now)]
  /\ worker' = [worker EXCEPT ![w] = Idle]
  /\ UNCHANGED <<today, requests>>

\* The monthly amount: computed for a goal with a target date (and 0 while
\* automatic debit is off without one), the amount typed in otherwise.
ResolvedQuota(row, l, typed) ==
  IF Planned(row) THEN MonthlyGoal(row, l, today)
  ELSE IF row.autoDebit THEN typed ELSE 0

\* When yield becomes effective, interest starts today.
AccruedThrough(row, yields) ==
  IF ~row.yields /\ yields THEN today - 1 ELSE row.through

SetYield(w) ==
  LET b   == worker[w].op.bank
      row == bank[b]
      new == [row EXCEPT !.yields = worker[w].op.yields,
                         !.through = AccruedThrough(row, worker[w].op.yields)]
  IN
  /\ worker[w].pc = "apply"
  /\ worker[w].op.kind = "yield"
  /\ row.status = "open"
  /\ row.autoDebit /\ ~Planned(row) => row.quota > 0
  /\ bank' = [bank EXCEPT ![b] =
                [new EXCEPT !.quota = ResolvedQuota(new, ledger[b], row.quota)]]
  /\ worker' = [worker EXCEPT ![w] = Idle]
  /\ UNCHANGED <<today, ledger, requests, history>>

-----------------------------------------------------------------------------
(* Single-transaction operations, and the environment.                       *)

\* Off clears the day, staying on keeps it, switching on sets it to today.
NextEnabledAt(row, autoDebit) ==
  IF ~autoDebit THEN Null
  ELSE IF row.autoDebit THEN row.enabledAt ELSE today

FutureTargets == {t \in Targets : t = Null \/ t >= today}

Create(b, goal, target, autoDebit, day, typed, yields) ==
  LET row == [AbsentRow EXCEPT !.status = "open", !.createdAt = today,
                !.goal = goal, !.target = target, !.autoDebit = autoDebit,
                !.debitDay = IF autoDebit THEN day ELSE 1,
                !.enabledAt = IF autoDebit THEN today ELSE Null,
                !.yields = yields]
  IN
  /\ bank[b].status = "absent"
  /\ requests < MaxRequests
  /\ requests' = requests + 1
  /\ bank' = [bank EXCEPT ![b] =
                [row EXCEPT !.quota = ResolvedQuota(row, EmptyLedger, typed)]]
  /\ UNCHANGED <<today, ledger, worker, history>>

\* An edit that leaves the yield settings alone: no catch-up comes first.
\* It writes the goal but never completedAt.
UpdateSettings(b, goal, target, autoDebit, day, typed) ==
  LET row == bank[b]
      new == [row EXCEPT !.goal = goal, !.target = target,
                         !.autoDebit = autoDebit, !.debitDay = day,
                         !.enabledAt = NextEnabledAt(row, autoDebit)]
  IN
  /\ row.status = "open"
  /\ requests < MaxRequests
  /\ requests' = requests + 1
  /\ autoDebit /\ ~Planned(new) => typed > 0
  /\ bank' = [bank EXCEPT ![b] =
                [new EXCEPT !.quota = ResolvedQuota(new, ledger[b], typed)]]
  /\ UNCHANGED <<today, ledger, worker, history>>

Archive(b) ==
  /\ bank[b].status = "open"
  /\ ledger[b].balance <= 0
  /\ bank' = [bank EXCEPT ![b].status = "archived"]
  /\ UNCHANGED <<today, ledger, worker, requests, history>>

Delete(b) ==
  /\ bank[b].status \in {"open", "archived"}
  /\ ~ledger[b].moved
  /\ bank' = [bank EXCEPT ![b].status = "deleted"]
  /\ UNCHANGED <<today, ledger, worker, requests, history>>

\* A restart, a lost connection: the rest of the request never happens.
Abandon(w) ==
  /\ worker[w].pc # "idle"
  /\ worker' = [worker EXCEPT ![w] = Idle]
  /\ UNCHANGED <<today, bank, ledger, requests, history>>

\* No phase lasts a day (a transaction waits 10s and runs 60s at most, a fetch
\* has its timeout), so a phase that read the clock sees at most one midnight.
Midnight ==
  /\ today + 1 \in Days
  /\ \A w \in Workers :
       worker[w].pc # "idle" => MidnightRace /\ worker[w].now = today
  /\ today' = today + 1
  /\ completeDays' = [b \in Banks |->
       IF bank[b].completedAt # Null
       THEN completeDays[b] \cup {today} ELSE completeDays[b]]
  /\ UNCHANGED <<bank, ledger, worker, requests>>

-----------------------------------------------------------------------------

Run(w) == Begin(w, Idle.op)

Known == {b \in Banks : bank[b].status # "absent"}

Ask(w) == \E b \in Known, kind \in {"deposit", "withdraw"}, a \in Amounts :
  Begin(w, [kind |-> kind, bank |-> b, amount |-> a, yields |-> FALSE])

AskYield(w) == \E b \in Known, y \in BOOLEAN :
  Begin(w, [kind |-> "yield", bank |-> b, amount |-> 0, yields |-> y])

Configure(b) ==
  \E goal \in Goals, target \in FutureTargets \cup {bank[b].target},
     autoDebit \in BOOLEAN, day \in DebitDays \cup {bank[b].debitDay} :
    \/ \E typed \in Quotas, yields \in BOOLEAN :
         /\ target \in FutureTargets
         /\ Create(b, goal, target, autoDebit, day, typed, yields)
    \/ \E typed \in Quotas \cup {bank[b].quota} :
         UpdateSettings(b, goal, target, autoDebit, day, typed)

Step(w) ==
  \/ DebitCycle(w) \/ FetchSeries(w) \/ Accrue(w) \/ FailAccrue(w)
  \/ Deposit(w) \/ Withdraw(w) \/ SetYield(w) \/ Refuse(w)

Next ==
  \/ \E w \in Workers : Run(w) \/ Ask(w) \/ AskYield(w) \/ Step(w) \/ Abandon(w)
  \/ \E b \in Banks : Configure(b) \/ Archive(b) \/ Delete(b)
  \/ Midnight

Spec == Init /\ [][Next]_vars

-----------------------------------------------------------------------------
(* Correctness.                                                              *)

\* Every variable has its type; day 1 lies before the behaviour.
TypeOK ==
  /\ today \in Days \ {1}
  /\ bank \in [Banks -> BankRow]
  /\ ledger \in [Banks -> Ledger]
  /\ worker \in [Workers -> Worker]
  /\ requests \in 0 .. MaxRequests
  /\ completeDays \in [Banks -> SUBSET Days]

\* However many requests catch up at once, and however the debit day is moved
\* in between, a bank is debited automatically at most once in a month.
OneDebitPerMonth ==
  \A b \in Banks, m \in Months : ledger[b].debits[m] <= 1

\* No interleaving of withdrawals takes a bank below zero.
NeverOverdrawn == \A b \in Banks : ledger[b].balance >= 0

\* A request that read a bank before it was closed posts nothing on it after:
\* an archived bank stays empty and a deleted one never had a movement.
ClosedBanksAreFrozen ==
  \A b \in Banks :
    /\ bank[b].status = "archived" => ledger[b].balance = 0
    /\ bank[b].status \in {"absent", "deleted"} => ~ledger[b].moved

Debited(b, m) == ledger'[b].debits[m] > ledger[b].debits[m]

\* A debit posted from a queue computed earlier still follows the settings of
\* the moment: the bank is open with automatic debit on, and the day is due,
\* after the creation and not before automatic debit was switched on.
DebitsFollowSettings ==
  [][\A b \in Banks, m \in Months : Debited(b, m) =>
       /\ bank[b].status = "open"
       /\ bank[b].autoDebit
       /\ CycleIsDue(bank[b], m, today)]_vars

\* The months a bank spent complete are never charged afterwards: no debit is
\* dated on a day that ended with completedAt set.
CompleteDaysNotCharged ==
  [][\A b \in Banks, m \in Months :
       Debited(b, m) => DueDay(m, bank[b].debitDay) \notin completeDays[b]]_vars

\* Whenever a complete bank is reopened its automatic debit restarts after all
\* the days it ended complete, so that no back-fill can reach one of them.
DebitRestartsAfterCompletion ==
  \A b \in Banks, d \in Days :
    /\ d \in completeDays[b] => d < today
    /\ d \in completeDays[b] /\ bank[b].autoDebit /\ bank[b].completedAt = Null
         => d < bank[b].enabledAt

\* While goals are not edited, the completion flag is exactly "the goal is
\* reached": deposits, interest and withdrawals keep the two in step.
FlagTracksGoal ==
  \A b \in Banks :
    bank[b].completedAt # Null <=>
      bank[b].goal # 0 /\ ledger[b].balance >= bank[b].goal

\* A cycle the bank owes: scheduled by the current row, and not posted.
Owes(b, m) ==
  /\ DebitCandidate(bank[b])
  /\ bank[b].quota > 0
  /\ bank[b].goal # 0 => Remaining(bank[b], ledger[b].balance) > 0
  /\ CycleIsDue(bank[b], m, today)
  /\ ~HasAutoDebitIn(ledger[b], m)

\* Interest never runs past a debit that is owed: a bank whose debit failed or
\* was not reached is left out of the round.
InterestWaitsForDebits ==
  [][\A b \in Banks, m \in Months :
       (\E w \in Workers : Accrue(w)) /\ Owes(b, m)
         /\ bank[b].through < DueDay(m, bank[b].debitDay) =>
       bank'[b].through < DueDay(m, bank[b].debitDay)]_vars

\* Automatic debit alone brought bank b's planned goal to its amount by the
\* target day, once every scheduled payment up to that day was posted.
PlanIsMet(b) ==
  LET row == bank[b]
      payments == {m \in Months : row.createdAt < DueDay(m, row.debitDay)
                                  /\ DueDay(m, row.debitDay) <= row.target}
  IN  DebitCandidate(row) /\ Planned(row) /\ payments # {} =>
        \/ today <= row.target
        \/ \E m \in payments : ~HasAutoDebitIn(ledger[b], m)
        \/ Remaining(row, ledger[b].balance) <= 0

\* Automatic debit alone brings a planned goal to its amount by the target
\* day; a bank created on its own debit day plans a payment too few.
OtherPlannedGoalsAreMet ==
  \A b \in Banks :
    (\A m \in Months : bank[b].createdAt # DueDay(m, bank[b].debitDay)) => PlanIsMet(b)

-----------------------------------------------------------------------------
(* Liveness.  The app asks for a catch-up whenever it is opened, so it is     *)
(* assumed that catch-ups keep coming; a step of a request is taken unless    *)
(* the request dies; and the transaction of one month's debit does not fail,  *)
(* nor is its request cut short before it, for ever.                          *)

Settle(w, b, m) ==
  /\ worker[w].pc = "debits"
  /\ \E c \in NextCycles(w) :
       /\ c.bank = b /\ c.month = m
       /\ StopDebits(w, c) \/ SkipCycle(w, c) \/ PostDebit(w, c)

Fairness == \A w \in Workers :
  /\ WF_vars(Run(w)) /\ WF_vars(Step(w))
  /\ \A b \in Banks, m \in Months : SF_vars(Settle(w, b, m))

FairSpec == Spec /\ Fairness

\* Every debit that is owed is eventually posted, or ceases to be owed,
\* whatever failed or was missed before.
DueDebitsSettle ==
  \A b \in Banks, m \in Months : Owes(b, m) ~> ~Owes(b, m)

=============================================================================
