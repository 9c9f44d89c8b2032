------------------------------- MODULE Income -------------------------------
(****************************************************************************)
(* Income: manual entries, whose one-off kind is received by an explicit    *)
(* confirmation, and the monthly salary, which the profile keeps.           *)
(*                                                                          *)
(* A confirmation carries the version (updatedAt, in ms) of the entry the   *)
(* browser showed.  It may reach the server late, and more than once.       *)
(* Every handler is one transaction under the user's write lock, hence one  *)
(* action; a refused request changes nothing and has no action.             *)
(* Names, notes, tags and the receive day are left out.                     *)
(****************************************************************************)
EXTENDS Naturals, FiniteSets

CONSTANTS
  Entries,      \* manual entries that may be created
  Amounts,      \* what an entry may be worth, in cents
  Levels,       \* what the salary may be; 0 is none
  LastDay,      \* the behaviour ends on this day
  DaysPerMonth,
  MaxMs,        \* milliseconds that may pass
  MaxRequests,  \* distinct confirmations a browser may send
  LegacySalary, \* may a salary entry from before the versions exist at first?
  Null

ASSUME IncomeAssumption ==
  /\ Amounts \subseteq Nat
  /\ Levels \subseteq Nat
  /\ LastDay \in Nat \ {0} /\ DaysPerMonth \in Nat \ {0}
  /\ MaxMs \in Nat /\ MaxRequests \in Nat
  /\ LegacySalary \in BOOLEAN
  /\ Null \notin Nat

VARIABLES
  today,    \* the civil day in Sao Paulo
  clock,    \* the server's clock, in ms
  entry,    \* the manual entries
  receipt,  \* their rows of EntryReceipt: at most one per entry and month
  sent,     \* the confirmations browsers sent; each may arrive again
  salary    \* the salary entry with its versions, receipts and holds

vars == <<today, clock, entry, receipt, sent, salary>>
oneOffs == <<entry, receipt, sent>>

Days == 1 .. LastDay
MonthOf(d) == (d - 1) \div DaysPerMonth + 1
Months == 1 .. MonthOf(LastDay)
CurrentMonth == MonthOf(today)
Versions == Nat

EntryRow == [status: {"absent", "open", "archived"},
             frequency: {"unica", "mensal"},
             amount: Amounts \cup {0}, updatedAt: Versions]
Receipt == [day: Days, amount: Amounts]
Receipts == [Months -> Receipt \cup {Null}]

\* What a confirmation asks for, and what the user saw when sending it.
Confirmation ==
  [entry: Entries, month: Months, state: {"received", "waiting"},
   receivedOn: Days \cup {Null}, expectedUpdatedAt: Versions,
   seen: [entry: EntryRow, receipt: Receipts]]

SalaryRow ==
  [exists: BOOLEAN, amount: Levels \cup {0}, endsIn: Months \cup {0, Null},
   versions: [Months -> Levels \cup {0, Null}],
   receipts: [Months -> Levels \cup {0, Null}], holds: SUBSET Months,
   receivedForMonth: Months \cup {Null}, receiptHoldForMonth: Months \cup {Null}]

Nothing == [m \in Months |-> Null]
Received(e) == {m \in Months : receipt[e][m] # Null}

-----------------------------------------------------------------------------
(* Initial state: no entries; no salary yet, or a salary entry whose months   *)
(* have no version.                                                          *)

NoSalary ==
  [exists |-> FALSE, amount |-> 0, endsIn |-> Null, versions |-> Nothing,
   receipts |-> Nothing, holds |-> {},
   receivedForMonth |-> Null, receiptHoldForMonth |-> Null]

Init ==
  /\ today = 1
  /\ clock = 0
  /\ entry = [e \in Entries |-> [status |-> "absent", frequency |-> "unica",
                                 amount |-> 0, updatedAt |-> 0]]
  /\ receipt = [e \in Entries |-> Nothing]
  /\ sent = {}
  /\ \/ salary = NoSalary
     \/ /\ LegacySalary
        /\ \E l \in Levels \ {0} :
             salary = [NoSalary EXCEPT !.exists = TRUE, !.amount = l]

-----------------------------------------------------------------------------
(* Manual entries.                                                           *)

CreateEntry(e, frequency, amount) ==
  /\ entry[e].status = "absent"
  /\ entry' = [entry EXCEPT ![e] =
                 [status |-> "open", frequency |-> frequency,
                  amount |-> amount, updatedAt |-> clock]]
  /\ UNCHANGED <<today, clock, receipt, sent, salary>>

\* A finance operation of an assistant creates an entry with its receipt.
CreateReceivedEntry(e, amount, day) ==
  /\ entry[e].status = "absent"
  /\ day <= today
  /\ entry' = [entry EXCEPT ![e] =
                 [status |-> "open", frequency |-> "unica",
                  amount |-> amount, updatedAt |-> clock]]
  /\ receipt' = [receipt EXCEPT ![e][MonthOf(day)] = [day |-> day, amount |-> amount]]
  /\ UNCHANGED <<today, clock, sent, salary>>

\* Faulty variant: a received one-off may become a recurring entry.
FrequencyMayAlwaysChange(e, next) == TRUE

\* A recorded one-off receipt cannot be turned into a recurring obligation.
FrequencyMayChange(e, next) ==
  entry[e].frequency = "unica" /\ next # "unica" => Received(e) = {}

\* An edit stamps the row with the clock as it is; that no edit falls into
\* the millisecond of the row's last change is assumed.
UpdateEntry(e, frequency, amount) ==
  /\ entry[e].status = "open"
  /\ FrequencyMayChange(e, frequency)
  /\ clock > entry[e].updatedAt
  /\ entry' = [entry EXCEPT ![e].frequency = frequency, ![e].amount = amount,
                            ![e].updatedAt = clock]
  /\ UNCHANGED <<today, clock, receipt, sent, salary>>

ArchiveEntry(e) ==
  /\ entry[e].status = "open"
  /\ entry' = [entry EXCEPT ![e].status = "archived", ![e].updatedAt = clock]
  /\ UNCHANGED <<today, clock, receipt, sent, salary>>

-----------------------------------------------------------------------------
(* Confirming a one-off entry.                                               *)

\* The user confirms, or takes back, what the page shows.
Ask(e, month, state, day) ==
  LET c == [entry |-> e, month |-> month, state |-> state, receivedOn |-> day,
            expectedUpdatedAt |-> entry[e].updatedAt,
            seen |-> [entry |-> entry[e], receipt |-> receipt[e]]] IN
  /\ entry[e].status = "open"
  /\ IF state = "received" THEN day \in Days /\ month = MonthOf(day) /\ day <= today
                           ELSE day = Null
  /\ c \in sent \/ Cardinality(sent) < MaxRequests
  /\ sent' = sent \cup {c}
  /\ UNCHANGED <<today, clock, entry, receipt, salary>>

\* Faulty variant: the version is the clock, be it the same millisecond.
NextUpdatedAtByClock(e) == clock

\* max(Date.now(), updatedAt + 1): strictly newer than every earlier version.
NextUpdatedAt(e) ==
  IF clock > entry[e].updatedAt THEN clock ELSE entry[e].updatedAt + 1

\* A current request is refused when a receipt is recorded that it does not
\* name: of another month or, to be recorded again, of another day.
SameReceiptOrNone(e, c) ==
  \A m \in Received(e) :
    m = c.month /\ (c.state = "received" => receipt[e][m].day = c.receivedOn)

\* The entry as the request expects it: open, one-off, and not changed since.
IsCurrent(e, c) ==
  /\ entry[e].status = "open"
  /\ entry[e].frequency = "unica"
  /\ entry[e].updatedAt = c.expectedUpdatedAt

\* A request that is current takes effect; the version moves on only when a
\* receipt was made or removed.  A stale one is answered from the rows when
\* they already show its exact effect and refused otherwise: it writes nothing.
SetReceiptState(c) ==
  LET e       == c.entry
      changes == (c.state = "received") = (Received(e) = {})
  IN
  /\ IsCurrent(e, c)
  /\ SameReceiptOrNone(e, c)
  /\ changes
  /\ receipt' = [receipt EXCEPT ![e][c.month] =
       IF c.state = "received"
       THEN IF @ = Null THEN [day |-> c.receivedOn, amount |-> entry[e].amount] ELSE @
       ELSE Null]
  /\ entry' = [entry EXCEPT ![e].updatedAt = NextUpdatedAt(e)]
  /\ UNCHANGED <<today, clock, sent, salary>>

-----------------------------------------------------------------------------
(* The salary.                                                               *)

\* The version in force in month m: the latest one not after it.
RateIn(s, m) ==
  LET known == {k \in Months : k <= m /\ s.versions[k] # Null} IN
  IF known = {} THEN Null
  ELSE s.versions[CHOOSE k \in known : \A l \in known : l <= k]

\* A salary entry from before the versions gets one for its first month.
WithBaseline(s) ==
  IF s.versions = Nothing THEN [s EXCEPT !.versions[1] = s.amount] ELSE s

\* Faulty variant: ending the salary leaves no version behind.
WithSalaryEndedSilently(s, level, m) ==
  IF level > 0
  THEN [WithBaseline(s) EXCEPT !.amount = level, !.endsIn = Null, !.versions[m] = level]
  ELSE [WithBaseline(s) EXCEPT !.amount = 0, !.endsIn = m - 1]

\* A salary takes effect in the month it is set; 0 ends it with the month
\* before, and later a raise opens it again.
WithSalary(s, level, m) ==
  [WithBaseline(s) EXCEPT
     !.amount = level, !.versions[m] = level,
     !.endsIn = IF level > 0 THEN Null ELSE m - 1]

UpdateProfile(level) ==
  /\ \/ /\ salary.exists
        /\ salary' = WithSalary(salary, level, CurrentMonth)
     \/ /\ ~salary.exists
        /\ level > 0
        /\ salary' = [NoSalary EXCEPT !.exists = TRUE, !.amount = level,
                                      !.versions[CurrentMonth] = level]
  /\ UNCHANGED <<today, clock, oneOffs>>

HoldsAfter(s, m, state) ==
  IF state = "waiting" THEN s.holds \cup {m} ELSE s.holds \ {m}

SetSalaryState(m, state) ==
  LET rate == RateIn(salary, m) IN
  /\ salary.exists
  /\ salary.endsIn # Null => salary.endsIn >= m
  /\ rate # Null
  /\ state = "received" => rate # 0
  /\ salary' = [salary EXCEPT
       !.receipts[m] = IF state # "received" THEN Null
                       ELSE IF @ = Null THEN rate ELSE @,
       !.holds = HoldsAfter(salary, m, state),
       !.receivedForMonth = IF state = "received" THEN m ELSE Null,
       !.receiptHoldForMonth = IF state = "waiting" THEN m ELSE Null]
  /\ UNCHANGED <<today, clock, oneOffs>>

-----------------------------------------------------------------------------
(* Time.                                                                     *)

Tick ==
  /\ clock < MaxMs
  /\ clock' = clock + 1
  /\ UNCHANGED <<today, oneOffs, salary>>

Midnight ==
  /\ today < LastDay
  /\ today' = today + 1
  /\ UNCHANGED <<clock, oneOffs, salary>>

Next ==
  \/ \E e \in Entries, f \in {"unica", "mensal"}, a \in Amounts :
       CreateEntry(e, f, a) \/ UpdateEntry(e, f, a)
  \/ \E e \in Entries, a \in Amounts, d \in Days : CreateReceivedEntry(e, a, d)
  \/ \E e \in Entries : ArchiveEntry(e)
  \/ \E e \in Entries, m \in Months, s \in {"received", "waiting"}, d \in Days \cup {Null} :
       Ask(e, m, s, d)
  \/ \E c \in sent : SetReceiptState(c)
  \/ \E l \in Levels : UpdateProfile(l)
  \/ \E m \in Months, s \in {"automatic", "received", "waiting"} : SetSalaryState(m, s)
  \/ Tick
  \/ Midnight

Spec == Init /\ [][Next]_vars

-----------------------------------------------------------------------------
(* Correctness.                                                              *)

\* Every variable has its type.
TypeOK ==
  /\ today \in Days
  /\ clock \in 0 .. MaxMs
  /\ entry \in [Entries -> EntryRow]
  /\ receipt \in [Entries -> Receipts]
  /\ sent \subseteq Confirmation
  /\ salary \in SalaryRow

\* A confirmation that arrives late, twice, or after it was undone changes a
\* receipt only if the entry and its receipts are what the user saw when it
\* was sent, even if several changes fell into one millisecond.
ConfirmationsActOnWhatWasSeen ==
  [][\A c \in sent :
       SetReceiptState(c) => c.seen = [entry   |-> entry[c.entry],
                                       receipt |-> receipt[c.entry]]]_vars

\* No income is recorded twice: a one-off entry has one receipt at most and
\* stays one-off while it has it, so that no monthly income is counted beside
\* it; and no month of the salary is both received and on hold, the month the
\* row itself names included.
EachIncomeIsReceivedOnce ==
  /\ \A e \in Entries :
       /\ Cardinality(Received(e)) <= 1
       /\ Received(e) # {} => entry[e].frequency = "unica"
  /\ \A m \in Months :
       /\ salary.receipts[m] = Null \/ m \notin salary.holds
       /\ salary.receivedForMonth = m => salary.receipts[m] # Null
       /\ salary.receiptHoldForMonth = m => m \in salary.holds

\* What the forecast shows for month m of the salary.
Forecast(s, m) ==
  IF ~s.exists \/ (s.endsIn # Null /\ s.endsIn < m) THEN 0
  ELSE IF s.versions = Nothing THEN s.amount
  ELSE IF RateIn(s, m) = Null THEN 0 ELSE RateIn(s, m)

\* Whatever the salary is changed to, ended or resumed, the months before the
\* current one keep the forecast they had.
PastSalaryIsKept ==
  [][\A m \in Months : m < CurrentMonth => Forecast(salary', m) = Forecast(salary, m)]_vars

=============================================================================
