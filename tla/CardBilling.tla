---------------------------- MODULE CardBilling ----------------------------
(***************************************************************************)
(* Credit cards and the expenses charged on them.  A card closes a cycle   *)
(* once a month; the billing run, which may come days or months late,      *)
(* closes every cycle that ended before today.  Between two runs the user  *)
(* changes the closing day, edits and re-prices expenses, moves them to    *)
(* another card and archives cards.                                        *)
(*                                                                         *)
(* Every operation is one transaction under the user's write lock and is   *)
(* one step here; today changes between any two of them.                   *)
(*                                                                         *)
(* Abstractions.  A civil day is a number, cut into months by MonthEnd.    *)
(* An invoice is the set of charges it adds up (expense and day), kept for *)
(* every closed cycle, also where it is empty and the code stores none.    *)
(* The splits of an expense are its terms: the cents of one occurrence     *)
(* that fall on each card or on cash (PIX).  `seen' stands for createdAt   *)
(* <= lastBillingProcessedAt.  Card limits, rows older than the versions   *)
(* of their terms and payments of invoices are left out; a PATCH sends     *)
(* only the fields it changes.                                             *)
(***************************************************************************)
EXTENDS Integers, Sequences, FiniteSets, FiniteSetsExt

CONSTANTS
  Cards,
  Expenses,
  Cash,         \* the part of an expense no card carries
  NMonths,      \* months of the calendar
  MonthEnd,     \* last day of each month; MonthEnd[0] = 0
  LastToday,    \* bound: the last day anything is done
  Week,         \* days of a week
  FullMonth,    \* days of the longest month
  MinCycle,     \* MIN_CYCLE_DAYS_AFTER_CLOSING_CHANGE: no month is shorter
  ClosingDays,  \* closing days a user may ask for
  DueDays,      \* due days of monthly expenses
  Starts,       \* first days (or dates) of expenses
  Ends,         \* last days of recurring expenses; Null is "no end"
  Allocations,  \* terms a user may type in, never of an amount of zero
  MaxTerms      \* bound: versions of the terms of an expense

Null == 0
Months == 1 .. NMonths
Days == 1 .. MonthEnd[NMonths]
Payers == Cards \cup {Cash}

ASSUME BillingAssumption ==
  /\ IsFiniteSet(Cards) /\ Cash \notin Cards
  /\ NMonths \in Nat \ {0} /\ MonthEnd \in [0 .. NMonths -> Nat]
  /\ MonthEnd[0] = 0 /\ \A m \in Months : MonthEnd[m - 1] + MinCycle <= MonthEnd[m]
  /\ LastToday \in Days /\ LastToday + FullMonth <= MonthEnd[NMonths]
  /\ {Week, FullMonth, MinCycle, MaxTerms} \subseteq Nat \ {0}
  /\ ClosingDays \cup DueDays \subseteq Nat \ {0}
  /\ Starts \subseteq Days /\ Ends \subseteq Days \cup {Null}
  /\ \A share \in Allocations : share \in [Payers -> Nat] /\ \E p \in Payers : share[p] > 0

VARIABLES
  today,     \* the civil day in Sao Paulo
  card,      \* card[c]: its row
  expense,   \* expense[e]: its row, versions and payments
  cycles     \* cycles[c]: the cycles closed so far, with what they billed

vars == <<today, card, expense, cycles>>

-----------------------------------------------------------------------------
(* The calendar. *)

monthOf ==
  [d \in Days |-> CHOOSE m \in Months : MonthEnd[m - 1] < d /\ d <= MonthEnd[m]]
MonthOf(d) == monthOf[d]
FirstOf(m) == MonthEnd[m - 1] + 1

\* clampDayToMonth
DayIn(m, k) == Min({MonthEnd[m - 1] + k, MonthEnd[m]})

-----------------------------------------------------------------------------
(* Rows. *)

Card ==
  [state : {"none", "active", "archived"}, created : Days \cup {Null},
   closingDay : ClosingDays \cup {Null},
   pending : ClosingDays \cup {Null}, setAt : Days \cup {Null},
   minNext : Nat, last : Days \cup {Null}]

NoCard == [state |-> "none", created |-> Null, closingDay |-> Null,
           pending |-> Null, setAt |-> Null, minNext |-> Null, last |-> Null]

Recurring == {"weekly", "monthly"}

Terms == [month : Months, share : Allocations]
Payment == [month : Months, amount : Nat, on : Days \cup {Null}]

\* `day' is occurredAt of a one-off and startsAt of a recurring expense.
Expense ==
  [kind : {"none", "once", "void"} \cup Recurring, day : Days \cup {Null},
   ends : Days \cup {Null}, due : DueDays \cup {Null},
   terms : Seq(Terms), seen : SUBSET Cards, paid : SUBSET Payment]

NoExpense == [kind |-> "none", day |-> Null, ends |-> Null, due |-> Null,
              terms |-> <<>>, seen |-> {}, paid |-> {}]

Cycle == [from : Days, on : Days, final : BOOLEAN,
          charges : SUBSET (Expenses \X Days)]

Total(share) == MapThenSumSet(LAMBDA p : share[p], Payers)
CardsOf(share) == {c \in Cards : share[c] > 0}
Live(x) == x.terms[Len(x.terms)].share
EveryCardOf(x) == UNION {CardsOf(x.terms[i].share) : i \in DOMAIN x.terms}

Init ==
  /\ today = 1
  /\ card = [c \in Cards |-> NoCard]
  /\ expense = [e \in Expenses |-> NoExpense]
  /\ cycles = [c \in Cards |-> {}]

-----------------------------------------------------------------------------
(* What an expense charges on a card. *)

Occurrences(x) ==
  LET runs(d) == d >= x.day /\ (x.ends # Null => d <= x.ends)
  IN CASE x.kind = "once"    -> {x.day}
       [] x.kind = "weekly"  -> {d \in Days : runs(d) /\ (d - x.day) % Week = 0}
       [] x.kind = "monthly" -> {d \in Days : runs(d) /\ d = DayIn(MonthOf(d), x.due)}
       [] OTHER              -> {}

\* The highest sequence wins among the versions in force in a month; a one-off
\* has its live splits only.
VersionsBy(x, m) == {i \in DOMAIN x.terms : x.terms[i].month <= m}
TermsIn(x, m) ==
  IF VersionsBy(x, m) = {} THEN Live(x) ELSE x.terms[Max(VersionsBy(x, m))].share
TermsOf(x, d) == IF x.kind = "once" THEN Live(x) ELSE TermsIn(x, MonthOf(d))

Charges(x, c) == {d \in Occurrences(x) : TermsOf(x, d)[c] > 0}
AmountOn(x, c, window) ==
  MapThenSumSet(LAMBDA d : TermsOf(x, d)[c], Occurrences(x) \cap window)

-----------------------------------------------------------------------------
(* Closing cycles. *)

CycleStart(k) == IF k.last = Null THEN k.created ELSE k.last

\* Closing days of k after its last cycle, up to `until'.
ClosingsOf(k, until) ==
  {d \in {DayIn(m, k.closingDay) : m \in Months} :
     CycleStart(k) < d /\ d <= until /\ k.minNext <= d}

ClosedAnyLength(k, on) ==
  IF k.pending # Null /\ on >= k.setAt
  THEN [k EXCEPT !.last = on, !.closingDay = k.pending, !.pending = Null, !.setAt = Null]
  ELSE [k EXCEPT !.last = on]

\* A pending closing day starts at the first closing that does not precede it.
Closed(k, on) ==
  LET done == [k EXCEPT !.last = on]
  IN IF k.pending # Null /\ on >= k.setAt
     THEN [done EXCEPT !.closingDay = k.pending, !.pending = Null,
                       !.setAt = Null, !.minNext = on + MinCycle]
     ELSE [done EXCEPT !.minNext = Null]

\* planCardBilling: the row after n of the overdue closings.
RowsAfter(k, until) ==
  LET row[n \in 0 .. NMonths] ==
        IF n = 0 THEN k
        ELSE LET open == ClosingsOf(row[n - 1], until)
             IN IF open = {} THEN row[n - 1] ELSE Closed(row[n - 1], Min(open))
  IN row

InWindow(k, on) ==
  {d \in Days : d <= on /\ (d > CycleStart(k) \/ (k.last = Null /\ d = CycleStart(k)))}

\* Faulty variant: a purchase of before the window counts as late in every run.
EarlierAgain(c, k, x, late) ==
  IF x.kind = "once" /\ x.day < CycleStart(k) + (IF k.last = Null THEN 0 ELSE 1)
     /\ (k.last = Null \/ late)
  THEN Charges(x, c) ELSE {}

\* One-offs of before the window: bought before the card's creation, for its
\* first cycle, or entered since the last billing run, for the next cycle.
Earlier(c, k, x, late) ==
  IF x.kind = "once" /\ x.day < CycleStart(k) + (IF k.last = Null THEN 0 ELSE 1)
     /\ (k.last = Null \/ (late /\ c \notin x.seen))
  THEN Charges(x, c) ELSE {}

\* The cycle k closes on a day; `late' for the first one of a run.
CycleOf(c, k, on, late, final) ==
  [from |-> CycleStart(k), on |-> on, final |-> final,
   charges |-> UNION {{e} \X ((Charges(expense[e], c) \cap InWindow(k, on))
                              \cup Earlier(c, k, expense[e], late)) : e \in Expenses}]

Seen(cards) ==
  [e \in Expenses |->
     IF expense[e].kind = "none" THEN expense[e]
     ELSE [expense[e] EXCEPT !.seen = @ \cup cards]]

Active == {c \in Cards : card[c].state = "active"}
Overdue(c) == ClosingsOf(card[c], today - 1) # {}

\* POST of the billing run: every active card, all in one transaction.
BillCards ==
  LET due == {c \in Active : Overdue(c)}
      rows == [c \in due |-> RowsAfter(card[c], today - 1)]
      closing(c) == {n \in 1 .. NMonths : rows[c][n] # rows[c][n - 1]}
  IN /\ due # {}
     /\ card' = [c \in Cards |-> IF c \in due THEN rows[c][NMonths] ELSE card[c]]
     /\ cycles' = [c \in Cards |->
          IF c \notin due THEN cycles[c]
          ELSE cycles[c] \cup
               {CycleOf(c, rows[c][n - 1], rows[c][n].last, n = 1, FALSE) :
                  n \in closing(c)}]
     /\ expense' = Seen(due)
     /\ UNCHANGED today

-----------------------------------------------------------------------------
(* Cards. *)

CreateCard(c, k) ==
  /\ card[c].state = "none"
  /\ card' = [card EXCEPT ![c] = [NoCard EXCEPT
       !.state = "active", !.created = today, !.closingDay = k]]
  /\ UNCHANGED <<today, expense, cycles>>

\* Asking for the present closing day takes a pending change back.
UpdateCard(c, k) ==
  /\ card[c].state = "active"
  /\ card' = [card EXCEPT ![c] =
       IF k = @.closingDay THEN [@ EXCEPT !.pending = Null, !.setAt = Null]
       ELSE IF k # @.pending THEN [@ EXCEPT !.pending = k, !.setAt = today]
       ELSE @]
  /\ UNCHANGED <<today, expense, cycles>>

\* hasFutureRecurringCardCharge: versions in the order of their months; each one
\* is asked for the days up to the next one's month.
Rank(x, i) == x.terms[i].month * (Len(x.terms) + 1) + i

RelevantVersions(x, m) ==
  LET old == VersionsBy(x, m)
      current == {i \in old : \A j \in old : Rank(x, j) <= Rank(x, i)}
  IN current \cup (DOMAIN x.terms \ old)

HasFutureCharge(x, c, first) ==
  LET relevant == RelevantVersions(x, MonthOf(first))
      start(i) == Max({first, x.day, FirstOf(x.terms[i].month)})
      later(i) == {j \in relevant : Rank(x, j) > Rank(x, i)}
      next(i) == CHOOSE j \in later(i) : \A l \in later(i) : Rank(x, j) <= Rank(x, l)
      end(i) == IF later(i) = {} THEN start(i) + FullMonth
                ELSE FirstOf(x.terms[next(i)].month) - 1
  IN /\ x.kind \in Recurring
     /\ x.ends # Null => x.ends >= first
     /\ \E i \in relevant : x.terms[i].share[c] > 0
                            /\ Occurrences(x) \cap (start(i) .. end(i)) # {}

\* The last cycle ends today, whatever cycles are overdue.
ArchiveCard(c) ==
  /\ card[c].state = "active"
  /\ \A e \in Expenses : ~HasFutureCharge(expense[e], c, today + 1)
  /\ card' = [card EXCEPT ![c].state = "archived", ![c].last = today]
  /\ cycles' = [cycles EXCEPT ![c] = @ \cup {CycleOf(c, card[c], today, TRUE, TRUE)}]
  /\ expense' = Seen({c})
  /\ UNCHANGED today

-----------------------------------------------------------------------------
(* Expenses. *)

Usable(share) == CardsOf(share) \subseteq Active

\* assertAffectedCardsCaughtUp
CaughtUp(cards) == \A c \in cards \cap Active : ~Overdue(c)

\* hasRetroactiveClosedCardCharge
ChargesClosedCycle(x) ==
  \E c \in CardsOf(Live(x)) :
    /\ card[c].last # Null
    /\ Occurrences(x) \cap (card[c].created .. card[c].last) # {}

\* A one-off pays its cash share by being entered.
PaymentOf(x) ==
  IF x.kind # "once" \/ Live(x)[Cash] = 0 THEN {}
  ELSE {[month |-> MonthOf(x.day), amount |-> Live(x)[Cash], on |-> x.day]}

\* resolveSchedule: a date, or a start, an end that does not precede it and, for
\* monthly expenses, a due day.
OneOffs ==
  [kind : {"once"}, day : Starts, ends : {Null}, due : {Null}, share : Allocations]
Recurrences ==
  {asked \in [kind : Recurring, day : Starts, ends : Ends, due : DueDays \cup {Null},
              share : Allocations] :
     /\ asked.ends # Null => asked.ends >= asked.day
     /\ (asked.kind = "weekly") <=> (asked.due = Null)}

\* assertUniqueDateNotFuture
NotFuture(asked) == asked.kind = "once" => asked.day <= today

Row(asked, terms, seen) ==
  [kind |-> asked.kind, day |-> asked.day, ends |-> asked.ends,
   due |-> asked.due, terms |-> terms, seen |-> seen, paid |-> {}]

CreateExpense(e, asked) ==
  LET new == Row(asked, <<[month |-> MonthOf(asked.day), share |-> asked.share]>>, {})
  IN /\ expense[e].kind = "none"
     /\ NotFuture(asked) /\ Usable(asked.share)
     /\ asked.kind \in Recurring => ~ChargesClosedCycle(new)
     /\ expense' = [expense EXCEPT ![e] = [new EXCEPT !.paid = PaymentOf(new)]]
     /\ UNCHANGED <<today, card, cycles>>

\* hasSettledRecurringMutation: `old' and `new' must agree on what is closed.
SameCalendar(old, new) == <<old.kind, old.day, old.due>> = <<new.kind, new.day, new.due>>
SameSchedule(old, new) == SameCalendar(old, new) /\ old.ends = new.ends

SettledOnSchedule(c, old, new) ==
  /\ card[c].last # Null /\ ~SameSchedule(old, new)
  /\ \E d \in card[c].created .. card[c].last :
       (d \in Charges(old, c)) # (d \in Charges(new, c))

SettledOn(c, old, new) ==
  LET k == card[c]
      m == MonthOf(today)
      from == Max({k.created, Min({old.day, new.day})})
      closed == from .. k.last
      recent == closed \cap (FirstOf(m) .. MonthEnd[m])
      was == TermsIn(old, m)
      is == TermsIn(new, m)
      charged(x, window) == Charges(x, c) \cap window # {}
  IN /\ k.last # Null
     /\ \/ /\ was[c] * Total(is) # is[c] * Total(was)
           /\ charged(old, recent) \/ charged(new, recent)
        \/ /\ ~SameCalendar(old, new)
           /\ \E d \in closed : charged(old, {d}) # charged(new, {d})
        \/ /\ SameCalendar(old, new) /\ ~SameSchedule(old, new)
           /\ AmountOn(old, c, closed) # AmountOn(new, c, closed)

\* PATCH of a recurring expense that stays recurring: a change of price or split
\* is a new version from this month on, a change of schedule is not versioned.
UpdateRecurring(e, asked) ==
  LET old == expense[e]
      revised == asked.share # Live(old)
      terms == IF revised
               THEN Append(old.terms, [month |-> MonthOf(today), share |-> asked.share])
               ELSE old.terms
      new == [Row(asked, terms, old.seen) EXCEPT !.paid = old.paid]
      moved == ~SameSchedule(old, new)
  IN /\ old.kind \in Recurring
     /\ new.day >= old.day
     /\ (revised \/ moved) /\ Len(terms) <= MaxTerms
     /\ moved => old.paid = {}
     /\ (revised \/ old.day # new.day \/ old.ends # new.ends \/ old.kind # new.kind)
          => Usable(asked.share)
     /\ revised => \A p \in old.paid : p.month < MonthOf(today)
     /\ moved => CaughtUp(EveryCardOf(new))
     /\ \A c \in Cards : ~SettledOn(c, old, new)
     /\ expense' = [expense EXCEPT ![e] = new]
     /\ UNCHANGED <<today, card, cycles>>

CorrectionOfCash(old, new) == PaymentOf(old) # {} /\ CardsOf(Live(old)) = {}

\* A cash one-off whose only payment is its own may be corrected together with it.
CashCorrection(old, new) ==
  /\ CardsOf(Live(old)) \cup CardsOf(Live(new)) = {}
  /\ PaymentOf(old) # {} /\ old.paid = PaymentOf(old)

\* The card has billed the old date, or has gone past the new one.
SettledOnce(c, old, new) ==
  LET closed(d) == card[c].last >= d
  IN /\ card[c].last # Null
     /\ \/ old.kind \in Recurring /\ closed(old.day)
        \/ c \in old.seen /\ (closed(old.day) \/ closed(new.day))

MayBecome(old, new) ==
  LET cards == CardsOf(Live(old)) \cup CardsOf(Live(new))
  IN \/ CashCorrection(old, new)
     \/ /\ old.paid = {}
        /\ old.kind = "once" => Live(old)[Cash] = 0
        /\ \A c \in cards : ~SettledOnce(c, old, new)

\* The correction rewrites the payment; any other change may only add one.
PaidAfter(old, new) ==
  IF CashCorrection(old, new)
  THEN {[month |-> MonthOf(new.day), amount |-> Total(Live(new)), on |-> new.day]}
  ELSE old.paid \cup PaymentOf(new)

\* PATCH that leaves a one-off: a correction of one, or the end of a recurring
\* expense that never touched a card.
UpdateOnce(e, asked) ==
  LET old == expense[e]
      terms == <<[month |-> MonthOf(asked.day), share |-> asked.share]>>
      new == Row(asked, terms, old.seen)
  IN /\ old.kind \in {"once"} \cup Recurring /\ NotFuture(asked)
     /\ old.kind = "once" => (old.day # asked.day \/ Live(old) # asked.share)
     /\ old.kind \in Recurring => EveryCardOf(old) = {}
     /\ (asked.share # Live(old) \/ old.kind # "once") => Usable(asked.share)
     /\ CaughtUp(EveryCardOf(old) \cup CardsOf(asked.share))
     /\ MayBecome(old, new)
     /\ expense' = [expense EXCEPT ![e] = [new EXCEPT !.paid = PaidAfter(old, new)]]
     /\ UNCHANGED <<today, card, cycles>>

\* Only an expense that never was on a card may be voided.
ArchiveExpense(e) ==
  /\ expense[e].kind \in {"once"} \cup Recurring
  /\ EveryCardOf(expense[e]) = {}
  /\ expense' = [expense EXCEPT ![e].kind = "void"]
  /\ UNCHANGED <<today, card, cycles>>

\* The cash share of a monthly expense may be paid for any month it covers.
PayExpense(e, m) ==
  LET x == expense[e]
  IN /\ x.kind = "monthly" /\ Live(x)[Cash] > 0
     /\ x.day <= MonthEnd[m] /\ (x.ends # Null => x.ends >= FirstOf(m))
     /\ \A p \in x.paid : p.month # m
     /\ expense' = [expense EXCEPT ![e].paid =
          @ \cup {[month |-> m, amount |-> Live(x)[Cash], on |-> Null]}]
     /\ UNCHANGED <<today, card, cycles>>

Midnight ==
  /\ today < LastToday
  /\ today' = today + 1
  /\ UNCHANGED <<card, expense, cycles>>

Next ==
  \/ Midnight
  \/ BillCards
  \/ \E c \in Cards, k \in ClosingDays : CreateCard(c, k) \/ UpdateCard(c, k)
  \/ \E c \in Cards : ArchiveCard(c)
  \/ \E e \in Expenses, asked \in OneOffs \cup Recurrences : CreateExpense(e, asked)
  \/ \E e \in Expenses, asked \in Recurrences : UpdateRecurring(e, asked)
  \/ \E e \in Expenses, asked \in OneOffs : UpdateOnce(e, asked)
  \/ \E e \in Expenses : ArchiveExpense(e)
  \/ \E e \in Expenses, m \in Months : PayExpense(e, m)

Spec == Init /\ [][Next]_vars

-----------------------------------------------------------------------------
(* Properties. *)

\* Every row keeps its shape.
TypeOK ==
  /\ today \in Days
  /\ card \in [Cards -> Card]
  /\ expense \in [Expenses -> Expense]
  /\ \A e \in Expenses : Len(expense[e].terms) <= MaxTerms
  /\ cycles \in [Cards -> SUBSET Cycle]

Billed(e, c) ==
  {charge[2] : charge \in {x \in UNION {y.charges : y \in cycles[c]} : x[1] = e}}

\* What the closed cycles of c owe for e.
Owed(e, c) ==
  LET x == expense[e]
      k == card[c]
  IN IF k.last = Null THEN {}
     ELSE {d \in Charges(x, c) : d <= k.last
                /\ IF x.kind = "once" THEN c \in x.seen ELSE d >= k.created}

\* Whatever was edited, moved or billed late: the closed cycles of a card hold
\* exactly the charges that its expenses have up to the last closing
\* (planCardBilling, hasSettledRecurringMutation, assertAffectedCardsCaughtUp,
\* hasRetroactiveClosedCardCharge).
BilledIsOwed ==
  \A e \in Expenses, c \in Cards : Billed(e, c) = Owed(e, c)

\* No charge is on two invoices of a card: not one that was entered late, nor
\* one whose expense was edited after it was billed.
NoChargeTwice ==
  \A c \in Cards : \A y, z \in cycles[c] : y # z => y.charges \cap z.charges = {}

\* "A closing-day change cannot produce a cycle shorter than this."  (The first
\* cycle starts when the card is created, the final one ends when it is
\* archived.)  Cycles follow each other without a gap.
CyclesKeepTheirLength ==
  \A c \in Cards : \A y \in cycles[c] :
    \/ y.from = card[c].created
    \/ /\ \E z \in cycles[c] : z.on = y.from
       /\ y.final \/ y.on - y.from >= MinCycle

\* A one-off's cash share is in the account exactly once, under its own date.
CashIsRecorded ==
  \A e \in Expenses : expense[e].kind = "once" => expense[e].paid = PaymentOf(expense[e])

\* "Archive only when no future weekly/monthly occurrence will charge this
\* card": nothing is ever due on an archived card that its cycles do not hold.
ArchivedCardsAreSettled ==
  \A c \in Cards, e \in Expenses :
    card[c].state = "archived" =>
      \A d \in Charges(expense[e], c) : d > card[c].last => d \in Billed(e, c)
=============================================================================
