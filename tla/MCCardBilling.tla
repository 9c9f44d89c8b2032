--------------------------- MODULE MCCardBilling ---------------------------
EXTENDS CardBilling, TLC

CONSTANTS A, B

\* Months of 3, 2, 3 and 3 days: the 3rd is clamped in the second.
ShortMonths == [m \in 0 .. 4 |-> <<0, 3, 5, 8, 11>>[m + 1]]

Share(a, b, cash) == [p \in Payers |-> CASE p = Cash -> cash [] p = A -> a [] OTHER -> b]

\* On one card, on the other, cash.
OneCent == {Share(1, 0, 0), Share(0, 1, 0), Share(0, 0, 1)}

\* Cash, and one card.
CashOrCard == {Share(0, 0, 1), Share(1, 0, 0)}

\* Either one card, which may change its closing day, and payments of months
\* ahead; or two cards from the first day on that keep closing on different days.
Constant(c, k) ==
  card[c].state # "none" =>
    card[c].created = 1 /\ card[c].closingDay = k /\ card[c].pending = Null
    /\ card[c].minNext = Null
OneOrTwoCards ==
  \/ /\ card[A].created <= 2
     /\ B \in Cards => card[B].state = "none"
     /\ \A e \in Expenses : Cardinality(expense[e].paid) <= 1
  \/ /\ B \in Cards => Constant(A, 3) /\ Constant(B, 1)
     /\ \A e \in Expenses : expense[e].paid = {} \/ expense[e].kind = "once"
=============================================================================
