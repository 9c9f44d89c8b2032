---------------------------- MODULE MCPiggyBank ----------------------------
EXTENDS PiggyBank, TLC

\* A calendar of two months, the second one shorter, so that the debit day is
\* clamped to its end.
ThreeThenTwo == [m \in 0 .. 2 |-> CASE m = 0 -> 0 [] m = 1 -> 3 [] m = 2 -> 5]

\* Three months, for the planned goals.
ThreeShortMonths == [m \in 0 .. 3 |-> CASE m = 0 -> 0 [] m = 1 -> 3 [] m = 2 -> 5 [] m = 3 -> 8]

\* Requests are interchangeable.
WorkerSymmetry == Permutations(Workers)
=============================================================================
