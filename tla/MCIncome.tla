----------------------------- MODULE MCIncome -----------------------------
EXTENDS Income

\* The salary and the manual entries share no state: a behaviour that touches
\* both is an interleaving of one that touches each.
SalaryOrEntries ==
  \/ \A e \in Entries : entry[e].status = "absent"
  \/ salary = NoSalary
=============================================================================
