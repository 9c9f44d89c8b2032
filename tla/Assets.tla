------------------------------- MODULE Assets -------------------------------
(****************************************************************************)
(* Asset transactions of one user and one asset, the internal ledger rows   *)
(* they keep (an expense for a purchase, an entry for a sale), and the      *)
(* patrimony report that reads the tables.                                  *)
(*                                                                          *)
(* A request that changes or removes a transaction looks it up before it    *)
(* takes the user's write lock, and reads it again under the lock; what it  *)
(* does under the lock is one transaction, hence one action.  A report      *)
(* reads table after table while the writers go on.                         *)
(* Fees, cost basis, notes and quotes are left out.                         *)
(****************************************************************************)
EXTENDS Integers, FiniteSets, FiniteSetsExt

CONSTANTS
  NTransactions, \* transactions that may ever be created
  Workers,       \* requests in progress at once
  LastDay,       \* transactions are dated 1 .. LastDay, none in the future
  MaxQuantity, MaxCash,
  MaxFields,     \* fields a PATCH names at most
  MaxPatches,    \* requests that look a transaction up, in all
  MaxReports,
  Null

ASSUME AssetsAssumption ==
  /\ NTransactions \in Nat /\ LastDay \in Nat
  /\ MaxQuantity \in Nat /\ MaxCash \in Nat
  /\ MaxFields \in Nat /\ MaxPatches \in Nat /\ MaxReports \in Nat
  /\ Null \notin Int

VARIABLES
  assetTransaction, \* the table: a row, or Null
  expense, entry,   \* the internal rows, under the id of their transaction
  created,          \* the ids in use, or used before
  worker, patches,
  report, reports

db == <<assetTransaction, expense, entry, created>>
vars == <<db, worker, patches, report, reports>>

Ids == 1 .. NTransactions
Days == 1 .. LastDay
Kinds == {"BUY", "SELL", "MANUAL_ADJUSTMENT"}
Fields == {"type", "quantity", "cash", "date"}
Quantities == (-MaxQuantity .. MaxQuantity) \ {0}

\* The rows expenseId and entryId point to carry the transaction's id here:
\* it has one of each at most.
Row == [type: Kinds, quantity: Quantities, cash: 0 .. MaxCash, date: Days,
        expenseId: BOOLEAN, entryId: BOOLEAN]
LedgerRow == [cash: 1 .. MaxCash, date: Days]

\* An id without a row is told from one with a row.
ASSUME NullIsNoRow == Null \notin Row

Patch == {p \in [type: Kinds \cup {Null}, quantity: Quantities \cup {Null},
                 cash: 0 .. MaxCash \cup {Null}, date: Days \cup {Null}] :
            Cardinality({f \in Fields : p[f] # Null}) \in 1 .. MaxFields}

Tables == {"transactions", "expenses", "entries"}
Existing(table) == {i \in Ids : table[i] # Null}
NoRows == [i \in Ids |-> Null]

IdleWorker == [kind |-> "idle", id |-> Null, patch |-> Null, stored |-> Null]
NoReport == [pc |-> "idle", snapshot |-> Null, seen |-> Null]

Init ==
  /\ assetTransaction = NoRows /\ expense = NoRows /\ entry = NoRows
  /\ created = {}
  /\ worker = [w \in Workers |-> IdleWorker]
  /\ patches = 0
  /\ report = NoReport
  /\ reports = 0

-----------------------------------------------------------------------------
(* Rules.                                                                    *)

\* What a transaction's values must be: an adjustment may be negative and
\* free, a purchase or a sale neither.
ValuesAreValid(row) ==
  row.type # "MANUAL_ADJUSTMENT" => row.quantity > 0 /\ row.cash > 0

\* By day; within a day by createdAt and id.  Ids are taken in any order, so
\* their order stands for both.
Precedes(table, i, j) ==
  \/ table[i].date < table[j].date
  \/ table[i].date = table[j].date /\ i <= j

Signed(row) == IF row.type = "SELL" THEN -row.quantity ELSE row.quantity

\* What the transactions of these ids come to together.
Held(table, ids) == MapThenSumSet(LAMBDA i : Signed(table[i]), ids)

\* Faulty variant: only what is left at the end is looked at.
FinalBalanceIsValid(table) == Held(table, Existing(table)) >= 0

\* The holdings never go below zero, in the order of the timeline.
IsAssetTimelineValid(table) ==
  \A j \in Existing(table) :
    table[j].type # "BUY" =>
      Held(table, {i \in Existing(table) : Precedes(table, i, j)}) >= 0

LedgerRowOf(row) == [cash |-> row.cash, date |-> row.date]

\* A purchase has an expense, a sale an entry, an adjustment neither.
WithLedger(row) ==
  [row EXCEPT !.expenseId = row.type = "BUY", !.entryId = row.type = "SELL"]

\* The transaction becomes row, and its internal rows are created, rewritten
\* or removed with it.
Save(i, row) ==
  /\ assetTransaction' = [assetTransaction EXCEPT ![i] = WithLedger(row)]
  /\ expense' = [expense EXCEPT ![i] =
       IF WithLedger(row).expenseId THEN LedgerRowOf(row) ELSE Null]
  /\ entry' = [entry EXCEPT ![i] =
       IF WithLedger(row).entryId THEN LedgerRowOf(row) ELSE Null]

-----------------------------------------------------------------------------
(* Writers.                                                                  *)

CreateAssetTransaction(i, row) ==
  /\ i \notin created
  /\ ValuesAreValid(row)
  /\ IsAssetTimelineValid([assetTransaction EXCEPT ![i] = row])
  /\ Save(i, row)
  /\ created' = created \cup {i}
  /\ UNCHANGED <<worker, patches, report, reports>>

\* Before the lock: the transaction must exist.
FindOwned(w, kind, i, patch) ==
  /\ worker[w].kind = "idle"
  /\ patches < MaxPatches
  /\ assetTransaction[i] # Null
  /\ patches' = patches + 1
  /\ worker' = [worker EXCEPT ![w] =
       [kind |-> kind, id |-> i, patch |-> patch, stored |-> assetTransaction[i]]]
  /\ UNCHANGED <<db, report, reports>>

\* Faulty variant: the row as it was before the lock.
StoredBeforeLock(w) == worker[w].stored

\* The row a PATCH is merged with: read after the lock was taken.
StoredUnderLock(w) == assetTransaction[worker[w].id]

Merge(stored, patch) ==
  [stored EXCEPT
     !.type     = IF patch.type = Null THEN @ ELSE patch.type,
     !.quantity = IF patch.quantity = Null THEN @ ELSE patch.quantity,
     !.cash     = IF patch.cash = Null THEN @ ELSE patch.cash,
     !.date     = IF patch.date = Null THEN @ ELSE patch.date]

UpdateAssetTransaction(w) ==
  LET i   == worker[w].id
      row == Merge(StoredUnderLock(w), worker[w].patch)
  IN
  /\ worker[w].kind = "patch"
  /\ assetTransaction[i] # Null
  /\ ValuesAreValid(row)
  /\ IsAssetTimelineValid([assetTransaction EXCEPT ![i] = row])
  /\ Save(i, row)
  /\ worker' = [worker EXCEPT ![w] = IdleWorker]
  /\ UNCHANGED <<created, patches, report, reports>>

DeleteAssetTransaction(w) ==
  LET i == worker[w].id IN
  /\ worker[w].kind = "delete"
  /\ assetTransaction[i] # Null
  /\ IsAssetTimelineValid([assetTransaction EXCEPT ![i] = Null])
  /\ assetTransaction' = [assetTransaction EXCEPT ![i] = Null]
  /\ expense' = [expense EXCEPT ![i] = Null]
  /\ entry' = [entry EXCEPT ![i] = Null]
  /\ worker' = [worker EXCEPT ![w] = IdleWorker]
  /\ UNCHANGED <<created, patches, report, reports>>

\* Gone meanwhile, or not allowed: nothing is written.
Refuse(w) ==
  /\ worker[w].kind # "idle"
  /\ worker' = [worker EXCEPT ![w] = IdleWorker]
  /\ UNCHANGED <<db, patches, report, reports>>

-----------------------------------------------------------------------------
(* The report.                                                               *)

Contents(table) ==
  CASE table = "transactions" -> assetTransaction
    [] table = "expenses"     -> expense
    [] table = "entries"      -> entry

\* The transaction begins with the read of the settings, which fixes what
\* every later read of it returns.
BeginReport ==
  /\ report.pc = "idle"
  /\ reports < MaxReports
  /\ reports' = reports + 1
  /\ report' = [pc |-> "reading", snapshot |-> [t \in Tables |-> Contents(t)],
                seen |-> [t \in Tables |-> Null]]
  /\ UNCHANGED <<db, worker, patches>>

\* Faulty variant: each read sees what is committed when it runs.
VisibleNow(table) == Contents(table)

\* RepeatableRead.
Visible(table) == report.snapshot[table]

ReadTable(table) ==
  /\ report.pc = "reading"
  /\ report.seen[table] = Null
  /\ report' = [report EXCEPT !.seen[table] = Visible(table)]
  /\ UNCHANGED <<db, worker, patches, reports>>

FinishReport ==
  /\ report.pc = "reading"
  /\ \A t \in Tables : report.seen[t] # Null
  /\ report' = NoReport
  /\ UNCHANGED <<db, worker, patches, reports>>

-----------------------------------------------------------------------------

Next ==
  \/ \E i \in Ids, row \in Row :
       /\ ~row.expenseId /\ ~row.entryId
       /\ CreateAssetTransaction(i, row)
  \/ \E w \in Workers :
       \/ \E i \in Ids :
            \/ FindOwned(w, "delete", i, Null)
            \/ \E p \in Patch : FindOwned(w, "patch", i, p)
       \/ UpdateAssetTransaction(w) \/ DeleteAssetTransaction(w) \/ Refuse(w)
  \/ BeginReport
  \/ \E t \in Tables : ReadTable(t)
  \/ FinishReport

Spec == Init /\ [][Next]_vars

-----------------------------------------------------------------------------
(* Correctness.                                                              *)

\* Every variable has its type.
TypeOK ==
  /\ assetTransaction \in [Ids -> Row \cup {Null}]
  /\ expense \in [Ids -> LedgerRow \cup {Null}]
  /\ entry \in [Ids -> LedgerRow \cup {Null}]
  /\ Existing(assetTransaction) \subseteq created /\ created \subseteq Ids
  /\ \A w \in Workers :
       /\ worker[w].kind \in {"idle", "patch", "delete"}
       /\ worker[w].kind # "idle" => worker[w].id \in created
       /\ worker[w].kind = "patch" => worker[w].patch \in Patch
  /\ patches \in 0 .. MaxPatches
  /\ report.pc \in {"idle", "reading"}
  /\ reports \in 0 .. MaxReports

\* Two requests that change different fields of one transaction both count: a
\* PATCH leaves every field it does not name as it is when it is written.
PatchesKeepOtherFields ==
  [][\A w \in Workers, f \in Fields :
       UpdateAssetTransaction(w) /\ worker[w].patch[f] = Null =>
         assetTransaction'[worker[w].id][f] = assetTransaction[worker[w].id][f]]_vars

\* In what a report has read: the quantity held at the end of a day.
HeldOn(transactions, day) ==
  Held(transactions, {i \in Existing(transactions) : transactions[i].date <= day})

\* In what a report has read: a transaction of this type has its internal row,
\* with its amount and its day, and every internal row has its transaction.
Matches(transactions, ledger, type) ==
  \A i \in Ids :
    ledger[i] = IF transactions[i] # Null /\ transactions[i].type = type
                THEN LedgerRowOf(transactions[i]) ELSE Null

\* However transactions are created, retyped, redated or removed while a
\* report is read, it never shows money that left one place and did not reach
\* the other, nor a day on which less than nothing is held.
ReportsAddUp ==
  report.pc = "reading" /\ (\A t \in Tables : report.seen[t] # Null) =>
    /\ Matches(report.seen["transactions"], report.seen["expenses"], "BUY")
    /\ Matches(report.seen["transactions"], report.seen["entries"], "SELL")
    /\ \A d \in Days : HeldOn(report.seen["transactions"], d) >= 0

=============================================================================
