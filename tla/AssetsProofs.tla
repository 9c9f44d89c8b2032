---------------------------- MODULE AssetsProofs ----------------------------
(****************************************************************************)
(* Proofs about Assets, for any number of transactions, requests, days,     *)
(* quantities and reports.  What is held is a sum over a set, which the     *)
(* community module folds; Net gives it without a fold, as units that came  *)
(* less units that went, so that sums are compared by counting sets.        *)
(****************************************************************************)
EXTENDS Assets, FiniteSetTheorems, WellFoundedInduction, TLAPS

-----------------------------------------------------------------------------
(* Sums as counts.                                                           *)

\* A non-empty set of naturals has a least element.
LEMMA Least ==
  ASSUME NEW T, T \subseteq Nat, T # {}
  PROVE  \E n \in T : \A k \in T : n <= k
<1> DEFINE Less == {ss \in Nat \X Nat : ss[1] < ss[2]}
<1>1. IsWellFoundedOn(Less, Nat)
  BY NatLessThanWellFounded DEF OpToRel
<1>2. PICK n \in T : \A k \in T : <<k, n>> \notin Less
  BY <1>1, WFMin
<1>3. SUFFICES ASSUME NEW k \in T PROVE n <= k
  OBVIOUS
<1>4. <<k, n>> \notin Less
  BY <1>2
<1> QED
  BY <1>4

\* The transactions of these ids have quantities a row may have.
Weighed(table, S) ==
  S \subseteq Ids /\ \A i \in S : Signed(table[i]) \in -MaxQuantity .. MaxQuantity

\* The units of a transaction, numbered from 1: those it brings and those it
\* takes.
Gained(table, S) == {u \in S \X (1 .. MaxQuantity) : u[2] <= Signed(table[u[1]])}
Lost(table, S) == {u \in S \X (1 .. MaxQuantity) : u[2] <= -Signed(table[u[1]])}

Net(table, S) == Cardinality(Gained(table, S)) - Cardinality(Lost(table, S))

LEMMA UnitsAreFinite ==
  ASSUME NEW table, NEW S, S \subseteq Ids
  PROVE  /\ IsFiniteSet(S)
         /\ IsFiniteSet(Gained(table, S)) /\ Cardinality(Gained(table, S)) \in Nat
         /\ IsFiniteSet(Lost(table, S)) /\ Cardinality(Lost(table, S)) \in Nat
<1>1. IsFiniteSet(Ids) /\ IsFiniteSet(1 .. MaxQuantity)
  BY FS_Interval, AssetsAssumption DEF Ids
<1>2. IsFiniteSet(S)
  BY <1>1, FS_Subset
<1>3. IsFiniteSet(S \X (1 .. MaxQuantity))
  BY <1>1, <1>2, FS_Product
<1>4. IsFiniteSet(Gained(table, S)) /\ IsFiniteSet(Lost(table, S))
  <2>1. /\ Gained(table, S) \in SUBSET (S \X (1 .. MaxQuantity))
        /\ Lost(table, S) \in SUBSET (S \X (1 .. MaxQuantity))
    BY DEF Gained, Lost
  <2> QED
    BY <1>3, <2>1, FS_Subset
<1> QED
  BY <1>2, <1>4, FS_CardinalityType

\* The first n units of a transaction.
Units(x, n) == {u \in {x} \X (1 .. MaxQuantity) : u[2] <= n}

\* There are n of them, if n counts anything.
LEMMA UnitsOfOne ==
  ASSUME NEW x, NEW n \in Int, n <= MaxQuantity
  PROVE  /\ n > 0 => Cardinality(Units(x, n)) = n
         /\ n <= 0 => Cardinality(Units(x, n)) = 0
<1> DEFINE T == Units(x, n)
           f == [k \in 1 .. n |-> <<x, k>>]
<1>1. MaxQuantity \in Nat
  BY AssetsAssumption
<1>2. \A k \in 1 .. n : <<x, k>> \in T
  BY <1>1 DEF Units
<1>3. \A u \in T : u[2] \in 1 .. n /\ u = <<x, u[2]>>
  BY <1>1 DEF Units
<1> HIDE DEF T
<1>4. f \in [1 .. n -> T]
  BY <1>2
<1>5. \A j, k \in 1 .. n : f[j] = f[k] => j = k
  OBVIOUS
<1>6. \A u \in T : \E k \in 1 .. n : f[k] = u
  BY <1>3
<1>7. f \in Bijection(1 .. n, T)
  BY <1>4, <1>5, <1>6 DEF Bijection, Injection, Surjection, IsInjective
<1>8. ExistsBijection(1 .. n, T)
  BY <1>7 DEF ExistsBijection
<1>9. IsFiniteSet(1 .. n) /\ Cardinality(1 .. n) = IF 1 > n THEN 0 ELSE n - 1 + 1
  BY FS_Interval
<1>10. Cardinality(T) = Cardinality(1 .. n)
  BY <1>8, <1>9, FS_Bijection
<1> QED
  BY <1>9, <1>10 DEF T

\* One transaction nets its signed quantity.
LEMMA NetOfOne ==
  ASSUME NEW table, NEW x, Weighed(table, {x})
  PROVE  Net(table, {x}) = Signed(table[x])
<1> DEFINE n == Signed(table[x])
<1>1. n \in Int /\ n <= MaxQuantity /\ -n <= MaxQuantity /\ -n \in Int
  BY AssetsAssumption DEF Weighed
<1>2. Gained(table, {x}) = Units(x, n) /\ Lost(table, {x}) = Units(x, -n)
  BY DEF Gained, Lost, Units
<1> HIDE DEF n
<1>3. /\ n > 0 => Cardinality(Units(x, n)) = n
      /\ n <= 0 => Cardinality(Units(x, n)) = 0
  BY <1>1, UnitsOfOne
<1>4. /\ -n > 0 => Cardinality(Units(x, -n)) = -n
      /\ -n <= 0 => Cardinality(Units(x, -n)) = 0
  BY <1>1, UnitsOfOne
<1> QED
  BY <1>1, <1>2, <1>3, <1>4 DEF Net, n

LEMMA DisjointUnion ==
  ASSUME NEW S, NEW T, IsFiniteSet(S), IsFiniteSet(T), S \cap T = {}
  PROVE  Cardinality(S \cup T) = Cardinality(S) + Cardinality(T)
<1>1. Cardinality(S) \in Nat /\ Cardinality(T) \in Nat
  BY FS_CardinalityType
<1>2. Cardinality(S \cap T) = 0
  BY FS_EmptySet
<1>3. Cardinality(S \cup T) = Cardinality(S) + Cardinality(T) - Cardinality(S \cap T)
  BY FS_Union
<1> QED
  BY <1>1, <1>2, <1>3

\* What two sets of transactions net adds up.
LEMMA NetAddsUp ==
  ASSUME NEW table, NEW S, NEW T, S \subseteq Ids, T \subseteq Ids, S \cap T = {}
  PROVE  Net(table, S \cup T) = Net(table, S) + Net(table, T)
<1>1. /\ Gained(table, S \cup T) = Gained(table, S) \cup Gained(table, T)
      /\ Gained(table, S) \cap Gained(table, T) = {}
  BY DEF Gained
<1>2. /\ Lost(table, S \cup T) = Lost(table, S) \cup Lost(table, T)
      /\ Lost(table, S) \cap Lost(table, T) = {}
  BY DEF Lost
<1>3. /\ Cardinality(Gained(table, S)) \in Nat /\ Cardinality(Gained(table, T)) \in Nat
      /\ Cardinality(Lost(table, S)) \in Nat /\ Cardinality(Lost(table, T)) \in Nat
      /\ IsFiniteSet(Gained(table, S)) /\ IsFiniteSet(Gained(table, T))
      /\ IsFiniteSet(Lost(table, S)) /\ IsFiniteSet(Lost(table, T))
  BY UnitsAreFinite
<1>4. Cardinality(Gained(table, S \cup T))
        = Cardinality(Gained(table, S)) + Cardinality(Gained(table, T))
  BY <1>1, <1>3, DisjointUnion
<1>5. Cardinality(Lost(table, S \cup T))
        = Cardinality(Lost(table, S)) + Cardinality(Lost(table, T))
  BY <1>2, <1>3, DisjointUnion
<1> QED
  BY <1>3, <1>4, <1>5 DEF Net

\* Transactions that take nothing net nothing less than nothing.
LEMMA NetOfGains ==
  ASSUME NEW table, NEW S, Weighed(table, S), \A i \in S : Signed(table[i]) >= 0
  PROVE  Net(table, S) >= 0
<1>1. Lost(table, S) = {}
  <2>1. \A i \in S, k \in 1 .. MaxQuantity : ~(k <= -Signed(table[i]))
    BY AssetsAssumption DEF Weighed
  <2> QED
    BY <2>1 DEF Lost
<1>2. Cardinality(Lost(table, S)) = 0 /\ Cardinality(Gained(table, S)) \in Nat
  BY <1>1, FS_EmptySet, UnitsAreFinite DEF Weighed
<1> QED
  BY <1>2 DEF Net

\* What is held is what the transactions net.
LEMMA HeldIsNet ==
  ASSUME NEW table, NEW S, Weighed(table, S)
  PROVE  Held(table, S) = Net(table, S) /\ Net(table, S) \in Int
<1> DEFINE pick(s) == CHOOSE x \in s : TRUE
           IsSum(g) == g = [s \in SUBSET S |->
             IF s = {} THEN 0 ELSE Signed(table[pick(s)]) + g[s \ {pick(s)}]]
           F == [s \in SUBSET S |-> Net(table, s)]
           iter == CHOOSE g : IsSum(g)
<1>1. S \subseteq Ids
  BY DEF Weighed
<1>2. \A s : s # {} => pick(s) \in s
  OBVIOUS
<1>3. Held(table, S) = iter[S]
  BY DEF Held, MapThenSumSet, MapThenFoldSet
<1> HIDE DEF pick
<1>4. ASSUME NEW s \in SUBSET S, s # {}
      PROVE  F[s] = Signed(table[pick(s)]) + F[s \ {pick(s)}]
  <2> DEFINE x == pick(s)
             t == s \ {x}
  <2>1. x \in s /\ s = {x} \cup t /\ {x} \cap t = {} /\ {x} \subseteq Ids /\ t \subseteq Ids
    BY <1>1, <1>2, <1>4
  <2>2. Weighed(table, {x})
    BY <2>1 DEF Weighed
  <2> HIDE DEF x
  <2>3. Net(table, s) = Net(table, {x}) + Net(table, t)
    <3> HIDE DEF t
    <3> QED
      BY <2>1, NetAddsUp
  <2>4. Net(table, {x}) = Signed(table[x])
    BY <2>2, NetOfOne
  <2>5. F[s] = Net(table, s) /\ F[t] = Net(table, t)
    OBVIOUS
  <2> HIDE DEF F, t
  <2>6. F[s] = Signed(table[x]) + F[t]
    BY <2>3, <2>4, <2>5
  <2> QED
    BY <2>6 DEF x, t
<1>5. F[{}] = 0
  <2>1. Gained(table, {}) = {} /\ Lost(table, {}) = {}
    BY DEF Gained, Lost
  <2>2. Net(table, {}) = 0
    BY <2>1, FS_EmptySet DEF Net
  <2> QED
    BY <2>2
<1>6. IsSum(F)
  <2>1. F = [s \in SUBSET S |-> F[s]]
    OBVIOUS
  <2> HIDE DEF F
  <2> QED
    BY <1>4, <1>5, <2>1
<1>7. IsSum(iter)
  BY <1>6
<1> HIDE DEF iter
<1>8. iter[{}] = 0 /\ \A s \in SUBSET S : s # {} =>
        iter[s] = Signed(table[pick(s)]) + iter[s \ {pick(s)}]
  BY <1>7
<1>9. \A s \in SUBSET S : IsFiniteSet(s) /\ Cardinality(s) \in Nat
  BY <1>1, UnitsAreFinite, FS_CardinalityType
<1> HIDE DEF IsSum, F
<1> DEFINE Bad == {s \in SUBSET S : iter[s] # F[s]}
           Sizes == {Cardinality(s) : s \in Bad}
<1>10. Bad = {}
  <2>1. SUFFICES ASSUME Bad # {} PROVE FALSE
    OBVIOUS
  <2>2. Sizes \subseteq Nat /\ Sizes # {}
    BY <1>9, <2>1
  <2>3. PICK n \in Sizes : \A m \in Sizes : n <= m
    <3> HIDE DEF Sizes
    <3> QED
      BY <2>2, Least
  <2>4. PICK s \in Bad : n = Cardinality(s)
    BY <2>3
  <2>5. s # {} /\ s \in SUBSET S /\ iter[s] # F[s]
    BY <1>5, <1>8, <2>4
  <2> DEFINE t == s \ {pick(s)}
  <2>6. pick(s) \in s /\ t \in SUBSET S
    BY <1>2, <2>5
  <2>7. Cardinality(t) = Cardinality(s) - 1 /\ Cardinality(s) \in Nat
    BY <1>9, <2>5, <2>6, FS_RemoveElement
  <2>8. iter[t] # F[t]
    BY <1>4, <1>8, <2>5
  <2>9. Cardinality(t) \in Sizes
    BY <2>6, <2>8
  <2>10. n <= Cardinality(t)
    BY <2>3, <2>9, Zenon
  <2> HIDE DEF Bad, Sizes, t
  <2> QED
    BY <2>4, <2>7, <2>10
<1>11. iter[S] = F[S] /\ F[S] = Net(table, S)
  BY <1>10 DEF F
<1>12. Net(table, S) \in Int
  BY <1>1, UnitsAreFinite DEF Net
<1> QED
  BY <1>3, <1>11, <1>12

-----------------------------------------------------------------------------
(* The timeline.                                                             *)

\* A table with the rows the requests may write.
Rows(table) ==
  /\ table \in [Ids -> Row \cup {Null}]
  /\ \A i \in Existing(table) : ValuesAreValid(table[i])

\* The transactions up to j, and those dated up to a day.
Until(table, j) == {i \in Existing(table) : Precedes(table, i, j)}
Through(table, day) == {i \in Existing(table) : table[i].date <= day}

LEMMA RowFields ==
  ASSUME NEW row \in Row
  PROVE  /\ row.type \in Kinds /\ row.quantity \in Quantities
         /\ row.cash \in 0 .. MaxCash /\ row.date \in Days
         /\ row.expenseId \in BOOLEAN /\ row.entryId \in BOOLEAN
BY DEF Row

LEMMA ExistingRows ==
  ASSUME NEW table, Rows(table), NEW i \in Existing(table)
  PROVE  i \in Ids /\ table[i] \in Row /\ ValuesAreValid(table[i])
BY DEF Rows, Existing

\* A row's quantity, with its sign, is a number of units; a purchase brings some.
LEMMA SignedUnits ==
  ASSUME NEW row \in Row, ValuesAreValid(row)
  PROVE  /\ Signed(row) \in -MaxQuantity .. MaxQuantity
         /\ row.type = "BUY" => Signed(row) > 0
<1>1. MaxQuantity \in Nat
  BY AssetsAssumption
<1>2. row.quantity \in -MaxQuantity .. MaxQuantity /\ row.type \in Kinds
  BY RowFields DEF Quantities
<1>3. row.type = "BUY" => row.quantity > 0
  BY DEF ValuesAreValid
<1> QED
  BY <1>1, <1>2, <1>3 DEF Signed

LEMMA RowsAreWeighed ==
  ASSUME NEW table, Rows(table), NEW S, S \subseteq Existing(table)
  PROVE  Weighed(table, S)
<1>1. \A i \in S : i \in Ids /\ table[i] \in Row /\ ValuesAreValid(table[i])
  BY ExistingRows
<1>2. \A i \in S : Signed(table[i]) \in -MaxQuantity .. MaxQuantity
  BY <1>1, SignedUnits
<1> QED
  BY <1>1, <1>2 DEF Weighed

\* A timeline never goes below zero, after a purchase neither.
LEMMA TimelineNets ==
  ASSUME NEW table, Rows(table), IsAssetTimelineValid(table), NEW j \in Existing(table),
         table[j].type # "BUY"
  PROVE  Net(table, Until(table, j)) >= 0
<1>1. Held(table, Until(table, j)) >= 0
  BY DEF IsAssetTimelineValid, Until
<1>2. Weighed(table, Until(table, j))
  BY RowsAreWeighed DEF Until
<1> QED
  BY <1>1, <1>2, HeldIsNet

\* Two tables that differ in other columns only have the same timeline.
LEMMA SameTimeline ==
  ASSUME NEW t, NEW u, Rows(t), Rows(u), Existing(t) = Existing(u),
         \A i \in Existing(t) : /\ t[i].type = u[i].type
                                /\ t[i].quantity = u[i].quantity
                                /\ t[i].date = u[i].date,
         IsAssetTimelineValid(t)
  PROVE  IsAssetTimelineValid(u)
<1> SUFFICES ASSUME NEW j \in Existing(u), u[j].type # "BUY"
             PROVE  Held(u, Until(u, j)) >= 0
  BY DEF IsAssetTimelineValid, Until
<1>1. Net(t, Until(t, j)) >= 0
  BY TimelineNets
<1>2. Until(t, j) = Until(u, j)
  BY DEF Until, Precedes
<1>3. \A i \in Existing(t) : Signed(t[i]) = Signed(u[i])
  BY DEF Signed
<1>4. Net(t, Until(u, j)) = Net(u, Until(u, j))
  <2>1. \A i \in Until(u, j) : Signed(t[i]) = Signed(u[i])
    BY <1>3 DEF Until
  <2>2. Gained(t, Until(u, j)) = Gained(u, Until(u, j))
    BY <2>1 DEF Gained
  <2>3. Lost(t, Until(u, j)) = Lost(u, Until(u, j))
    BY <2>1 DEF Lost
  <2> QED
    BY <2>2, <2>3 DEF Net
<1>5. Weighed(u, Until(u, j))
  BY RowsAreWeighed DEF Until
<1> QED
  BY <1>1, <1>2, <1>4, <1>5, HeldIsNet

\* Of some transactions, one is the last of the timeline.
LEMMA LastOfTimeline ==
  ASSUME NEW table, Rows(table), NEW S, S \subseteq Existing(table), S # {}
  PROVE  \E j \in S : \A i \in S : Precedes(table, i, j)
<1>1. \A i \in S : i \in 1 .. NTransactions /\ table[i].date \in 1 .. LastDay
  BY ExistingRows, RowFields DEF Ids, Days
<1>2. NTransactions \in Nat /\ LastDay \in Nat
  BY AssetsAssumption
<1> DEFINE Ages == {LastDay - table[i].date : i \in S}
<1>3. Ages \subseteq Nat /\ Ages # {}
  BY <1>1, <1>2
<1>4. PICK a \in Ages : \A b \in Ages : a <= b
  <2> HIDE DEF Ages
  <2> QED
    BY <1>3, Least
<1>5. PICK l \in S : a = LastDay - table[l].date
  BY <1>4
<1>6. ASSUME NEW i \in S PROVE table[i].date <= table[l].date
  <2>1. a <= LastDay - table[i].date
    BY <1>4
  <2> QED
    BY <1>1, <1>2, <1>5, <2>1
<1> DEFINE Left == {NTransactions - i : i \in {k \in S : table[k].date = table[l].date}}
<1>7. Left \subseteq Nat /\ Left # {}
  BY <1>1, <1>2
<1>8. PICK c \in Left : \A b \in Left : c <= b
  <2> HIDE DEF Left
  <2> QED
    BY <1>7, Least
<1>9. PICK j \in S : table[j].date = table[l].date /\ c = NTransactions - j
  BY <1>8
<1>10. ASSUME NEW i \in S, table[i].date = table[l].date PROVE i <= j
  <2>1. c <= NTransactions - i
    BY <1>8, <1>10
  <2> QED
    BY <1>1, <1>2, <1>9, <2>1
<1>11. ASSUME NEW i \in S PROVE Precedes(table, i, j)
  <2>1. table[i].date <= table[j].date /\ table[i].date \in Int /\ table[j].date \in Int
    BY <1>1, <1>6, <1>9
  <2>2. CASE table[i].date = table[j].date
    BY <1>9, <1>10, <2>2 DEF Precedes
  <2>3. CASE table[i].date < table[j].date
    BY <2>3 DEF Precedes
  <2> QED
    BY <2>1, <2>2, <2>3
<1> QED
  BY <1>11

\* A valid timeline holds nothing negative at the end of any day: up to the last
\* transaction of the day that is no purchase it does not, and what follows it
\* are purchases.
LEMMA NeverShort ==
  ASSUME NEW table, Rows(table), IsAssetTimelineValid(table), NEW day \in Days
  PROVE  HeldOn(table, day) >= 0
<1> DEFINE U == Through(table, day)
           Others == {i \in U : table[i].type # "BUY"}
<1>1. U \subseteq Existing(table)
  BY DEF Through
<1>2. \A i \in U : i \in Ids /\ table[i] \in Row /\ ValuesAreValid(table[i])
  BY <1>1, ExistingRows
<1>3. HeldOn(table, day) = Net(table, U)
  <2>1. HeldOn(table, day) = Held(table, U)
    BY DEF HeldOn, Through
  <2> QED
    BY <1>1, <2>1, RowsAreWeighed, HeldIsNet
<1>4. ASSUME NEW S, S \subseteq U, \A i \in S : table[i].type = "BUY"
      PROVE  Net(table, S) >= 0 /\ Net(table, S) \in Int
  <2>1. Weighed(table, S)
    BY <1>1, <1>4, RowsAreWeighed
  <2>2. \A i \in S : Signed(table[i]) >= 0
    <3>1. ASSUME NEW i \in S PROVE Signed(table[i]) >= 0
      <4>1. Signed(table[i]) > 0 /\ Signed(table[i]) \in -MaxQuantity .. MaxQuantity
        BY <1>2, <1>4, SignedUnits
      <4> QED
        BY <4>1, AssetsAssumption
    <3> QED
      BY <3>1
  <2> QED
    BY <2>1, <2>2, NetOfGains, HeldIsNet
<1>5. CASE Others = {}
  BY <1>3, <1>4, <1>5
<1>6. CASE Others # {}
  <2>1. PICK j \in Others : \A i \in Others : Precedes(table, i, j)
    <3>1. Others \subseteq Existing(table)
      BY <1>1
    <3> HIDE DEF Others
    <3> QED
      BY <1>6, <3>1, LastOfTimeline
  <2> DEFINE P == Until(table, j)
             Later == U \ P
  <2>2. P \subseteq U
    <3>1. ASSUME NEW i \in P PROVE i \in U
      <4>1. i \in Existing(table) /\ (table[i].date < table[j].date \/ table[i].date = table[j].date)
        BY DEF Until, Precedes
      <4>2. table[j].date <= day
        BY DEF Through
      <4>3. table[i].date \in Nat /\ table[j].date \in Nat /\ day \in Nat
        BY <1>2, <4>1, ExistingRows, RowFields DEF Days
      <4> QED
        BY <4>1, <4>2, <4>3 DEF Through
    <3> QED
      BY <3>1
  <2>3. \A i \in Later : table[i].type = "BUY"
    <3>1. ASSUME NEW i \in U, table[i].type # "BUY" PROVE i \in P
      BY <1>1, <2>1, <3>1 DEF Until
    <3> QED
      BY <3>1
  <2>4. Net(table, P) >= 0 /\ Net(table, P) \in Int
    <3>1. Net(table, P) >= 0
      BY <1>1, TimelineNets
    <3>2. Weighed(table, P)
      BY RowsAreWeighed DEF Until
    <3> QED
      BY <3>1, <3>2, HeldIsNet
  <2> HIDE DEF P
  <2>5. Net(table, Later) >= 0 /\ Net(table, Later) \in Int
    BY <1>4, <2>3
  <2>6. U = P \cup Later /\ P \cap Later = {} /\ P \subseteq Ids /\ Later \subseteq Ids
    BY <1>2, <2>2
  <2> HIDE DEF Later, U
  <2>7. Net(table, U) = Net(table, P) + Net(table, Later)
    BY <2>6, NetAddsUp
  <2> QED
    BY <1>3, <2>4, <2>5, <2>7
<1> QED
  BY <1>5, <1>6

-----------------------------------------------------------------------------
(* The tables: what the writers keep.                                        *)

\* The three tables agree, and the timeline is valid.
Books(transactions, expenses, entries) ==
  /\ Rows(transactions) /\ IsAssetTimelineValid(transactions)
  /\ Matches(transactions, expenses, "BUY")
  /\ Matches(transactions, entries, "SELL")

\* A request has the shape FindOwned gives it, and a report in progress has a
\* snapshot of tables that agree, and has seen nothing else.
Requests == worker = [w \in Workers |-> worker[w]]

Reading ==
  report.pc = "reading" =>
    /\ report = [pc |-> "reading", snapshot |-> report.snapshot, seen |-> report.seen]
    /\ report.seen = [t \in Tables |-> report.seen[t]]
    /\ \A t \in Tables : report.seen[t] \in {Null, report.snapshot[t]}
    /\ Books(report.snapshot["transactions"], report.snapshot["expenses"],
             report.snapshot["entries"])

IInv == TypeOK /\ Books(assetTransaction, expense, entry) /\ Requests /\ Reading

\* The part of TypeOK about the tables.
TableTypes ==
  /\ assetTransaction \in [Ids -> Row \cup {Null}]
  /\ expense \in [Ids -> LedgerRow \cup {Null}]
  /\ entry \in [Ids -> LedgerRow \cup {Null}]

\* The row with its pointers is a row of the same transaction.
LEMMA WithLedgerRow ==
  ASSUME NEW row \in Row
  PROVE  /\ WithLedger(row) \in Row /\ WithLedger(row) # Null
         /\ WithLedger(row).type = row.type /\ WithLedger(row).quantity = row.quantity
         /\ WithLedger(row).cash = row.cash /\ WithLedger(row).date = row.date
         /\ WithLedger(row).expenseId = (row.type = "BUY")
         /\ WithLedger(row).entryId = (row.type = "SELL")
<1> DEFINE bought == row.type = "BUY"
           sold == row.type = "SELL"
           new == [row EXCEPT !.expenseId = bought, !.entryId = sold]
<1>1. WithLedger(row) = new
  BY DEF WithLedger
<1>2. bought \in BOOLEAN /\ sold \in BOOLEAN
  OBVIOUS
<1> HIDE DEF bought, sold
<1>3. /\ new \in Row
      /\ new.type = row.type /\ new.quantity = row.quantity
      /\ new.cash = row.cash /\ new.date = row.date
      /\ new.expenseId = bought /\ new.entryId = sold
  BY <1>2 DEF Row
<1> HIDE DEF new
<1> QED
  BY <1>1, <1>3, NullIsNoRow DEF bought, sold

\* Save keeps the books: the transaction has its row, and its rows follow it.
LEMMA SaveKeepsBooks ==
  ASSUME TableTypes, Books(assetTransaction, expense, entry),
         NEW i \in Ids, NEW row \in Row, ValuesAreValid(row),
         IsAssetTimelineValid([assetTransaction EXCEPT ![i] = row]),
         Save(i, row)
  PROVE  /\ TableTypes' /\ Books(assetTransaction, expense, entry)'
         /\ Existing(assetTransaction)' = Existing(assetTransaction) \cup {i}
         /\ assetTransaction'[i] = WithLedger(row)
<1> DEFINE new == WithLedger(row)
           asked == [assetTransaction EXCEPT ![i] = row]
           bought == IF new.expenseId THEN LedgerRowOf(row) ELSE Null
           sold == IF new.entryId THEN LedgerRowOf(row) ELSE Null
<1>1. /\ assetTransaction' = [assetTransaction EXCEPT ![i] = new]
      /\ expense' = [expense EXCEPT ![i] = bought]
      /\ entry' = [entry EXCEPT ![i] = sold]
  BY DEF Save
<1>2. /\ new \in Row /\ new # Null /\ row # Null
      /\ new.type = row.type /\ new.quantity = row.quantity
      /\ new.cash = row.cash /\ new.date = row.date
      /\ new.expenseId = (row.type = "BUY") /\ new.entryId = (row.type = "SELL")
  BY WithLedgerRow, NullIsNoRow
<1>3. LedgerRowOf(new) = LedgerRowOf(row)
  BY <1>2 DEF LedgerRowOf
<1>4. row.type # "MANUAL_ADJUSTMENT" => LedgerRowOf(row) \in LedgerRow
  <2>1. row.cash \in 0 .. MaxCash /\ row.date \in Days
    BY RowFields
  <2>2. row.type # "MANUAL_ADJUSTMENT" => row.cash \in 1 .. MaxCash
    BY <2>1 DEF ValuesAreValid
  <2> QED
    BY <2>1, <2>2 DEF LedgerRowOf, LedgerRow
<1>5. bought \in LedgerRow \cup {Null} /\ sold \in LedgerRow \cup {Null}
  BY <1>2, <1>4
<1>6. /\ bought = IF new # Null /\ new.type = "BUY" THEN LedgerRowOf(new) ELSE Null
      /\ sold = IF new # Null /\ new.type = "SELL" THEN LedgerRowOf(new) ELSE Null
  BY <1>2, <1>3
<1>7. ValuesAreValid(new)
  BY <1>2 DEF ValuesAreValid
<1> HIDE DEF new, bought, sold
<1>8. TableTypes'
  BY <1>1, <1>2, <1>5 DEF TableTypes
<1>9. /\ assetTransaction'[i] = new /\ expense'[i] = bought /\ entry'[i] = sold
      /\ \A k \in Ids \ {i} : /\ assetTransaction'[k] = assetTransaction[k]
                             /\ expense'[k] = expense[k] /\ entry'[k] = entry[k]
  BY <1>1 DEF TableTypes
<1>10. Existing(assetTransaction)' = Existing(assetTransaction) \cup {i}
  BY <1>2, <1>9 DEF Existing
<1>11. Rows(assetTransaction)'
  BY <1>7, <1>8, <1>9, <1>10 DEF Rows, Books, TableTypes, Existing
<1>12. Matches(assetTransaction, expense, "BUY")'
  BY <1>6, <1>9 DEF Matches, Books
<1>13. Matches(assetTransaction, entry, "SELL")'
  BY <1>6, <1>9 DEF Matches, Books
<1>14. IsAssetTimelineValid(assetTransaction)'
  <2>1. /\ asked \in [Ids -> Row \cup {Null}] /\ asked[i] = row
        /\ \A k \in Ids \ {i} : asked[k] = assetTransaction[k]
    BY DEF TableTypes
  <2>2. IsAssetTimelineValid(asked)
    OBVIOUS
  <2> HIDE DEF asked
  <2>3. Existing(asked) = Existing(assetTransaction)'
    BY <1>2, <1>10, <2>1 DEF Existing
  <2>4. Rows(asked)
    BY <2>1, <1>2 DEF Rows, Books, Existing
  <2>5. \A k \in Existing(asked) : /\ asked[k].type = assetTransaction'[k].type
                                  /\ asked[k].quantity = assetTransaction'[k].quantity
                                  /\ asked[k].date = assetTransaction'[k].date
    BY <1>2, <1>9, <2>1 DEF Existing
  <2> QED
    BY <1>11, <2>2, <2>3, <2>4, <2>5, SameTimeline
<1> QED
  BY <1>8, <1>9, <1>10, <1>11, <1>12, <1>13, <1>14 DEF Books, new

\* A removed transaction takes its rows with it.
LEMMA RemovalKeepsBooks ==
  ASSUME TableTypes, Books(assetTransaction, expense, entry), NEW i \in Ids,
         IsAssetTimelineValid([assetTransaction EXCEPT ![i] = Null]),
         assetTransaction' = [assetTransaction EXCEPT ![i] = Null],
         expense' = [expense EXCEPT ![i] = Null],
         entry' = [entry EXCEPT ![i] = Null]
  PROVE  /\ TableTypes' /\ Books(assetTransaction, expense, entry)'
         /\ Existing(assetTransaction)' = Existing(assetTransaction) \ {i}
<1>1. TableTypes'
  BY DEF TableTypes
<1>2. /\ assetTransaction'[i] = Null /\ expense'[i] = Null /\ entry'[i] = Null
      /\ \A k \in Ids \ {i} : /\ assetTransaction'[k] = assetTransaction[k]
                             /\ expense'[k] = expense[k] /\ entry'[k] = entry[k]
  BY DEF TableTypes
<1>3. Existing(assetTransaction)' = Existing(assetTransaction) \ {i}
  BY <1>2 DEF Existing
<1>4. Rows(assetTransaction)'
  BY <1>1, <1>2, <1>3 DEF Rows, Books, TableTypes, Existing
<1>5. Matches(assetTransaction, expense, "BUY")' /\ Matches(assetTransaction, entry, "SELL")'
  BY <1>2 DEF Matches, Books
<1>6. IsAssetTimelineValid(assetTransaction)'
  OBVIOUS
<1> QED
  BY <1>1, <1>3, <1>4, <1>5, <1>6 DEF Books

-----------------------------------------------------------------------------
(* The requests and the report.                                              *)

RequestTypes ==
  \A w \in Workers :
    /\ worker[w].kind \in {"idle", "patch", "delete"}
    /\ worker[w].kind # "idle" => worker[w].id \in created
    /\ worker[w].kind = "patch" => worker[w].patch \in Patch

Counters == patches \in 0 .. MaxPatches /\ reports \in 0 .. MaxReports

Ledgers ==
  /\ TableTypes /\ Books(assetTransaction, expense, entry)
  /\ Existing(assetTransaction) \subseteq created /\ created \subseteq Ids

LEMMA InvariantParts ==
  IInv <=> /\ Ledgers /\ RequestTypes /\ Requests /\ Counters
           /\ report.pc \in {"idle", "reading"} /\ Reading
BY DEF IInv, TypeOK, Ledgers, TableTypes, RequestTypes, Counters

LEMMA InvariantAfter ==
  ASSUME /\ Ledgers' /\ RequestTypes' /\ Requests' /\ Counters'
         /\ report'.pc \in {"idle", "reading"} /\ Reading'
  PROVE  IInv'
BY DEF IInv, TypeOK, Ledgers, TableTypes, RequestTypes, Counters

\* What a PATCH makes of a row: a row, with the fields it names not as they were.
LEMMA MergedRow ==
  ASSUME NEW stored \in Row, NEW patch \in Patch
  PROVE  /\ Merge(stored, patch) \in Row
         /\ \A f \in Fields : patch[f] = Null => Merge(stored, patch)[f] = stored[f]
<1> DEFINE type == IF patch.type = Null THEN stored.type ELSE patch.type
           quantity == IF patch.quantity = Null THEN stored.quantity ELSE patch.quantity
           cash == IF patch.cash = Null THEN stored.cash ELSE patch.cash
           date == IF patch.date = Null THEN stored.date ELSE patch.date
           new == [stored EXCEPT !.type = type, !.quantity = quantity,
                                 !.cash = cash, !.date = date]
<1>1. /\ patch.type \in Kinds \cup {Null} /\ patch.quantity \in Quantities \cup {Null}
      /\ patch.cash \in 0 .. MaxCash \cup {Null} /\ patch.date \in Days \cup {Null}
  BY DEF Patch
<1>2. /\ type \in Kinds /\ quantity \in Quantities
      /\ cash \in 0 .. MaxCash /\ date \in Days
  BY <1>1, RowFields
<1>3. Merge(stored, patch) = new
  BY DEF Merge
<1>4. /\ patch.type = Null => type = stored.type
      /\ patch.quantity = Null => quantity = stored.quantity
      /\ patch.cash = Null => cash = stored.cash
      /\ patch.date = Null => date = stored.date
  OBVIOUS
<1> HIDE DEF type, quantity, cash, date
<1>5. /\ new \in Row
      /\ new.type = type /\ new.quantity = quantity
      /\ new.cash = cash /\ new.date = date
  BY <1>2 DEF Row
<1> HIDE DEF new
<1>6. \A f \in Fields : patch[f] = Null => new[f] = stored[f]
  BY <1>4, <1>5 DEF Fields
<1> QED
  BY <1>3, <1>5, <1>6

\* One request begins or ends.
LEMMA OneRequest ==
  ASSUME Requests, RequestTypes, NEW w \in Workers, NEW r,
         worker' = [worker EXCEPT ![w] = r], created \subseteq created',
         /\ r.kind \in {"idle", "patch", "delete"}
         /\ r.kind # "idle" => r.id \in created
         /\ r.kind = "patch" => r.patch \in Patch
  PROVE  Requests' /\ RequestTypes'
<1>1. worker' = [v \in Workers |-> IF v = w THEN r ELSE worker[v]]
  BY DEF Requests
<1>2. Requests'
  BY <1>1 DEF Requests
<1>3. \A v \in Workers : worker'[v] = IF v = w THEN r ELSE worker[v]
  BY <1>1
<1> QED
  BY <1>2, <1>3 DEF RequestTypes

LEMMA EndOfRequest ==
  ASSUME Requests, RequestTypes, NEW w \in Workers,
         worker' = [worker EXCEPT ![w] = IdleWorker], created' = created
  PROVE  Requests' /\ RequestTypes'
<1>1. IdleWorker.kind = "idle"
  BY DEF IdleWorker
<1> QED
  BY <1>1, OneRequest

\* A report is not touched by the writers.
LEMMA ReportStays ==
  ASSUME Reading, report.pc \in {"idle", "reading"}, report' = report
  PROVE  Reading' /\ report'.pc \in {"idle", "reading"}
BY DEF Reading

LEMMA CreateKeeps ==
  ASSUME IInv, NEW i \in Ids, NEW row \in Row, CreateAssetTransaction(i, row)
  PROVE  IInv'
<1>1. /\ Ledgers /\ RequestTypes /\ Requests /\ Counters
      /\ report.pc \in {"idle", "reading"} /\ Reading
  BY InvariantParts
<1>2. /\ ValuesAreValid(row) /\ Save(i, row)
      /\ IsAssetTimelineValid([assetTransaction EXCEPT ![i] = row])
      /\ created' = created \cup {i}
      /\ worker' = worker /\ patches' = patches /\ report' = report /\ reports' = reports
  BY DEF CreateAssetTransaction
<1>3. /\ TableTypes' /\ Books(assetTransaction, expense, entry)'
      /\ Existing(assetTransaction)' = Existing(assetTransaction) \cup {i}
  BY <1>1, <1>2, SaveKeepsBooks DEF Ledgers
<1>4. Ledgers'
  BY <1>1, <1>2, <1>3 DEF Ledgers
<1>5. RequestTypes' /\ Requests' /\ Counters'
  BY <1>1, <1>2 DEF RequestTypes, Requests, Counters
<1>6. Reading' /\ report'.pc \in {"idle", "reading"}
  BY <1>1, <1>2, ReportStays
<1> QED
  BY <1>4, <1>5, <1>6, InvariantAfter

LEMMA FindKeeps ==
  ASSUME IInv, NEW w \in Workers, NEW kind \in {"patch", "delete"}, NEW i \in Ids, NEW patch,
         kind = "patch" => patch \in Patch, FindOwned(w, kind, i, patch)
  PROVE  IInv'
<1> DEFINE r == [kind |-> kind, id |-> i, patch |-> patch, stored |-> assetTransaction[i]]
<1>1. /\ Ledgers /\ RequestTypes /\ Requests /\ Counters
      /\ report.pc \in {"idle", "reading"} /\ Reading
  BY InvariantParts
<1>2. /\ patches < MaxPatches /\ patches' = patches + 1
      /\ assetTransaction[i] # Null
      /\ worker' = [worker EXCEPT ![w] = r]
      /\ UNCHANGED <<assetTransaction, expense, entry, created>>
      /\ report' = report /\ reports' = reports
  BY DEF FindOwned, db
<1>3. i \in created
  BY <1>1, <1>2 DEF Ledgers, Existing
<1>4. r.kind = kind /\ r.id = i /\ r.patch = patch
  OBVIOUS
<1> HIDE DEF r
<1>5. Requests' /\ RequestTypes'
  BY <1>1, <1>2, <1>3, <1>4, OneRequest
<1>6. Ledgers'
  BY <1>1, <1>2 DEF Ledgers, TableTypes
<1>7. Counters'
  BY <1>1, <1>2, AssetsAssumption DEF Counters
<1>8. Reading' /\ report'.pc \in {"idle", "reading"}
  BY <1>1, <1>2, ReportStays
<1> QED
  BY <1>5, <1>6, <1>7, <1>8, InvariantAfter

\* What UpdateAssetTransaction writes: the row it read under the lock, merged.
LEMMA UpdateWrites ==
  ASSUME IInv, NEW w \in Workers, UpdateAssetTransaction(w)
  PROVE  LET i == worker[w].id
             row == Merge(assetTransaction[i], worker[w].patch)
         IN  /\ i \in Ids /\ i \in Existing(assetTransaction) /\ assetTransaction[i] \in Row
             /\ worker[w].patch \in Patch
             /\ row \in Row /\ ValuesAreValid(row)
             /\ IsAssetTimelineValid([assetTransaction EXCEPT ![i] = row])
             /\ Save(i, row)
<1> DEFINE i == worker[w].id
           row == Merge(assetTransaction[i], worker[w].patch)
<1>1. /\ Ledgers /\ RequestTypes
  BY InvariantParts
<1>2. /\ worker[w].kind = "patch" /\ assetTransaction[i] # Null
      /\ ValuesAreValid(row) /\ Save(i, row)
      /\ IsAssetTimelineValid([assetTransaction EXCEPT ![i] = row])
  BY DEF UpdateAssetTransaction, StoredUnderLock
<1>3. i \in Ids /\ worker[w].patch \in Patch
  BY <1>1, <1>2 DEF Ledgers, RequestTypes
<1>4. i \in Existing(assetTransaction) /\ assetTransaction[i] \in Row
  BY <1>1, <1>2, <1>3 DEF Ledgers, TableTypes, Existing
<1>5. row \in Row
  BY <1>3, <1>4, MergedRow
<1> QED
  BY <1>2, <1>3, <1>4, <1>5

LEMMA UpdateKeeps ==
  ASSUME IInv, NEW w \in Workers, UpdateAssetTransaction(w)
  PROVE  IInv'
<1> DEFINE i == worker[w].id
           row == Merge(assetTransaction[i], worker[w].patch)
<1>1. /\ Ledgers /\ RequestTypes /\ Requests /\ Counters
      /\ report.pc \in {"idle", "reading"} /\ Reading
  BY InvariantParts
<1>2. /\ i \in Ids /\ i \in Existing(assetTransaction) /\ row \in Row /\ ValuesAreValid(row)
      /\ IsAssetTimelineValid([assetTransaction EXCEPT ![i] = row]) /\ Save(i, row)
  BY UpdateWrites
<1>3. /\ worker' = [worker EXCEPT ![w] = IdleWorker]
      /\ created' = created /\ patches' = patches /\ report' = report /\ reports' = reports
  BY DEF UpdateAssetTransaction
<1> HIDE DEF i, row
<1>4. /\ TableTypes' /\ Books(assetTransaction, expense, entry)'
      /\ Existing(assetTransaction)' = Existing(assetTransaction) \cup {i}
  BY <1>1, <1>2, SaveKeepsBooks DEF Ledgers
<1>5. Ledgers'
  BY <1>1, <1>2, <1>3, <1>4 DEF Ledgers
<1>6. Requests' /\ RequestTypes'
  BY <1>1, <1>3, EndOfRequest
<1>7. Counters'
  BY <1>1, <1>3 DEF Counters
<1>8. Reading' /\ report'.pc \in {"idle", "reading"}
  BY <1>1, <1>3, ReportStays
<1> QED
  BY <1>5, <1>6, <1>7, <1>8, InvariantAfter

LEMMA DeleteKeeps ==
  ASSUME IInv, NEW w \in Workers, DeleteAssetTransaction(w)
  PROVE  IInv'
<1> DEFINE i == worker[w].id
<1>1. /\ Ledgers /\ RequestTypes /\ Requests /\ Counters
      /\ report.pc \in {"idle", "reading"} /\ Reading
  BY InvariantParts
<1>2. /\ IsAssetTimelineValid([assetTransaction EXCEPT ![i] = Null])
      /\ assetTransaction' = [assetTransaction EXCEPT ![i] = Null]
      /\ expense' = [expense EXCEPT ![i] = Null] /\ entry' = [entry EXCEPT ![i] = Null]
      /\ worker' = [worker EXCEPT ![w] = IdleWorker]
      /\ created' = created /\ patches' = patches /\ report' = report /\ reports' = reports
      /\ worker[w].kind = "delete"
  BY DEF DeleteAssetTransaction
<1>3. i \in Ids
  BY <1>1, <1>2 DEF Ledgers, RequestTypes
<1> HIDE DEF i
<1>4. /\ TableTypes' /\ Books(assetTransaction, expense, entry)'
      /\ Existing(assetTransaction)' = Existing(assetTransaction) \ {i}
  BY <1>1, <1>2, <1>3, RemovalKeepsBooks DEF Ledgers
<1>5. Ledgers'
  BY <1>1, <1>2, <1>4 DEF Ledgers
<1>6. Requests' /\ RequestTypes'
  BY <1>1, <1>2, EndOfRequest
<1>7. Counters'
  BY <1>1, <1>2 DEF Counters
<1>8. Reading' /\ report'.pc \in {"idle", "reading"}
  BY <1>1, <1>2, ReportStays
<1> QED
  BY <1>5, <1>6, <1>7, <1>8, InvariantAfter

LEMMA RefuseKeeps ==
  ASSUME IInv, NEW w \in Workers, Refuse(w)
  PROVE  IInv'
<1>1. /\ Ledgers /\ RequestTypes /\ Requests /\ Counters
      /\ report.pc \in {"idle", "reading"} /\ Reading
  BY InvariantParts
<1>2. /\ worker' = [worker EXCEPT ![w] = IdleWorker]
      /\ UNCHANGED <<assetTransaction, expense, entry, created>>
      /\ patches' = patches /\ report' = report /\ reports' = reports
  BY DEF Refuse, db
<1>3. Requests' /\ RequestTypes'
  BY <1>1, <1>2, EndOfRequest
<1>4. Ledgers' /\ Counters'
  BY <1>1, <1>2 DEF Ledgers, TableTypes, Counters
<1>5. Reading' /\ report'.pc \in {"idle", "reading"}
  BY <1>1, <1>2, ReportStays
<1> QED
  BY <1>3, <1>4, <1>5, InvariantAfter

\* The report's own steps leave the tables and the requests alone.
LEMMA WritersStay ==
  ASSUME Ledgers, RequestTypes, Requests, Counters,
         UNCHANGED <<assetTransaction, expense, entry, created, worker, patches>>,
         reports' \in 0 .. MaxReports
  PROVE  Ledgers' /\ RequestTypes' /\ Requests' /\ Counters'
BY DEF Ledgers, TableTypes, RequestTypes, Requests, Counters

LEMMA BeginReportKeeps ==
  ASSUME IInv, BeginReport
  PROVE  IInv'
<1> DEFINE snapshot == [t \in Tables |-> Contents(t)]
           seen == [t \in Tables |-> Null]
<1>1. Ledgers /\ RequestTypes /\ Requests /\ Counters
  BY InvariantParts
<1>2. /\ report' = [pc |-> "reading", snapshot |-> snapshot, seen |-> seen]
      /\ reports < MaxReports /\ reports' = reports + 1
      /\ UNCHANGED <<assetTransaction, expense, entry, created, worker, patches>>
  BY DEF BeginReport, db
<1>3. reports' \in 0 .. MaxReports
  BY <1>1, <1>2, AssetsAssumption DEF Counters
<1>4. /\ snapshot["transactions"] = assetTransaction
      /\ snapshot["expenses"] = expense
      /\ snapshot["entries"] = entry
  BY DEF Tables, Contents
<1>5. seen = [t \in Tables |-> seen[t]] /\ \A t \in Tables : seen[t] = Null
  OBVIOUS
<1> HIDE DEF snapshot, seen
<1>6. report'.pc = "reading" /\ report'.snapshot = snapshot /\ report'.seen = seen
  BY <1>2
<1>7. Reading'
  BY <1>1, <1>2, <1>4, <1>5, <1>6 DEF Reading, Ledgers
<1>8. Ledgers' /\ RequestTypes' /\ Requests' /\ Counters'
  BY <1>1, <1>2, <1>3, WritersStay
<1> QED
  BY <1>6, <1>7, <1>8, InvariantAfter

LEMMA ReadTableKeeps ==
  ASSUME IInv, NEW t \in Tables, ReadTable(t)
  PROVE  IInv'
<1> DEFINE seen == [report.seen EXCEPT ![t] = report.snapshot[t]]
<1>1. Ledgers /\ RequestTypes /\ Requests /\ Counters /\ Reading
  BY InvariantParts
<1>2. /\ report.pc = "reading" /\ report' = [report EXCEPT !.seen[t] = report.snapshot[t]]
      /\ UNCHANGED <<assetTransaction, expense, entry, created, worker, patches, reports>>
  BY DEF ReadTable, Visible, db
<1>3. /\ report = [pc |-> "reading", snapshot |-> report.snapshot, seen |-> report.seen]
      /\ report.seen = [u \in Tables |-> report.seen[u]]
      /\ \A u \in Tables : report.seen[u] \in {Null, report.snapshot[u]}
      /\ Books(report.snapshot["transactions"], report.snapshot["expenses"],
               report.snapshot["entries"])
  BY <1>1, <1>2 DEF Reading
<1>4. report' = [report EXCEPT !.seen = seen]
  BY <1>2
<1>5. /\ seen = [u \in Tables |-> seen[u]]
      /\ \A u \in Tables : seen[u] \in {Null, report.snapshot[u]}
  BY <1>3
<1> HIDE DEF seen
<1>6. report' = [pc |-> "reading", snapshot |-> report.snapshot, seen |-> seen]
  BY <1>3, <1>4
<1>7. report'.pc = "reading" /\ report'.snapshot = report.snapshot /\ report'.seen = seen
  BY <1>6
<1>8. Reading'
  BY <1>3, <1>5, <1>6, <1>7 DEF Reading
<1>9. reports' \in 0 .. MaxReports
  BY <1>1, <1>2 DEF Counters
<1>10. Ledgers' /\ RequestTypes' /\ Requests' /\ Counters'
  BY <1>1, <1>2, <1>9, WritersStay
<1> QED
  BY <1>7, <1>8, <1>10, InvariantAfter

LEMMA FinishReportKeeps ==
  ASSUME IInv, FinishReport
  PROVE  IInv'
<1>1. Ledgers /\ RequestTypes /\ Requests /\ Counters
  BY InvariantParts
<1>2. /\ report' = NoReport
      /\ UNCHANGED <<assetTransaction, expense, entry, created, worker, patches, reports>>
  BY DEF FinishReport, db
<1>3. report'.pc = "idle"
  BY <1>2 DEF NoReport
<1>4. Reading'
  BY <1>3 DEF Reading
<1>5. reports' \in 0 .. MaxReports
  BY <1>1, <1>2 DEF Counters
<1>6. Ledgers' /\ RequestTypes' /\ Requests' /\ Counters'
  BY <1>1, <1>2, <1>5, WritersStay
<1> QED
  BY <1>3, <1>4, <1>6, InvariantAfter

-----------------------------------------------------------------------------
(* The theorems.                                                             *)

LEMMA InitKeeps == Init => IInv
<1> SUFFICES ASSUME Init PROVE IInv
  OBVIOUS
<1>1. /\ assetTransaction = NoRows /\ expense = NoRows /\ entry = NoRows /\ created = {}
      /\ worker = [w \in Workers |-> IdleWorker] /\ patches = 0 /\ reports = 0
      /\ report = NoReport
  BY DEF Init
<1>2. /\ NoRows \in [Ids -> Row \cup {Null}] /\ NoRows \in [Ids -> LedgerRow \cup {Null}]
      /\ Existing(NoRows) = {}
  BY DEF NoRows, Existing
<1>3. Books(NoRows, NoRows, NoRows)
  <2>1. Rows(NoRows) /\ IsAssetTimelineValid(NoRows)
    BY <1>2 DEF Rows, IsAssetTimelineValid
  <2>2. Matches(NoRows, NoRows, "BUY") /\ Matches(NoRows, NoRows, "SELL")
    BY DEF Matches, NoRows
  <2> QED
    BY <2>1, <2>2 DEF Books
<1>4. Ledgers
  BY <1>1, <1>2, <1>3 DEF Ledgers, TableTypes
<1>5. Requests /\ RequestTypes
  BY <1>1 DEF Requests, RequestTypes, IdleWorker
<1>6. Counters
  BY <1>1, AssetsAssumption DEF Counters
<1>7. report.pc = "idle" /\ Reading
  BY <1>1 DEF NoReport, Reading
<1> QED
  BY <1>4, <1>5, <1>6, <1>7, InvariantParts

LEMMA NextKeeps ==
  ASSUME IInv, [Next]_vars
  PROVE  IInv'
<1>1. ASSUME NEW i \in Ids, NEW row \in Row, CreateAssetTransaction(i, row) PROVE IInv'
  BY <1>1, CreateKeeps
<1>2. ASSUME NEW w \in Workers, NEW i \in Ids, FindOwned(w, "delete", i, Null) PROVE IInv'
  BY <1>2, FindKeeps
<1>3. ASSUME NEW w \in Workers, NEW i \in Ids, NEW p \in Patch, FindOwned(w, "patch", i, p)
      PROVE  IInv'
  BY <1>3, FindKeeps
<1>4. ASSUME NEW w \in Workers,
             UpdateAssetTransaction(w) \/ DeleteAssetTransaction(w) \/ Refuse(w)
      PROVE  IInv'
  BY <1>4, UpdateKeeps, DeleteKeeps, RefuseKeeps
<1>5. CASE BeginReport
  BY <1>5, BeginReportKeeps
<1>6. ASSUME NEW t \in Tables, ReadTable(t) PROVE IInv'
  BY <1>6, ReadTableKeeps
<1>7. CASE FinishReport
  BY <1>7, FinishReportKeeps
<1>8. CASE UNCHANGED vars
  <2>1. /\ Ledgers /\ RequestTypes /\ Requests /\ Counters
        /\ report.pc \in {"idle", "reading"} /\ Reading
    BY InvariantParts
  <2>2. /\ UNCHANGED <<assetTransaction, expense, entry, created, worker, patches>>
        /\ reports' = reports /\ report' = report
    BY <1>8 DEF vars, db
  <2>3. Ledgers' /\ RequestTypes' /\ Requests' /\ Counters'
    BY <2>1, <2>2, WritersStay DEF Counters
  <2>4. Reading' /\ report'.pc \in {"idle", "reading"}
    BY <2>1, <2>2, ReportStays
  <2> QED
    BY <2>3, <2>4, InvariantAfter
<1> QED
  BY <1>1, <1>2, <1>3, <1>4, <1>5, <1>6, <1>7, <1>8 DEF Next

\* The types, and the three tables in step, in the database and in the snapshot
\* of a report in progress, whatever requests come, race and end.
THEOREM Invariant == Spec => []IInv
<1>1. Init => IInv
  BY InitKeeps
<1>2. IInv /\ [Next]_vars => IInv'
  BY NextKeeps
<1> QED
  BY <1>1, <1>2, PTL DEF Spec

\* Every variable keeps its type.
THEOREM TypeCorrect == Spec => []TypeOK
<1>1. IInv => TypeOK
  BY DEF IInv
<1> QED
  BY <1>1, Invariant, PTL

\* What a report shows adds up, however the writers go on while it reads: its
\* tables are those of one moment, and in those the internal rows match the
\* transactions and no day holds less than nothing.
THEOREM ReportAddsUp == Spec => []ReportsAddUp
<1>1. IInv => ReportsAddUp
  <2> SUFFICES ASSUME IInv, report.pc = "reading", \A t \in Tables : report.seen[t] # Null
               PROVE  /\ Matches(report.seen["transactions"], report.seen["expenses"], "BUY")
                      /\ Matches(report.seen["transactions"], report.seen["entries"], "SELL")
                      /\ \A d \in Days : HeldOn(report.seen["transactions"], d) >= 0
    BY DEF ReportsAddUp
  <2>1. /\ \A t \in Tables : report.seen[t] = report.snapshot[t]
        /\ Books(report.snapshot["transactions"], report.snapshot["expenses"],
                 report.snapshot["entries"])
    BY DEF IInv, Reading
  <2>2. /\ report.seen["transactions"] = report.snapshot["transactions"]
        /\ report.seen["expenses"] = report.snapshot["expenses"]
        /\ report.seen["entries"] = report.snapshot["entries"]
    BY <2>1 DEF Tables
  <2>3. Books(report.seen["transactions"], report.seen["expenses"], report.seen["entries"])
    BY <2>1, <2>2
  <2> QED
    BY <2>3, NeverShort DEF Books
<1> QED
  BY <1>1, Invariant, PTL

\* A PATCH leaves the fields it does not name as they are when it is written,
\* whatever other requests did between its look-up and its turn.
THEOREM PatchesAreMerged == Spec => PatchesKeepOtherFields
<1> DEFINE Kept(w, f) ==
             UpdateAssetTransaction(w) /\ worker[w].patch[f] = Null =>
               assetTransaction'[worker[w].id][f] = assetTransaction[worker[w].id][f]
<1>1. ASSUME IInv, NEW w \in Workers, NEW f \in Fields,
             UpdateAssetTransaction(w), worker[w].patch[f] = Null
      PROVE  assetTransaction'[worker[w].id][f] = assetTransaction[worker[w].id][f]
  <2> DEFINE i == worker[w].id
             stored == assetTransaction[i]
             row == Merge(stored, worker[w].patch)
  <2>1. /\ i \in Ids /\ stored \in Row /\ worker[w].patch \in Patch /\ row \in Row
        /\ ValuesAreValid(row) /\ Save(i, row)
        /\ IsAssetTimelineValid([assetTransaction EXCEPT ![i] = row])
    BY <1>1, UpdateWrites
  <2>2. row[f] = stored[f]
    BY <1>1, <2>1, MergedRow
  <2> HIDE DEF row
  <2>3. assetTransaction'[i] = WithLedger(row)
    <3>1. Ledgers
      BY <1>1, InvariantParts
    <3> QED
      BY <2>1, <3>1, SaveKeepsBooks DEF Ledgers
  <2>4. WithLedger(row)[f] = row[f]
    <3>1. /\ WithLedger(row).type = row.type /\ WithLedger(row).quantity = row.quantity
          /\ WithLedger(row).cash = row.cash /\ WithLedger(row).date = row.date
      BY <2>1, WithLedgerRow
    <3> QED
      BY <1>1, <3>1 DEF Fields
  <2> QED
    BY <2>2, <2>3, <2>4
<1>2. IInv => \A w \in Workers, f \in Fields : Kept(w, f)
  BY <1>1
<1> QED
  BY <1>2, Invariant, PTL DEF PatchesKeepOtherFields

=============================================================================
