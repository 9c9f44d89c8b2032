-------------------------- MODULE FinanceOpsProofs --------------------------
(***************************************************************************)
(* Theorems about the money operations of the MCP server, for any keys,    *)
(* intents, number of concurrent requests, amounts and days.  The          *)
(* invariant ties the rows of an operation to its time stamp, and keeps    *)
(* the balance after every movement, so that undoing the last one is known *)
(* to give back the balance before it.                                     *)
(***************************************************************************)
EXTENDS FinanceOps, TLAPS

\* What a request in progress relies on; nothing it saw can go away.
RequestKnows(w) ==
  /\ req[w].pc = "commit" =>
       req[w].key \in Keys /\ req[w].nonce \in Nonces /\ Asks(req[w].nonce, "execute")
  /\ req[w].pc = "undo" =>
       req[w].key \in Keys /\ req[w].nonce \in Nonces /\ ops[req[w].key] # None

TokensKnow ==
  \A n \in Nonces : Asks(n, "undo") => ops[token[n].key] # None

\* The rows of operation k.
OperationKnows(k) ==
  /\ ops[k] = None => entry[k].state = "none"
  /\ ops[k] # None =>
       /\ ops[k].at < clock
       /\ ops[k].move = IF Saves(ops[k].action) THEN ops[k].at ELSE 0
       /\ ~Receives(ops[k].action) \/ ops[k].undone => entry[k].state = "none"
       /\ ops[k].undone => \A m \in moves : m.at # ops[k].move
       /\ ~ops[k].undone /\ Saves(ops[k].action) => \E m \in moves : m.at = ops[k].at
       /\ \A m \in moves : m.at = ops[k].move => m.amount = ops[k].action.amount

\* One movement and one operation per transaction.
StampsDiffer ==
  /\ \A m \in moves : m.at < clock
  /\ \A m, o \in moves : m.at = o.at => m = o
  /\ \A j, k \in Keys : ops[j] # None /\ ops[k] # None /\ ops[j].at = ops[k].at => j = k

\* p[c] is the balance after transaction c.
Accounts(p) ==
  /\ p \in [0 .. MaxClock -> Nat]
  /\ balance = p[MaxClock]
  /\ \A m \in moves : p[m.at] = p[m.at - 1] + m.amount
  /\ \A b, c \in 0 .. MaxClock :
       b <= c /\ (\A m \in moves : m.at <= b \/ m.at > c) => p[b] = p[c]
  /\ \A k \in Keys :
       ops[k] # None /\ Saves(ops[k].action) /\ ~ops[k].undone /\ bank.updated <= ops[k].at
         => bank.goal = 0 \/ p[ops[k].at] <= bank.goal

Kept ==
  /\ TypeOK
  /\ \A w \in Workers : RequestKnows(w)
  /\ TokensKnow
  /\ \A k \in Keys : OperationKnows(k)
  /\ StampsDiffer
  /\ AnswersHold

IInv == Kept /\ \E p : Accounts(p)

-----------------------------------------------------------------------------
(* Types.                                                                    *)

LEMMA ExecuteType ==
  ASSUME TypeOK, NEW n \in Nonces, Asks(n, "execute")
  PROVE  token[n].action \in FinanceAction
BY DEF TypeOK, Asks, Token

LEMMA UndoType ==
  ASSUME TypeOK, NEW n \in Nonces, Asks(n, "undo")
  PROVE  token[n].key \in Keys
BY DEF TypeOK, Asks, Token

LEMMA OperationType ==
  ASSUME TypeOK, NEW k \in Keys, ops[k] # None
  PROVE  ops[k] \in OperationRow
BY DEF TypeOK, Operation

LEMMA ActionType ==
  ASSUME NEW a \in FinanceAction
  PROVE  /\ a.amount \in Int /\ a.amount > 0 /\ a.amount \in Nat
         /\ a.date \in Days /\ a.date \in Nat
         /\ Receives(a) \/ Saves(a)
<1>1. a.amount \in Amounts /\ a.date \in Days
  BY DEF FinanceAction
<1>2. a.amount \in Nat /\ a.amount # 0 /\ a.date \in Nat
  BY <1>1, FinanceAssumption
<1>3. Receives(a) \/ Saves(a)
  BY DEF Receives, Saves
<1> QED
  BY <1>1, <1>2, <1>3

LEMMA FinishType ==
  ASSUME TypeOK, NEW w \in Workers, Finish(w)
  PROVE  /\ req' \in [Workers -> Request]
         /\ req'[w].pc = "idle"
         /\ \A v \in Workers \ {w} : req'[v] = req[v]
<1>1. NoRequest \in Request /\ NoRequest.pc = "idle"
  BY FinanceAssumption DEF NoRequest, Request
<1> QED
  BY <1>1 DEF TypeOK, Finish

LEMMA WriteType ==
  ASSUME TypeOK, Write
  PROVE  clock \in Times /\ clock' = clock + 1 /\ clock' \in 1 .. MaxClock + 1
BY FinanceAssumption DEF TypeOK, Write, Times

-----------------------------------------------------------------------------
(* What no step takes back.                                                  *)

Answered(t) ==
  /\ ops[t.key] # None
  /\ IF t.what = "committed" THEN ops[t.key].nonce = t.nonce ELSE ops[t.key].undone

Forward ==
  /\ \A n \in Nonces : token[n] # None => token'[n] = token[n]
  /\ \A k \in Keys : ops[k] # None =>
       /\ ops'[k] # None /\ ops'[k].nonce = ops[k].nonce
       /\ ops[k].undone => ops'[k].undone

LEMMA ForwardKeeps ==
  ASSUME Kept, Forward
  PROVE  /\ \A w \in Workers : req'[w] = req[w] \/ req'[w].pc = "idle" => RequestKnows(w)'
         /\ \A n \in Nonces : token[n] # None /\ Asks(n, "undo")'
                => ops'[token'[n].key] # None
         /\ \A t \in told : Answered(t)'
<1>1. ASSUME NEW w \in Workers, req'[w] = req[w] PROVE RequestKnows(w)'
  BY <1>1 DEF Kept, Forward, RequestKnows, Asks
<1>2. ASSUME NEW w \in Workers, req'[w].pc = "idle" PROVE RequestKnows(w)'
  BY <1>2 DEF RequestKnows
<1>3. ASSUME NEW n \in Nonces, token[n] # None, Asks(n, "undo")'
      PROVE  ops'[token'[n].key] # None
  <2>1. token'[n] = token[n] /\ Asks(n, "undo")
    BY <1>3 DEF Forward, Asks
  <2>2. token[n].key \in Keys /\ ops[token[n].key] # None
    BY <2>1, UndoType DEF Kept, TokensKnow
  <2> QED
    BY <2>1, <2>2 DEF Forward
<1>4. ASSUME NEW t \in told PROVE Answered(t)'
  <2>1. t.key \in Keys /\ Answered(t)
    BY DEF Kept, TypeOK, AnswersHold, Answered
  <2> QED
    BY <2>1 DEF Answered, Forward
<1> QED
  BY <1>1, <1>2, <1>3, <1>4

\* A step that changes nothing of the books.
LEMMA QuietStep ==
  ASSUME IInv, UNCHANGED <<clock, book>>, TypeOK', TokensKnow',
         \A w \in Workers : RequestKnows(w)', AnswersHold'
  PROVE  IInv'
<1>1. UNCHANGED <<clock, bank, balance, moves, entry, ops>>
  BY DEF book
<1>2. \A k \in Keys : OperationKnows(k)'
  BY <1>1 DEF IInv, Kept, OperationKnows
<1>3. StampsDiffer'
  BY <1>1 DEF IInv, Kept, StampsDiffer
<1>4. PICK p : Accounts(p)
  BY DEF IInv
<1>5. Accounts(p)'
  BY <1>1, <1>4 DEF Accounts
<1> QED
  BY <1>2, <1>3, <1>5 DEF IInv, Kept

LEMMA SameOpsForward ==
  ASSUME token' = token \/ \A n \in Nonces : token[n] # None => token'[n] = token[n],
         ops' = ops
  PROVE  Forward
BY DEF Forward

LEMMA AccessKeeps ==
  ASSUME IInv, Revoke \/ Consent PROVE IInv'
<1>1. /\ UNCHANGED <<clock, book>> /\ ops' = ops
      /\ UNCHANGED <<today, token, req, told>>
  BY DEF Revoke, Consent, book
<1>2. TypeOK'
  BY <1>1, FinanceAssumption DEF IInv, Kept, TypeOK, Revoke, Consent, book
<1>3. Forward
  BY <1>1, SameOpsForward
<1>4. \A w \in Workers : RequestKnows(w)'
  BY <1>1, <1>3, ForwardKeeps DEF IInv
<1>5. AnswersHold' /\ TokensKnow'
  BY <1>1 DEF IInv, Kept, AnswersHold, TokensKnow, Asks
<1> QED
  BY <1>1, <1>2, <1>4, <1>5, QuietStep

LEMMA MidnightKeeps ==
  ASSUME IInv, Midnight PROVE IInv'
<1>1. /\ UNCHANGED <<clock, book>> /\ ops' = ops
      /\ UNCHANGED <<grant, grants, token, req, told>>
  BY DEF Midnight, book, access
<1>2. TypeOK'
  BY <1>1 DEF IInv, Kept, TypeOK, Midnight, book
<1>3. Forward
  BY <1>1, SameOpsForward
<1>4. \A w \in Workers : RequestKnows(w)'
  BY <1>1, <1>3, ForwardKeeps DEF IInv
<1>5. AnswersHold' /\ TokensKnow'
  BY <1>1 DEF IInv, Kept, AnswersHold, TokensKnow, Asks
<1> QED
  BY <1>1, <1>2, <1>4, <1>5, QuietStep

LEMMA PreviewKeeps ==
  ASSUME IInv, NEW n \in Nonces,
         \/ \E a \in FinanceAction : Preview(n, a)
         \/ \E k \in Keys : PreviewUndo(n, k)
  PROVE  IInv'
<1>1. PICK new :
        /\ token[n] = None /\ token' = [token EXCEPT ![n] = new]
        /\ \/ \E a \in FinanceAction : new = [asks |-> "execute", action |-> a]
           \/ \E k \in Keys : new = [asks |-> "undo", key |-> k] /\ ops[k] # None
  BY DEF Preview, PreviewUndo
<1>2. /\ UNCHANGED <<clock, book>> /\ ops' = ops
      /\ UNCHANGED <<today, grant, grants, req, told>>
  BY DEF Preview, PreviewUndo, book, access
<1>3. new \in Token
  BY <1>1 DEF Token
<1>4. TypeOK'
  BY <1>1, <1>2, <1>3 DEF IInv, Kept, TypeOK, book
<1>5. token'[n] = new /\ \A i \in Nonces \ {n} : token'[i] = token[i]
  BY <1>1 DEF IInv, Kept, TypeOK
<1>6. Forward
  BY <1>1, <1>2, <1>5, SameOpsForward
<1>7. \A w \in Workers : RequestKnows(w)'
  BY <1>2, <1>6, ForwardKeeps DEF IInv
<1>8. AnswersHold'
  BY <1>2 DEF IInv, Kept, AnswersHold
<1>9. TokensKnow'
  <2>1. ASSUME NEW i \in Nonces, Asks(i, "undo")' PROVE ops'[token'[i].key] # None
    <3>1. CASE i = n
      <4>1. new.asks = "undo"
        BY <1>5, <2>1, <3>1 DEF Asks
      <4>2. PICK k \in Keys : new = [asks |-> "undo", key |-> k] /\ ops[k] # None
        BY <1>1, <4>1
      <4> QED
        BY <1>2, <1>5, <3>1, <4>2
    <3>2. CASE i # n
      BY <1>2, <1>5, <2>1, <3>2 DEF IInv, Kept, TokensKnow, Asks
    <3> QED
      BY <3>1, <3>2
  <2> QED
    BY <2>1 DEF TokensKnow
<1> QED
  BY <1>2, <1>4, <1>7, <1>8, <1>9, QuietStep

LEMMA RequestKeeps ==
  ASSUME IInv, NEW w \in Workers, NEW n \in Nonces,
         RequestUndo(w, n) \/ \E k \in Keys : Execute(w, n, k)
  PROVE  IInv'
<1>1. /\ UNCHANGED <<clock, book>> /\ ops' = ops
      /\ UNCHANGED <<today, grant, grants, token, told>>
  BY DEF RequestUndo, Execute, book, access
<1>2. PICK new :
        /\ req' = [req EXCEPT ![w] = new]
        /\ new.nonce = n /\ new.key \in Keys /\ new \in Request
        /\ \/ new.pc = "commit" /\ Asks(n, "execute")
           \/ new.pc = "undo" /\ ops[new.key] # None
  <2>1. grant \in 0 .. MaxGrants
    BY FinanceAssumption DEF IInv, Kept, TypeOK
  <2>2. CASE RequestUndo(w, n)
    <3>1. token[n].key \in Keys /\ ops[token[n].key] # None
      BY <2>2, UndoType DEF RequestUndo, IInv, Kept, TokensKnow
    <3> DEFINE new == [pc |-> "undo", key |-> token[n].key, nonce |-> n, grant |-> grant]
    <3>2. req' = [req EXCEPT ![w] = new]
      BY <2>2 DEF RequestUndo
    <3>3. new \in Request /\ new.pc = "undo" /\ new.nonce = n /\ new.key = token[n].key
      BY <2>1, <3>1 DEF Request
    <3> HIDE DEF new
    <3> QED
      BY <3>1, <3>2, <3>3
  <2>3. CASE \E k \in Keys : Execute(w, n, k)
    <3>1. PICK k \in Keys : Execute(w, n, k)
      BY <2>3
    <3> DEFINE new == [pc |-> "commit", key |-> k, nonce |-> n, grant |-> grant]
    <3>2. req' = [req EXCEPT ![w] = new] /\ Asks(n, "execute")
      BY <3>1 DEF Execute
    <3>3. new \in Request /\ new.pc = "commit" /\ new.nonce = n /\ new.key = k
      BY <2>1 DEF Request
    <3> HIDE DEF new
    <3> QED
      BY <3>1, <3>2, <3>3
  <2> QED
    BY <2>2, <2>3
<1>3. req' \in [Workers -> Request] /\ req'[w] = new
      /\ \A v \in Workers \ {w} : req'[v] = req[v]
  BY <1>2 DEF IInv, Kept, TypeOK
<1>4. TypeOK'
  BY <1>1, <1>3 DEF IInv, Kept, TypeOK, book
<1>5. Forward
  BY <1>1, SameOpsForward
<1>6. \A v \in Workers : RequestKnows(v)'
  <2>1. RequestKnows(w)'
    BY <1>1, <1>2, <1>3 DEF RequestKnows, Asks
  <2> QED
    BY <1>3, <1>5, <2>1, ForwardKeeps DEF IInv
<1>7. AnswersHold' /\ TokensKnow'
  BY <1>1 DEF IInv, Kept, AnswersHold, TokensKnow, Asks
<1> QED
  BY <1>1, <1>4, <1>6, <1>7, QuietStep

\* What a client is told.
LEMMA TellType ==
  ASSUME TypeOK, NEW w \in Workers, NEW what \in {"committed", "undone"}, Tell(w, what),
         req[w].key \in Keys, req[w].nonce \in Nonces
  PROVE  told' \in SUBSET [key : Keys, nonce : Nonces, what : {"committed", "undone"}]
BY DEF TypeOK, Tell

LEMMA TellKeeps ==
  ASSUME Kept, Forward, NEW w \in Workers, NEW what, Tell(w, what),
         ops'[req[w].key] # None,
         IF what = "committed" THEN ops'[req[w].key].nonce = req[w].nonce
         ELSE ops'[req[w].key].undone
  PROVE  AnswersHold'
<1>1. ASSUME NEW t \in told' PROVE Answered(t)'
  <2>1. CASE t \in told
    BY <2>1, ForwardKeeps
  <2>2. CASE t = [key |-> req[w].key, nonce |-> req[w].nonce, what |-> what]
    BY <2>2 DEF Answered
  <2> QED
    BY <2>1, <2>2 DEF Tell
<1> QED
  BY <1>1 DEF AnswersHold, Answered

LEMMA AnswerKeeps ==
  ASSUME IInv, NEW w \in Workers, Abandon(w) \/ Replay(w) \/ ReplayUndo(w)
  PROVE  IInv'
<1>1. /\ UNCHANGED <<clock, book>> /\ ops' = ops /\ Finish(w)
      /\ UNCHANGED <<today, grant, grants, token>>
  BY DEF Abandon, Replay, ReplayUndo, book, access
<1>2. /\ req' \in [Workers -> Request] /\ req'[w].pc = "idle"
      /\ \A v \in Workers \ {w} : req'[v] = req[v]
  BY <1>1, FinishType DEF IInv, Kept
<1>3. Forward
  BY <1>1, SameOpsForward
<1>4. \A v \in Workers : RequestKnows(v)'
  BY <1>2, <1>3, ForwardKeeps DEF IInv
<1>5. /\ told' \in SUBSET [key : Keys, nonce : Nonces, what : {"committed", "undone"}]
      /\ AnswersHold'
  <2>1. CASE Abandon(w)
    BY <1>1, <2>1 DEF Abandon, IInv, Kept, TypeOK, AnswersHold
  <2>2. CASE Replay(w)
    <3>1. req[w].key \in Keys /\ req[w].nonce \in Nonces /\ Tell(w, "committed")
      BY <2>2 DEF Replay, IInv, Kept, RequestKnows
    <3>2. ops'[req[w].key] # None /\ ops'[req[w].key].nonce = req[w].nonce
      BY <1>1, <2>2 DEF Replay, IsReplay
    <3> QED
      BY <1>3, <3>1, <3>2, TellType, TellKeeps DEF IInv, Kept
  <2>3. CASE ReplayUndo(w)
    <3>1. /\ req[w].key \in Keys /\ req[w].nonce \in Nonces /\ Tell(w, "undone")
          /\ ops[req[w].key] # None
      BY <2>3 DEF ReplayUndo, IInv, Kept, RequestKnows
    <3>2. ops'[req[w].key].undone
      BY <1>1, <2>3 DEF ReplayUndo
    <3> QED
      BY <1>1, <1>3, <3>1, <3>2, TellType, TellKeeps DEF IInv, Kept
  <2> QED
    BY <2>1, <2>2, <2>3
<1>6. TypeOK'
  BY <1>1, <1>2, <1>5 DEF IInv, Kept, TypeOK, book
<1>7. TokensKnow'
  BY <1>1 DEF IInv, Kept, TokensKnow, Asks
<1> QED
  BY <1>1, <1>4, <1>5, <1>6, <1>7, QuietStep

-----------------------------------------------------------------------------
(* The balance after every transaction.                                      *)

\* The operations whose deposit may have to respect the goal.
WithinGoal(p) ==
  \A k \in Keys :
    ops[k] # None /\ Saves(ops[k].action) /\ ~ops[k].undone /\ bank.updated <= ops[k].at
      => bank.goal = 0 \/ p[ops[k].at] <= bank.goal

LEMMA NoMove ==
  ASSUME NEW p, Accounts(p), UNCHANGED <<balance, moves>>, WithinGoal(p)'
  PROVE  Accounts(p)'
BY DEF Accounts, WithinGoal

LEMMA BalanceBeforeWrite ==
  ASSUME Kept, NEW p, Accounts(p), Write
  PROVE  p[clock - 1] = balance
<1>1. clock \in 1 .. MaxClock /\ MaxClock \in Nat
  BY WriteType, FinanceAssumption DEF Kept, Times
<1>2. clock - 1 \in 0 .. MaxClock /\ MaxClock \in 0 .. MaxClock /\ clock - 1 <= MaxClock
  BY <1>1
<1>3. \A m \in moves : m.at <= clock - 1
  BY <1>1 DEF Kept, StampsDiffer, TypeOK, Move, Times
<1> QED
  BY <1>2, <1>3 DEF Accounts

LEMMA MoveAdded ==
  ASSUME Kept, Write, NEW p, Accounts(p), NEW m \in Move, m.at = clock,
         moves' = moves \cup {m}, balance' = balance + m.amount, balance' \in Nat,
         NEW q, q = [c \in 0 .. MaxClock |-> IF c < clock THEN p[c] ELSE balance'],
         WithinGoal(q)'
  PROVE  Accounts(q)'
<1>1. clock \in 1 .. MaxClock /\ MaxClock \in Nat
  BY WriteType, FinanceAssumption DEF Kept, Times
<1>2. p \in [0 .. MaxClock -> Nat] /\ p[clock - 1] = balance
  BY BalanceBeforeWrite DEF Accounts
<1>3. /\ q \in [0 .. MaxClock -> Nat]
      /\ \A c \in 0 .. MaxClock : c < clock => q[c] = p[c]
      /\ \A c \in 0 .. MaxClock : c >= clock => q[c] = balance'
  BY <1>1, <1>2
<1>4. \A o \in moves : o.at \in 1 .. MaxClock /\ o.at < clock
  BY DEF Kept, TypeOK, Move, Times, StampsDiffer
<1>5. balance' = q[MaxClock]
  BY <1>1, <1>3
<1>6. ASSUME NEW o \in moves' PROVE q[o.at] = q[o.at - 1] + o.amount
  <2>1. CASE o \in moves
    <3>1. o.at \in 0 .. MaxClock /\ o.at - 1 \in 0 .. MaxClock /\ o.at < clock /\ o.at - 1 < clock
      BY <1>1, <1>4, <2>1
    <3> QED
      BY <1>3, <2>1, <3>1 DEF Accounts
  <2>2. CASE o = m
    <3>1. clock - 1 \in 0 .. MaxClock /\ clock - 1 < clock /\ clock \in 0 .. MaxClock /\ clock >= clock
      BY <1>1
    <3> QED
      BY <1>2, <1>3, <2>2, <3>1
  <2> QED
    BY <2>1, <2>2
<1>7. ASSUME NEW b \in 0 .. MaxClock, NEW c \in 0 .. MaxClock, b <= c,
             \A o \in moves' : o.at <= b \/ o.at > c
      PROVE  q[b] = q[c]
  <2>1. clock <= b \/ clock > c
    BY <1>7
  <2>2. CASE clock <= b
    BY <1>1, <1>3, <1>7, <2>2
  <2>3. CASE clock > c
    <3>1. p[b] = p[c]
      BY <1>7 DEF Accounts
    <3> QED
      BY <1>1, <1>3, <1>7, <2>3, <3>1
  <2> QED
    BY <2>1, <2>2, <2>3
<1> QED
  BY <1>3, <1>5, <1>6, <1>7 DEF Accounts, WithinGoal

\* What remains without the last movement, which brought balance to p[m.at].
LEMMA BalanceBeforeLast ==
  ASSUME Kept, NEW p, Accounts(p), NEW m \in moves,
         \A o \in moves : o # m => o.at < m.at
  PROVE  balance - m.amount = p[m.at - 1] /\ balance = p[m.at]
<1>1. /\ MaxClock \in Nat /\ m.at \in 1 .. MaxClock /\ m.amount \in Int
      /\ p \in [0 .. MaxClock -> Nat]
      /\ \A o \in moves : o.at \in 1 .. MaxClock
  BY FinanceAssumption DEF Accounts, Kept, TypeOK, Move, Times
<1>2. m.at \in 0 .. MaxClock /\ m.at - 1 \in 0 .. MaxClock /\ MaxClock \in 0 .. MaxClock
  BY <1>1
<1>3. p[m.at] = p[MaxClock]
  <2>1. \A o \in moves : o.at <= m.at
    <3>1. ASSUME NEW o \in moves PROVE o.at <= m.at
      <4>1. o.at \in Int /\ m.at \in Int /\ (o = m \/ o.at < m.at)
        BY <1>1
      <4> QED
        BY <4>1
    <3> QED
      BY <3>1
  <2>2. m.at <= MaxClock
    BY <1>1
  <2> QED
    BY <1>2, <2>1, <2>2 DEF Accounts
<1>4. p[m.at] = p[m.at - 1] + m.amount /\ balance = p[MaxClock]
  BY DEF Accounts
<1>5. p[m.at] \in Nat /\ p[m.at - 1] \in Nat
  BY <1>1, <1>2
<1>6. \A x, y \in Nat, a \in Int : x = y + a => x - a = y
  OBVIOUS
<1>7. balance = p[m.at] /\ p[m.at] = p[m.at - 1] + m.amount
  BY <1>3, <1>4
<1>8. m.amount \in Int
  BY <1>1
<1> QED
  BY <1>5, <1>6, <1>7, <1>8

\* The last movement is undone: the balance is the one before it.
LEMMA LastMoveUndone ==
  ASSUME Kept, NEW p, Accounts(p), NEW m \in moves,
         \A o \in moves : o # m => o.at < m.at,
         moves' = moves \ {m}, balance' = balance - m.amount,
         NEW q, q = [c \in 0 .. MaxClock |-> IF c < m.at THEN p[c] ELSE p[m.at - 1]],
         WithinGoal(q)'
  PROVE  Accounts(q)'
<1>1. /\ MaxClock \in Nat /\ m.at \in 1 .. MaxClock
      /\ p \in [0 .. MaxClock -> Nat]
      /\ \A o \in moves : o.at \in 1 .. MaxClock
  BY FinanceAssumption DEF Accounts, Kept, TypeOK, Move, Times
<1>2. m.at \in 0 .. MaxClock /\ m.at - 1 \in 0 .. MaxClock /\ MaxClock \in 0 .. MaxClock
  BY <1>1
<1>6. balance' = p[m.at - 1]
  BY BalanceBeforeLast
<1>7. /\ q \in [0 .. MaxClock -> Nat]
      /\ \A c \in 0 .. MaxClock : c < m.at => q[c] = p[c]
      /\ \A c \in 0 .. MaxClock : c >= m.at => q[c] = p[m.at - 1]
  BY <1>1, <1>2
<1>9. balance' = q[MaxClock]
  BY <1>1, <1>2, <1>6, <1>7
<1>10. ASSUME NEW o \in moves' PROVE q[o.at] = q[o.at - 1] + o.amount
  <2>1. o \in moves /\ o.at < m.at
    OBVIOUS
  <2>2. /\ o.at \in 0 .. MaxClock /\ o.at - 1 \in 0 .. MaxClock
        /\ o.at < m.at /\ o.at - 1 < m.at
    BY <1>1, <2>1
  <2> QED
    BY <1>7, <2>1, <2>2 DEF Accounts
<1>11. ASSUME NEW b \in 0 .. MaxClock, NEW c \in 0 .. MaxClock, b <= c,
              \A o \in moves' : o.at <= b \/ o.at > c
       PROVE  q[b] = q[c]
  <2>1. CASE c < m.at
    <3>1. m.at <= b \/ m.at > c
      BY <1>1, <2>1
    <3>2. p[b] = p[c]
      BY <1>11, <3>1 DEF Accounts
    <3> QED
      BY <1>1, <1>7, <1>11, <2>1, <3>2
  <2>2. CASE b >= m.at
    <3>1. c >= m.at
      BY <1>1, <1>11, <2>2
    <3> QED
      BY <1>7, <2>2, <3>1
  <2>3. CASE b < m.at /\ c >= m.at
    <3>1. \A o \in moves : o.at <= b \/ o.at > m.at - 1
      <4>1. ASSUME NEW o \in moves, o # m PROVE o.at <= b \/ o.at > m.at - 1
        <5>1. o.at <= b \/ o.at > c
          BY <1>11, <4>1
        <5>2. o.at \in Int /\ m.at \in Int /\ c \in Int
          BY <1>1
        <5> QED
          BY <2>3, <5>1, <5>2
      <4> QED
        BY <1>1, <4>1
    <3>2. b <= m.at - 1
      BY <1>1, <2>3
    <3>3. p[b] = p[m.at - 1]
      BY <1>2, <3>1, <3>2 DEF Accounts
    <3> QED
      BY <1>7, <2>3, <3>3
  <2> QED
    BY <1>1, <2>1, <2>2, <2>3
<1> QED
  BY <1>7, <1>9, <1>10, <1>11 DEF Accounts, WithinGoal

-----------------------------------------------------------------------------
(* Transactions of the application.                                          *)

\* The operations are not touched, and keep their rows.
LEMMA ApplicationStep ==
  ASSUME IInv, Write, TypeOK', UNCHANGED <<token, ops, req, told>>,
         moves \subseteq moves', \A m \in moves' : m \in moves \/ m.at = clock,
         \A m, o \in moves' : m.at = o.at => m = o,
         \A k \in Keys : entry[k].state = "none" => entry'[k].state = "none",
         NEW q, Accounts(q)'
  PROVE  IInv'
<1>1. clock \in 1 .. MaxClock /\ MaxClock \in Nat /\ clock' = clock + 1
  BY WriteType, FinanceAssumption DEF IInv, Kept, Times
<1>2. \A m \in moves : m.at \in 1 .. MaxClock /\ m.at < clock
  BY DEF IInv, Kept, TypeOK, Move, Times, StampsDiffer
<1>3. \A k \in Keys : ops[k] # None => ops[k].at \in 1 .. MaxClock /\ ops[k].at < clock
                                       /\ ops[k].move \in {0, ops[k].at}
  BY OperationType DEF IInv, Kept, OperationKnows, OperationRow, Times
<1>4. ASSUME NEW k \in Keys PROVE OperationKnows(k)'
  <2>1. CASE ops[k] = None
    BY <2>1 DEF OperationKnows, IInv, Kept
  <2>2. CASE ops[k] # None
    <3>1. OperationKnows(k)
      BY DEF IInv, Kept
    <3>2. ops[k].at < clock' /\ ops[k].move # clock
      BY <1>1, <1>3, <2>2
    <3> QED
      BY <2>2, <3>1, <3>2 DEF OperationKnows
  <2> QED
    BY <2>1, <2>2
<1>5. \A m \in moves' : m.at < clock'
  BY <1>1, <1>2
<1>6. StampsDiffer'
  BY <1>5 DEF IInv, Kept, StampsDiffer
<1>7. \A w \in Workers : RequestKnows(w)'
  BY DEF IInv, Kept, RequestKnows, Asks
<1>8. AnswersHold' /\ TokensKnow'
  BY DEF IInv, Kept, AnswersHold, TokensKnow, Asks
<1> QED
  BY <1>4, <1>6, <1>7, <1>8 DEF IInv, Kept

\* The row of the bank bears this transaction, or kept its goal and its stamp.
LEMMA GoalKept ==
  ASSUME IInv, Write, NEW p, Accounts(p), NEW q,
         bank'.updated = clock \/ (bank'.updated = bank.updated /\ bank'.goal = bank.goal),
         NEW k \in Keys, ops[k] # None, Saves(ops[k].action), ~ops[k].undone,
         bank'.updated <= ops[k].at, q[ops[k].at] = p[ops[k].at]
  PROVE  bank'.goal = 0 \/ q[ops[k].at] <= bank'.goal
<1>1. ops[k].at \in Times /\ ops[k].at < clock /\ clock \in Times
  BY OperationType, WriteType DEF IInv, Kept, OperationKnows, OperationRow
<1>2. ~(clock <= ops[k].at)
  BY <1>1 DEF Times
<1>3. bank'.updated = bank.updated /\ bank'.goal = bank.goal
  BY <1>2
<1> QED
  BY <1>3 DEF Accounts

LEMMA StampedBank ==
  ASSUME TypeOK, Write, NEW row \in Bank, NEW must, bank' \in Stamped(row, must)
  PROVE  /\ bank' \in Bank /\ bank'.goal = row.goal /\ bank'.completed = row.completed
         /\ bank'.updated = clock \/ bank'.updated = row.updated
<1>1. [row EXCEPT !.updated = clock] \in Bank
  BY WriteType DEF Bank
<1> QED
  BY <1>1 DEF Stamped, Bank

LEMMA OtherMoveKeeps ==
  ASSUME IInv, NEW amount \in Int, OtherMove(amount) PROVE IInv'
<1> DEFINE m == [at |-> clock, amount |-> amount, date |-> today]
<1>1. /\ Write /\ TypeOK /\ clock \in Times
      /\ UNCHANGED <<today, token, entry, ops, req, told, grant, grants>>
  BY WriteType DEF OtherMove, access, IInv, Kept
<1>2. /\ m \in Move /\ m.at = clock /\ m.amount = amount
      /\ moves' = moves \cup {m}
      /\ balance' = balance + amount /\ balance' \in Nat
  BY <1>1 DEF OtherMove, Move, TypeOK
<1>3. PICK row \in Bank, must \in BOOLEAN :
        bank' \in Stamped(row, must) /\ row.goal = bank.goal /\ row.updated = bank.updated
  <2> DEFINE next == balance + amount
             completes == amount > 0 /\ bank.goal # 0 /\ next >= bank.goal /\ bank.completed = 0
             reopens == amount < 0 /\ bank.goal # 0 /\ next < bank.goal
             row == [bank EXCEPT !.completed = IF completes THEN today
                                               ELSE IF reopens THEN 0 ELSE @]
             must == completes \/ amount < 0
  <2>1. bank' \in Stamped(row, must)
    BY DEF OtherMove
  <2>2. must \in BOOLEAN
    OBVIOUS
  <2>3. row \in Bank /\ row.goal = bank.goal /\ row.updated = bank.updated
    BY <1>1 DEF TypeOK, Bank
  <2> HIDE DEF row, must
  <2> QED
    BY <2>1, <2>2, <2>3
<1>4. /\ bank' \in Bank /\ bank'.goal = bank.goal
      /\ bank'.updated = clock \/ bank'.updated = bank.updated
  BY <1>1, <1>3, StampedBank
<1> HIDE DEF m
<1>5. TypeOK'
  BY <1>1, <1>2, <1>4, WriteType DEF TypeOK
<1>6. PICK p : Accounts(p)
  BY DEF IInv
<1>7. PICK q : q = [c \in 0 .. MaxClock |-> IF c < clock THEN p[c] ELSE balance']
  OBVIOUS
<1>8. WithinGoal(q)'
  <2> SUFFICES ASSUME NEW k \in Keys, ops[k] # None, Saves(ops[k].action), ~ops[k].undone,
                      bank'.updated <= ops[k].at
               PROVE  bank'.goal = 0 \/ q[ops[k].at] <= bank'.goal
    BY <1>1 DEF WithinGoal
  <2>1. ops[k].at \in Times /\ ops[k].at < clock
    BY OperationType DEF IInv, Kept, OperationKnows, OperationRow
  <2>2. q[ops[k].at] = p[ops[k].at]
    BY <1>7, <2>1, FinanceAssumption DEF Times
  <2> QED
    BY <1>1, <1>4, <1>6, <2>2, GoalKept
<1>9. Accounts(q)'
  BY <1>1, <1>2, <1>6, <1>7, <1>8, MoveAdded DEF IInv
<1>10. \A o \in moves : o.at # clock
  BY <1>1 DEF IInv, Kept, StampsDiffer, TypeOK, Move, Times
<1>11. \A i, o \in moves' : i.at = o.at => i = o
  BY <1>2, <1>10 DEF IInv, Kept, StampsDiffer
<1> QED
  BY <1>1, <1>2, <1>5, <1>9, <1>11, ApplicationStep

LEMMA EditBankKeeps ==
  ASSUME IInv, NEW row \in Bank, EditBank(row) PROVE IInv'
<1>1. /\ Write /\ TypeOK /\ bank' = [row EXCEPT !.updated = clock]
      /\ UNCHANGED <<today, token, balance, moves, entry, ops, req, told, grant, grants>>
  BY DEF EditBank, access, IInv, Kept
<1>2. bank' \in Bank /\ bank'.updated = clock
  BY <1>1, WriteType DEF Bank
<1>3. TypeOK'
  BY <1>1, <1>2, WriteType DEF TypeOK
<1>4. PICK p : Accounts(p)
  BY DEF IInv
<1>5. WithinGoal(p)'
  BY <1>1, <1>2, <1>4, GoalKept DEF WithinGoal
<1>6. Accounts(p)'
  BY <1>1, <1>4, <1>5, NoMove
<1>7. \A m, o \in moves' : m.at = o.at => m = o
  BY <1>1 DEF IInv, Kept, StampsDiffer
<1> QED
  BY <1>1, <1>3, <1>6, <1>7, ApplicationStep

LEMMA ChangeEntryKeeps ==
  ASSUME IInv, NEW k \in Keys, ChangeEntry(k) PROVE IInv'
<1>1. /\ Write /\ TypeOK /\ entry[k].state # "none"
      /\ entry' = [entry EXCEPT ![k] = [state |-> "changed", updated |-> clock]]
      /\ UNCHANGED <<today, token, balance, moves, bank, ops, req, told, grant, grants>>
  BY DEF ChangeEntry, access, IInv, Kept
<1>2. [state |-> "changed", updated |-> clock] \in Entry
  BY <1>1, WriteType DEF Entry
<1>3. TypeOK'
  BY <1>1, <1>2, WriteType DEF TypeOK
<1>4. PICK p : Accounts(p)
  BY DEF IInv
<1>5. Accounts(p)'
  BY <1>1, <1>4 DEF Accounts
<1>6. \A m, o \in moves' : m.at = o.at => m = o
  BY <1>1 DEF IInv, Kept, StampsDiffer
<1>7. \A j \in Keys : entry[j].state = "none" => entry'[j].state = "none"
  BY <1>1 DEF TypeOK
<1> QED
  BY <1>1, <1>3, <1>5, <1>6, <1>7, ApplicationStep

-----------------------------------------------------------------------------
(* Operations.                                                               *)

LEMMA OperationTimes ==
  ASSUME Kept, NEW k \in Keys, ops[k] # None
  PROVE  /\ ops[k].at \in Times /\ ops[k].at < clock
         /\ ops[k].move \in {0, ops[k].at}
         /\ ops[k].action \in FinanceAction
BY OperationType DEF Kept, OperationKnows, OperationRow

\* The operation that is carried out, and those that were.
LEMMA CommitRows ==
  ASSUME Kept, NEW w \in Workers, Commit(w),
         NEW k, k = req[w].key, NEW n, n = req[w].nonce, NEW a, a = token[n].action
  PROVE  /\ k \in Keys /\ n \in Nonces /\ a \in FinanceAction
         /\ Write /\ clock \in Times /\ clock' = clock + 1 /\ clock' \in 1 .. MaxClock + 1
         /\ ops[k] = None /\ NonceIsNew(k, n)
         /\ ops'[k] \in OperationRow /\ ops'[k] # None
         /\ ops'[k].nonce = n /\ ops'[k].action = a /\ ops'[k].at = clock
         /\ ops'[k].move = (IF Saves(a) THEN clock ELSE 0) /\ ~ops'[k].undone
         /\ \A j \in Keys \ {k} : ops'[j] = ops[j]
         /\ ops' \in [Keys -> Operation]
<1>1. k \in Keys /\ n \in Nonces /\ Asks(n, "execute")
  BY DEF Commit, Kept, RequestKnows
<1>2. a \in FinanceAction
  BY <1>1, ExecuteType DEF Kept
<1>3. /\ Write /\ clock \in Times /\ clock' = clock + 1 /\ clock' \in 1 .. MaxClock + 1
      /\ NonceIsNew(k, n) /\ ops[k] = None
  BY WriteType DEF Commit, Kept, NonceIsNew
<1> DEFINE new == [nonce |-> n, action |-> a, at |-> clock,
                   move |-> IF Saves(a) THEN clock ELSE 0, undone |-> FALSE]
<1>4. ops' = [ops EXCEPT ![k] = new]
  BY DEF Commit
<1>5. /\ new \in OperationRow
      /\ new.nonce = n /\ new.action = a /\ new.at = clock
      /\ new.move = (IF Saves(a) THEN clock ELSE 0) /\ ~new.undone
  BY <1>1, <1>2, <1>3 DEF OperationRow
<1>6. new # None
  BY <1>5, NoneAssumption
<1> HIDE DEF new
<1>7. ops'[k] = new /\ \A j \in Keys \ {k} : ops'[j] = ops[j]
  BY <1>1, <1>4 DEF Kept, TypeOK
<1>8. ops' \in [Keys -> Operation]
  BY <1>1, <1>4, <1>5 DEF Kept, TypeOK, Operation
<1> QED
  BY <1>1, <1>2, <1>3, <1>5, <1>6, <1>7, <1>8

\* Its entry and its deposit.
LEMMA CommitEffect ==
  ASSUME Kept, NEW w \in Workers, Commit(w),
         NEW k, k = req[w].key, NEW a, a = token[req[w].nonce].action
  PROVE  /\ entry' \in [Keys -> Entry]
         /\ IF Receives(a) THEN entry'[k].state = "received" ELSE entry' = entry
         /\ \A j \in Keys \ {k} : entry'[j] = entry[j]
         /\ bank' \in Bank /\ bank'.goal = bank.goal
         /\ bank'.updated = clock \/ bank'.updated = bank.updated
         /\ IF Saves(a)
            THEN /\ balance' = balance + a.amount
                 /\ bank.goal = 0 \/ balance' <= bank.goal
                 /\ \E m \in Move : /\ m.at = clock /\ m.amount = a.amount
                                    /\ moves' = moves \cup {m}
            ELSE UNCHANGED <<balance, moves, bank>>
<1>1. k \in Keys /\ a \in FinanceAction /\ Write /\ clock \in Times
  BY CommitRows
<1>2. [state |-> "received", updated |-> clock] \in Entry
  BY <1>1 DEF Entry
<1>3. /\ entry' \in [Keys -> Entry]
      /\ IF Receives(a) THEN entry'[k].state = "received" ELSE entry' = entry
      /\ \A j \in Keys \ {k} : entry'[j] = entry[j]
  <2>1. CASE Receives(a)
    <3>1. entry' = [entry EXCEPT ![k] = [state |-> "received", updated |-> clock]]
      BY <2>1 DEF Commit
    <3> QED
      BY <1>1, <1>2, <2>1, <3>1 DEF Kept, TypeOK
  <2>2. CASE ~Receives(a)
    <3>1. entry' = entry
      BY <2>2 DEF Commit
    <3> QED
      BY <2>2, <3>1 DEF Kept, TypeOK
  <2> QED
    BY <2>1, <2>2
<1>4. CASE ~Saves(a)
  <2>1. UNCHANGED <<balance, moves, bank>>
    BY <1>4 DEF Commit
  <2> QED
    BY <1>3, <1>4, <2>1 DEF Kept, TypeOK
<1>5. CASE Saves(a)
  <2>1. /\ Fits(a) /\ balance' = balance + a.amount
        /\ moves' = moves \cup {[at |-> clock, amount |-> a.amount, date |-> a.date]}
        /\ bank' \in BanksAfterDeposit(a)
    BY <1>5 DEF Commit
  <2> DEFINE m == [at |-> clock, amount |-> a.amount, date |-> a.date]
  <2>2. m \in Move /\ m.at = clock /\ m.amount = a.amount
    BY <1>1, ActionType DEF Move
  <2>3. moves' = moves \cup {m}
    BY <2>1
  <2>4. bank.goal = 0 \/ balance' <= bank.goal
    BY <2>1 DEF Fits
  <2>5. /\ bank' \in Bank /\ bank'.goal = bank.goal
        /\ bank'.updated = clock \/ bank'.updated = bank.updated
    <3> DEFINE completes == bank.goal # 0 /\ balance + a.amount >= bank.goal /\ bank.completed = 0
               row == [bank EXCEPT !.completed = IF completes THEN a.date ELSE @]
    <3>1. bank' \in Stamped(row, completes)
      BY <2>1 DEF BanksAfterDeposit
    <3>2. row \in Bank /\ row.goal = bank.goal /\ row.updated = bank.updated
      BY <1>1, ActionType DEF Bank, Kept, TypeOK
    <3> HIDE DEF row
    <3>3. completes \in BOOLEAN
      OBVIOUS
    <3> HIDE DEF completes
    <3> QED
      BY <1>1, <3>1, <3>2, StampedBank DEF Kept
  <2> HIDE DEF m
  <2> QED
    BY <1>3, <1>5, <2>1, <2>2, <2>3, <2>4, <2>5
<1> QED
  BY <1>4, <1>5

LEMMA CommitKeeps ==
  ASSUME IInv, NEW w \in Workers, Commit(w) PROVE IInv'
<1>1. PICK k, n, a : k = req[w].key /\ n = req[w].nonce /\ a = token[n].action
  OBVIOUS
<1>2. /\ k \in Keys /\ n \in Nonces /\ a \in FinanceAction
      /\ Write /\ clock \in Times /\ clock' = clock + 1 /\ clock' \in 1 .. MaxClock + 1
      /\ ops[k] = None
      /\ ops'[k] \in OperationRow /\ ops'[k] # None
      /\ ops'[k].nonce = n /\ ops'[k].action = a /\ ops'[k].at = clock
      /\ ops'[k].move = (IF Saves(a) THEN clock ELSE 0) /\ ~ops'[k].undone
      /\ \A j \in Keys \ {k} : ops'[j] = ops[j]
      /\ ops' \in [Keys -> Operation]
  BY <1>1, CommitRows DEF IInv
<1>3. /\ entry' \in [Keys -> Entry]
      /\ IF Receives(a) THEN entry'[k].state = "received" ELSE entry' = entry
      /\ \A j \in Keys \ {k} : entry'[j] = entry[j]
      /\ bank' \in Bank /\ bank'.goal = bank.goal
      /\ bank'.updated = clock \/ bank'.updated = bank.updated
  BY <1>1, CommitEffect DEF IInv
<1>4. /\ Saves(a) => /\ balance' = balance + a.amount
                     /\ bank.goal = 0 \/ balance' <= bank.goal
                     /\ \E m \in Move : /\ m.at = clock /\ m.amount = a.amount
                                        /\ moves' = moves \cup {m}
      /\ ~Saves(a) => UNCHANGED <<balance, moves, bank>>
  BY <1>1, CommitEffect DEF IInv
<1>5. UNCHANGED <<today, token, grant, grants>> /\ Finish(w) /\ Tell(w, "committed")
  BY DEF Commit, access
<1>6. Kept /\ TypeOK
  BY DEF IInv, Kept
<1>7. /\ req' \in [Workers -> Request] /\ req'[w].pc = "idle"
      /\ \A v \in Workers \ {w} : req'[v] = req[v]
  BY <1>5, <1>6, FinishType
<1>8. Forward
  BY <1>2, <1>5 DEF Forward
<1>9. /\ AnswersHold'
      /\ told' \in SUBSET [key : Keys, nonce : Nonces, what : {"committed", "undone"}]
  BY <1>1, <1>2, <1>5, <1>6, <1>8, TellKeeps, TellType
<1>10. \A v \in Workers : RequestKnows(v)'
  BY <1>6, <1>7, <1>8, ForwardKeeps
<1>11. TokensKnow'
  BY <1>5, <1>6, <1>8, ForwardKeeps DEF TokensKnow, Asks
<1>12. clock \in 1 .. MaxClock /\ MaxClock \in Nat
  BY <1>2, FinanceAssumption DEF Times
<1>13. \A o \in moves : o.at \in Times /\ o.at \in 1 .. MaxClock /\ o.at < clock
  BY <1>6 DEF Kept, StampsDiffer, TypeOK, Move, Times
<1>14. /\ moves \subseteq moves' /\ moves' \in SUBSET Move
       /\ \A m \in moves' : m \in moves \/ (Saves(a) /\ m.at = clock /\ m.amount = a.amount)
       /\ \A m, o \in moves' : m.at = o.at => m = o
       /\ Saves(a) => \E m \in moves' : m.at = clock
  <2>1. CASE Saves(a)
    <3>1. PICK m \in Move : m.at = clock /\ m.amount = a.amount /\ moves' = moves \cup {m}
      BY <1>4, <2>1
    <3>2. \A o \in moves : o.at # clock
      BY <1>12, <1>13
    <3> QED
      BY <1>6, <2>1, <3>1, <3>2 DEF Kept, StampsDiffer, TypeOK
  <2>2. CASE ~Saves(a)
    BY <1>4, <1>6, <2>2 DEF Kept, StampsDiffer, TypeOK
  <2> QED
    BY <2>1, <2>2
<1>15. OperationKnows(k)'
  <2>1. ops'[k].at < clock'
    BY <1>2, <1>12
  <2>2. ~Receives(a) => entry'[k].state = "none"
    BY <1>2, <1>3, <1>6 DEF Kept, OperationKnows
  <2>3. \A m \in moves' : m.at = ops'[k].move => m.amount = a.amount
    <3> SUFFICES ASSUME NEW m \in moves', m.at = ops'[k].move PROVE m.amount = a.amount
      OBVIOUS
    <3>1. CASE m \in moves
      BY <1>2, <1>12, <1>13, <3>1
    <3> QED
      BY <1>14, <3>1
  <2> QED
    BY <1>2, <1>14, <2>1, <2>2, <2>3 DEF OperationKnows
<1>16. ASSUME NEW j \in Keys \ {k} PROVE OperationKnows(j)'
  <2>1. OperationKnows(j) /\ ops'[j] = ops[j] /\ entry'[j] = entry[j]
    BY <1>2, <1>3, <1>6 DEF Kept
  <2>2. CASE ops[j] = None
    BY <2>1, <2>2 DEF OperationKnows
  <2>3. CASE ops[j] # None
    <3>1. ops[j].at < clock' /\ ops[j].move # clock
      BY <1>2, <1>6, <1>12, <2>3, OperationTimes DEF Times
    <3> QED
      BY <1>14, <2>1, <2>3, <3>1 DEF OperationKnows
  <2> QED
    BY <2>2, <2>3
<1>17. StampsDiffer'
  <2>1. \A m \in moves' : m.at < clock'
    BY <1>2, <1>12, <1>13, <1>14
  <2>2. \A j \in Keys \ {k} : ops[j] # None => ops[j].at # clock
    BY <1>6, <1>12, OperationTimes DEF Times
  <2> QED
    BY <1>2, <1>6, <1>14, <2>1, <2>2 DEF Kept, StampsDiffer
<1>18. PICK p : Accounts(p)
  BY DEF IInv
<1>19. balance \in Nat
  BY <1>12, <1>18 DEF Accounts
<1>20. a.amount \in Nat
  BY <1>2, ActionType
<1>21. \E q : Accounts(q)'
  <2>1. CASE Saves(a)
    <3>1. balance' \in Nat /\ balance' = balance + a.amount
      BY <1>4, <1>19, <1>20, <2>1
    <3>2. PICK q : q = [c \in 0 .. MaxClock |-> IF c < clock THEN p[c] ELSE balance']
      OBVIOUS
    <3>3. WithinGoal(q)'
      <4> SUFFICES ASSUME NEW j \in Keys, ops'[j] # None, Saves(ops'[j].action),
                          ~ops'[j].undone, bank'.updated <= ops'[j].at
                   PROVE  bank'.goal = 0 \/ q[ops'[j].at] <= bank'.goal
        BY DEF WithinGoal, Saves
      <4>1. CASE j = k
        <5>1. q[clock] = balance'
          BY <1>12, <3>2
        <5> QED
          BY <1>2, <1>3, <1>4, <2>1, <4>1, <5>1
      <4>2. CASE j # k
        <5>1. ops'[j] = ops[j]
          BY <1>2, <4>2
        <5>2. q[ops[j].at] = p[ops[j].at]
          BY <1>6, <1>12, <3>2, <5>1, OperationTimes DEF Times
        <5> QED
          BY <1>2, <1>3, <1>18, <5>1, <5>2, GoalKept
      <4> QED
        BY <4>1, <4>2
    <3>4. Accounts(q)'
      BY <1>2, <1>4, <1>6, <1>18, <2>1, <3>1, <3>2, <3>3, MoveAdded
    <3> QED
      BY <3>4
  <2>2. CASE ~Saves(a)
    <3>1. UNCHANGED <<balance, moves, bank>>
      BY <1>4, <2>2
    <3>2. WithinGoal(p)'
      <4> SUFFICES ASSUME NEW j \in Keys, ops'[j] # None, Saves(ops'[j].action),
                          ~ops'[j].undone, bank'.updated <= ops'[j].at
                   PROVE  bank'.goal = 0 \/ p[ops'[j].at] <= bank'.goal
        BY DEF WithinGoal, Saves
      <4>1. j # k
        BY <1>2, <2>2
      <4> QED
        BY <1>2, <1>18, <3>1, <4>1 DEF Accounts
    <3>3. Accounts(p)'
      BY <1>18, <3>1, <3>2, NoMove
    <3> QED
      BY <3>3
  <2> QED
    BY <2>1, <2>2
<1>22. TypeOK'
  BY <1>2, <1>3, <1>5, <1>6, <1>7, <1>9, <1>14, <1>19, <1>20, <1>4 DEF TypeOK
<1>23. \A j \in Keys : OperationKnows(j)'
  BY <1>15, <1>16
<1> QED
  BY <1>9, <1>10, <1>11, <1>17, <1>21, <1>22, <1>23 DEF IInv, Kept

\* What an undo changes: its own rows, and nothing was moved since.
LEMMA UndoEffect ==
  ASSUME Kept, NEW w \in Workers, Undo(w), NEW k, k = req[w].key
  PROVE  /\ k \in Keys /\ req[w].nonce \in Nonces /\ ops[k] # None /\ ~ops[k].undone
         /\ Write /\ clock \in Times /\ clock' = clock + 1 /\ clock' \in 1 .. MaxClock + 1
         /\ ops' \in [Keys -> Operation] /\ ops'[k] # None /\ ops'[k].undone
         /\ ops'[k].nonce = ops[k].nonce /\ ops'[k].action = ops[k].action
         /\ ops'[k].at = ops[k].at /\ ops'[k].move = ops[k].move
         /\ \A j \in Keys \ {k} : ops'[j] = ops[j]
         /\ entry' \in [Keys -> Entry] /\ entry'[k].state = "none"
         /\ \A j \in Keys \ {k} : entry'[j] = entry[j]
         /\ bank' \in Bank /\ bank'.goal = bank.goal
         /\ bank'.updated = clock \/ bank'.updated = bank.updated
         /\ IF Saves(ops[k].action)
            THEN \E m \in moves :
                   /\ m.at = ops[k].at /\ m.amount = ops[k].action.amount
                   /\ \A other \in moves : other # m => other.at < m.at
                   /\ moves' = moves \ {m} /\ balance' = balance - m.amount
                   /\ bank' = BankAfterUndo
            ELSE UNCHANGED <<balance, moves, bank>>
<1>1. /\ k \in Keys /\ req[w].nonce \in Nonces /\ ops[k] # None /\ ~ops[k].undone
      /\ Write /\ clock \in Times /\ clock' = clock + 1 /\ clock' \in 1 .. MaxClock + 1
  BY WriteType DEF Undo, Kept, RequestKnows
<1>2. ops[k] \in OperationRow /\ ops \in [Keys -> Operation] /\ OperationKnows(k)
  BY <1>1, OperationType DEF Kept, TypeOK
<1>3. ops[k].at \in Times /\ ops[k].action \in FinanceAction
  BY <1>2 DEF OperationRow
<1> DEFINE new == [ops[k] EXCEPT !.undone = TRUE]
<1>4. ops' = [ops EXCEPT ![k] = new]
  BY DEF Undo
<1>5. /\ new \in OperationRow /\ new.undone
      /\ new.nonce = ops[k].nonce /\ new.action = ops[k].action
      /\ new.at = ops[k].at /\ new.move = ops[k].move
  BY <1>2 DEF OperationRow
<1>6. new # None
  BY <1>5, NoneAssumption
<1> HIDE DEF new
<1>7. /\ ops'[k] = new /\ \A j \in Keys \ {k} : ops'[j] = ops[j]
      /\ ops' \in [Keys -> Operation]
  BY <1>1, <1>2, <1>4, <1>5 DEF Operation
<1>8. /\ entry' \in [Keys -> Entry] /\ entry'[k].state = "none"
      /\ \A j \in Keys \ {k} : entry'[j] = entry[j]
  <2>1. CASE Receives(ops[k].action)
    <3>1. entry' = [entry EXCEPT ![k] = NoEntry]
      BY <2>1 DEF Undo, EntryAfterUndo
    <3>2. NoEntry \in Entry /\ NoEntry.state = "none"
      BY DEF NoEntry, Entry
    <3> QED
      BY <1>1, <3>1, <3>2 DEF Kept, TypeOK
  <2>2. CASE ~Receives(ops[k].action)
    <3>1. entry' = entry
      BY <2>2 DEF Undo
    <3> QED
      BY <1>1, <1>2, <2>2, <3>1 DEF Kept, TypeOK, OperationKnows
  <2> QED
    BY <2>1, <2>2
<1>9. CASE ~Saves(ops[k].action)
  <2>1. UNCHANGED <<balance, moves, bank>>
    BY <1>9 DEF Undo
  <2> QED
    BY <1>1, <1>5, <1>6, <1>7, <1>8, <1>9, <2>1 DEF Kept, TypeOK
<1>10. CASE Saves(ops[k].action)
  <2>1. PICK m \in moves : /\ m.at = ops[k].move /\ MoveMayGo(ops[k], m)
                           /\ moves' = moves \ {m} /\ balance' = balance - m.amount
                           /\ bank' = BankAfterUndo
    BY <1>10 DEF Undo
  <2>2. m.at = ops[k].at /\ m.amount = ops[k].action.amount
    BY <1>1, <1>2, <1>10, <2>1 DEF OperationKnows
  <2>3. ASSUME NEW other \in moves, other # m PROVE other.at < m.at
    <3>1. ~(other.at >= ops[k].at)
      BY <2>1, <2>3 DEF MoveMayGo
    <3>2. other.at \in Times
      BY DEF Kept, TypeOK, Move
    <3> QED
      BY <1>3, <2>2, <3>1, <3>2, FinanceAssumption DEF Times
  <2>4. /\ bank' \in Bank /\ bank'.goal = bank.goal
        /\ bank'.updated = clock \/ bank'.updated = bank.updated
    <3>1. CASE bank.completed = 0
      BY <2>1, <3>1 DEF BankAfterUndo, Kept, TypeOK
    <3>2. CASE bank.completed # 0
      BY <1>1, <2>1, <3>2 DEF BankAfterUndo, Kept, TypeOK, Bank
    <3> QED
      BY <3>1, <3>2
  <2>5. \E i \in moves :
           /\ i.at = ops[k].at /\ i.amount = ops[k].action.amount
           /\ \A other \in moves : other # i => other.at < i.at
           /\ moves' = moves \ {i} /\ balance' = balance - i.amount
           /\ bank' = BankAfterUndo
    BY <2>1, <2>2, <2>3
  <2> QED
    BY <1>1, <1>5, <1>6, <1>7, <1>8, <1>10, <2>4, <2>5
<1> QED
  BY <1>9, <1>10

\* The deposits that stay keep the balance they brought.
LEMMA UndoAccounts ==
  ASSUME IInv, NEW w \in Workers, Undo(w) PROVE \E q : Accounts(q)'
<1>1. PICK k : k = req[w].key
  OBVIOUS
<1>2. /\ k \in Keys /\ Write
      /\ ops'[k].undone /\ \A j \in Keys \ {k} : ops'[j] = ops[j]
      /\ bank'.updated = clock \/ (bank'.updated = bank.updated /\ bank'.goal = bank.goal)
  BY <1>1, UndoEffect DEF IInv
<1>3. PICK p : Accounts(p)
  BY DEF IInv
<1>4. Kept
  BY DEF IInv
<1>5. CASE ~Saves(ops[k].action)
  <2>1. UNCHANGED <<balance, moves, bank>>
    BY <1>1, <1>4, <1>5, UndoEffect
  <2>2. WithinGoal(p)'
    <3> SUFFICES ASSUME NEW j \in Keys, ops'[j] # None, Saves(ops'[j].action),
                        ~ops'[j].undone, bank'.updated <= ops'[j].at
                 PROVE  bank'.goal = 0 \/ p[ops'[j].at] <= bank'.goal
      BY DEF WithinGoal, Saves
    <3>1. j # k
      BY <1>2
    <3> QED
      BY <1>2, <1>3, <2>1, <3>1 DEF Accounts
  <2> QED
    BY <1>3, <2>1, <2>2, NoMove
<1>6. CASE Saves(ops[k].action)
  <2>1. PICK m \in moves :
          /\ m.at = ops[k].at
          /\ \A other \in moves : other # m => other.at < m.at
          /\ moves' = moves \ {m} /\ balance' = balance - m.amount
    BY <1>1, <1>4, <1>6, UndoEffect
  <2>2. PICK q : q = [c \in 0 .. MaxClock |-> IF c < m.at THEN p[c] ELSE p[m.at - 1]]
    OBVIOUS
  <2>3. m.at \in Times /\ MaxClock \in Nat
    BY <1>4, FinanceAssumption DEF Kept, TypeOK, Move
  <2>4. WithinGoal(q)'
    <3> SUFFICES ASSUME NEW j \in Keys, ops'[j] # None, Saves(ops'[j].action),
                        ~ops'[j].undone, bank'.updated <= ops'[j].at
                 PROVE  bank'.goal = 0 \/ q[ops'[j].at] <= bank'.goal
      BY DEF WithinGoal, Saves
    <3>1. j # k /\ ops'[j] = ops[j]
      BY <1>2
    <3>2. ops[j].at \in Times
      BY <1>4, <3>1, OperationTimes
    <3>3. ops[j].at < m.at
      <4>1. PICK o \in moves : o.at = ops[j].at
        BY <1>4, <3>1 DEF Kept, OperationKnows
      <4>2. ops[j].at # ops[k].at
        BY <1>2, <1>4, <1>1, <3>1, UndoEffect DEF Kept, StampsDiffer
      <4> QED
        BY <2>1, <4>1, <4>2
    <3>4. q[ops[j].at] = p[ops[j].at]
      BY <2>2, <2>3, <3>2, <3>3 DEF Times
    <3> QED
      BY <1>2, <1>3, <3>1, <3>4, GoalKept
  <2>5. Accounts(q)'
    BY <1>3, <1>4, <2>1, <2>2, <2>4, LastMoveUndone
  <2> QED
    BY <2>5
<1> QED
  BY <1>5, <1>6

LEMMA UndoKeeps ==
  ASSUME IInv, NEW w \in Workers, Undo(w) PROVE IInv'
<1>1. PICK k : k = req[w].key
  OBVIOUS
<1>2. /\ k \in Keys /\ req[w].nonce \in Nonces /\ ops[k] # None /\ ~ops[k].undone
      /\ clock \in Times /\ clock' = clock + 1 /\ clock' \in 1 .. MaxClock + 1
      /\ ops' \in [Keys -> Operation] /\ ops'[k] # None /\ ops'[k].undone
      /\ ops'[k].nonce = ops[k].nonce /\ ops'[k].action = ops[k].action
      /\ ops'[k].at = ops[k].at /\ ops'[k].move = ops[k].move
      /\ \A j \in Keys \ {k} : ops'[j] = ops[j]
      /\ entry' \in [Keys -> Entry] /\ entry'[k].state = "none"
      /\ \A j \in Keys \ {k} : entry'[j] = entry[j]
      /\ bank' \in Bank
  BY <1>1, UndoEffect DEF IInv
<1>3. Kept /\ TypeOK
  BY DEF IInv, Kept
<1>4. /\ Saves(ops[k].action) =>
           \E m \in moves : /\ m.at = ops[k].at /\ m.amount = ops[k].action.amount
                            /\ moves' = moves \ {m} /\ balance' = balance - m.amount
      /\ ~Saves(ops[k].action) => UNCHANGED <<balance, moves, bank>>
  BY <1>1, <1>3, UndoEffect
<1>5. UNCHANGED <<today, token, grant, grants>> /\ Finish(w) /\ Tell(w, "undone")
  BY DEF Undo, access
<1>6. /\ req' \in [Workers -> Request] /\ req'[w].pc = "idle"
      /\ \A v \in Workers \ {w} : req'[v] = req[v]
  BY <1>3, <1>5, FinishType
<1>7. Forward
  BY <1>2, <1>5 DEF Forward
<1>8. /\ AnswersHold'
      /\ told' \in SUBSET [key : Keys, nonce : Nonces, what : {"committed", "undone"}]
  BY <1>1, <1>2, <1>3, <1>5, <1>7, TellKeeps, TellType
<1>9. \A v \in Workers : RequestKnows(v)'
  BY <1>3, <1>6, <1>7, ForwardKeeps
<1>10. TokensKnow'
  BY <1>3, <1>5, <1>7, ForwardKeeps DEF TokensKnow, Asks
<1>11. clock \in 1 .. MaxClock /\ MaxClock \in Nat
  BY <1>2, FinanceAssumption DEF Times
<1>12. ops[k].at \in Times /\ ops[k].at < clock /\ ops[k].move \in {0, ops[k].at}
       /\ ops[k].action \in FinanceAction
  BY <1>2, <1>3, OperationTimes
<1>13. \A o \in moves : o.at \in Times /\ o.at < clock
  BY <1>3 DEF Kept, StampsDiffer, TypeOK, Move
<1>14. moves' \subseteq moves /\ \A o \in moves : o \in moves' \/ o.at = ops[k].at
  BY <1>4
<1>15. \A o \in moves' : o.at # ops[k].move
  <2>1. CASE Saves(ops[k].action)
    <3>1. PICK m \in moves : m.at = ops[k].at /\ moves' = moves \ {m}
      BY <1>4, <2>1
    <3>2. ops[k].move = ops[k].at
      BY <1>2, <1>3, <2>1 DEF Kept, OperationKnows
    <3> QED
      BY <1>3, <3>1, <3>2 DEF Kept, StampsDiffer
  <2>2. CASE ~Saves(ops[k].action)
    <3>1. ops[k].move = 0
      BY <1>2, <1>3, <2>2 DEF Kept, OperationKnows
    <3> QED
      BY <1>13, <1>14, <3>1 DEF Times
  <2> QED
    BY <2>1, <2>2
<1>16. OperationKnows(k)'
  <2>1. ops'[k].at < clock'
    BY <1>2, <1>11, <1>12 DEF Times
  <2>2. ops'[k].move = IF Saves(ops'[k].action) THEN ops'[k].at ELSE 0
    BY <1>2, <1>3 DEF Kept, OperationKnows
  <2> QED
    BY <1>2, <1>15, <2>1, <2>2 DEF OperationKnows, Saves
<1>17. ASSUME NEW j \in Keys \ {k} PROVE OperationKnows(j)'
  <2>1. OperationKnows(j) /\ ops'[j] = ops[j] /\ entry'[j] = entry[j]
    BY <1>2, <1>3 DEF Kept
  <2>2. CASE ops[j] = None
    BY <2>1, <2>2 DEF OperationKnows
  <2>3. CASE ops[j] # None
    <3>1. ops[j].at < clock'
      BY <1>2, <1>3, <1>11, <2>3, OperationTimes DEF Times
    <3>2. ops[j].at # ops[k].at
      BY <1>2, <1>3, <2>3 DEF Kept, StampsDiffer
    <3>3. ~ops[j].undone /\ Saves(ops[j].action) => \E m \in moves' : m.at = ops[j].at
      BY <1>14, <2>1, <2>3, <3>2 DEF OperationKnows
    <3> QED
      BY <1>14, <2>1, <2>3, <3>1, <3>3 DEF OperationKnows
  <2> QED
    BY <2>2, <2>3
<1>18. StampsDiffer'
  <2>1. \A m \in moves' : m.at < clock'
    BY <1>2, <1>11, <1>13, <1>14 DEF Times
  <2>2. \A m, o \in moves' : m.at = o.at => m = o
    BY <1>3, <1>14 DEF Kept, StampsDiffer
  <2>3. \A i \in Keys : (ops'[i] # None <=> ops[i] # None) /\ ops'[i].at = ops[i].at
    BY <1>2
  <2> QED
    BY <1>3, <2>1, <2>2, <2>3 DEF Kept, StampsDiffer
<1>19. balance' \in Int
  <2>1. balance \in Int /\ ops[k].action.amount \in Int
    BY <1>3, <1>12, ActionType DEF TypeOK
  <2> QED
    BY <1>4, <2>1
<1>20. TypeOK'
  BY <1>2, <1>3, <1>5, <1>6, <1>8, <1>14, <1>19 DEF TypeOK
<1>21. \A j \in Keys : OperationKnows(j)'
  BY <1>16, <1>17
<1> QED
  BY <1>8, <1>9, <1>10, <1>18, <1>20, <1>21, UndoAccounts DEF IInv, Kept

-----------------------------------------------------------------------------
(* Theorems.                                                                 *)

LEMMA InitKeeps == Init => IInv
<1> SUFFICES ASSUME Init PROVE IInv
  OBVIOUS
<1>1. PICK g \in Goals :
        bank = [goal |-> g, completed |-> 0, archived |-> FALSE,
                yields |-> FALSE, through |-> 0, updated |-> 0]
  BY DEF Init
<1>2. bank \in Bank
  BY <1>1 DEF Bank
<1>3. NoRequest \in Request /\ NoRequest.pc = "idle"
  BY FinanceAssumption DEF NoRequest, Request
<1>4. NoEntry \in Entry /\ NoEntry.state = "none"
  BY DEF NoEntry, Entry
<1>5. MaxClock \in Nat /\ 1 \in Days /\ MaxGrants \in Nat \ {0}
  BY FinanceAssumption
<1>6. TypeOK
  <2>1. today \in Days /\ clock \in 1 .. MaxClock + 1
    BY <1>5 DEF Init
  <2>2. grants \in 1 .. MaxGrants /\ grant \in 0 .. grants
    BY <1>5 DEF Init
  <2>3. token \in [Nonces -> Token] /\ ops \in [Keys -> Operation]
    BY DEF Init, Token, Operation
  <2>4. entry \in [Keys -> Entry] /\ req \in [Workers -> Request]
    BY <1>3, <1>4 DEF Init
  <2>5. balance \in Int /\ moves = {} /\ told = {}
    BY DEF Init
  <2> QED
    BY <1>2, <2>1, <2>2, <2>3, <2>4, <2>5 DEF TypeOK
<1>7. \A w \in Workers : RequestKnows(w)
  BY <1>3 DEF Init, RequestKnows
<1>8. TokensKnow
  BY DEF Init, TokensKnow, Asks
<1>9. \A k \in Keys : OperationKnows(k)
  BY <1>4 DEF Init, OperationKnows
<1>10. StampsDiffer /\ AnswersHold
  BY DEF Init, StampsDiffer, AnswersHold
<1>11. PICK p : p = [c \in 0 .. MaxClock |-> 0]
  OBVIOUS
<1>12. Accounts(p)
  BY <1>5, <1>11 DEF Init, Accounts
<1> QED
  BY <1>6, <1>7, <1>8, <1>9, <1>10, <1>12 DEF IInv, Kept

LEMMA UserKeeps ==
  ASSUME IInv, User PROVE IInv'
<1>1. CASE Revoke \/ Consent
  BY <1>1, AccessKeeps
<1>2. CASE \E c \in Amounts : OtherMove(c) \/ OtherMove(0 - c)
  <2>1. PICK c \in Amounts : OtherMove(c) \/ OtherMove(0 - c)
    BY <1>2
  <2>2. c \in Int /\ 0 - c \in Int
    BY FinanceAssumption
  <2> QED
    BY <2>1, <2>2, OtherMoveKeeps
<1>3. CASE SetGoal
  <2>1. PICK g \in Goals : EditBank([bank EXCEPT !.goal = g])
    BY <1>3 DEF SetGoal
  <2>2. [bank EXCEPT !.goal = g] \in Bank
    BY DEF IInv, Kept, TypeOK, Bank
  <2> QED
    BY <2>1, <2>2, EditBankKeeps
<1>4. CASE Archive
  <2>1. [bank EXCEPT !.archived = TRUE] \in Bank
    BY DEF IInv, Kept, TypeOK, Bank
  <2> QED
    BY <1>4, <2>1, EditBankKeeps DEF Archive
<1>5. CASE StartYield
  <2>1. [bank EXCEPT !.yields = TRUE, !.through = today] \in Bank
    BY DEF IInv, Kept, TypeOK, Bank
  <2> QED
    BY <1>5, <2>1, EditBankKeeps DEF StartYield
<1>6. CASE \E k \in Keys : ChangeEntry(k)
  BY <1>6, ChangeEntryKeeps
<1> QED
  BY <1>1, <1>2, <1>3, <1>4, <1>5, <1>6 DEF User

LEMMA StepKeeps == IInv /\ [Next]_vars => IInv'
<1> SUFFICES ASSUME IInv, [Next]_vars PROVE IInv'
  OBVIOUS
<1>1. CASE Client
  BY <1>1, PreviewKeeps, RequestKeeps DEF Client
<1>2. CASE User
  BY <1>2, UserKeeps
<1>3. CASE Midnight
  BY <1>3, MidnightKeeps
<1>4. CASE \E w \in Workers : Serve(w)
  BY <1>4, AnswerKeeps, CommitKeeps, UndoKeeps DEF Serve
<1>5. CASE UNCHANGED vars
  <2>1. UNCHANGED <<today, clock, grant, grants, token, bank, balance, moves, entry,
                    ops, req, told>>
    BY <1>5 DEF vars
  <2>2. TypeOK' /\ TokensKnow' /\ AnswersHold' /\ UNCHANGED <<clock, book>>
    BY <2>1 DEF IInv, Kept, TypeOK, TokensKnow, Asks, AnswersHold, book
  <2>3. \A w \in Workers : RequestKnows(w)'
    BY <2>1 DEF IInv, Kept, RequestKnows, Asks
  <2> QED
    BY <2>2, <2>3, QuietStep
<1> QED
  BY <1>1, <1>2, <1>3, <1>4, <1>5 DEF Next

\* The books are kept: rows, stamps and answers agree, and the balance after
\* every transaction can be told.
THEOREM Invariant == Spec => []IInv
<1>1. Init => IInv
  BY InitKeeps
<1>2. IInv /\ [Next]_vars => IInv'
  BY StepKeeps
<1> QED
  BY <1>1, <1>2, PTL DEF Spec

\* Every variable has its type.
THEOREM TypeCorrect == Spec => []TypeOK
<1>1. IInv => TypeOK
  BY DEF IInv, Kept
<1> QED
  BY <1>1, Invariant, PTL

\* No answer a client was given turns out false later: not after a retry, not
\* after an undo, not when its key is used again.
THEOREM AnswersStand == Spec => []AnswersHold
<1>1. IInv => AnswersHold
  BY DEF IInv, Kept
<1> QED
  BY <1>1, Invariant, PTL

\* No sequence of deposits, withdrawals and undos overdraws the bank.
THEOREM NotOverdrawn == Spec => []NeverOverdrawn
<1>1. IInv => NeverOverdrawn
  <2> SUFFICES ASSUME IInv PROVE NeverOverdrawn
    OBVIOUS
  <2>1. PICK p : Accounts(p)
    BY DEF IInv
  <2>2. balance \in Nat
    BY <2>1, FinanceAssumption DEF Accounts
  <2> QED
    BY <2>2 DEF NeverOverdrawn
<1> QED
  BY <1>1, Invariant, PTL

-----------------------------------------------------------------------------

\* Only Commit and Undo, for a request whose grant still is the current one,
\* change the operations.
LEMMA WriteIsGranted ==
  ASSUME IInv, Next, NEW k \in Keys, ops'[k] # ops[k]
  PROVE  \E w \in Workers : /\ req[w].pc \in {"commit", "undo"} /\ req[w].key = k
                            /\ req'[w].pc = "idle"
                            /\ grant = req[w].grant
<1>1. \E w \in Workers : Commit(w) \/ Undo(w)
  BY DEF Next, Client, User, Serve, Preview, PreviewUndo, RequestUndo, Execute,
         Revoke, Consent, OtherMove, SetGoal, Archive, StartYield, EditBank,
         ChangeEntry, Midnight, Abandon, Replay, ReplayUndo, book
<1>2. PICK w \in Workers : Commit(w) \/ Undo(w)
  BY <1>1
<1>3. req[w].pc \in {"commit", "undo"} /\ grant = req[w].grant /\ Finish(w)
  BY <1>2 DEF Commit, Undo, MayWrite, GrantIsActive
<1>4. req'[w].pc = "idle"
  BY <1>3, FinishType DEF IInv, Kept
<1>5. req[w].key = k
  <2>1. ops \in [Keys -> Operation]
    BY DEF IInv, Kept, TypeOK
  <2>2. CASE Commit(w)
    BY <2>2, CommitRows DEF IInv
  <2>3. CASE Undo(w)
    BY <2>3, UndoEffect DEF IInv
  <2> QED
    BY <1>2, <2>2, <2>3
<1> QED
  BY <1>3, <1>4, <1>5

\* A request whose access was revoked or replaced after it was verified writes
\* nothing.
THEOREM NoLateWrite == Spec => NoWriteAfterRevocation
<1> DEFINE Granted ==
      \A k \in Keys : ops'[k] # ops[k] =>
        \E w \in Workers : /\ req[w].pc \in {"commit", "undo"} /\ req[w].key = k
                           /\ req'[w].pc = "idle"
                           /\ grant = req[w].grant
<1>1. IInv /\ [Next]_vars => [Granted]_vars
  <2>1. ASSUME IInv, Next PROVE Granted
    BY <2>1, WriteIsGranted
  <2> QED
    BY <2>1
<1> QED
  BY <1>1, Invariant, PTL DEF Spec, NoWriteAfterRevocation

\* Nothing but an undo removes a movement, and it reopens the bank.
LEMMA UndoReopens ==
  ASSUME IInv, Next, NEW m \in moves \ moves'
  PROVE  bank'.completed = 0 /\ (bank.goal = 0 \/ balance' < bank.goal)
<1>1. \E w \in Workers : Commit(w) \/ Undo(w)
  BY DEF Next, Client, User, Serve, Preview, PreviewUndo, RequestUndo, Execute,
         Revoke, Consent, OtherMove, SetGoal, Archive, StartYield, EditBank,
         ChangeEntry, Midnight, Abandon, Replay, ReplayUndo, book
<1>2. PICK w \in Workers : Undo(w)
  <2>1. ASSUME NEW w \in Workers, Commit(w) PROVE moves \subseteq moves'
    BY <2>1 DEF Commit
  <2> QED
    BY <1>1, <2>1
<1>3. PICK k : k = req[w].key
  OBVIOUS
<1>4. Kept /\ k \in Keys /\ ops[k] # None /\ ~ops[k].undone
  BY <1>2, <1>3, UndoEffect DEF IInv
<1>5. Saves(ops[k].action)
  BY <1>2, <1>3, <1>4, UndoEffect
<1>6. PICK o \in moves :
        /\ o.at = ops[k].at /\ o.amount = ops[k].action.amount
        /\ \A other \in moves : other # o => other.at < o.at
        /\ balance' = balance - o.amount
        /\ bank' = BankAfterUndo
  BY <1>2, <1>3, <1>4, <1>5, UndoEffect
<1>7. bank'.completed = 0
  BY <1>4, <1>6 DEF BankAfterUndo, Kept, TypeOK, Bank
<1>8. bank.updated <= ops[k].at
  BY <1>2, <1>3, <1>5 DEF Undo, MoveMayGo
<1>9. PICK p : Accounts(p)
  BY DEF IInv
<1>10. balance = p[o.at] /\ (bank.goal = 0 \/ p[o.at] <= bank.goal)
  BY <1>4, <1>5, <1>6, <1>8, <1>9, BalanceBeforeLast DEF Accounts
<1>11. o.amount \in Int /\ o.amount > 0 /\ balance \in Int /\ bank.goal \in Nat
  BY <1>4, <1>6, OperationTimes, ActionType, FinanceAssumption DEF Kept, TypeOK, Bank
<1> QED
  BY <1>6, <1>7, <1>10, <1>11

\* A bank whose last deposit was undone is open again, whether or not that
\* deposit had completed it.
THEOREM UndoneOpen == Spec => UndoneBankIsOpen
<1> DEFINE Reopened ==
      \A m \in moves \ moves' : bank'.completed = 0 /\ (bank.goal = 0 \/ balance' < bank.goal)
<1>1. IInv /\ [Next]_vars => [Reopened]_vars
  <2>1. ASSUME IInv, Next PROVE Reopened
    BY <2>1, UndoReopens
  <2> QED
    BY <2>1
<1> QED
  BY <1>1, Invariant, PTL DEF Spec, UndoneBankIsOpen

-----------------------------------------------------------------------------
(* The abstract log.                                                         *)

\* A step that leaves alone the operations and whether their rows exist is none
\* of the log.
LEMMA LogStutters ==
  ASSUME \A k \in Keys : /\ OperationFate(k)' = OperationFate(k)
                         /\ RowsOf(k)' = RowsOf(k)
                         /\ (IF ops[k] = None THEN None ELSE ops[k].nonce)'
                            = IF ops[k] = None THEN None ELSE ops[k].nonce
  PROVE  UNCHANGED Log!vars
BY DEF Log!vars

\* The application changes rows but never makes or removes one of an operation.
LEMMA ApplicationStutters ==
  ASSUME IInv, User \/ Client \/ Midnight \/ UNCHANGED vars
         \/ \E w \in Workers : Abandon(w) \/ Replay(w) \/ ReplayUndo(w)
  PROVE  UNCHANGED Log!vars
<1>1. ops' = ops
  BY DEF Client, User, Preview, PreviewUndo, RequestUndo, Execute,
         Revoke, Consent, OtherMove, SetGoal, Archive, StartYield, EditBank,
         ChangeEntry, Midnight, Abandon, Replay, ReplayUndo, book, vars
<1>2. \A k \in Keys : entry'[k].state = "none" <=> entry[k].state = "none"
  <2>1. CASE \E k \in Keys : ChangeEntry(k)
    <3>1. PICK k \in Keys : ChangeEntry(k)
      BY <2>1
    <3>2. /\ entry[k].state # "none"
          /\ entry' = [entry EXCEPT ![k] = [state |-> "changed", updated |-> clock]]
      BY <3>1 DEF ChangeEntry
    <3> QED
      BY <3>2 DEF IInv, Kept, TypeOK
  <2>2. CASE ~\E k \in Keys : ChangeEntry(k)
    <3>1. entry' = entry
      BY <2>2 DEF Client, User, Preview, PreviewUndo, RequestUndo, Execute,
         Revoke, Consent, OtherMove, SetGoal, Archive, StartYield, EditBank,
         Midnight, Abandon, Replay, ReplayUndo, book, vars
    <3> QED
      BY <3>1
  <2> QED
    BY <2>1, <2>2
<1>3. moves' = moves \/ \E m : m.at = clock /\ moves' = moves \cup {m}
  <2>1. CASE \E c \in Amounts : OtherMove(c) \/ OtherMove(0 - c)
    <3>1. PICK c : OtherMove(c)
      BY <2>1
    <3> DEFINE m == [at |-> clock, amount |-> c, date |-> today]
    <3>2. m.at = clock /\ moves' = moves \cup {m}
      BY <3>1 DEF OtherMove
    <3> HIDE DEF m
    <3> QED
      BY <3>2
  <2>2. CASE ~\E c \in Amounts : OtherMove(c) \/ OtherMove(0 - c)
    BY <2>2 DEF Client, User, Preview, PreviewUndo, RequestUndo, Execute,
         Revoke, Consent, SetGoal, Archive, StartYield, EditBank, ChangeEntry,
         Midnight, Abandon, Replay, ReplayUndo, book, vars
  <2> QED
    BY <2>1, <2>2
<1>4. ASSUME NEW k \in Keys, ops[k] # None
      PROVE  (\E m \in moves' : m.at = ops[k].move) <=> (\E m \in moves : m.at = ops[k].move)
  <2>1. ops[k].move # clock
    BY <1>4, OperationTimes, FinanceAssumption DEF Times, IInv, Kept, TypeOK
  <2> QED
    BY <1>3, <2>1
<1>5. \A k \in Keys : OperationFate(k)' = OperationFate(k) /\ RowsOf(k)' = RowsOf(k)
  BY <1>1, <1>2, <1>4 DEF OperationFate, RowsOf
<1> QED
  BY <1>1, <1>5, LogStutters

LEMMA CommitDoes ==
  ASSUME IInv, NEW w \in Workers, Commit(w)
  PROVE  Log!Next
<1>1. PICK k, n, a : k = req[w].key /\ n = req[w].nonce /\ a = token[n].action
  OBVIOUS
<1>2. /\ k \in Keys /\ n \in Nonces /\ a \in FinanceAction
      /\ clock \in Times /\ ops[k] = None /\ NonceIsNew(k, n)
      /\ ops'[k] # None /\ ops'[k].nonce = n
      /\ ops'[k].move = (IF Saves(a) THEN clock ELSE 0) /\ ~ops'[k].undone
      /\ \A j \in Keys \ {k} : ops'[j] = ops[j]
  BY <1>1, CommitRows DEF IInv
<1>3. /\ Receives(a) => entry'[k].state = "received"
      /\ \A j \in Keys \ {k} : entry'[j] = entry[j]
  BY <1>1, CommitEffect DEF IInv
<1>4. /\ Saves(a) => \E m : m.at = clock /\ moves' = moves \cup {m}
      /\ ~Saves(a) => moves' = moves
  BY <1>1, CommitEffect DEF IInv
<1>5. \A j \in Keys \ {k} : OperationFate(j)' = OperationFate(j) /\ RowsOf(j)' = RowsOf(j)
  <2> SUFFICES ASSUME NEW j \in Keys \ {k}
               PROVE  OperationFate(j)' = OperationFate(j) /\ RowsOf(j)' = RowsOf(j)
    OBVIOUS
  <2>1. CASE ops[j] = None
    BY <1>2, <1>3, <2>1 DEF OperationFate, RowsOf
  <2>2. CASE ops[j] # None
    <3>1. ops[j].move # clock
      BY <2>2, OperationTimes, FinanceAssumption DEF Times, IInv, Kept, TypeOK
    <3>2. (\E m \in moves' : m.at = ops[j].move) <=> (\E m \in moves : m.at = ops[j].move)
      BY <1>4, <3>1
    <3> QED
      BY <1>2, <1>3, <2>2, <3>2 DEF OperationFate, RowsOf
  <2> QED
    BY <2>1, <2>2
<1>6. RowsOf(k)' # {} /\ RowsOf(k)' \in SUBSET {"entry", "move"}
  <2>1. Receives(a) \/ Saves(a)
    BY DEF Receives, Saves
  <2>2. Receives(a) => entry'[k].state # "none"
    BY <1>3
  <2>3. Saves(a) => \E m \in moves' : m.at = ops'[k].move
    BY <1>2, <1>4
  <2> QED
    BY <1>2, <2>1, <2>2, <2>3 DEF RowsOf
<1>7. OperationFate(k) = "free" /\ OperationFate(k)' = "done"
  BY <1>2 DEF OperationFate
<1>8. \A j \in Keys : (IF ops[j] = None THEN None ELSE ops[j].nonce) # n
  BY <1>2, FinanceAssumption DEF NonceIsNew
<1>9. Log!Do(k, n)
  <2>1. [j \in Keys |-> OperationFate(j)]' = [[j \in Keys |-> OperationFate(j)] EXCEPT ![k] = "done"]
    BY <1>2, <1>5, <1>7
  <2>2. [j \in Keys |-> IF ops[j] = None THEN None ELSE ops[j].nonce]'
        = [[j \in Keys |-> IF ops[j] = None THEN None ELSE ops[j].nonce] EXCEPT ![k] = n]
    BY <1>2
  <2>3. [j \in Keys |-> RowsOf(j)]' = [[j \in Keys |-> RowsOf(j)] EXCEPT ![k] = RowsOf(k)']
    BY <1>2, <1>5
  <2> QED
    BY <1>2, <1>6, <1>7, <1>8, <2>1, <2>2, <2>3 DEF Log!Do
<1> QED
  BY <1>2, <1>9 DEF Log!Next

LEMMA UndoUndoes ==
  ASSUME IInv, NEW w \in Workers, Undo(w)
  PROVE  Log!Next
<1>1. PICK k : k = req[w].key
  OBVIOUS
<1>2. /\ k \in Keys /\ ops[k] # None /\ ~ops[k].undone
      /\ ops'[k] # None /\ ops'[k].undone /\ ops'[k].nonce = ops[k].nonce
      /\ ops'[k].at = ops[k].at /\ ops'[k].move = ops[k].move
      /\ \A j \in Keys \ {k} : ops'[j] = ops[j]
      /\ entry'[k].state = "none"
      /\ \A j \in Keys \ {k} : entry'[j] = entry[j]
  BY <1>1, UndoEffect DEF IInv
<1>3. /\ Saves(ops[k].action) =>
           \E m \in moves : m.at = ops[k].at /\ moves' = moves \ {m}
      /\ ~Saves(ops[k].action) => moves' = moves
  BY <1>1, UndoEffect DEF IInv
<1>4. OperationKnows(k)' /\ Kept
  BY <1>2, UndoKeeps DEF IInv, Kept
<1>5. RowsOf(k)' = {}
  BY <1>2, <1>4 DEF RowsOf, OperationKnows
<1>6. \A j \in Keys \ {k} : OperationFate(j)' = OperationFate(j) /\ RowsOf(j)' = RowsOf(j)
  <2> SUFFICES ASSUME NEW j \in Keys \ {k}
               PROVE  OperationFate(j)' = OperationFate(j) /\ RowsOf(j)' = RowsOf(j)
    OBVIOUS
  <2>1. CASE ops[j] = None
    BY <1>2, <2>1 DEF OperationFate, RowsOf
  <2>2. CASE ops[j] # None
    <3>1. ops[j].at # ops[k].at
      BY <1>2, <1>4, <2>2 DEF Kept, StampsDiffer
    <3>2. ops[j].move \in {0, ops[j].at} /\ ops[k].at \in Times
      BY <1>2, <1>4, <2>2, OperationTimes
    <3>3. ops[j].move # ops[k].at
      BY <3>1, <3>2 DEF Times
    <3>4. (\E m \in moves' : m.at = ops[j].move) <=> (\E m \in moves : m.at = ops[j].move)
      BY <1>3, <3>3
    <3> QED
      BY <1>2, <2>2, <3>4 DEF OperationFate, RowsOf
  <2> QED
    BY <2>1, <2>2
<1>7. OperationFate(k) = "done" /\ OperationFate(k)' = "undone"
  BY <1>2 DEF OperationFate
<1>8. Log!Undo(k)
  <2>1. [j \in Keys |-> OperationFate(j)]' = [[j \in Keys |-> OperationFate(j)] EXCEPT ![k] = "undone"]
    BY <1>2, <1>6, <1>7
  <2>2. [j \in Keys |-> IF ops[j] = None THEN None ELSE ops[j].nonce]'
        = [j \in Keys |-> IF ops[j] = None THEN None ELSE ops[j].nonce]
    BY <1>2
  <2>3. [j \in Keys |-> RowsOf(j)]' = [[j \in Keys |-> RowsOf(j)] EXCEPT ![k] = {}]
    BY <1>2, <1>5, <1>6
  <2> QED
    BY <1>2, <1>7, <2>1, <2>2, <2>3 DEF Log!Undo
<1> QED
  BY <1>2, <1>8 DEF Log!Next

\* Retries, lost answers, reused keys, concurrent calls and revoked access
\* included: one effect per key and per intent, whole or not at all, removed once.
THEOREM Implements == Spec => KeepsTheLog
<1>1. Init => Log!Init
  <2> SUFFICES ASSUME Init PROVE Log!Init
    OBVIOUS
  <2>1. \A k \in Keys : ops[k] = None /\ entry[k].state = "none"
    BY DEF Init, NoEntry
  <2>2. \A k \in Keys : OperationFate(k) = "free" /\ RowsOf(k) = {}
    BY <2>1 DEF OperationFate, RowsOf
  <2> QED
    BY <2>1, <2>2 DEF Log!Init
<1>2. IInv /\ [Next]_vars => [Log!Next]_(Log!vars)
  <2> SUFFICES ASSUME IInv, [Next]_vars PROVE [Log!Next]_(Log!vars)
    OBVIOUS
  <2>1. CASE \E w \in Workers : Commit(w) \/ Undo(w)
    BY <2>1, CommitDoes, UndoUndoes
  <2>2. CASE ~\E w \in Workers : Commit(w) \/ Undo(w)
    BY <2>2, ApplicationStutters DEF Next, Serve
  <2> QED
    BY <2>1, <2>2
<1> QED
  BY <1>1, <1>2, Invariant, PTL DEF Spec, KeepsTheLog, Log!Spec
=============================================================================
