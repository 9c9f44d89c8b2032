----------------------------- MODULE FinanceOps -----------------------------
(***************************************************************************)
(* Money operations an assistant performs through the MCP server for one   *)
(* user and one OAuth client: a preview signs an intent, an execution      *)
(* carries it out under an idempotency key chosen by the client, an undo   *)
(* removes exactly what one execution wrote.  A client may repeat any      *)
(* call, with any of its keys and tokens, at any time, in particular when  *)
(* an answer was lost.  The user meanwhile works in the application        *)
(* (movements, edits) and may revoke or renew the client's access.         *)
(*                                                                         *)
(* Abstractions.  One piggy bank.  A token is its nonce: its signature and *)
(* the digest of its content only tell equal contents from different ones, *)
(* and a nonce is drawn at random for one content.  `clock' numbers the    *)
(* write transactions, so it orders the time stamps the code compares      *)
(* (createdAt, updatedAt, committedAt); all writes of one transaction bear *)
(* the same number.  A tag that was created stays, and is left out.  A     *)
(* token is good for five minutes; here it may be presented at any time,   *)
(* which allows more.                                                      *)
(***************************************************************************)
EXTENDS Integers

CONSTANTS
  Keys,       \* idempotency keys the client uses
  Nonces,     \* nonces of signed intents
  Workers,    \* requests in progress at the same time
  Amounts,    \* cents of one operation
  Goals,      \* goals of the bank; 0 is no goal
  Days,       \* 1..n: civil days
  None,       \* absent
  MaxClock,   \* bound: write transactions
  MaxGrants   \* bound: consents given

ASSUME FinanceAssumption ==
  /\ Amounts \subseteq Nat /\ 0 \notin Amounts
  /\ Goals \subseteq Nat
  /\ Days \subseteq Nat /\ 0 \notin Days /\ 1 \in Days
  /\ None \notin Nonces \cup Keys
  /\ MaxClock \in Nat /\ MaxGrants \in Nat \ {0}

VARIABLES
  today,    \* the civil day in Sao Paulo
  clock,    \* number of the next write transaction
  grant,    \* the grant a bearer token must belong to; 0: access revoked
  grants,   \* grants given so far
  token,    \* token[n]: what the intent with nonce n asks for
  bank,     \* the PiggyBank row
  balance,  \* the sum of its transactions
  moves,    \* its transactions
  entry,    \* entry[k]: the entry (and receipt) written by operation k
  ops,      \* ops[k]: the FinanceMcpOperation with key k, and its undo
  req,      \* req[w]: the request worker w serves
  told      \* history: what clients were told

book == <<bank, balance, moves, entry, ops>>
access == <<grant, grants>>
vars == <<today, clock, grant, grants, token, bank, balance, moves, entry,
          ops, req, told>>

-----------------------------------------------------------------------------

Times == 1 .. MaxClock

Kinds == {"receive_income", "receive_and_save", "deposit_existing_cash"}

\* An action of one of the three kinds.  Whether a deposit is deducted from the
\* month's balance decides if its movement has an expense; the two rows come
\* and go together.
FinanceAction == [kind : Kinds, amount : Amounts, date : Days]

Receives(a) == a.kind # "deposit_existing_cash"
Saves(a) == a.kind # "receive_income"

Token ==
  {None} \cup
  [asks : {"execute"}, action : FinanceAction] \cup
  [asks : {"undo"}, key : Keys]

Bank ==
  [goal      : Goals,
   completed : {0} \cup Days,       \* completedAt; 0 is null
   archived  : BOOLEAN,
   yields    : BOOLEAN,
   through   : {0} \cup Days,       \* interestAccruedThrough
   updated   : {0} \cup Times]

Move ==
  [at     : Times,                  \* createdAt, and its identity
   amount : Int,
   date   : Days]

Entry ==
  [state   : {"none", "received", "changed"},
   updated : {0} \cup Times]

NoEntry == [state |-> "none", updated |-> 0]

OperationRow ==
  [nonce : Nonces, action : FinanceAction, at : Times,
   move : {0} \cup Times, undone : BOOLEAN]

ASSUME NoneAssumption == None \notin OperationRow

Operation == {None} \cup OperationRow

Request ==
  [pc    : {"idle", "commit", "undo"},
   key   : Keys \cup {None},
   nonce : Nonces \cup {None},
   grant : 0 .. MaxGrants]          \* the grant of its verified bearer token

NoRequest == [pc |-> "idle", key |-> None, nonce |-> None, grant |-> 0]

Init ==
  /\ today = 1 /\ clock = 1
  /\ grant = 1 /\ grants = 1
  /\ token = [n \in Nonces |-> None]
  /\ \E g \in Goals :
       bank = [goal |-> g, completed |-> 0, archived |-> FALSE,
               yields |-> FALSE, through |-> 0, updated |-> 0]
  /\ balance = 0 /\ moves = {}
  /\ entry = [k \in Keys |-> NoEntry]
  /\ ops = [k \in Keys |-> None]
  /\ req = [w \in Workers |-> NoRequest]
  /\ told = {}

\* One transaction under the user's lock.
Write == clock <= MaxClock /\ clock' = clock + 1

Finish(w) == req' = [req EXCEPT ![w] = NoRequest]
Tell(w, what) ==
  told' = told \cup {[key |-> req[w].key, nonce |-> req[w].nonce, what |-> what]}

-----------------------------------------------------------------------------
(* Access.                                                                   *)

\* assertOAuthGrantActiveForFinancialWrite
GrantIsActive(g) == g # 0 /\ grant = g

\* The client is disconnected, its grant destroyed or the account recovered.
Revoke ==
  /\ grant # 0
  /\ grant' = 0
  /\ UNCHANGED <<today, clock, grants, token, req, told, book>>

\* A new consent replaces the grant of the client's connection.
Consent ==
  /\ grants < MaxGrants
  /\ grants' = grants + 1 /\ grant' = grants + 1
  /\ UNCHANGED <<today, clock, token, req, told, book>>

-----------------------------------------------------------------------------
(* Previews read, and sign an intent.                                        *)

\* A deposit dated before today would change interest already computed.
ChangesInterest(a) == a.date < today /\ (bank.yields \/ a.date <= bank.through)

\* The bank takes the whole amount, or the operation is refused.
Fits(a) ==
  /\ ~bank.archived
  /\ ~ChangesInterest(a)
  /\ bank.goal = 0 \/ balance + a.amount <= bank.goal

Preview(n, a) ==
  /\ grant # 0
  /\ token[n] = None
  /\ a.date <= today
  /\ Saves(a) => Fits(a)
  /\ token' = [token EXCEPT ![n] = [asks |-> "execute", action |-> a]]
  /\ UNCHANGED <<today, clock, req, told, book, access>>

PreviewUndo(n, k) ==
  /\ grant # 0
  /\ token[n] = None
  /\ ops[k] # None /\ ~ops[k].undone
  /\ token' = [token EXCEPT ![n] = [asks |-> "undo", key |-> k]]
  /\ UNCHANGED <<today, clock, req, told, book, access>>

-----------------------------------------------------------------------------
(* Requests.                                                                 *)

\* The intent is signed by this server, for this user and client.
Asks(n, what) == token[n] # None /\ token[n].asks = what

\* The bearer token is verified, then the intent's signature, then the grant
\* once more: a first fence.  A deposit whose key is not committed then has the
\* piggy banks caught up before it waits for the lock: what that writes are
\* movements like any other (OtherMove).
Execute(w, n, k) ==
  /\ req[w].pc = "idle"
  /\ GrantIsActive(grant)
  /\ Asks(n, "execute")
  /\ req' = [req EXCEPT ![w] = [pc |-> "commit", key |-> k, nonce |-> n, grant |-> grant]]
  /\ UNCHANGED <<today, clock, token, told, book, access>>

RequestUndo(w, n) ==
  /\ req[w].pc = "idle"
  /\ GrantIsActive(grant)
  /\ Asks(n, "undo")
  /\ req' = [req EXCEPT ![w] = [pc |-> "undo", key |-> token[n].key,
                                nonce |-> n, grant |-> grant]]
  /\ UNCHANGED <<today, clock, token, told, book, access>>

\* A refusal, a lost connection, a failed catch-up, a restart: the
\* transaction, if any, rolls back.
Abandon(w) ==
  /\ req[w].pc # "idle"
  /\ Finish(w)
  /\ UNCHANGED <<today, clock, token, told, book, access>>

\* An optional write of the row: a deposit that neither completes the bank nor
\* has a target date sets no column.
Stamped(row, must) ==
  {[row EXCEPT !.updated = clock]} \cup (IF must THEN {} ELSE {row})

\* depositToPiggyBankInTransaction, for the amount asked.
BanksAfterDeposit(a) ==
  LET completes == bank.goal # 0 /\ balance + a.amount >= bank.goal /\ bank.completed = 0
  IN Stamped([bank EXCEPT !.completed = IF completes THEN a.date ELSE @], completes)

\* Faulty variant: the second check is left to the first.
MayWriteFenced(w) == req[w].grant # 0

\* The authoritative check, inside the transaction that writes.
MayWrite(w) == GrantIsActive(req[w].grant)

\* Faulty variant: the nonce of another key is not looked up.
NonceIsNewHere(k, n) == ops[k] = None

\* No operation was carried out under this key, nor this intent under another.
NonceIsNew(k, n) ==
  /\ ops[k] = None
  /\ \A j \in Keys : ops[j] # None => ops[j].nonce # n

\* runFinanceOperationInTransaction and the operation's own row.
Commit(w) ==
  LET k == req[w].key
      n == req[w].nonce
      a == token[n].action
  IN
  /\ req[w].pc = "commit"
  /\ MayWrite(w)
  /\ NonceIsNew(k, n)
  /\ Write
  /\ ops' = [ops EXCEPT ![k] = [nonce |-> n, action |-> a, at |-> clock,
                                move |-> IF Saves(a) THEN clock ELSE 0, undone |-> FALSE]]
  /\ IF Receives(a)
     THEN entry' = [entry EXCEPT ![k] = [state |-> "received", updated |-> clock]]
     ELSE UNCHANGED entry
  /\ IF Saves(a)
     THEN /\ Fits(a)
          /\ balance' = balance + a.amount
          /\ moves' = moves \cup {[at |-> clock, amount |-> a.amount, date |-> a.date]}
          /\ bank' \in BanksAfterDeposit(a)
     ELSE UNCHANGED <<balance, moves, bank>>
  /\ Tell(w, "committed")
  /\ Finish(w)
  /\ UNCHANGED <<today, token, access>>

\* Faulty variant: the key alone decides that a call is a repetition.
IsReplayOfKey(k, n) == ops[k] # None /\ ~ops[k].undone

\* The key is there, with this intent.
IsReplay(k, n) == ops[k] # None /\ ~ops[k].undone /\ ops[k].nonce = n

Replay(w) ==
  /\ req[w].pc = "commit"
  /\ MayWrite(w)
  /\ IsReplay(req[w].key, req[w].nonce)
  /\ Tell(w, "committed")
  /\ Finish(w)
  /\ UNCHANGED <<today, clock, token, book, access>>

-----------------------------------------------------------------------------
(* Undo.                                                                     *)

\* Faulty variant: what happened to the bank since is not looked at.
MoveMayGoAnyway(o, m) ==
  /\ ~bank.archived /\ ~bank.yields /\ bank.through = 0
  /\ bank.completed \in {0, m.date}

\* The bank is as the operation left it, and nothing was moved since.
MoveMayGo(o, m) ==
  /\ ~bank.archived /\ ~bank.yields /\ bank.through = 0
  /\ bank.updated <= o.at
  /\ ~\E other \in moves : other # m /\ other.at >= o.at
  /\ bank.completed \in {0, m.date}

\* The entry and its one receipt are as the operation wrote them.
EntryMayGo(o, e) == e.state = "received" /\ e.updated <= o.at

\* Faulty variant: the bank stays complete.
BankAfterUndoComplete == bank

\* completedAt is cleared; nothing else is restored.
BankAfterUndo ==
  IF bank.completed = 0 THEN bank
  ELSE [bank EXCEPT !.completed = 0, !.updated = clock]

EntryAfterUndo(e) == NoEntry

Undo(w) ==
  LET k == req[w].key
      o == ops[k]
  IN
  /\ req[w].pc = "undo"
  /\ MayWrite(w)
  /\ ~o.undone
  /\ Write
  /\ IF Receives(o.action)
     THEN /\ EntryMayGo(o, entry[k])
          /\ entry' = [entry EXCEPT ![k] = EntryAfterUndo(@)]
     ELSE UNCHANGED entry
  /\ IF Saves(o.action)
     THEN \E m \in moves :
            /\ m.at = o.move
            /\ MoveMayGo(o, m)
            /\ moves' = moves \ {m}
            /\ balance' = balance - m.amount
            /\ bank' = BankAfterUndo
     ELSE UNCHANGED <<balance, moves, bank>>
  /\ ops' = [ops EXCEPT ![k].undone = TRUE]
  /\ Tell(w, "undone")
  /\ Finish(w)
  /\ UNCHANGED <<today, token, access>>

ReplayUndo(w) ==
  /\ req[w].pc = "undo"
  /\ MayWrite(w)
  /\ ops[req[w].key].undone
  /\ Tell(w, "undone")
  /\ Finish(w)
  /\ UNCHANGED <<today, clock, token, book, access>>

-----------------------------------------------------------------------------
(* The application, in its own transactions under the same lock.             *)

\* A deposit or withdrawal of the user, an automatic debit, interest.
OtherMove(amount) ==
  LET next == balance + amount
      completes == amount > 0 /\ bank.goal # 0 /\ next >= bank.goal /\ bank.completed = 0
      reopens == amount < 0 /\ bank.goal # 0 /\ next < bank.goal
      row == [bank EXCEPT !.completed = IF completes THEN today
                                        ELSE IF reopens THEN 0 ELSE @]
  IN
  /\ ~bank.archived
  /\ next >= 0
  /\ amount > 0 /\ bank.goal # 0 =>
       \/ balance < bank.goal /\ next <= bank.goal
       \/ bank.yields /\ balance > 0
  /\ Write
  /\ balance' = next
  /\ moves' = moves \cup {[at |-> clock, amount |-> amount, date |-> today]}
  /\ bank' \in Stamped(row, completes \/ amount < 0)
  /\ UNCHANGED <<today, token, entry, ops, req, told, access>>

\* The bank is edited, archived, or starts to yield.
EditBank(row) ==
  /\ Write
  /\ bank' = [row EXCEPT !.updated = clock]
  /\ UNCHANGED <<today, token, balance, moves, entry, ops, req, told, access>>

SetGoal == \E g \in Goals \ {bank.goal} : EditBank([bank EXCEPT !.goal = g])
Archive == ~bank.archived /\ EditBank([bank EXCEPT !.archived = TRUE])
StartYield ==
  ~bank.yields /\ EditBank([bank EXCEPT !.yields = TRUE, !.through = today])

\* The entry is edited or archived, or its receipt undone: each moves updatedAt.
ChangeEntry(k) ==
  /\ entry[k].state # "none"
  /\ Write
  /\ entry' = [entry EXCEPT ![k] = [state |-> "changed", updated |-> clock]]
  /\ UNCHANGED <<today, token, balance, moves, bank, ops, req, told, access>>

Midnight ==
  /\ today + 1 \in Days
  /\ today' = today + 1
  /\ UNCHANGED <<clock, token, req, told, book, access>>

-----------------------------------------------------------------------------

Serve(w) ==
  \/ Abandon(w)
  \/ Commit(w) \/ Replay(w) \/ Undo(w) \/ ReplayUndo(w)

User ==
  \/ Revoke \/ Consent
  \/ \E c \in Amounts : OtherMove(c) \/ OtherMove(0 - c)
  \/ SetGoal \/ Archive \/ StartYield
  \/ \E k \in Keys : ChangeEntry(k)

Client ==
  \/ \E n \in Nonces : \/ \E a \in FinanceAction : Preview(n, a)
                       \/ \E k \in Keys : PreviewUndo(n, k)
  \/ \E n \in Nonces, w \in Workers :
       RequestUndo(w, n) \/ \E k \in Keys : Execute(w, n, k)

Next ==
  \/ Client \/ User \/ Midnight
  \/ \E w \in Workers : Serve(w)

Spec == Init /\ [][Next]_vars

-----------------------------------------------------------------------------
(* Correctness.                                                              *)

\* Every variable has its type.
TypeOK ==
  /\ today \in Days /\ clock \in 1 .. MaxClock + 1
  /\ grants \in 1 .. MaxGrants /\ grant \in 0 .. grants
  /\ token \in [Nonces -> Token]
  /\ bank \in Bank /\ balance \in Int /\ moves \in SUBSET Move
  /\ entry \in [Keys -> Entry]
  /\ ops \in [Keys -> Operation]
  /\ req \in [Workers -> Request]
  /\ told \in SUBSET [key : Keys, nonce : Nonces, what : {"committed", "undone"}]

\* What a client was told stays true: a key said to be committed holds the
\* very intent of that call (a repeated key with another intent is refused,
\* not answered with the first one's result), and what was said to be undone
\* is undone.
AnswersHold ==
  \A t \in told :
    /\ ops[t.key] # None
    /\ IF t.what = "committed" THEN ops[t.key].nonce = t.nonce ELSE ops[t.key].undone

\* No operation or undo is written for a request whose access was revoked or
\* replaced while it waited, although it was verified when it arrived.
NoWriteAfterRevocation ==
  [][\A k \in Keys : ops'[k] # ops[k] =>
       \E w \in Workers : /\ req[w].pc \in {"commit", "undo"} /\ req[w].key = k
                          /\ req'[w].pc = "idle"
                          /\ grant = req[w].grant]_vars

\* Undoing a deposit never takes back money that was withdrawn since.
NeverOverdrawn == balance >= 0

\* A bank whose last deposit was undone is not complete: its goal is not met
\* and it is not marked as met.
UndoneBankIsOpen ==
  [][\A m \in moves \ moves' : bank'.completed = 0 /\ (bank.goal = 0 \/ balance' < bank.goal)]_vars

OperationFate(k) ==
  IF ops[k] = None THEN "free" ELSE IF ops[k].undone THEN "undone" ELSE "done"

\* The rows that exist because of operation k.
RowsOf(k) ==
  (IF entry[k].state # "none" THEN {"entry"} ELSE {}) \cup
  (IF ops[k] # None /\ \E m \in moves : m.at = ops[k].move THEN {"move"} ELSE {})

Log == INSTANCE OperationLog WITH
  Intents <- Nonces,
  RowKinds <- {"entry", "move"},
  fate <- [k \in Keys |-> OperationFate(k)],
  intent <- [k \in Keys |-> IF ops[k] = None THEN None ELSE ops[k].nonce],
  effect <- [k \in Keys |-> RowsOf(k)]

\* Retries, lost answers, reused keys and concurrent calls included, the
\* server implements the abstract log: one effect per key and per intent, all
\* of it or nothing, removed once.
KeepsTheLog == Log!Spec
=============================================================================
