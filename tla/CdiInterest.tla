----------------------------- MODULE CdiInterest -----------------------------
(***************************************************************************)
(* The daily CDI interest of one piggy bank, and the cache its rates come  *)
(* from.  PiggyBank lets a catch-up post any gain; this module says which. *)
(* Each business day earns a fraction of the exact balance.  Only whole    *)
(* cents are posted; the fraction left over is carried to the next day,    *)
(* and between two catch-ups lives in the last interest row (its exact     *)
(* resulting balance less the sum of the rows up to it).  A day that posts *)
(* nothing is not marked as done but computed again by the next catch-up.  *)
(* The rates are read outside the user's lock, from a cache shared by all  *)
(* users, which is filled by whole ranges of days; requests for the same   *)
(* range share one flight.  The process may restart at any moment.         *)
(*                                                                         *)
(* Abstractions.  The rate of a business day is the same every day, and is *)
(* not corrected later.  Amounts are in units, CentUnits to the cent.  A   *)
(* percentage of 0 stands for a bank that does not yield; yield can be     *)
(* switched off and on, but always to the same percentage.  Movements are  *)
(* those of the user, dated the day they are written (the code reads it    *)
(* before it waits for the lock: PiggyBank's MidnightRace); automatic      *)
(* debits, goals and the failures of transactions are in PiggyBank too.    *)
(* Ranges beyond the ten years of one provider call are left out.          *)
(***************************************************************************)
EXTENDS Integers

CONSTANTS
  Workers,      \* catch-ups in progress at the same time
  NDays,        \* bound: civil days
  Weekend,      \* Saturdays and Sundays
  Holidays,     \* business days without a rate, which the program cannot know
  Amounts,      \* cents of one movement
  Percent,      \* percentage of the CDI a bank yields
  CentUnits,    \* units of a cent
  RateDivisor,  \* balance * percentage / RateDivisor is earned a day
  AskedRanges,  \* ranges of rates others ask for (reports, the market routes)
  Slack,        \* days a cached range may start late
  Lookback,     \* days before a range that a fetch brings along
  Opening,      \* cents deposited on the first day before anything else
  MaxMoves      \* bound: later movements

ASSUME CdiAssumption ==
  /\ NDays \in Nat \ {0} /\ Opening \in Nat /\ MaxMoves \in Nat
  /\ Weekend \cup Holidays \subseteq 1 .. NDays
  /\ Amounts \subseteq Nat \ {0} /\ Percent \in Nat \ {0}
  /\ CentUnits \in Nat \ {0} /\ RateDivisor \in Nat \ {0}
  /\ AskedRanges \subseteq (1 .. NDays) \X (1 .. NDays)
  /\ Slack \in Nat /\ Lookback \in Nat

Days == 1 .. NDays
Ranges == {r \in Days \X Days : r[1] <= r[2]}
Between(r) == r[1] .. r[2]
NoRange == <<1, 1>>

VARIABLES
  today,      \* the civil day in Sao Paulo
  published,  \* the provider has the rates of the days up to this one
  cache,      \* MarketDataCache: the days whose rate is stored
  recent,     \* lastRefresh: ranges fetched before (how long ago is left open)
  flight,     \* flight[r]: the shared fetch of range r
  percent,    \* cdiPercent; 0: no yield
  through,    \* interestAccruedThrough; 0 is null
  flow,       \* flow[d]: what the user moved on day d, in cents
  interest,   \* interest[d]: the interest row of day d
  moves,      \* movements made after the first
  worker,     \* worker[w]: the request it serves
  start       \* history: first day of the current yield period, and the
              \* exact balance it began with

market == <<published, cache, recent, flight>>
bank == <<percent, through, flow, interest, moves>>
vars == <<today, market, bank, worker, start>>

-----------------------------------------------------------------------------

\* The last day that is over and not on a weekend; 0 if there is none.
LastWeekdayUpTo(d) ==
  LET weekdays == {e \in 0 .. d : e \notin Weekend}
  IN  CHOOSE e \in weekdays : \A f \in weekdays : f <= e

LastCompletedWeekday(now) == LastWeekdayUpTo(now - 1)

RateDays == Days \ (Weekend \cup Holidays)

NoRow == [cents |-> 0, exact |-> 0]

NoFlight == [pc |-> "none", cached |-> {}]

Idle == [pc |-> "idle", op |-> "none", amount |-> 0, target |-> 0,
         range |-> NoRange, points |-> {}, stale |-> FALSE]

TotalFlow[d \in 0 .. NDays] ==
  IF d = 0 THEN 0 ELSE TotalFlow[d - 1] + flow[d]

TotalInterest[d \in 0 .. NDays] ==
  IF d = 0 THEN 0 ELSE TotalInterest[d - 1] + interest[d].cents

\* balancePrefixSums: the cents in the bank after the rows of day d.
Balance(d) == TotalFlow[d] + TotalInterest[d]

Init ==
  /\ today = 1 /\ published = 0
  /\ cache = {} /\ recent = {} /\ flight = [r \in Ranges |-> NoFlight]
  /\ percent = Percent /\ through = 0
  /\ flow = [d \in Days |-> IF d = 1 THEN Opening ELSE 0]
  /\ interest = [d \in Days |-> NoRow]
  /\ moves = 0
  /\ worker = [w \in Workers |-> Idle]
  /\ start = [day |-> 1, exact |-> 0]

-----------------------------------------------------------------------------
(* The cache of rates.                                                       *)

\* isFreshHistory: the first and the last day of the range are there, more or
\* less; what lies between is not looked at.
IsFreshHistory(points, r) ==
  LET done == IF r[2] < today - 1 THEN r[2] ELSE today - 1
      expected == LastWeekdayUpTo(done)
  IN
  \/ expected < r[1]
  \/ \E first, last \in points :
       /\ \A p \in points : first <= p /\ p <= last
       /\ last >= expected /\ first <= r[1] + Slack

\* singleFlight: who asks for a range that is being fetched shares its answer.
Join(r) ==
  flight' = [flight EXCEPT ![r] = IF @.pc = "none" THEN [@ EXCEPT !.pc = "read"] ELSE @]

\* The series reaches everybody who waits for it.
Deliver(r, points, stale) ==
  /\ flight' = [flight EXCEPT ![r] = NoFlight]
  /\ worker' = [w \in Workers |->
       IF worker[w].pc = "wait" /\ worker[w].range = r
       THEN [worker[w] EXCEPT !.pc = "accrue", !.range = NoRange,
                              !.points = points, !.stale = stale]
       ELSE worker[w]]

\* Somebody else asks for rates.
AskRange(r) ==
  /\ r[2] <= today
  /\ flight[r].pc = "none"
  /\ Join(r)
  /\ UNCHANGED <<today, published, cache, recent, bank, worker, start>>

\* cachedRange, and the decision to use it: it is fresh, or the same range was
\* fetched less than the back-off ago.
ReadCache(r) ==
  LET cached == cache \cap Between(r) IN
  /\ flight[r].pc = "read"
  /\ \/ /\ IsFreshHistory(cached, r) \/ r \in recent
        /\ Deliver(r, cached, FALSE)
     \/ /\ ~IsFreshHistory(cached, r)
        /\ flight' = [flight EXCEPT ![r] = [pc |-> "fetch", cached |-> cached]]
        /\ UNCHANGED worker
  /\ UNCHANGED <<today, published, cache, recent, bank, start>>

\* The completed days the provider has, from a little before the range; when it
\* has none of them, its latest ones.
Live(r) ==
  LET has == {d \in RateDays : d <= published}
      inRange == {d \in has : r[1] - Lookback <= d /\ d <= r[2]}
  IN  {d \in IF inRange # {} THEN inRange ELSE has : d < today}

\* fetchLive and storePoints.  Stored days are only ever added, so the delay
\* between the two is that of whoever waits for the answer.
Fetch(r) ==
  /\ flight[r].pc = "fetch"
  /\ Live(r) # {}
  /\ cache' = cache \cup Live(r)
  /\ recent' = recent \cup {r}
  /\ Deliver(r, Live(r) \cap Between(r), FALSE)
  /\ UNCHANGED <<today, published, bank, start>>

\* The provider fails, or a chunk of the write after the first ones, each its
\* own transaction: what is stored stays, and the cache as it was read is the
\* answer, marked stale; when that is empty, the request fails.
FlightFails(r) ==
  /\ flight[r].pc = "fetch"
  /\ \E last \in 0 .. NDays : cache' = cache \cup {d \in Live(r) : d <= last}
  /\ Deliver(r, flight[r].cached, TRUE)
  /\ UNCHANGED <<today, published, recent, bank, start>>

-----------------------------------------------------------------------------
(* The arithmetic.                                                           *)

\* exactCdiInterest: rounded half up to a unit.
ExactCdiInterest(balance, p) ==
  IF balance <= 0 \/ p <= 0 THEN 0 ELSE (2 * balance * p + RateDivisor) \div (2 * RateDivisor)

\* Faulty variant: the fraction of a cent is dropped between catch-ups.
CarryDropped(d) == 0

\* carryAfter: what the interest row of day d left unposted.
CarryAfter(d) ==
  LET carry == interest[d].exact - CentUnits * Balance(d)
  IN  IF carry \in 0 .. CentUnits - 1 THEN carry ELSE 0

\* The carry the day accruedThrough left: 0 unless it has an interest row.
CarryOn(d) == IF d # 0 /\ interest[d] # NoRow THEN CarryAfter(d) ELSE 0

\* One day of accrueCdiInterest, from the state acc after the day before.
DayAccrued(acc, d) ==
  IF interest[d] # NoRow
  THEN [acc EXCEPT !.carry = CarryAfter(d), !.through = d]
  ELSE
    LET base == CentUnits * (Balance(d) + acc.sum) + acc.carry
        earned == ExactCdiInterest(base, percent)
        cents == (acc.carry + earned) \div CentUnits
        carry == (acc.carry + earned) % CentUnits
    IN [carry   |-> carry,
        sum     |-> acc.sum + cents,
        through |-> IF cents > 0 \/ carry = 0 THEN d ELSE acc.through,
        rows    |-> IF cents > 0
                    THEN [acc.rows EXCEPT ![d] = [cents |-> cents, exact |-> base + earned]]
                    ELSE acc.rows]

\* accrueCdiInterest: the days of the series from the first that is not done.
Accrued(points, from, target) ==
  LET acc[d \in 0 .. NDays] ==
        IF d = 0
        THEN [carry |-> CarryOn(through), sum |-> 0, through |-> through, rows |-> interest]
        ELSE IF d \in points /\ from <= d /\ d <= target THEN DayAccrued(acc[d - 1], d)
        ELSE acc[d - 1]
  IN acc[NDays]

-----------------------------------------------------------------------------
(* Requests.                                                                 *)

\* startKeyFor: the day after the last that is done; the bank is made on day 1.
StartKey == through + 1

\* catchUpPiggyInterest begins outside the lock: the range to fetch, if any.
CatchUp(w, op, amount) ==
  LET target == LastCompletedWeekday(today)
      r == <<StartKey, target>>
  IN
  /\ worker[w].pc = "idle"
  /\ IF percent > 0 /\ StartKey <= target
     THEN /\ worker' = [worker EXCEPT ![w] =
               [pc |-> "wait", op |-> op, amount |-> amount, target |-> target,
                range |-> r, points |-> {}, stale |-> FALSE]]
          /\ Join(r)
     ELSE /\ op # "none"
          /\ worker' = [worker EXCEPT ![w] = [Idle EXCEPT !.pc = "apply", !.op = op, !.amount = amount]]
          /\ UNCHANGED flight
  /\ UNCHANGED <<today, published, cache, recent, bank, start>>

\* Under the lock: the bank is read again and the interest posted.
AccrueInterest(w) ==
  LET acc == Accrued(worker[w].points, StartKey, worker[w].target) IN
  /\ worker[w].pc = "accrue"
  /\ IF percent > 0 /\ StartKey <= worker[w].target
     THEN interest' = acc.rows /\ through' = acc.through
     ELSE UNCHANGED <<interest, through>>
  /\ worker' = [worker EXCEPT ![w] =
       IF worker[w].stale \/ worker[w].op = "none" THEN Idle
       ELSE [Idle EXCEPT !.pc = "apply", !.op = worker[w].op, !.amount = worker[w].amount]]
  /\ UNCHANGED <<today, market, percent, flow, moves, start>>

\* A deposit, or a withdrawal of no more than there is.
Move(w) ==
  LET cents == IF worker[w].op = "deposit" THEN worker[w].amount ELSE 0 - worker[w].amount IN
  /\ worker[w].pc = "apply" /\ worker[w].op \in {"deposit", "withdraw"}
  /\ moves < MaxMoves
  /\ Balance(NDays) + cents >= 0
  /\ flow' = [flow EXCEPT ![today] = @ + cents]
  /\ moves' = moves + 1
  /\ worker' = [worker EXCEPT ![w] = Idle]
  /\ UNCHANGED <<today, market, percent, through, interest, start>>

\* Faulty variant: the day yield is switched on earns nothing either.
ThroughOnActivationToday(p) == IF percent = 0 /\ p > 0 THEN today ELSE through

\* interestAccruedThroughOnActivation: nothing is earned before today.
ThroughOnActivation(p) == IF percent = 0 /\ p > 0 THEN today - 1 ELSE through

\* updatePiggyBank with a new percentage, or without yield.
SetPercent(w) ==
  LET p == worker[w].amount IN
  /\ worker[w].pc = "apply" /\ worker[w].op = "percent"
  /\ percent' = p
  /\ through' = ThroughOnActivation(p)
  /\ start' = IF percent = 0 /\ p > 0
              THEN [day   |-> today,
                    exact |-> CentUnits * Balance(today - 1) + CarryOn(today - 1)]
              ELSE IF p = 0 THEN [day |-> 1, exact |-> 0] ELSE start
  /\ worker' = [worker EXCEPT ![w] = Idle]
  /\ UNCHANGED <<today, market, flow, interest, moves>>

\* A refusal, or a lost connection.
Abandon(w) ==
  /\ worker[w].pc \in {"accrue", "apply"}
  /\ worker' = [worker EXCEPT ![w] = Idle]
  /\ UNCHANGED <<today, market, bank, start>>

Serve(w) ==
  \/ AccrueInterest(w) \/ Move(w) \/ SetPercent(w) \/ Abandon(w)
  \/ CatchUp(w, "none", 0)
  \/ \E a \in Amounts : CatchUp(w, "deposit", a) \/ CatchUp(w, "withdraw", a)
  \/ \E p \in {0, Percent} \ {percent} : CatchUp(w, "percent", p)

-----------------------------------------------------------------------------
(* The world.                                                                *)

Midnight ==
  /\ today < NDays
  /\ today' = today + 1
  /\ UNCHANGED <<market, bank, worker, start>>

\* The provider publishes the rate of a day that is over.
Publish ==
  /\ published < today - 1
  /\ published' = published + 1
  /\ UNCHANGED <<today, cache, recent, flight, bank, worker, start>>

\* What is in memory is lost.
Restart ==
  /\ recent' = {} /\ flight' = [r \in Ranges |-> NoFlight]
  /\ worker' = [w \in Workers |-> Idle]
  /\ UNCHANGED <<today, published, cache, bank, start>>

Market ==
  \E r \in Ranges :
    \/ r \in AskedRanges /\ AskRange(r)
    \/ ReadCache(r) \/ Fetch(r) \/ FlightFails(r)

Next ==
  \/ Market \/ Midnight \/ Publish \/ Restart
  \/ \E w \in Workers : Serve(w)

Spec == Init /\ [][Next]_vars

-----------------------------------------------------------------------------
(* Correctness.                                                              *)

\* Every variable has its type.
TypeOK ==
  /\ today \in Days /\ published \in 0 .. today - 1
  /\ cache \subseteq 1 .. published /\ recent \subseteq Ranges
  /\ \A r \in Ranges : /\ flight[r].pc \in {"none", "read", "fetch"}
                       /\ flight[r].cached \subseteq cache
  /\ percent \in {0, Percent} /\ through \in 0 .. today - 1
  /\ flow \in [Days -> Int] /\ moves \in 0 .. MaxMoves
  /\ \A d \in Days : interest[d].cents \in Nat /\ interest[d].exact \in Nat
  /\ \A w \in Workers : worker[w].pc \in {"idle", "wait", "accrue", "apply"}

\* The exact balance, to the unit, after day d of the current yield period, had
\* each business day been credited on time.
Exact[d \in 0 .. NDays] ==
  IF d < start.day THEN start.exact
  ELSE LET base == Exact[d - 1] + CentUnits * flow[d]
       IN  base + IF d \in RateDays THEN ExactCdiInterest(base, percent) ELSE 0

\* (Of ranges fetched far apart the cache may lack the days between, and
\* IsFreshHistory does not notice; AskedRanges without such a gap are assumed.)
\* However seldom, late, concurrently or unsuccessfully the catch-ups ran: up
\* to the day they reached, the bank holds its exact balance less a fraction of
\* a cent, and that fraction is not lost.
InterestIsExact ==
  percent > 0 =>
    /\ \A d \in start.day .. through :
         /\ Exact[d] - CentUnits * Balance(d) \in 0 .. CentUnits - 1
         /\ interest[d] # NoRow => interest[d].exact = Exact[d]
    /\ through >= start.day /\ interest[through] = NoRow =>
         Exact[through] = CentUnits * Balance(through)
=============================================================================
