-------------------------- MODULE DailyMaintenance --------------------------
(****************************************************************************)
(* The maintenance the frontend runs once a day and session: the billing of *)
(* cards and the catch-up of piggy banks (runDailyMaintenance).             *)
(*                                                                          *)
(* A job belongs to a session (a QueryClient), a kind and a day.  It calls  *)
(* the server, reports what came back, and retries with a timer; an await   *)
(* lies between each of these steps, and a new day, the end of the session  *)
(* or an observer that still shows an old day may come in between.  What    *)
(* the call does on the server is PiggyBank's and CardBilling's matter.     *)
(****************************************************************************)
EXTENDS Integers, FiniteSets

CONSTANTS
  Kinds,      \* "cards", "piggyBanks"
  PartialKinds, \* those whose answer may ask for a retry (needsRetry)
  Sessions,   \* 1, 2, ...: one QueryClient each, in the order they are made
  NDays,
  MaxAttempts \* MAX_ATTEMPTS_PER_DAY

ASSUME MaintenanceAssumption ==
  /\ PartialKinds \subseteq Kinds
  /\ 1 \in Sessions /\ Sessions \subseteq Nat \ {0} /\ NDays \in Nat
  /\ MaxAttempts \in Nat \ {0}

Days == 1..NDays
NoDay == 0

VARIABLES
  today,    \* calendar-store: the day the application shows
  session,  \* whose QueryClient is mounted
  registry, \* registry[s][k]: the day of the job registered, or NoDay
  job,      \* job[s][k][d]: the JobState
  flight,   \* attempts between the call and the end of their report
  calls,    \* calls[s][k][d]: how often the server was called
  served,   \* the jobs whose server call did everything there was to do
  report    \* the job this step made a report of, if it did

vars == <<today, session, registry, job, flight, calls, served, report>>

JobState == [attempts: Nat, retired: BOOLEAN, timer: BOOLEAN]
NewJob == [attempts |-> 0, retired |-> FALSE, timer |-> FALSE]

\* The attempt waits for the server ("run"), or for its report to end
\* ("report"); partial is needsRetry of the answer.
Attempt == [s: Sessions, k: Kinds, d: Days, n: Nat, step: {"run", "report"}, partial: BOOLEAN]

Id(s, k, d) == [s |-> s, k |-> k, d |-> d]
Ids == [s: Sessions, k: Kinds, d: Days]

Init ==
  /\ today = 1
  /\ session = 1
  /\ registry = [s \in Sessions |-> [k \in Kinds |-> NoDay]]
  /\ job = [s \in Sessions |-> [k \in Kinds |-> [d \in Days |-> NewJob]]]
  /\ flight = {}
  /\ calls = [s \in Sessions |-> [k \in Kinds |-> [d \in Days |-> 0]]]
  /\ served = {}
  /\ report = {}

-----------------------------------------------------------------------------
\* isCurrent.
IsCurrent(s, k, d) == ~job[s][k][d].retired /\ registry[s][k] = d

\* onResult, onPartial or onError is called.
Tell(a) == report' = {Id(a.s, a.k, a.d)}
Silent == report' = {}

\* The start of attempt(): the call of run() is made at once.
Call(s, k, d, jobs) ==
  /\ job' = [jobs EXCEPT ![s][k][d].attempts = @ + 1]
  /\ flight' = flight \cup {[s |-> s, k |-> k, d |-> d, n |-> jobs[s][k][d].attempts + 1,
                              step |-> "run", partial |-> FALSE]}
  /\ calls' = [calls EXCEPT ![s][k][d] = @ + 1]

\* The job of the former day is retired and its timer cancelled.
Retired(jobs, s, k, d) ==
  IF d = NoDay THEN jobs
  ELSE [jobs EXCEPT ![s][k][d].retired = TRUE, ![s][k][d].timer = FALSE]

\* Faulty variant: only an observer of the same day is turned away.
MayStartAnother(old, d) == old # d

\* An observer of an older day, or of the day that has its job, changes nothing.
MayStart(old, d) == old < d

\* An effect of a mounted observer, which shows day d, or one it has not
\* rendered past yet.
Observe(k, d) ==
  /\ d <= today
  /\ MayStart(registry[session][k], d)
  /\ registry' = [registry EXCEPT ![session][k] = d]
  /\ LET left == Retired(job, session, k, registry[session][k]) IN
       Call(session, k, d, [left EXCEPT ![session][k][d] = NewJob])
  /\ Silent /\ UNCHANGED <<today, session, served>>

\* retry(): job s, k, d gets a timer unless it has used up its attempts.
Retry(a, jobs) ==
  IF IsCurrent(a.s, a.k, a.d) /\ jobs[a.s][a.k][a.d].attempts < MaxAttempts
  THEN [jobs EXCEPT ![a.s][a.k][a.d].timer = TRUE]
  ELSE jobs

\* Faulty variant: only a newer day of the same session makes an attempt stop.
MayGoOnAfterLogout(a) == registry[a.s][a.k] \in {a.d, NoDay}

\* After each await the attempt asks whether its job is still the current one.
MayGoOn(a) == IsCurrent(a.s, a.k, a.d)

\* Faulty variant: the retry is scheduled as soon as the answer is there.
AnswerRetriedAtOnce(a, partial) ==
  /\ a.step = "run"
  /\ partial => a.k \in PartialKinds
  /\ served' = IF partial THEN served ELSE served \cup {Id(a.s, a.k, a.d)}
  /\ IF MayGoOn(a)
     THEN /\ flight' = (flight \ {a}) \cup {[a EXCEPT !.step = "report"]}
          /\ Tell(a)
          /\ job' = IF partial THEN Retry(a, job) ELSE job
     ELSE flight' = flight \ {a} /\ Silent /\ UNCHANGED job
  /\ UNCHANGED <<today, session, registry, calls>>

\* The answer of run(): onResult is called and awaited.
Answer(a, partial) ==
  /\ a.step = "run"
  /\ partial => a.k \in PartialKinds
  /\ served' = IF partial THEN served ELSE served \cup {Id(a.s, a.k, a.d)}
  /\ IF MayGoOn(a)
     THEN flight' = (flight \ {a}) \cup {[a EXCEPT !.step = "report", !.partial = partial]} /\ Tell(a)
     ELSE flight' = flight \ {a} /\ Silent
  /\ UNCHANGED <<today, session, registry, job, calls>>

\* onResult is done: a partial answer is retried.
EndReport(a) ==
  /\ a.step = "report"
  /\ flight' = flight \ {a}
  /\ IF MayGoOn(a) /\ a.partial
     THEN job' = Retry(a, job) /\ Tell(a)
     ELSE UNCHANGED job /\ Silent
  /\ UNCHANGED <<today, session, registry, calls, served>>

\* Faulty variant: a failure is told and never retried.
FailForGood(a) ==
  /\ flight' = flight \ {a}
  /\ IF MayGoOn(a) THEN Tell(a) ELSE Silent
  /\ UNCHANGED <<today, session, registry, job, calls, served>>

\* run() or onResult threw: the error is told and the attempt retried.
Fail(a) ==
  /\ flight' = flight \ {a}
  /\ IF MayGoOn(a)
     THEN job' = Retry(a, job) /\ Tell(a)
     ELSE UNCHANGED job /\ Silent
  /\ UNCHANGED <<today, session, registry, calls, served>>

\* The timer of a retry: cancelRetry is cleared and the next attempt begins.
TimerFires(s, k, d) ==
  /\ job[s][k][d].timer
  /\ LET fired == [job EXCEPT ![s][k][d].timer = FALSE] IN
       IF IsCurrent(s, k, d)
       THEN Call(s, k, d, fired)
       ELSE job' = fired /\ UNCHANGED <<flight, calls>>
  /\ Silent /\ UNCHANGED <<today, session, registry, served>>

-----------------------------------------------------------------------------
\* Another session: the provider of the former one is unmounted, which cancels
\* its jobs (cancelDailyMaintenance), and a new QueryClient is made.
NewSession ==
  /\ session + 1 \in Sessions
  /\ session' = session + 1
  /\ LET left(k) == registry[session][k] IN
       job' = [job EXCEPT ![session] =
                 [k \in Kinds |-> IF left(k) = NoDay THEN job[session][k]
                                  ELSE Retired(job, session, k, left(k))[session][k]]]
  /\ registry' = [registry EXCEPT ![session] = [k \in Kinds |-> NoDay]]
  /\ Silent /\ UNCHANGED <<today, flight, calls, served>>

Midnight ==
  /\ today < NDays
  /\ today' = today + 1
  /\ Silent /\ UNCHANGED <<session, registry, job, flight, calls, served>>

Attempts == \E a \in flight :
  Fail(a) \/ EndReport(a) \/ \E p \in BOOLEAN : Answer(a, p)

Timers == \E s \in Sessions, k \in Kinds, d \in Days : TimerFires(s, k, d)

Next ==
  \/ \E k \in Kinds, d \in Days : Observe(k, d)
  \/ Attempts
  \/ Timers
  \/ NewSession
  \/ Midnight

Spec == Init /\ [][Next]_vars

\* The page of the day is rendered; every call comes back or fails (fetch and
\* the browser see to it), a report ends, and a timer fires.
FairSpec ==
  /\ Spec
  /\ \A k \in Kinds : WF_vars(Observe(k, today))
  /\ WF_vars(Attempts)
  /\ WF_vars(Timers)

-----------------------------------------------------------------------------
TypeOK ==
  /\ today \in Nat
  /\ session \in Sessions
  /\ registry \in [Sessions -> [Kinds -> Days \cup {NoDay}]]
  /\ job \in [Sessions -> [Kinds -> [Days -> JobState]]]
  /\ flight \subseteq Attempt
  /\ calls \in [Sessions -> [Kinds -> [Days -> Nat]]]
  /\ served \subseteq Ids
  /\ report \subseteq Ids

\* However late an answer comes, what is reported, refetched and called is the
\* business of the session on screen and of the latest day its pages have shown
\* (daily-maintenance.ts: isCurrent after every await; App.tsx: cancelled with
\* its QueryClient).
OnlyTheLiveJobActs ==
  [][ /\ \A r \in report' : r.s = session' /\ r.d = registry'[session'][r.k]
      /\ \A s \in Sessions, k \in Kinds, d \in Days :
           calls'[s][k][d] # calls[s][k][d] =>
             s = session' /\ \A e \in Days : e > d => calls[s][k][e] = 0
    ]_vars

\* Whatever observers come and go, and on whatever day they are, the server is
\* called at most MaxAttempts times for one day (MAX_ATTEMPTS_PER_DAY).
CallsAreBounded ==
  \A s \in Sessions, k \in Kinds, d \in Days : calls[s][k][d] <= MaxAttempts

\* The calls for one day follow one another: while one is under way or being
\* reported there is no other, and no timer that would make another.
OneAtATime ==
  \A s \in Sessions, k \in Kinds, d \in Days :
    LET attempts == {a \in flight : a.s = s /\ a.k = k /\ a.d = d} IN
      Cardinality(attempts) + (IF job[s][k][d].timer THEN 1 ELSE 0) <= 1

\* A day on which the application stays open gets its maintenance: a complete
\* answer, or MaxAttempts attempts.  This is what the fairness of PiggyBank's
\* catch-ups rests on.
EachDayIsServed ==
  \A s \in Sessions, k \in Kinds, d \in Days :
    session = s /\ today = d ~>
      \/ Id(s, k, d) \in served
      \/ calls[s][k][d] = MaxAttempts
      \/ session # s \/ today # d
=============================================================================
