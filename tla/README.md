# deManage, specified

TLA+ modules of deManage (personal finances: a TypeScript backend on PostgreSQL,
a React frontend, an MCP server, and a Python agent that deploys approved
releases), the TLC runs that check them on small instances, and theorems proved
with TLAPS for every instance.

| module | models |
|---|---|
| `PiggyBank` | the piggy banks of a user: requests, automatic debits, interest days, goals |
| `CdiInterest` | the interest of one bank to the fraction of a cent, and the cached rates it comes from |
| `OperationLog`, `FinanceOps` | what the MCP server promises of a money operation, and how it keeps it |
| `AccountAccess` | sessions, recovery code, trusted devices, OAuth connection of one account |
| `CardBilling` | cards, their closed cycles, and the expenses charged on them |
| `Income` | manual entries and their receipts, the monthly salary |
| `Assets` | asset transactions, their ledger rows, and the report that reads them |
| `BrowserSession` | the auth store of the tabs of one browser |
| `DailyMaintenance` | the jobs a page starts once a day and session |
| `ReleaseSwitch`, `DeployAgent` | what the deploy agent promises, and the agent step by step |

`MC<module>.tla` and `MC<module>_<run>.cfg` are instances for TLC;
`<module>Proofs.tla` hold theorems. `PROJECT.json` lists components, runs, the
lines every definition stands for, hazards, findings and theorems.

Inside a module, an operator whose comment begins "Faulty variant" is a
plausible bug of the operator that follows it; no action uses it. With the
variant in the operator's place TLC finds the property violated, which shows
that the property depends on the code it is about.

## 1. Inventory

| component | code | state | operations | what is hard | what makes it correct |
|---|---|---|---|---|---|
| piggy banks | `backend/src/lib/piggy`, `services/piggy-banks.ts` | `PiggyBank`, `PiggyTransaction` rows | catch-up, deposit, withdraw, correct, create, edit, archive, delete | a request is many transactions; state read outside the lock; missed months; midnight; fractions of a cent | one debit a month, no overdraft, no debit for months complete, interest exact and never ahead of debits |
| user write lock | `lib/user-write-transaction.ts` | the lock on the `User` row | one transaction | what was read before it was taken | everything under it is one step |
| card billing, expenses | `lib/billing`, `services/cards.ts`, `services/expenses.ts` | cards, expenses, invoices, obligation versions | close cycles, change the closing day, edit, move, archive | closings months late, edits of what is billed | every charge billed once, in one cycle |
| finance operations (MCP) | `services/finance-operation*.ts`, `mcp/` | operations and undos | preview, execute, undo | retries, lost answers, revoked grants | one effect per key and intent; undo removes exactly that effect |
| sessions, OAuth, trusted devices | `services/auth.ts`, `oauth/`, `lib/trusted-device-login.ts` | versions, grants, devices, challenges, budgets | login, recover, enrol, consent, revoke | recovery racing everything else | nothing granted before a recovery survives it; a proof works once |
| entries, receipts, profile | `services/entries.ts`, `services/profile.ts` | entries, receipts, salary versions | receive, undo, edit, end, resume | optimistic versions and retries | no income twice; the past keeps |
| assets, patrimony | `lib/asset*.ts`, `lib/patrimony*.ts` | asset transactions, ledger rows | buy, sell, patch, delete, report | operations dated in the past, racing patches, reports over five tables | no day holds less than nothing; a report adds up |
| market data | `lib/market` | cache rows, flights in progress | history, store, quote | late, failed and partial answers | a stale answer is marked; no day is lost |
| frontend session | `frontend/src/stores`, `lib/api.ts` | current user, logout mark | login, logout, `/auth/me` | late answers, other tabs | no former user comes back |
| daily maintenance | `frontend/src/lib/daily-maintenance.ts`, `hooks/use-cards.ts`, `hooks/use-piggy-banks.ts` | one job per session, kind and day | daily catch-ups | late answers, retries, day change, logout | every day is served, boundedly, by the live job |
| server life cycle | `backend/src/server-shutdown.ts` | server, pool, deadline | drain | deadline against requests, kept-alive connections, a second signal | the pool outlives its requests; the process ends |
| deploy agent | `ops/cd/demanage_cd`, `backend/entrypoint.sh` | containers, state file, journal | poll, deploy, roll back, recover | kills and failures anywhere; migrations | the release on record is the one that runs |
| user interface, CI | `frontend/src/pages`, `.github/workflows` | none of their own | rendering, shell steps | - | no protocol |

How they interact. The frontend calls the HTTP API; its daily maintenance and
every read of the piggy-bank list start a catch-up. Every write of the backend
takes the user's lock first, so the components of one user only meet between
transactions; that is why each module can be checked by itself, with the others
as steps of the environment (`FinanceOps` has the user's own movements,
`CdiInterest` those of `PiggyBank`, `PiggyBank` any interest). Finance operations
run the deposit code inside their own transaction; interest reads the market
cache, which all users share; the deploy agent replaces the whole application.

The hazards of each component, at their lines, are in `PROJECT.json`.

## 2. Plan

Done, in this order: `PiggyBank`, `DeployAgent` with `ReleaseSwitch`,
`FinanceOps` with `OperationLog`, `AccountAccess`, `CardBilling`, `Income`,
`Assets`, `BrowserSession`, `CdiInterest`, `DailyMaintenance`; proofs of all but
`CdiInterest`, beside each module, those of the two frontend modules in
`FrontendProofs`.

Left: `PiggyCorrections` (two origins of a deposit never give back more than
went in); percentages that change in `CdiInterest`; theorems about the order of
debits and interest, and about the plan of a goal, in `PiggyBankProofs`; proofs
of the arithmetic of `CdiInterest`.

## 3. The piggy banks: `PiggyBank`

`bank[b]` is the row of `PiggyBank` in `schema.prisma`, `ledger[b]` what the code
reads back from its transactions, `worker[w]` the local state of a request
between transactions, `today` the day in São Paulo.

| actions | code |
|---|---|
| `Begin` | `runPiggyAutoDebits` reads the candidate banks and lists their due cycles |
| `PostDebit`, `SkipCycle`, `StopDebits`, `FailDebit` | the outcomes of `processPiggyAutoDebitCycle`, one transaction per cycle |
| `FetchSeries` | `accruePiggyInterest` up to the lock: which banks yield, which series came |
| `Accrue`, `FailAccrue` | its transaction |
| `Deposit`, `Withdraw`, `SetYield`, `Refuse` | the operation after `withFreshInterest`, in its own transaction |
| `Create`, `UpdateSettings`, `Archive`, `Delete` | operations of a single transaction |
| `Abandon`, `Midnight` | restart or lost connection; the next civil day |

A transaction under the user's lock is one step; reads outside it and the local
variables they fill (the queue, the clock a phase read, the banks that failed)
belong to the request and may be stale when used. `Midnight` may fall inside a
request (`MidnightRace`), at most once per phase, because a phase is bounded by
the transaction timeouts (10 s + 60 s) and the fetch timeouts.

Abstractions. Calendars of a few short months stand for civil dates; the second
month is shorter than the first, so that a due day is clamped. Of a completion
date only its presence is ever read back. One `PATCH` of yield and other settings
equals the two edits in sequence. Interest is any gain up to `MaxGain` on any day
of its range. A remainder below half a cent a month, which the code rounds to a
monthly amount of zero, does not occur in the runs. Corrections (withdrawals with
an origin, which skip the catch-up), notes and the entry and expense rows written
with a movement are left out.

| run | shows | bounds |
|---|---|---|
| `core` | one debit a month; no overdraft; closed banks frozen; completion flag equals goal reached; debits follow the settings; complete months are not charged; interest never passes an owed debit | one bank (rows are independent, the lock is per user), two requests (every race is between what one read and what one other did), two months, three requests or edits: "complete, withdraw, catch up". One goal and one debit day, no midnight inside a request: `FlagTracksGoal` and `InterestWaitsForDebits` need them (see section 13); the other properties are theorems without them |
| `plan` | the monthly amount reaches a planned goal by its target; an owed debit is eventually settled | three months, three debit days, goals and targets on, before and after a debit day, midnights anywhere, one request at a time, no edits |

Fairness of `plan`: the frontend asks for a catch-up each time it is used and
each day (`WF` of `Run`); a step of a request is taken unless the request dies
(`WF` of `Step`); and the transaction of one month's debit is not the one that
fails, or whose request is cut short, for ever (`SF` of `Settle`). Without the
last, a database that always fails would refute any such property.

Theorems (`PiggyBankProofs`), for any banks, requests, calendar, debit days and
bounds: the type invariant, `OneDebitPerMonth`, `NeverOverdrawn`,
`ClosedBanksAreFrozen`, `DebitRestartsAfterCompletion`, `DebitsFollowSettings`,
`CompleteDaysNotCharged`. They follow from one inductive invariant, `IInv`: the
four state invariants, types, and `ClockIsFresh` (the clock a request works with
is today's or yesterday's). The last two carry the argument: a withdrawal
restarts automatic debit on the day its request has read, at most one midnight
old, so every day that ended complete lies before it; and a debit is refused
before `enabledAt`. One lemma per operation reduces it to what it does to one
bank. The assumptions are `CalendarAssumption` and `InputAssumption`, which TLC
evaluates.

`FlagTracksGoal` is false once a goal is edited (section 13), so it has two
theorems. `OnlyEditsPartFlagAndGoal` needs no hypothesis: no deposit, interest,
debit or withdrawal, in any interleaving, parts the flag of a bank from its
goal. `FlagInStep` is the property of the run, for any number of banks, requests
and days, where all banks have one goal and none is older than automatic debits
or none has a goal. `InterestWaitsForDebits` and the plan are only model-checked.

## 4. The interest: `CdiInterest`

One bank, its interest rows and `interestAccruedThrough`; the cache of rates, the
ranges fetched before, and the fetches under way (`flight`).

| actions | code |
|---|---|
| `CatchUp`, `AccrueInterest` | `accruePiggyInterest` before and under the lock; `DayAccrued` is the loop body of `accrueCdiInterest` |
| `Move`, `SetPercent`, `Abandon` | the operation that waits for the catch-up |
| `AskRange`, `ReadCache`, `Fetch`, `FlightFails` | `getCdiHistory`, `singleFlight`, `historyWithCache`, `storePoints` |
| `Midnight`, `Publish`, `Restart` | the next day; the central bank; the process loses its memory |

`InterestIsExact` compares the posted rows with a definition in one piece
(`Exact`): what the bank would hold had each business day been credited on its
own, with nothing rounded to cents. It says that up to `interestAccruedThrough`
the rows differ from it by less than a cent, and that the difference is never
lost, whatever the order of catch-ups, failures, restarts and edits.

Run `interest`: four days, the second a weekend, so that there are days of
interest before and after it; two catch-ups at once; one cent is five units and a
day earns a third, so that the first day posts nothing or something and always
leaves a fraction; one movement and any number of yield switches. A holiday
instead of the weekend gives the same result.

Limits. Yield comes back with the percentage it had (section 13 tells why). The
days `AskedRanges` has others ask for leave no hole in the cache (the same). A
rate, once published, is not corrected. The daily rate is constant. Movements are
dated the day they are written. The other series of `lib/market` (the same cache
code with other providers), quotes, retries and parsing are left out.

## 5. Finance operations: `FinanceOps` implements `OperationLog`

`ops[k]` is the `FinanceMcpOperation` with key `k` and its undo, `token[n]` the
intent signed with nonce `n`, `req[w]` a request between the check of its access
and its transaction, `clock` the order of write transactions (the time stamps
the code compares), `told` what clients were answered.

| actions | code |
|---|---|
| previews (`Client`) | `previewFinanceOperation`, `previewFinanceUndo`: sign an intent on what they read |
| requests (`Client`, `Serve`) | the access check, `withFreshInterest`, then `commit` or `undo` in one transaction under the lock |
| `User` | movements, edits and archive in the application; revoking and renewing access |
| `Midnight` | an intent is for the day it was signed on |

Every call may be repeated with any key and token at any time, so an answer that
was lost needs no state of its own. Left out: the tags an operation creates, and
the tools that only read (history, overview). A token may be presented at any
time, the code accepts it for five minutes.

Run `finance`: two keys, two intents and two requests, because every rule is
about a pair (same key with another intent, same intent under another key,
execution and undo); three write transactions (deposit, another movement, undo);
two grants. It checks the refinement (`KeepsTheLog`), that answers stay true,
that nothing is written after a revocation, no overdraft, and that an undone
bank is open.

Theorems (`FinanceOpsProofs`), for any keys, intents, requests, days, amounts and
bounds: all of these, the refinement as `Implements`. The invariant has two parts.
`Kept`: what a request knows between its check and its transaction, that a
committed intent has a signed token of that content, that time stamps of
different writes differ, and which rows exist for an operation of each fate.
`Accounts(p)`: there is a history `p` of balances, one after each transaction,
that agrees with every movement. Undo is only allowed while the bank's last write
is the operation's own, and by `Accounts` taking its movement back restores the
balance before it: not negative, and below the goal. The assumptions say that
`None` is none of the values, and amounts and goals are numbers.

## 6. Access to an account: `AccountAccess`

Each request is a chain of steps between which others run: what it read
(`req[r]`) is compared again under the lock where the code does so.

| actions | code |
|---|---|
| `Login`, `Sign`, `Logout` | `routes/auth.ts`, `services/auth.ts`: prove a password, sign a session later |
| `AskRotation`, `Rotate`, `AskRecovery`, `Recover` | the recovery code |
| `AskEnrollment`, `Enroll`, `AskDeviceRevocation`, `RevokeDevice` | trusted devices, with the password budget |
| `BeginChallenge`, `ReadDevice`, `Claim`, `DeviceLogin` | login with a device: challenge, claim, proof |
| `AskConsent`, `PersistConsent`, `IssueCode`, `LoadCode`, `Consume`, `IssueToken`, `Disconnect` | the OAuth provider and its adapter |
| `DeviceExpires`, `ChallengeExpires`, `WindowEnds` | time |

Run `access`: two requests, one device with two challenges, two recoveries, two
grants. It checks that nothing begun with a former password works after a
recovery; that a challenge, a recovery code and an authorization code work once;
that a window admits at most its limit of wrong passwords; and that a replaced
consent stays without effect. Two requests suffice because every defence is a
comparison of what one read with what one other wrote. The constraint
`DevicesOrGrants` leaves out behaviours that use both a device and a consent:
they meet only in the `User` row.

Theorems (`AccountAccessProofs`), for any requests, devices, challenges, codes,
recoveries, grants and limits: types, and the four properties of the run. The
invariant says what each request, session, device, challenge, code and token may
still rely on. The versions a session, a device and a grant carry go back to a
proof of the password in force when that version was, and a recovery raises the
version, so none of them can carry the present version and a former proof. The
failure counter of a budget is never behind the guesses compared. A challenge is
marked before its proof is of use, an authorization code is taken out of the row
that the token is made from. A grant that was replaced or cut is the connection's
grant no more unless the connection is revoked.

Left out: the failure limiter of the password login (in memory, by address),
`oauth/cleanup.ts` (deletes what has expired), replay detection of assertions (one
unique insert), expiry of sessions (they live on, which allows more).

## 7. Card billing: `CardBilling`

| actions | code |
|---|---|
| `BillCards` | the billing run: `planCardBilling` for every card, then one invoice per closed cycle |
| `CreateCard`, `UpdateCard`, `ArchiveCard` | `services/cards.ts`, with the final cycle of an archived card |
| `CreateExpense`, `UpdateRecurring`, `UpdateOnce`, `ArchiveExpense`, `PayExpense` | `services/expenses.ts`, with the guards on what is already billed |
| `Midnight` | several days may pass between two runs |

`cycles[c]` holds every closed cycle with its charges; an expense has terms, the
versions of its amount and allocation. `BilledIsOwed` compares the cycles with a
definition that knows nothing of planning: all charges an expense has up to the
last closing; `NoChargeTwice` says that no two cycles hold the same one. Run
`cards`: months of 3, 2, 3 and 3 days with weeks of two
days, closing days first and last, six days to act, two cards, one expense (they
do not interact except through the card's cycle dates), two versions. The
constraint `OneOrTwoCards` separates "one card whose closing day changes" from
"two cards between which an expense moves". Run `archived_card` is a finding
(section 13).

Theorems (`CardBillingProofs`), for any cards, expenses, calendar, closing days,
terms and delays: types, `NoChargeTwice`, `CyclesKeepTheirLength`,
`CashIsRecorded`, and `OneOffsAreBilled`: a purchase is billed to a card exactly
when a cycle that has read it reached its day. None is inductive by itself. Their
invariant says of a card, beside its types:

- `Billable`: its last closing is the closing day of some month, or after a change
  of that day the next one is held back until `MinCycle` days later. Closings on
  one day of two months are a month apart, hence the length of a cycle.
- `Ordered`: its cycles do not overlap and reach up to the last closing.
- `Explained`: what a cycle holds still is a charge of its expense, within the
  cycle unless it is a one-off, which has one date. So an edit may not turn a
  billed one-off into something else (`MayBecome`), nor a recurring expense that
  was ever on a card into a one-off.
- `Marked`: a one-off that was billed is marked, and the late purchases a run
  adds are the ones without the mark. Within a run the mark is not yet written;
  only the first closing of a run adds them.
- `Complete`, the other way round: a marked one-off whose date the last closing
  has reached is held by a cycle. A run leaves none out, marked or not
  (`AllHeld`), because what is before the window of its first closing is either
  marked, and held already, or added there; an edit may not put a marked one-off
  behind the last closing (`SettledOnce`).

`RunStep` carries all but `Marked` from closing to closing of one run. For an
expense the invariant says that it has terms from its creation on and that the
payment of a one-off is the one its terms call for. What the proofs assume of the
calendar (`BillingAssumption`) is that no month is shorter than `MinCycle`, which
is 28 in `lib/billing/plan.ts:48`; of an amount, that it is not zero
(`services/expense-input.ts`).

`OneOffsAreBilled` is what `BilledIsOwed` says of one-offs. Of recurring expenses
it is only model-checked, and only where the amount of an expense does not change
(`OneCent`): it is false beyond. Run `cards` with `OneCent` replaced by
a cent and two cents on one card, `Week = 1`, `ClosingDays = {2}` and
`Ends = {0, 1}` finds it in seven steps (section 13).

Left out: credit limits, rows from before versions existed, payment of invoices.
Seen while reading, not modelled: the due day of an expense whose card is archived
can be edited unchecked.

## 8. Income: `Income`

Entries with their receipts; confirmations that carry the version (`updatedAt`)
the browser showed and arrive late or twice (`sent`, `SetReceiptState`); the
salary of the profile with versions, receipts and holds (`UpdateProfile`,
`SetSalaryState`). Run `income`: one entry, five days of months of two days,
three confirmations, amounts and levels enough to tell versions apart, a clock
of three milliseconds so that several writes share one. A salary from before
versions existed is among the initial states (`LegacySalary`). `SalaryOrEntries`:
salary and entries share no state.

It shows that a confirmation acts only on what the user saw, no income is
received twice, and changes of the salary leave past months as they were. An
assumption is visible in `UpdateEntry`: an edit of an entry is not made in the
same millisecond as its last change. Left out: validation of bodies, tags, the
read models of a month.

Theorems (`IncomeProofs`), for any entries, amounts, days and confirmations: types
and the three properties. Salary and entries share nothing, so the invariant has a
half each. `SalaryInv`: no version lies ahead, the month after the end has the
version 0 and is the last, and no month is both received and on hold; then what an
edit writes, the present month and what it takes over from, leaves the forecast of
the months before. `EntryInv`: an entry has one receipt at most and is a one-off
with it; a version number that a confirmation carries is not ahead of the entry's,
and with the entry's own version goes the state it was read in. Version numbers are not bounded there (`Versions == Nat`).

## 9. Assets: `Assets`

`CreateAssetTransaction`, `UpdateAssetTransaction`, `DeleteAssetTransaction` with
the expense (purchase) or entry (sale) they write; `FindOwned` is the lookup
before the lock. A report reads five tables in one transaction (`BeginReport`,
`ReadTable`, `FinishReport`); `Visible` is its isolation level. Run `assets`: two
transactions, two days, two requests, one report: a transfer and what it is
compared with. `OneRace`: two requests race, or one with a report. It shows that
concurrent patches of different fields both count and that a report adds up.
Left out: fees, cost basis, notes, quotes, settings.

Theorems (`AssetsProofs`), for any number of transactions, days, requests and
reports, any quantities and amounts: types, `ReportsAddUp`,
`PatchesKeepOtherFields`. The code checks the holdings after each sale and
adjustment (`IsAssetTimelineValid`), the report shows them at the end of each
day; `ReportsAddUp` is not inductive, since which rows a request writes depends
on tables no report has read yet. The invariant says of the tables, and of the
snapshot of a report in progress, that every internal row has its transaction and
that the timeline is valid; of the report, that what it has seen is its
snapshot. That a valid timeline keeps every day above zero (`NeverShort`): up to
the last sale or adjustment of the day the code's check applies, and whatever
follows on the day are purchases. Sums are handled as counts of units
(`HeldIsNet`): units gained less units lost, so that parts of a sum are parts of
a set. Assumed: numbers for the bounds (`AssetsAssumption`), and that `Null` is no
transaction (`NullIsNoRow`). `PatchesKeepOtherFields` needs the lock's part only:
the row merged is the one stored when it is written.

## 10. The browser: `BrowserSession`

The auth store of every tab, the shared cookie and logout mark, requests with the
cookie of the moment they are sent, answers in any order, notices to other tabs
handled later in order. Run `session`: two tabs, two users, four acts of the
user. Assumed: storage works, a tab is not closed during a login, a tab handles
what reached it in order, a login starts from a page without a user. Left out:
the loading state; recovery and registration (a login, for this state).

Theorem `NoFormerUserComesBack` (`FrontendProofs`, of `BrowserSpec`), for any tabs and users. The invariant says of
every request on its way what its answer may still do: which tab's version or
revision it carries, and that an answer which would show a user other than the
cookie's is either outdated or preceded by a notice.

An observation: the "per-browser local logout fence" of `auth-store.ts:66-67` is
also kept in memory per tab, so a tab that logged out stays fenced after a login
in another tab until it logs in or reloads. It fails closed.

## 11. Every day: `DailyMaintenance`

`job[s][k][d]` is the job of session `s` (a `QueryClient`), kind `k` and day `d`;
`flight` are the attempts between the call and the end of their report.

| actions | code |
|---|---|
| `Observe` | the effect of a page that shows cards or banks, on the day it has rendered: `runDailyMaintenance` |
| `Answer`, `EndReport`, `Fail`, `TimerFires` | `attempt` between its awaits, `retry` |
| `NewSession` | another account or a logout: `SessionQueryProvider` is replaced and cancels its jobs |
| `Midnight` | `startCalendarClock` |

A session ends in one step, because its effects are flushed with the store's
notice. Run `daily`: one kind (kinds only share the client), two sessions, two
days, three attempts. It shows that only the live session's job of the latest day
calls, reports and refetches; that a day gets at most three calls, one after the
other, whatever pages observe which day; and that a day is served. Fairness: a
page of the session is open and its list loaded (`WF` of `Observe` on the present
day), every call returns or fails and a report ends (`WF` of `Attempts`), a timer
fires (`WF` of `Timers`). This liveness is what the fairness of `PiggyBank`'s
`Run` rests on.

Theorems (`FrontendProofs`, of `Spec`), for any kinds, sessions, days and attempts:
types, `CallsAreBounded`, `OneAtATime`, `OnlyTheLiveJobActs`. A day's job is
forgotten when another day or session takes its place, so a count of its attempts
alone would not bound the calls. The invariant adds that the registered day of a
kind only grows within a session and that days to come have not begun (`Unbegun`),
so that no day is started twice; that an attempt is alone for its day, and a timer
waits for the current job with none under way. `EachDayIsServed` is only
model-checked.

## 12. The deploy agent: `DeployAgent` implements `ReleaseSwitch`

`image` is what the two application containers run, `schema` the rows of
`_prisma_migrations`, `stateFile` and `journal` the two files of the agent,
`approved` the published `production.json`, `run[a]` where run `a` is and the
local variables it needs later.

| actions | code |
|---|---|
| `Initialize`, `Begin` | `cli.run_agent`, `initialize` |
| `Reconcile` ... `DiscardResolved` | `reconcile`: a journal found at the start |
| `NothingToDo`, `Preflight`, `WriteJournal` | approval, checks, pull, dump, snapshot, journal |
| `Replace`, `UpReturns` | `apply_overlay`: one container after the other, removed and then created |
| `Confirm`, `Promote`, `Discard` | health and identity, database comparison, state file, end of the journal |
| `StartRollback` ... `VerifyRollback`, `RecordFailure` | `rollback` |
| `StepFails` | any command, probe or comparison fails; `OnFailure` is where the exception is caught |
| `Crash` | the process is killed (systemd after 900 s, a reboot) |
| `Approve`, `Migrate`, `ReplaceDatabase`, `Touch` | the world: promotion, the entrypoint's migrations, docker, an operator |

Modelling decisions. An image is its commit, because the revision label is
verified on pull. Writing a file is atomic (`atomic_json` replaces it). The agent
reads its files once; since only the lock's holder writes them, the model reads
them where they are used. The snapshot, the tags and the journal are one step:
nothing is changed before the journal is on disk. Health comes after the
migrations of the release, because the entrypoint migrates before it starts the
API. A killed agent takes `docker compose` with it (one control group). An
operator may change a container, but not in the middle of a run. Left out:
`--check`, the authenticity of an approval, the dump, compose validation (each
may fail, and is nothing more here), the removal of overlay files, an operator
who removes a journal by hand.

| run | shows | bounds |
|---|---|---|
| `deploy` | without a journal the recorded release runs; the record follows the journal; a deploy is only given up on its old ledger, and only opens on the recorded release; the agent implements `ReleaseSwitch`; an interrupted deploy is resolved or left to the operator | two releases, one of which migrates; two runs at once, of which the lock admits one; one replacement of the database and one change of a container from outside |

The state space is finite without further bounds: the agent counts nothing.
Fairness of `deploy`: the timer starts runs (`demanage-cd.timer`, every ten
minutes), each command has a timeout (a step is taken or fails), a backend that
is up gets its migrations done, and no step of the recovery fails or is cut short
for ever.

Theorems (`DeployAgentProofs`), for any releases, migrations, number of runs and
bounds: types, `RecordedReleaseRuns`, `OldReleaseOnItsSchema`,
`RecordFollowsJournal`, `DeploysOnRecordedRelease`, and `Implements`:
`Spec => SwitchesReleases`. What somebody else does to the containers between two
runs is a step of its own in `ReleaseSwitch` (`Disturb`, counted), so that no
step of the agent passes for one; a switch ends on the release on record unless a
container was put back by hand between the record and the end. The invariant: `OneRun`
(the lock); `RunKnows(a)`, which release is on record, which one runs, and
whether its migrations are done and are those of the journal, so that a step is
justified by checks made several steps before although the backend may migrate
in between; `JournalKnows`, what a journal left by a kill says.
`RecordedReleaseRuns` alone is not inductive because it says nothing while a
journal is open. `DeploysSettle` is only model-checked.

## 13. Where code and comments disagree

Checked by a run:

- `archived_card`: a card can be archived although a version of a recurring
  expense will still charge it (`lib/billing/charges.ts:409-410` against 423-424:
  the last version by month is taken for the one that bills, which is the one
  with the highest sequence, 314-317).

Seen while modelling; the runs avoid them, as said in each section:

- A backdated end. `lib/billing/retroactive-recurring.ts:127-128` says "An
  end-date extension entirely after the closed-through boundary remains a
  legitimate edit; a backdated change does not"; the code (126) compares the sums
  that the closed cycles hold before and after. When price and end are edited
  together the sums can be equal: a weekly expense of 100, billed on two days of a
  closed cycle of this month, may become one of 200 that ends on the first.
  `BilledIsOwed` is violated (section 7).
- The interest of missing rates. A cached range counts as fresh when its first
  and last days are there (`lib/market/series.ts:98`). Ranges fetched far apart,
  by a report or the market page, leave a hole that is then served as a fresh
  series, or as the stale one when the provider fails, which the catch-up uses as
  well (`lib/piggy/interest-run.ts:128`); it skips those days for good, although
  `lib/piggy/interest.ts:16` says "Accrual is EXACT: each business day ...".
  `InterestIsExact` is violated with
  `NDays = 6`, `Weekend = {}` and `AskedRanges = {<<1,1>>, <<5,5>>}`.
- A change of the percentage. `services/piggy-banks.ts:352` says that
  `withFreshInterest` "already settled the OLD settings"; days whose rate is not
  published yet, or that only left a fraction of a cent, are not settled: they are
  computed with the new percentage, or lost when yield is switched off.
- A payment on the creation day: the monthly amount counts one that is never
  scheduled (`lib/piggy/model.ts:43`), so `plan` leaves out banks created on
  their own debit day.
- The bound on back-filled months drops the oldest months for good instead of
  limiting one call (`lib/piggy/auto-debit.ts:108`; sixty months).
- A debit day moved back posts a debit behind interest already accrued
  (`lib/piggy/interest-run.ts:58`). The same happens when the day is moved, and
  midnight passes, between the debits and the interest of one request.
- A goal lowered under the balance does not complete the bank, so the months it
  spends at its goal are charged after a withdrawal
  (`lib/piggy/transactions.ts:319`, `services/piggy-banks.ts:289`).
- Recovery of a deploy compares the database before its wait for health and not
  after (`ops/cd/demanage_cd/deploy.py:345`), as `deploy()` does.

## 14. What is proved, what is checked

Proved for every value of the constants: the properties named under "Theorems" in
sections 3, 5 to 12 (`FlagTracksGoal` under its two hypotheses).
Every named assumption is evaluated by TLC on the runs. Only model-checked:

- `InterestWaitsForDebits`, and `BilledIsOwed` of recurring expenses, which hold
  on their runs and not in general (sections 7 and 13);
- `OtherPlannedGoalsAreMet` and everything of `CdiInterest`: sums and fractions
  over all months or days;
- liveness (`DueDebitsSettle`, `DeploysSettle`, `EachDayIsServed`).

Out of the prover's reach: liveness under fairness and everything about `ENABLED`,
and the library's theorems of induction, which take an operator. Where a recursive
function or a fold had to be followed (the rows of a billing run, `RowsFollow`; the
total of an amount, `CashTotal`; what is held, `HeldIsNet`), the proof takes a least counterexample instead; the
interest arithmetic would need that for every fraction carried from day to day.

Symmetry is used for requests, keys, tabs, users and devices, which the
specifications do not tell apart, and in no run with a liveness property.

All runs set `CHECK_DEADLOCK FALSE`: each model stops when its calendar or its
bounds are used up.

## 15. Not modelled

The user interface (rendering and forms), CI pipelines (shell steps; the agent
sees an approval), the HTTP server (its drain on a signal, routing, middlewares;
a restart is a request that dies). The other
omissions stand in the section of each module.
