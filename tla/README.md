# A TLA+ model of Stead

Stead is a savings app: a NestJS API over PostgreSQL (`src/api`), an Expo client
(`src/mobile`) and generated contracts between them. Customers sign in with a code
sent by SMS, keep a goal and transactions, import bank statements, and may be sent
readiness alerts.

What is hard in this code is hard for two reasons. On the server a handler is a
sequence of statements, some of them in transactions at READ COMMITTED, and several
API processes serve the same customer: what one statement read may be untrue in the
next, a process may stop between two of them, and clients, consumers and the
scheduler repeat whatever was not answered or recorded. On the phone one thread
runs continuations between awaits: answers arrive late, in another order, after the
screen, the token or the customer has changed. The server modules therefore take
**one database statement (or one call to the SMS provider) as one step**, and the
phone's modules **what runs between two awaits**.

## 1. Inventory

| Component | State | Operations | Works with | What makes it correct |
|---|---|---|---|---|
| Refresh sessions (`auth.service.ts`) | `RefreshToken` rows, a per-user advisory lock | refresh, logout, logout everywhere, sign-in | called by verification; the mobile client retries it | one usable token per family; a closed family stays closed; family limit; nothing closes by accident |
| OTP verification (`auth.service.ts`, `otp-verification-idempotency.ts`) | `OtpCode` rows with attempts and the stored, encrypted answer | verify, replay, lockout | mints a refresh session | one session per code; one answer per key; retired codes stay retired |
| OTP requests (`auth.service.ts`) | `OtpCode` rows, auth events | request, replay, take over, adopt a legacy job | enqueues a job | an ok stands for a queued code; limits overshoot by a known amount only |
| Notification queue and consumer (`notifications/`) | `NotificationJob` rows, failure log, one poll loop per process | start, enqueue, claim, send, succeed, fail, delete, inspect | SMS providers; account deletion | a job is worked on by one consumer; every job settles; payloads are redacted; the log has every failure |
| SMS providers (`sms/`) | none (environment) | assert, send, inspect | consumer | an instance that starts can send; an outcome is reported as it was |
| Readiness alerts (`alerts/`) | `AlertPreference`, `AlertState` rows, a scheduler per process | evaluate, update preferences | dashboard, goals, queue | what is recorded was queued; recoveries follow risks; nothing is swallowed or forgotten |
| Goals (`goals/`) | `Goal` rows, a partial unique index on the active one | create, update, end | dashboard, alerts, phone forms | one active goal; replacement is atomic; an outcome is kept |
| Transactions and import (`transactions/`, import screen) | `Transaction` rows with fingerprints | create, update, remove, preview, confirm | goals, dashboard | goals belong to their customer; a file imported again adds nothing, equal rows of one file are kept; what is stored was shown |
| Account (`account/`) | user, consents, consent history, an in-memory set of accounts being deleted | profile, consents, export, delete | queue, every table | all or nothing is deleted; nothing is let through afterwards; consents in force were given |
| Stability engine, dashboard (`dashboard/`) | none | compute | goals, transactions | money that comes in never worsens the band |
| Mobile session (`mobile/src/lib`) | secure store, epoch and flags in memory | refresh once, sign out, sign in, start | the refresh endpoint | no token after sign-out; a new session is not overwritten; no accidental reuse |
| Mobile OTP client (`(auth)` screens) | forms, attempts with their keys, installation id | request, resend, verify with retries | OTP endpoints | a key names one input; a lost answer is found again; one installation id, kept while it can be read |
| Mobile screens (`(app)` screens) | query cache keyed by session, forms | load, change, invalidate, sign out | all endpoints | what is shown agrees with the server or says it may not; never another customer's data |

Components listed in `PROJECT.json` only for completeness: access-token guard,
telemetry and configuration, generated contracts, developer automation.

The hard behaviours, each at its line, are the `hazards` of `PROJECT.json`:
check-then-act across statements, rotation against revocation, take-over of
requests that may still be running, leases that run out under a working consumer,
publish-then-record without a transaction, lock cycles, per-process flags that say
nothing about other processes, answers that cross a sign-out, a token rotation or
each other, and conversions that a form or a file goes through twice.

## 2. Modules

| Module | Models | Code |
|---|---|---|
| `RefreshSessions` | refresh, revocation, sign-in | `auth.service.ts` 672-1179 |
| `SessionLedger` | the abstract promise `RefreshSessions` implements | - |
| `RefreshSessionsProofs` | theorems about `RefreshSessions` | - |
| `OtpVerification`, `OtpVerificationProofs` | `verifyOtp`, `issueVerifiedSession` | `auth.service.ts` 406-1040, `otp-verification-idempotency.ts` |
| `OtpRequests`, `OtpRequestsProofs` | `requestOtp`, `adoptLegacyOtpRequest` | `auth.service.ts` 137-464, `notification-queue.service.ts` 74-176 |
| `NotificationQueue`, `NotificationQueueProofs` | queue service and consumer | `notification-queue.service.ts`, `notification-consumer.service.ts` |
| `SmsProviders` | choice, configuration and clients | `sms/` |
| `ReadinessAlerts`, `ReadinessAlertsProofs` | `evaluateUser`, its rules, the scheduler | `alerts/` |
| `RowTransactions` | PostgreSQL rows under transactions: drafts, row locks, foreign-key locks | external |
| `CustomerRecords` | goals and transactions | `goals/`, `transactions.service.ts` |
| `FormFields` | text of amounts and dates | `transactions.ts`, `goal-form.ts` |
| `CustomerForms`, `CustomerFormsProofs` | the phone's forms in front of `CustomerRecords` | `goal.tsx`, `transactions.tsx`, `add-transaction.tsx` |
| `AccountData`, `AccountDataProofs` | account service, block, consumer | `account.service.ts`, queue service 208-268 |
| `StatementCsv` | CSV reader, adapters, rows and fingerprints | `transaction-import.*.ts` |
| `Stability` | the dashboard's engine | `dashboard/engine.ts` |
| `StatementImport` | import screen with the API and the dashboard behind it | `import-transactions.tsx`, `transactions.service.ts` 70-160 |
| `MobileSession` | token store, refresh, sign-out, sign-in, gate | `api.ts`, `auth-state.tsx`, `token-store.ts` |
| `SignInScreens` | request and verification screen, installation id | `request-otp.tsx`, `verify-otp.tsx`, `installation-id-store.ts` |
| `CustomerScreens` | screens and query cache | `(app)/*.tsx`, `session-query-cache.ts` |
| `MobileProofs` | theorems about `MobileSession`, `SignInScreens` and `CustomerScreens` | - |
| `MC...` | instances for TLC: constants and symmetry only | - |

A module `...Proofs` holds the theorems about the module it is named after.
`CustomerFormsProofs` also has those about `CustomerRecords`, `FormFields` and
`StatementImport` with the parser of `StatementCsv`, and `MobileProofs` those about the
app's session and all of its screens; section 4 says which.

The exact lines of every definition are in `PROJECT.json` under `map`. Definitions
whose name starts with `Bug` are deliberate mistakes (a dropped guard, a missing
rollback, a wrong order); each is put in the place of the definition that follows
it to show that the property it is paired with can fail. They are not part of any
next-state relation.

### RefreshSessions and SessionLedger

One user. `row` holds the committed `RefreshToken` rows (status, family, device,
birth of the family, expiry, successor), `lock` the holder of the advisory lock
that `lockRefreshUser` takes, `revoking` the rows a transaction has revoked without
having committed; other writers of these rows wait (`CanWrite`). A request is a
program counter with what it has read: `refreshSession` looks at the token outside
the transaction (`RefreshReused`, `RefreshExpired`, ...), then locks, claims with a
conditional update (`Claim`, `ClaimLost`), and inserts the successor
(`CommitRotation`); a lost claim looks again (`RecheckReused`). The update that
retires an expired row does not take the lock, as in the code. A logout snapshots
the live rows of its scope and revokes them. A sign-in replaces the families of its
device, evicts the oldest ones beyond the limit, and inserts. `Fail` rolls back at
any statement, which also covers a failure of signing and a lost answer. `ended` is
history: the families whose closing has been committed.

`SessionLedger` says what a user is promised without rows, locks or processes: a
session is carried by one token, is passed on only from that token, and never comes
back. The refinement mapping is `live <- Live`, `familyOf <- row[t].family`.

### OtpVerification and OtpRequests

One phone. A verification looks for an answer stored under its key, reads the newest
live code, compares (bcrypt, outside of any transaction), and then either counts
the wrong guess by id from the attempts it had read, locking the code out at the
limit, or consumes the code conditionally, retires the other codes row by row,
and stores its answer with the session in the same transaction. Two transactions
may each hold a code the other has to retire: `Deadlocked` and `BreakDeadlock`
are PostgreSQL's detector. The catch blocks look under the key again.

A request for a code: replay by key, hourly limits, cooldown, insert of the code,
event, job, completion. A row older than the processing timeout may be taken over
by a retry while the first request is still under way. Ages are counted in steps
that keep timeout < cooldown < hour in order. `legacy` holds jobs an earlier
version queued without a link; `FindLegacy` and `AdoptLegacy` are the two
statements of `adoptLegacyOtpRequest`, and the unfinished rows they belong to are
among the initial states (`Unfinished`).

### NotificationQueue, SmsProviders

Jobs and the consumers of several processes. `Start` is start-up: the assertion of
`SmsService`, the redaction of terminal rows, and only then the timer. `Ready` is
`readyWhere`: due, or processing with its lease over. `Poll` and `Claim` are the
two statements of `claimReadyJob`; outcomes are written by id whatever has become
of the row, with the attempt count read at the claim. `canDeliver` may call a delivery
off because the instance is deleting the job's account, which `AccountData` models; here
it may happen at any time (`Cancelled`), and the row waits for the end of its lease.
`failures` counts the rows of the failure log. A row an earlier version left may carry
a plain payload. What the provider can do with a message follows from
the configuration (`SendMessage`): the clients check what they need again, any
status below 400 counts as an acceptance, and an acceptance may go unanswered.
`troubled` is history: jobs hit by a crash, an error after acceptance, or a lease
that ran out under a working consumer. What operators are shown (`getInspection`) is a
set of reads, each of its own moment and some within a window of a day; it changes
nothing and is not modelled.

### ReadinessAlerts

One customer, several API instances, each running `evaluateUser` with a `now` of
its own: preferences, stability, state, weekly job, risk or recovery job, and last
the record. The rules (`RiskDecision`, `OccurrenceKey`, `WeekOf`) are translated
with the code's thresholds; scores are numbers and the status is their band. A job
is its deduplication key, so publishing it twice changes nothing and the caller
goes on as if it had. `recorded`, `told` and `overlaps` are history.

### RowTransactions, CustomerRecords, CustomerForms, FormFields, AccountData

`RowTransactions` is what these modules take from PostgreSQL: a committed table,
a draft per transaction, writers that wait for the holder of a row, foreign keys
that hold the row they refer to. `CustomerRecords` has one action per statement of
the goals service's three transactions, with the partial unique index on active
goals (an insert waits for a rival's commit and then fails), and of the
transactions service; a selection to import may name any row of the text, or one it
does not have, and is then refused, as the preview on the screen may be of another text. `CustomerForms` adds one phone: what it has loaded, the mode
of the goal form, the entry being edited and whether its link was touched, while
other devices and customers send requests of their own. `FormFields` takes values
to the text of a field and back.

`AccountData` is one customer with rows of every kind that refers to them. The
deletion enters the in-memory block, closes it over the ids it discovers, removes
table after table in one transaction, and lifts the block by a timer or at once on
failure. A consumer claims, consults the block and then the job's row, and sends;
another instance's block is empty. Other services insert rows at any time. A job of
the kind stored before jobs had a `userId` is found by the phone number in its payload,
and no longer once a consumer has redacted it (`Unread`, which also stands for a payload
that cannot be decrypted). `AddEvent` inserts an authentication event with the phone
number alone; `late` is history: the events a deletion did not see because they came
after its statement for the table.

### StatementCsv, Stability, StatementImport

A text is a sequence of characters, of which only quotes, commas, line ends and a
byte-order mark are told apart; fields in between are atoms whose conversions
(dates, amounts, directions) are tables. The reader, both bank layouts, the
canonical text, the second parse and the occurrence in the fingerprint are
translated function by function. The screen picks files that take time to be read,
asks for previews, selects and confirms. The dashboard scores what is stored.

### MobileSession, SignInScreens, CustomerScreens

`MobileSession` has the token store in memory and on disk, `rotateAccessToken` with
its epoch, flags and the one refresh in flight, the 401 interceptor, sign-out by
the button or by a failed retry, sign-in and start-up. The server is the families
of `RefreshSessions`, reduced to the generation that is live. `SignInScreens` has
the two forms, the attempts of a press under one key, and the installation id, as it is
on a phone: what the secure store does not take is kept in the memory of the process only.
A read of that store that is rejected, or gives what is no id, counts as nothing stored, so
that a new id replaces the one there was (`misread`); generating an id does not fail. The
server repeats the success of a key (within its ten minutes), answers another input under
it with a conflict, and keeps nothing of a refusal.
`CustomerScreens` says of each screen what it reads, warns of, retries and changes;
an answer is abstracted to whether it still agrees with the server, and the
fetching rules of React Query (a first load is joined, any other is cancelled) are
taken from how the screens use it. A sign-out clears the cache only when the server has
answered its revocation, which may be after the next sign-in: the clear then removes
the queries beneath the new session's screens, which are `adrift` until they are
rendered again.

## 3. Runs

| Run | Instance | Shows |
|---|---|---|
| `refresh` | 2 requests, 3 tokens, 2 devices, limit 2, 1 tick | one live token per family, closed stays closed, successors chained, limit kept, nothing closed or evicted without reason, no wait cycle, and the refinement of `SessionLedger` |
| `verify` | 2 requests, 2 keys, 2 devices, 2 codes, 1 fault | one session per code, one answer per key, a request finds its own result, who waits does so for an open retirement or stands in a cycle of them |
| `request` | 2 requests, 3 keys, 4 codes, limit 2, legacy rows | ok means queued; jobs never lose their code; bounds on the overshoot |
| `queue` | 2 consumers, 2 jobs, 2 attempts, 1 fault, 2 configurations | one consumer per job, no repeat unless troubled, attempts, log, redaction, an instance that is up can send, settlement |
| `alerts` | 2 instances, 3 scores, the preferences below, 3 changes, 2 ticks, 1 death | recorded means queued; recoveries follow risks; cooldown; no swallowed alert while runs do not overlap; everything lasting is reported |
| `records` | 2 requests of 3, 2 customers, 7 rows, 2 fingerprints | one active goal, atomic replacement, outcomes kept, owned links, imported once, the phone replaces and relinks only when asked, forms keep what was not changed |
| `account` | 2 requests of 3, 2 instances, 1 delivery, 1 insert by another service | consents granted, whole deletion but for unreadable messages and late events, blocks end, deletion removes in one step and lets nothing else through after |
| `account_consents` | the same | the disagreement about the consent history (section 5) |
| `mobile_session` | 2 requests, 2 sign-ins of 2 generations, 1 lost answer or restart | signed out is empty, the store matches the screen, no accidental reuse unless an answer is lost, the app restarts or a sign-out runs into a sign-in, sign-outs end |
| `signin_screens` | 2 numbers, 3 attempts, 4 keys, 2 calls in flight, 1 restart, any read or write of the id failing | a key names one input, a lost answer is found again, one installation id a process and, while it can be read, over all |
| `customer_screens` | 2 customers, the visits below | what is shown at rest is current but for the exceptions `FreshAtRest` names, never another customer's |
| `import` | 2 files at hand or any text of up to 4 characters, 2 picks, 2 confirmations | reviewed rows only, each occurrence once and none dropped, text survives being rewritten, the band follows the money |

Why the bounds are enough. The races are between two requests for the same row, and
every property is broken by some plausible mistake within these bounds (the
`mutants` of `PROJECT.json`). Three tokens allow a family with a predecessor, a live
token and a second family; two devices and a limit of two make replacement and
eviction differ. Tokens and families end after one tick, which tells the two apart all
the same: a rotation across the tick leaves a young token in a family that is too old.
Two codes suffice for one to be retired by another's verification and for a lock
cycle. With three keys and an hourly limit of two, one code is issued and two requests
pass the limit together, which is the bound. As `LimitsBounded` counts the requests that
passed a check with the codes, one request more past the hourly check breaks it before
there is a fourth key; a fourth code is one issued again under the key of a code that
was removed. Two attempts give a retry and a dead letter. Three
requests give two rivals and one that finds their outcome. Two sign-ins and two generations give a refresh that is
answered under another session. Two files that list the same rows differently often
make the occurrence matter. What larger instances
would add to the properties that section 4 lists is covered by the proofs, which
assume no bound on the number of requests, devices, codes, jobs, goals or alerts.

Some bounds are sets of scenarios. `Visits` of `CustomerForms`: no phone and every
operation; the phone's goal screen against goal operations from elsewhere; the
phone's activity screens against changes of entries and goals. `Visits` of
`CustomerScreens`, always beside the dashboard: the import, the add form, the account
or the alerts with one change at a time, a token rotation or a second sign-in, and one
failure; the activity list with the add form, and the goal screen, with one change at a
time and either a rotation or sign-in or a failure; the activity list with the import,
and the goal screen with the add form, each with one change at a time and nothing else;
and two changes at a time on the activity, account or alerts screen. Both properties of
that run are proved for every set of visits. `Choices` of `ReadinessAlerts`: nothing,
the weekly summary, or risk alerts as well. The proofs cover every choice. `Goals`: what
is there to save, what comes in a month and the days left, at and around the amounts of
the files. `Environments`:
a configured Twilio, and a Termii whose sender is missing, which must not start;
the `dev` provider accepts everything and adds no behaviour. `Banks`: overlapping
statements of one bank, of two layouts, and every short text of the characters that
matter.

Symmetry is used for interchangeable requests, consumers, tokens, keys and devices
in runs without liveness properties. Deadlock is checked for `refresh`; the
other models stop legitimately when their codes, jobs or changes are used up.

### Fairness

- `NotificationQueue`: every instance goes on: one that stopped is started again
  (`Start`; with a configuration that fails the assertion it is tried again for ever),
  the poll timer of a running one fires for ever (`setInterval`), a provider call ends,
  time passes. The Twilio client sets no timeout, so that a call ends is an assumption
  about the network, not something this code enforces.
- `ReadinessAlerts`: the scheduler's timer fires for ever and a statement ends. The
  clock need not advance.
- `MobileSession`: continuations run and calls are answered or fail (`api.ts` sets a
  timeout). Nobody has to press anything, and nothing has to fail.

Failures are bounded in number wherever liveness is checked, and never fair. That
requests are answered is not stated as liveness but by what it takes. Refreshes:
`NoWaitCycle` says that as long as requests are under way, one of them has what its
next statement waits for (`SomeoneReady`), and that whoever has it can move.
Verifications: `WaitsEnd` says that a request which waits for nobody can move, and that
one which waits does so for transactions that retire codes, which are open and move in
turn or stand in a cycle of such transactions; PostgreSQL breaks each cycle at one of
them. Its queues do the rest.

## 4. Proofs

Every theorem is of the form `Spec => []Inv` or `Spec => [][A]_vars` and, but for
`FieldsStaySound`, whose conversions depend on no state, rests on an inductive
invariant that is written out at the end of the module it is about, or in the module
with its proof: `SignInInv` and `ScreensInv` in `MobileProofs`, `ImportInv` in
`CustomerFormsProofs`, `ToldInv` in `NotificationQueueProofs`, `RoomKept` in
`RefreshSessionsProofs`. TLC has checked these invariants on the instance of the run
before they were proved. The proofs have one lemma per action (`...Step`), and lemmas
for what actions of the same kind share: the parts of the invariant that speak of one
request survive the steps of the others because of what a row, a lock or a counter
keeps (`Unconcerned`, `OthersKnow`, `QuietStep`).

### What is proved

| Module | Theorem | States |
|---|---|---|
| `RefreshSessionsProofs` | `TypeCorrect` | types |
| | `SingleLiveToken`, `ClosedFamilyStaysClosed` | `OneLivePerFamily`, `EndedStaysEnded` |
| | `FamiliesStaySound`, `FamiliesGiveWayOnPurpose` | `FamiliesSound`, `FamilySteps` |
| | `RowsImplementLedger` | `LedgerSpec`: the rows implement `SessionLedger` |
| | `RequestsNeverAllWait` | `SomeoneReady`, the first half of `NoWaitCycle` |
| `OtpRequestsProofs` | `JobsStaySound`, `OkStaysQueued`, `LimitsStayBounded` | `JobsSound`, `OkMeansQueued`, `LimitsBounded` |
| `OtpVerificationProofs` | `CodesStaySound`, `AnswersAgree`, `VerificationsStepSoundly` | `CodesSound`, `SameAnswer`, `VerificationSteps` |
| | `OnlyRetirementsHold` | `RetirementsHold`, the first part of `WaitsEnd` |
| `NotificationQueueProofs` | `QueueStaysSound` | `QueueSound` |
| `AccountDataProofs` | `ConsentsStaySound`, `AccountsGoWhole`, `BlocksComeToAnEnd`, `DeletionsStepSoundly` | `ConsentsSound`, `AccountGoneWhole`, `BlocksEnd`, `DeletionSteps` |
| `MobileProofs` | `SessionsStaySound`, `StoreStaysWithScreen`, `TokensArePresentedOnce` | `SessionSound`, `StoreMatchesScreen`, `NoAccidentalReuse` |
| | `AttemptsStaySound`, `OwnCodesAreTaken`, `InstallationsAreOne` | `AttemptsSound`, `OwnCodeNotRefused`, `OneInstallationId` |
| | `ScreensStaySound`, `FreshWhenAtRest` | `ScreensSound`, `FreshAtRest` |
| `ReadinessAlertsProofs` | `AlertsStayConsistent`, `CooldownStaysKept`, `DuplicatesStayRetries` | `AlertsConsistent`, `CooldownKept`, `DuplicatesAreRetries` |
| `CustomerFormsProofs` | `RecordsStaySound`, `GoalsStepSoundly`, `PhoneStepsSoundly` | `RecordsSound`, `GoalSteps`, `PhoneSteps` |
| | `FieldsStaySound`, `ImportsStaySound` | `FieldsSound`, `ImportsSound` |

Each of these modules also proves `Invariance`, that its inductive invariant holds in
every reachable state (`FamilyInvariance` is the second one of `RefreshSessionsProofs`,
`SignInInvariance` that of the sign-in screens, `ScreensInvariance` that of the
screens behind them, `ImportInvariance` that of the import).

### From which assumptions

Null values are no members of the sets they stand beside (`NoneAssumption`, parts of
`RequestAssumption`, `VerifyAssumption`, `QueueAssumption`, `AccountAssumption`,
`SessionAssumption`, `SignInAssumption`, `ScreensAssumption`, `AlertsAssumption`, and
`ValuesApart`; `FieldsAssumption`: an empty field and a refused one hold no amount,
name or moment); limits, thresholds and
bounds are numbers, positive where the code's configuration requires it
(`LimitsAssumption`, again the named ones). Beyond that:

- `TokenAssumption` and `ProcessAssumption`: finitely many tokens, and finitely many
  requests, at least two, since what is counted has to be finite.
- `AlertsAssumption`: scores are between 0 and 100 and the drop that makes a new alert
  and the cooldown are positive, as `alerts.rules.ts` has them.
- `RoomForAll`: the names of rows suffice for all requests of a behaviour, two
  entries for each and the goal there is at first. It bounds the model, not the code.
- `PhoneAssumption`: the phone's customer is a customer.

### Along which arguments

*Refresh sessions.* A rotation about to commit inserts a live token, so one has to
know that the token it claimed is live, is its own uncommitted revocation
(`RevokingLive`) and that nobody else is between claim and commit (`LockHeld`). A
revocation about to be applied closes a family, so its snapshot must still contain
every live row of its scope (`SnapshotComplete`). `RowsNamed`: families are named by
committed rows, so that a fresh token starts a fresh family. The retirement of an
expired row is the one step that changes rows without the lock; it only revokes, and
waits for rows that a transaction has touched. `FamilyInv` adds what a refresh looked
up before the lock (`LookedUp`: nothing it saw can have become untrue), that a
rotation copies the birth of its family (`BornCopied`) and that the room a sign-in
has made stays free until it commits (`SlotPrepared`, where the limit of families
needs a count of finite sets). The refinement of `SessionLedger` is proved step by
step: `LedgerPassOn`, `LedgerOpen` and the steps that close; every other step stutters.
That requests never all wait (`SomeoneReady`) is a matter of who can hold what: only
the holder of the advisory lock has rows that others must not write, so the holder
itself waits for nobody, and where there is no holder nothing is waited for. Two
statements can wait for something else: an insert for an unused name, of which
`RoomKept` counts one for each request that has still to insert, and an eviction for
the oldest families, which exist because finitely many births have a least one.

*OTP requests.* Two requests must not issue one code (`IssuedByOne`), a request that
was handed a code works on the row of its key (`RequestFits`), and an unlinked job of
an earlier version is older than every code in the making (`LegacyOlder`), or
adoption could give a job to a code that has one. The limits are overshot by the
requests that passed the check and have not inserted: `LimitsBounded` counts them with
the rows, which makes it inductive.

*OTP verification.* `InOrder` says that codes expire in the order they are created
and that consuming one retires all older ones; `Knows`, that a request compares with
the newest code it found, so that a guess of a newer code has been settled without an
answer; `Holds` and `HeldByOne`, which rows a transaction has locked. From these a
code cannot mint twice, whichever of two verifications finds it first, and an answer
under a key is one answer. Verifications do form wait cycles, which without the
database's detector would last for ever. `Holds` says that rows are held by transactions
that pick or lock what they retire and by nobody else; so these alone are waited for,
and whoever stands in a cycle, being waited for and waiting itself, is locking
(`OnlyRetirementsHold`).

*Notification queue.* The invariant speaks of every job (`Recorded`) and, more
strongly, of jobs that nothing has disturbed (`Undisturbed`): one consumer has such a
job in hand, under a running lease, with the row's attempt count, and it goes out in
that consumer's hands only. `Knows` is what a consumer that was overtaken may still
say: its late outcome is written by id, but says no more than happened. A job that is
processing in nobody's hands and undisturbed was called off, so it has not gone out.
Beside it, `Deployed` says that an instance that runs has passed the assertion on the
provider's configuration, from which that it can send follows by cases on the provider
(`ProviderTakes`).

*Account.* `Transaction` ties every draft to the statement its request is at: a
deletion about to close has every row of the account in its draft, but unreadable
messages and the events that came too late for it, a consent's draft has the preferences
only. `ClosedWhole` names the deletion that is over, for which the rest came too late. `Locked`: no row is in two drafts, and the customer's row
does not go while an insert refers to it. `Consenting`: what is about to be stored
is granted by the history or by the request's own input. `Blocks`: what an instance
blocks has a timer or a deletion that will release it.

*Mobile session.* `Stores` follows the tokens through memory, disk, screens and
server while nothing goes wrong; `Phases` excludes a sign-in from a refresh, `Held`
says that whoever leaves revokes the family that is open. `WritesPending` holds even
with sign-outs that run into sign-ins: an empty screen comes with an empty store
unless a write is pending that will settle it.

*Sign-in screens.* `CallsOfScreens` says which calls a screen still waits for,
`AttemptNamesCall` that the key of the pending attempt is in use for the attempt's
own number and code only; with keys drawn upwards, no key has two inputs. That a
customer's own code is taken needs more: at most one call enters the current code of
a number (`OneCurrent`), a mounted one holds the pending attempt's key or a dropped
one (`MountedCurrent`), an abandoned one is of a number no longer on the screen
(`OldCalls`), and the key that used a code is that of a call in flight
(`UsedByCurrent`) or of the pending attempt (`UsedByAttempt`). `NewCodeUntouched` and
`ResentCode` carry this over a code whose answer is still on its way: nobody has
entered it before the screen knows of it, unless the message was faster than the
answer, and then the attempt is the one whose key that answer drops. Steps fall into
kinds that share a lemma: those the screens do not notice (`QuietSignIn`), answers of
the server (`AnswerStep`), leaving (`LeavingStep`), and each button by itself. `OneId`
says that a process has the stored identifier unless it misread it, and needs the count
of identifiers made (`DeviceTyped`), at most one a process. A refusal leaves nothing behind,
so `AnswersKept` says of a refused key that no code is used by it: two calls under one
key carry one input, and only one call enters the current code.

*Customer screens.* That nobody sees another customer's answers needs only that every
answer is kept and fetched under the token of the customer it is about
(`KeptForOwner`), and that a token names its customer. Freshness at rest needs an
account of whose business an outdated answer is (`Settled`): a write makes answers
untrue and the change that made it owes their invalidation until it has asked for it
(`Owed`, with `PlanKept` for the groups it has still before it). An answer that is not
current is therefore owed by a change, or being fetched again, or marked stale and not
visible (`AnswersSettled`); a fetch that the write overtook is owed by a change that
will cancel it (`FetchesSettled`). At rest nothing is owed and nothing fetched, and
what is visible is current. An invalidation that reaches only the keys of the session
it started in settles nothing under the token after it: what a lost answer, a
load that arrives after the write, or two answers that cross leave out of date is in
`excused`, and so are changes answered to a screen that was gone before the token changed; nothing
else may be. A screen adrift is not `Watching`: a late clear settles everything by emptying the
cache, and the screen is watched again from its next rendering, which fetches what is missing.

*Readiness alerts.* `RunBacked` ties what a run has read, and will record, to the
queue. While runs have not overlapped (`Serial`), the row of a goal follows what was
recorded (`RowFollows`): the last alert is the latest one, and a recovery is anchored
in an alert that is over. `Worsening` then separates two occurrences' keys: since the
last recovery, alerts only got worse.

*Goals, transactions and the forms.* The unique index makes an insert wait for the
rival's commit, but an update that activates a goal does not see the rival's draft.
The invariant therefore speaks of views: every transaction sees one active goal per
customer (`OneInView`), rows are in one draft (`LockedByOne`), one transaction at a
time activates a goal of a customer (`OneActivates`), and a draft says what its
operation is for (`DraftFits`). `CheckedHolds` is what the ownership checks of an
earlier statement are still worth. `NoteFits` ties what the phone noted when it sent
a request to the request the server works on. `FieldsSound` is about two conversions in a
row: whole part, fraction and sign of an amount are read back as they were written
(`ReadBack`), so that a save changes the fields that were touched (`FieldsKeepValues`).

*Import.* A preview is of the text the screen has, unless picks have crossed
(`PreviewsOfText`), so that what is confirmed was reviewed (`ReviewedRowsOnly`). Rows
of one file are numbered among the rows of their content (`Numbered`): two of them
never have the same fingerprint (`RowsApart`), and the o-th row of a content is there
in every file that lists it o times (`OccurrenceListed`). Each stored entry stands for
one such row (`EntriesOfRows`). Entries of one content are then as many as some
imported file lists, by an injection into its rows (`AsOftenAsListed`): importing
overlapping statements counts every booking once. Conversely every row confirmed has its
entry (`RowsStored`), and rows of one confirmation have entries of their own
(`RowsCounted`): a genuine repeat is not taken for a duplicate. The proof holds for any reader of
the lines; what the reader itself makes of a text is left to TLC.

### What the attempts showed

Proofs that failed for a good reason changed the model:

- `NoAccidentalReuse` was false without its second exception: with three requests
  and three families, a sign-out that runs into a sign-in while a refresh is under
  way can present a token twice (a behaviour of 47 steps, out of the reach of the
  smaller instance). `crossed` records such a sign-out.
- `DuplicatesAreRetries` needs `RecoveriesApart`: two recoveries of one goal recorded at the
  same instant anchor their successors alike. The clock of the model has few values;
  that of the code has milliseconds.
- The attempts of a job may pass the maximum: a consumer that claimed it before
  another one recorded the last failure writes its own count. What holds is
  that pending and processing jobs have attempts left and dead letters have none.
- The type invariant of `SignInScreens` said less than it seemed to: a conjunction
  under an implication made everything behind it conditional on the verify screen.
  It is now stated of every state.
- Drafts that overlay a table must not be allowed to grow its domain (`Over`, `Only`
  of `RowTransactions`, `NextTable` of `AccountData`); the names of rows must
  suffice (`RoomForAll`), or an insert would be silently impossible.

### What is only model-checked

- Liveness (`JobsSettle`, `AlertsReported`, `LeavingEnds`), and the last parts of
  `NoWaitCycle` and `WaitsEnd`, that a request which has what it waits for can move: they
  are about `ENABLED`. Both are out of the prover's reach.
- `CanonicalTextKeepsRecords` and `BandFollowsImports`: what the reader makes of a text
  character by character, and what a sum over entries comes to, are known by
  induction over data only.
- `ConsentExplained`, which is false (section 5).

## 5. Disagreements between documents and code

Checked by the run `account_consents`: `docs/account-data-self-service.md` says that
every changed choice is appended to an append-only history. Two saves that overlap
compare with the same old preference, and the history then has the last record of
one category that is not what is stored.

Found while modelling, and excluded by name in the property concerned:

- `docs/auth-hardening.md:132` promises a retry the original answer. A retry that
  looked before the original committed and then reads a newer code is refused, and
  counts as a wrong guess on that code (`OwnResultFound` speaks of the newest code).
- `docs/readiness-alerts.md:28` says that keys prevent repeat delivery when the
  process restarts. They prevent a second job; a restart between the provider's
  acceptance and `markSucceeded` sends the message again (`UntroubledOnce`).
- The same document says that risk alerts are suppressed for 24 hours (line 43) and
  that a recovery follows a notified risk (45). A run that dies between queueing and
  recording, with the score changed by the next run, produces a second alert at
  once; and the state does not know of the first, so that its recovery may never
  come (`CooldownKept`, `AlertsReported`). Runs that overlap on two instances may
  leave the record and what was told apart for good.
- `docs/account-data-self-service.md:30` says that notification jobs and
  authentication records are removed. Authentication events inserted after the
  deletion's second statement stay, with the phone number, and so do messages without a
  `userId` whose payload can no longer be read (`AccountGoneWhole` names both).
- The same document says that claimed notifications are blocked. One that `canDeliver`
  let through before the deletion committed is sent after it; the block is known to one
  process only, and overlapping deletions lift it early (`DeletionSteps`, `BlocksEnd`).
- `docs/project-status.md:70` speaks of a confirmation gate for replacing a goal.
  The creation form that ending a goal leaves open replaces without asking a goal
  that has appeared meanwhile (`AskedBeforeReplacing`).
- `docs/transaction-file-import.md:68` has the customer review a preview. If two
  files are picked in quick succession, the first one's late preview may be shown
  above the second one's text, and its row numbers confirmed against that
  (`ReviewedRowsOnly`).
- Migration `20260928000300` preserves legacy rows "for runtime adoption". Its
  check, though not validated, applies to every update of such a row: a consumer
  cannot claim it, fails on every poll, and everything behind it waits until a
  request adopts it; and adoption goes by customer and time, so that of two
  unfinished requests the older may take the newer's job.

Behaviour worth knowing that no document contradicts: the score falls from up to
100 to 80 when a goal becomes fully funded, for then no pace is required and income
support counts nothing, while the band stays; an update that deactivates a goal
overwrites an outcome another request has recorded since it read the goal; saving an
unchanged form moves a time of day to noon UTC; the answers of two saves that cross
on the account or alerts screen leave the older one shown; the activity screens do
not say when the goal failed to load again; a correct code can be refused after a
lost answer if another code was entered in between or a resend was answered late.

## 6. Not modelled

Access-token guard and controllers (stateless), telemetry and metrics, validation of
environment variables beyond the SMS provider's, generated contracts, build and CI
scripts. In the modelled parts: message texts, formatting and layout, hashing and
encryption (a stored answer or payload is either readable or not), several customers
sharing a scheduler run, calendar arithmetic of the weekly schedule below its unit,
text in a field while it is typed, and the answer texts of the dashboard. The order in
which PostgreSQL serves waiters is left open.
Not covered by a property, with the reason at the hazard: a provider call that never
ends, a customer whose evaluation always fails, an addition pressed twice after a
lost answer.

## 7. Plan

The model is complete up to section 6, and what the provers can establish of its
properties is proved. What remains model-checked waits for provers with induction and
`ENABLED`; the smallest next step would then be `CanonicalTextKeepsRecords`, by
induction over the lines of a text.
