# Masrafy backend: verification project

Masrafy is a loan marketplace: a NestJS backend (`src/backend`), an Angular console
for staff (`src/admin`) and a Flutter application for customers (`src/masrafy-app`).
All state that matters is on the backend: PostgreSQL through Prisma, Redis for
counters and lockouts, an S3 bucket for documents. This directory holds TLA+ models
of the backend's concurrent core, the TLC instances that check them, and TLAPS proofs
of the properties that matter most.

Reading order: `StaffSessions.tla`, `StaffSessions_proofs.tla`, then any other module;
`PROJECT.json` maps every definition to the lines it models.

## 1. The system

| Component | State | Operations | What is hard | Must hold |
|---|---|---|---|---|
| Staff sessions and accounts (`auth/`, `users/`, `infra/prisma`, `infra/bootstrap`) | `staff_account`, `refresh_token`, JWT claims in the client's hands | login, refresh with rotation, logout, own password change, password reset, role/active PATCH, create, seeding at boot | two SERIALIZABLE counts and one retry, READ COMMITTED revocations, role claims older than the row, a restart | the super_admin floor; linear rotation chains; a deactivation or a sign-out ends sessions |
| Staff sign-in lockout (`auth/lockout.service.ts`) | Redis sorted set of failures | check, record, clear | separate Redis commands of concurrent sign-ins, any of them lost | bounded overshoot; lockouts end |
| Customer sign-in lockout (`customer-login-lockout.service.ts`) | sorted set and a lock key with its own lifetime | the same | the same | the same, and the lock outlasts its window |
| Customer phone verification (`customer-otp.service.ts`, `verified-mobile-token.*`, `customer-auth-mobile.service.ts`) | `otp_challenge`, `verified_mobile_token`, phone of `customer_account` | send, verify, exchange for a token, sign-up, bind a phone | read-then-write on codes and tokens, two transactions that need each other | a phone is always a verified one; bounded guesses |
| One-time code limits (`customer-otp.service.ts` issue) | `otp_challenge` rows with their ages | issue, consume | four counts, then an insert | bounded overshoot; sending resumes |
| Customer sessions and credentials (`customer-auth.service.ts`, `customer-refresh-token.*`, `password-reset-token.*`) | password hash, active flag, `customer_refresh_token`, `password_reset_token` | login, refresh, logout, reset, change, deactivation | password written in one transaction and sessions revoked after it; crash between | linear chains; ended sessions stay ended; a reset token used once |
| Profile photo (`documents.service.ts`, `google-profile-photo.service.ts`) | pointer in the row, objects in the bucket | presign, upload, confirm, avatar import, reap | two stores without a transaction | the pointer's object exists |
| Mobile rate limit (`mobile-rate-limit.guard.ts`) | Redis counter | INCR, EXPIRE, decide | two commands, a crash between them | bounded admission; windows end |
| Applications (`applications/`) | `application`, `bank_offer`, audit rows | submit with an idempotency key, select-offer, lead status | retried requests, SERIALIZABLE choice, statuses read outside the transaction | one answer per key; one choice per application |
| Customer administration (`admin-customer-accounts.*`) | `customer_account.is_active` | list, set active | revocation against rotation | a deactivation ends sessions (modelled with the credentials) |
| Customer profile completeness | profile columns, documents, social sessions | complete, edit | unique e-mail looked up before it is written | planned |
| Questionnaire (`questionnaire/`) | `question`, `question_group`, `questionnaire_version` | edit, reorder, group, delete, publish at every edit, roll back | READ COMMITTED publication, a contract judged on a pool read earlier, gates and groups that depend on each other | one version active, always; fixed questions reach everyone; what is published is what was edited |
| Bank programs (`bank-programs/`) | `bank_program` with a version, `audit_event` | create, duplicate, update, toggle, delete | checks, compare-and-swap and audit event in separate statements | a save replaces the row it was checked on; a program reads the proof its name states; a complete and true audit trail |
| Platform enumerations (`platform-enumerations/`) | `platform_enumeration` rows, an in-process cache of each list, the options that mirror a list | edit names and products, edit a list, read it | a read that began before an edit fills the cache after it; a synchronisation that fails | a name states one proof; a mirrored question keeps two answers; the next write heals |
| Matching engine | none (pure) | evaluate | nested rules, boundaries | planned, as operators |
| Calculator | none (pure) | amortise | floating point, which TLC has not | out of reach but for the rounding |
| Saved offers, onboarding, support | small tables | CRUD | ordering of screens | planned (ordering) |
| Audit, telemetry, sign-in attempts | append-only rows | append | nothing reads them to decide | not modelled |
| Controllers, DTOs, wiring, health, configuration, deployment | none of their own | adapt | - | not modelled |
| Admin console, mobile app | tokens on the device | silent refresh | a refresh queue | planned, as clients |

Interaction is by shared rows and keys: `PATCH /users/:id` and the password endpoints
write `staff_account` and `refresh_token`; login and refresh write the same two
tables; the guards read only the JWT. The sign-in services call the lockout before
they read the account and after they compare the password. `customer-auth-mobile`
consumes a code, which `customer-otp` issued, for a token, which its sign-up consumes.
Bank programs read the proof of the name they are filed under, which is the name's own or
that of the product it links to, and an edit of a name or a product looks at the programs
that read it. A list of platform values is copied into the options of the question that mirrors
it, through a cache that every reader fills; the questionnaire is published again when they
change.
Documents and the Google import share the photo pointer. The rate-limit guard runs
before the controller of the submissions.

## 2. How the code becomes a model

* A request is a process, an element of `Reqs` with a record `req[r]`: `pc` names the
  await it is suspended at, the other fields are the local variables it will still use.
  Everything between two awaits that touch shared state is one step.
* A database statement, or a transaction whose isolation hides its middle, is one
  step. Where isolation does not hide it, it is several:
  `runSerializable` (`infra/prisma/prisma.service.ts`) reads at one step (`UpdateBegin`)
  and commits at another; a transaction that another commit has made impossible is
  `touched`, aborts, and is tried once more on a new snapshot. Prisma's default, READ
  COMMITTED, scans at one step (`PasswordScan`) and writes at another, with the account
  row locked in between.
* PostgreSQL's serializable snapshot isolation is modelled as what it promises: of two
  transactions that each changed the set the other counted, one is doomed (`Conflicting`,
  `MovesFloor`), and it may doom more (`\E doomed \in SUBSET InTx`). It is the one piece of
  external behaviour that `SuperAdminFloor` rests on. The mutant
  `MayCommitReadCommitted`, which runs the transaction at the default level, breaks the floor and
  lets sessions outlive a deactivation.
* Redis commands are one step each, but for a trim, which is one step with the ZCARD (staff) or
  EXPIRE (customer) that follows it: it takes away what no count looks at. Time is a `Tick` that
  ages everything and lets keys expire; durations are counted in ticks, and what matters of them is
  their order.
* Data are model values: an e-mail, a hash, a code or a file is told apart from another
  and nothing else. A guess at a code is right or wrong by choice. Staff roles other than
  super_admin are one role, `"staff"`: no modelled decision tells them apart.
* A process death, a failed statement and a lost Redis command are one action of a request (`Crash`;
  `Fail` in `OtpSends` and `ProfilePhoto`) that drops it at any await; the stores keep what was
  written. In `MirroredList` only the synchronisation fails (`Fail`). A restart of the server is the seeder's write (`BootCreate`,
  `BootReset`) together with any number of crashes.

## 3. Modules

`SessionFamily` is the abstract promise of both token services: a session is absent,
open or ended, and an ended one never opens again. `StaffSessions` and
`CustomerCredentials` implement it; the mapping sends a rotation chain, named by its
first token (`fam`), to one session, so that a rotation is a stutter.

`StaffSessions` has every endpoint of `auth` and `users` that changes state:

| Code | Actions |
|---|---|
| `auth.service.ts` login | `LoginRead` (row and password), `LoginStamp` (updateLastLogin), `Issue` |
| refresh, `refresh-token.repository.ts` rotate | `RefreshLookup`, `Rotate` or `RotateLost` (guarded updateMany), `RefreshCheck` |
| logout | `LogoutLookup`, `LogoutRevoke` |
| `users.service.ts` update, `staff-account.repository.ts` updateRoleOrActiveTx | `UpdateBegin`, `UpdateCommit`, `UpdateRefused`, `UpdateAborted`; the name, a statement of its own, is `RenameBegin`, `Rename` |
| resetPassword, changePassword | `ResetBegin`, `ChangeBegin`, `PasswordScan`, `ResetCommit`, `ChangeCommit`, `ChangeFresh` |
| create, the seeders | `CreateAccount`, `BootCreate`, `BootReset` |
| lifetimes | `AccessExpires`, `TokenExpires` |

`StaffLockout` and `CustomerLockout` are one account's failures by age, and what is left of the
life of each key (`keep`, `lock`). Staff count before they add and have no lock of their own
(`CountFailure`, `AddFailure`, `Expire`); customers add, trim, count and set a lock that lasts
longer than the window (`AddFailure`, `Trim`, `CountFailures`, `SetLock`). Nothing in the code
resumes what is cut off between two of these, so `Crash` leaves a failure without its expiry, or
the limit without its lock; the history variable `lost` of `CustomerLockout` counts the requests
that died after they had stored a failure and before they acted on the count. `PhoneVerification` follows a phone number from a code to
an account, both by sign-up (code, token, account) and by binding (code, account).
`OtpSends` is the same service's four limits against a clock. `CustomerCredentials` is
one customer's password, active flag, refresh tokens and reset tokens; the transaction of a
deactivation keeps the account row locked (`RowLocked`) until it commits. `ProfilePhoto` is one
customer's pointer and the bucket; `Retries` says whether a client may confirm the same
key again. `RateLimit` is one bucket of the guard. `Applications` is one customer's
applications, with the guard's counter as a bound on submissions (`HourEnds` resets it).

`Questionnaire` is the pool of questions and groups and the versions frozen from it. An edit is
a request that goes through its guards (`OpenCreate`, `OpenUpdate`, `OpenDelete`, `OpenReorder`,
`OpenGroup`), the contract on what it would leave behind (`Contract`), its write (`Write`), and
then publishes: `ReadGroups`, `ReadQuestions`, `Number`, and the two statements of
`publishVersion`, `Begin` and `Insert`. Only the unique version number separates two of
them (`NumberTaken`). `Rollback` activates an old version (`Begin`, `Activate`); the pool stays
as it is. `Patches`, `GroupPatches`, `Restorable` and `Crashes` choose what an instance tries.
`Locked` is the engine's fixed input codes (`ENGINE_INPUT_QUESTION_CODES`). The locks on questions that
a platform fact is bound to or a live bank program reads (`engine-contract.ts:530`, `:536`) are worked
out anew from facts and programs at each edit, and neither they nor the rest of the contract are
modelled: they only refuse edits, and `Refuse` is always possible, so that every property holds whatever they refuse.
`EngineInputsServed` accordingly speaks of the fixed inputs.

`BankPrograms` is the programs and what they read of the catalog. `StartCreate`,
`StartDuplicate`, `StartUpdate`, `StartToggle` and `StartDelete` are the endpoints up to their first
check; `CheckNameFree` is assertNameFreeAtBank, `CheckProof` assertIncomeProofMatchesName,
`CheckActivatable` assertActivatable. `Insert` writes a new row and its event in one
transaction. `Save` is the compare-and-swap on the version, `Delete` the deletion; both run on a
connection of their own inside the transaction that inserts the event, so that the event
is a step of its own (`Audit`), refused by its foreign key when the program is gone. The names
and products are edited by `StartRule`, `StartProductRule`, `StartLink`, `CheckInUse` and
`WriteCatalog`. `lost` is a history variable: events that a crash or a deletion lost.

`MirroredList` is one list of platform values, the cache of its live values and the options of the
question that mirrors it. A read that misses the cache queries (`StartFill`) and stores
(`FinishFill`); an edit surveys what would remain (`Survey`, `Surveyed`), writes, invalidates,
reads again and synchronises the options (`Write`, `Invalidate`, `ReadOptions`, `Sync`), or fails
before that (`Fail`).

Two modules compose. `Limits` puts the four modules with a clock side by side, each with its own
variables and its own fairness: none reads another's keys, so a behaviour moves one of them
(`which`). `Catalog` puts `BankPrograms` beside `MirroredList` in the same way (`side`).
What a behaviour of `BankPrograms` may meet, requests that overlap, crashes, programs saved without a
`bankId`, programs retyped, names in use linked anew (`Incidents`), is the rigid variable
`world`, one of the constant `Worlds`: what is claimed of some worlds only says of which.

`MCQuestionnaire` puts two instances into one run, one admin with everything or two that race.
The other `MC*` modules only add bounds, symmetry sets and named values; `*_proofs` modules hold the theorems. Definitions called "Mutant of X" are plausible
bugs in X: substituted for X, each makes a property of a run fail, which shows that the
property depends on X.

## 4. Runs

| Run | Instance | Shows |
|---|---|---|
| `StaffFloor` | 2 accounts, one of them seeded, 2 tokens, 2 requests; create, update, rename, expiry, crash, restart | `SuperAdminFloor`: racing demotions and deactivations, also by actors whose own demotion has committed, leave an active super_admin |
| `StaffSessions` | 2 accounts, 3 tokens, 2 requests, 2 hashes; every other endpoint | `RotationIsLinear`, `SessionsNeverResume`, `DeactivationEndsSessions`, and the proofs' `IInv` |
| `StaffResetRace` | 2 requests, 3 tokens | violated: `PasswordChangeRevokesAll`; a login, its password compared before the reset, inserts its token between the scan of the revoking UPDATE and the commit |
| `PhoneAccounts` | 2 phones, 2 customers, 2 codes, 2 tokens, 2 requests, 2 attempts | `PhonesAreVerified`, `SpentTokenMadeAccount`, `GuessesBounded`, and the proofs' `IInv` |
| `CustomerSessions` | 3 tokens, 2 passwords, 1 reset token, 2 requests; activation and deactivation | `RotationIsLinear`, `SessionsNeverResume`, `IInv` |
| `CustomerResetTwice` | 1 reset token, 2 requests | violated: `ResetTokenIsSingleUse` |
| `PhotoRaces` | 4 keys, 3 requests, each key confirmed once | `PhotoIsPresent`, `IInv` |
| `ApplicationRaces` | 2 applications, 2 offers, 1 key, 2 requests, 2 lead statuses | `AnswersAgree`, `OfferChosenOnce`, `IInv` |
| `Limits` | each limit in turn: the staff lockout with 3 requests, threshold 3 and a window of 2 ticks; the customer's with 3 requests, limit 2, a window of 1, a lock of 2 and one lost request at a time; the bucket with 3 requests, limit 2, window 2; codes with 2 requests, cooldown 1, active window 2, hour 3, day 4, limits 1, 2, 3 | `StaffOvershootBounded`, `CustomerFailuresBounded`, `TwiceTheLimit`, `SendsBounded`: no race overshoots by more than the requests in flight (twice, over a rolling window; for the customer also by the requests that were lost); `StaffLockoutEnds`, `CustomerLockEnds`, `WindowEnds`, `SendingResumes`: whoever is refused is let in again |
| `Questionnaire` | one admin, 2 questions (one locked by the engine), 2 groups that stay open, 3 versions, rollbacks to 1 and 2; or two admins, 1 question, 1 group that opens and closes, 4 versions, crashes | `FixedRulesHold`, `EngineInputsServed`, `LastOutPublishesInTurn` (one admin); `OneActive`, `NeverUnserved` (both) |
| `Catalog` | two admins race over 1 program, 1 name, 1 product, 2 proofs, with crashes; or take turns over 2 programs, 2 names; or 2 admins and a reader work on a list of 3 values that needs 2 | `DecidedOnTheRowReplaced`, `TrailComplete`, `NoPhantomEvent` (all); `LiveReadsItsProof`, `OneProgramPerName`, `NoFork` (in turn); `AtLeastTwoAnswers`, `NextWriteHeals` (list) |
| `ProgramRetyped` | the admins who take turns, one of whom retypes a program | violated: `QuotesItsProof` |

Bounds. Every race in this code is between two requests, and a third adds only the count
of those in flight, which the bounded-overshoot properties state; the limits therefore run
with three requests where that is affordable. Three tokens are what a fork needs (one rotated
twice). Two accounts are what a write skew needs, two programs and two names what a program
that is moved needs; a third, or more of anything, is what the proofs are for. Windows are
two to four ticks, so that an entry can be young, old or gone, and the windows of `OtpSends`
keep the order of the code's (code < active window < hour < day). `MaxSame`, `MaxCount` and
`MaxDelay` cap what is counted per tick, the counter above its limit, and how long a
request may be at work; values above the caps are never told apart by a guard, but for
`MaxDelay`, which is an assumption: a request ends within one tick, that is within a
fraction of the shortest window (of a customer's sign-in, only from the clock it reads to its count).
`MaxLost` caps the lost requests that `CustomerFailuresBounded` counts: one leaves the limit
without a lock, and the bound without `lost` then fails. `MaxVersion` bounds the versions of a questionnaire (four are
two races, one after the other) and of a program (two are a save that another has overtaken, which
the compare-and-swap tells by equality alone), and `MaxOrder` the places of a question (two: before
or after). Three values of a list, of which two must stay, are one retirement allowed and one
refused. Symmetry is used only over ids that the specification treats alike, and never
together with a liveness property.

Deadlock is checked except where a finite supply of rows or versions (tokens, codes, keys,
applications, programs) is used up and the instance rightly stops.

Taking turns. What `LiveReadsItsProof`, `OneProgramPerName`, `NoFork` and `LastOutPublishesInTurn`
say is false when two admins race (section 6): the code checks and writes in separate
statements. What is claimed is that no sequence of requests of admins who wait for each other breaks
it, however long; each names in its statement the incidents of `world` it is claimed without, those of
section 6 included. `EngineInputsServed` is claimed of one admin whose requests do not die
between the write and the publication, and who closes no group.

Fairness. Safety needs none and most modules state none. `WF_vars(Tick)` says that time passes;
the clients are never fair, they may stop or press for ever. `StaffLockoutEnds` needs nothing
else. The codes and the bucket also say that a request which has begun to write ends (`Work`,
`Finish`), in the bucket unless it dies, and the customer lockout that while failures are being
recorded one or another recording goes on (`Record`) or dies: the event loop resumes every await, and
the clients of Redis and PostgreSQL answer or fail.

## 5. Proofs

Everything below is for any number of accounts, tokens, requests, keys, applications, clients,
questions and programs, and any value of the limits and windows. Every safety invariant that a
passing run checks is a theorem, and every action property but one (below).

`StaffSessions_proofs`. `IInv` is inductive (`Inductive`, from `InitIInv` and `NextIInv`, one
lemma per group of actions). It says, besides the shape of the tables:
* chains are well formed: the predecessor of a token is revoked, of its user and of its
  chain, and a chain has one unrevoked token at most. That is `RotationIsLinear`, and it
  is inductive because `Rotate` revokes the predecessor in the step that adds the
  successor, guarded by the predecessor still being unrevoked;
* what a snapshot is still good for (`SeenOK`): a transaction that is not `touched` and
  changes the set it counts has nobody in that set who has left it. A commit that takes
  somebody out dooms all others that change the set, so the one that commits counted a
  set that is still there, and the floor it checked is the floor it leaves
  (`FloorHolds`). `SuperAdminFloor` alone is not inductive: nothing in it forbids a
  transaction that counted somebody who has gone;
* every token of such a snapshot is still unrevoked, since rotation and sign-out doom
  the transactions that read it. With linear chains, a chain that has one of them has no
  other unrevoked token, so revoking the snapshot ends the chain
  (`DeactivationIsComplete`).

`ImplementsSessionFamily` shows that each step is, through the mapping, a step of
`SessionFamily` or a stutter.

`ProfilePhoto_proofs`, for clients that confirm each key once (`Retries = FALSE`): a key a request
is about to publish is its own (`PendingKeysAreOwn`), so that nobody else can have read it
as superseded, and the object under the pointer is never the one reaped (`PhotoStays`).
With `Retries = TRUE` this fails (section 6).

`Applications_proofs`: a key names one row (UNIQUE), answers name the row of their key
(`OneAnswerPerKey`); a transaction that has read a choice-free row and is not `touched`
commits onto a choice-free row (`ChoiceIsFinal`).

`CustomerCredentials_proofs`: as for staff, without the snapshots: the statements that
revoke a customer's tokens are READ COMMITTED, and what they leave behind is in section 6. `IInv`
is the shape of the chains with `RotationIsLinear`, which needs the predecessors to be revoked
(`TokensOK`) and every rotation in flight to hold an issued token (`RequestOK`). An issued token
is nobody's root or predecessor (`FreeTokenIsNew`); with that, `ImplementsSessionFamily`
maps `Issue` to `Open`, every revocation to `End` and a rotation to a stutter. The active flag, the
passwords and the reset tokens do not matter to it, and no step order is assumed of them.

`PhoneVerification_proofs`: no step takes back what a consumed code says (`OtpKept`), so that
whatever rests on one goes on resting on it (`OthersFine`, `CodesWritten`). `RequestOK` says on
what each await rests: a token about to be issued on a code for its phone, a binding on the
code that its own account asked for, a sign-up on its token. `PhonesAreVerified` alone says nothing of
requests in flight and is not inductive. That an account which binds is never one that
signed up by phone (`RowsOK`, path `"SOCIAL"`) keeps `SpentTokenMadeAccount`: a binding never
overwrites a signed-up phone. `GuessesBounded` is inductive given `IInv`: a comparison begins with an
attempt left, and each wrong guess takes an attempt and one comparison in flight together.

`Questionnaire_proofs`, for any number of questions, groups, admins and versions. `Versions`
says that version numbers are contiguous from 1, that a request about to insert holds a number
at most one above them, and that some version is active: `AlwaysServed`, because a statement
that switches off what it saw is committed only together with a version switched on. For
`ExactlyOneActive`, without rollbacks, `Single` adds what nobody locks but the unique number
keeps: a publish whose number is still free has seen every version that is active.
`OneAdminKeepsRules`, for a single admin: what the contract judged is what `Write` leaves
behind, since no other request can change the pool in between (`Fixed` carries the judgement from
one to the other); a reorder or an edit of a group does not touch marks, switches or gates.

`EngineIsServed` and `OneAdminPublishesThePool`, for a single admin: `Sound` says what the request
knows at each await: the edit that was judged leaves every question in an open group (`Homely`,
`Tidy`), what was read is still the pool, and the version to be brought back passed the locks, so
that it asks what the engine reads (`LockedServes`). A question that is on is in an open group
(`AtHome`), which is why freezing the active groups loses none of them (`FrozenServes`); this is where
the hypothesis that no group is closed is used, and a request that dies between its write and its
publication is the reason for the other. `OneAdminPublishesThePool` needs neither.

`Limits_proofs`, for any limits, windows, bounds and number of clients. What happened in a window is a
sum over ages, so the proofs begin with facts about `SumFunctionOnSet` over finite sets: a sum
without one element, of a larger or a raised function, of two functions, and of ages that a tick
has moved on (`SumAged`). The library's induction theorems take an operator; the one induction
these need, on cardinality, is made of the minimum of a well-founded relation instead
(`LeastNatural`, `InductionOnNat`), with the property as a set. `LimitsInv` is inductive:
* `StaffOvershootBounded` and `SendsBounded` with the types: who is about to write is already
  counted in them, so that the write moves one from one side of the sum to the other;
* for the customer, `CustomerLockInv`: the failures that the lock was not set after (all, when there
  is none) are below the limit but for the requests that have yet to act on the count and the `lost`
  that never will, since a lock that stands outlasts every failure of its window that it was set
  after. `CustomerFailuresBounded` alone says nothing of the lock that keeps the rest out;
* for the bucket, `TwoCounters`: what a window admitted is what two counters admitted, each within
  the limit with those about to pass it (`Split`). The older counter's requests are those that were late
  when the new one began; its admissions have left the window by the time a third can begin.
  `TwiceTheLimit` follows (`SplitBounds`) and by itself is not inductive.

`Catalog_proofs`, for any number of programs, names, admins, versions and any set of worlds.
`ProgramsApart` says that the programs beside the list behave as they do alone. `Shape` is the
types with what each step may rely on of its request (`Fit`). `History` says what a version number is
worth: a row that a request has read and that has not moved on in version has not changed at all
(`Current`), and an id that is gone never comes back (`Gone`, `Born`). Hence the row a
compare-and-swap matches is the row that was checked (`SavesAreCurrent`): without `Gone`, a row created
anew at the same version would match. `TrailIsComplete` counts the events stored, on
their way, and lost (`Told`); it needs that a save matches at the version it will tell of.
`NoPhantoms` needs both: an event is told after its write, of a version the row has reached.

`TurnInv` is for admins who take turns, in three parts, each for the worlds it needs. `InTurn`: what a
request has read is still so until it writes (`Knows`), hence `NoNameForks`. `InPlace`: a name found free at
the bank is still free at the write (`NameFree`), and since every program has the bank's own id, the search
by id finds what the search by name would, hence `NamesAreSoldOnce`. `Quoting`: what is to
quote has been found to read the proof of its name, and a proof about to change is read by nobody
(`ProofKept`), hence `LiveProgramsReadTheirProof`. A program that is off is judged when it is switched on,
not when it is saved, so `QuotesItsProof` alone is not inductive.

For the list, `Alone` says what a request
knows that nothing has overlapped: from its invalidation on the cache is empty, so it reads
the values themselves, and they are still so when it writes the options (`WritesHeal`). `Kept`, as
long as nothing has overlapped, says that an entry of the cache is the live values except
between a write and its invalidation, and that what an admin is about to retire leaves enough
(`AnswersStay`); a failed synchronisation leaves older options, which were enough.

Assumptions. Only those of the modules, on the constants: the "no such" values are not
members of the sets, there are attempts, passwords and (finitely many) requests. They hold
of the code by construction.

`EngineIsServed`, `OneAdminKeepsRules`, `OneAdminPublishesThePool`, `ExactlyOneActive` and `PhotoStays`
state theirs (one admin, no crash, no group closed, no rollback, one confirmation of a key); section
6 says what happens without each.

Only model-checked: the four liveness properties of `Limits` (TLAPS proves neither fairness arguments nor
`ENABLED`), and `LastOutPublishesInTurn`, which is `OneAdminPublishesThePool` in the instance where
one of two admins is idle. No module declares a recursive operator; sums over ages are folds.

## 6. Known divergences

The code does not keep everything its documents and comments say. Three cases are runs
that must fail, `StaffResetRace`, `CustomerResetTwice` and `ProgramRetyped` (`PROJECT.json`,
findings). The properties below are equally false; each is stated in the module named, and
becomes visible when it is put into a configuration of that module.

| Module | Property | What happens |
|---|---|---|
| `StaffSessions` | `InactiveHasNoToken` | login issues a token after the account was deactivated (`auth.service.ts:126`) |
| `StaffSessions` | `SignOutEndsSession` | a refresh rotates between logout's lookup and its revoke (`refresh-token.service.ts:120`) |
| `StaffSessions` | `ForcedFlagOutlivesPlainChange` | a plain change in flight, or a restart, clears the flag a reset has set (`staff-account.repository.ts:277`, `admin-seeder.service.ts:38`) |
| `StaffLockout` | `ClearsAfterLastFailure` | the lockout clears with the oldest failure of the window, not the last |
| `StaffLockout`, `CustomerLockout` | `ActiveLockoutSurvivesSuccess`, `LockRunsOut` | a sign-in admitted before the lockout clears it |
| `CustomerLockout` | `FailuresBounded` without `lost` | the SET of the lock is lost, or the process dies before it: the limit is reached and every sign-in is still admitted, until the next failure sets the lock (`customer-login-lockout.service.ts:45`) |
| `PhoneVerification` | `MobileIsImmutable` | two verifications bind two phones, one over the other (`customer-account.repository.ts:332`) |
| `CustomerCredentials` | `ChangeProvesPassword` | a change overwrites the password a reset has set since the old one was verified |
| `CustomerCredentials` | `OtherSessionsEnd` | a rotation in between, or a crash after the password's transaction, leaves sessions alive |
| `CustomerCredentials` | `DeactivationKillsSessions` | a refresh rotates between the scan of a deactivation and its commit: the session is back when the account is activated again (`admin-customer-accounts.service.ts:51`) |
| `CustomerCredentials` | `ChangeKeepsDeviceSignedIn` | a change revokes the tokens of its own device and returns none |
| `ProfilePhoto` | `ReapsOnlySuperseded` | a confirm sent again takes the pointer back to a key that is then reaped |
| `ProfilePhoto` | `NoOrphans` | two confirms read the same previous key; the loser's object is never reaped |
| `ProfilePhoto` | `UploadedPhotoKept` | an avatar import that began earlier replaces an upload |
| `OtpSends` | `HourlyLimit`, `CooldownKept` | requests that count together exceed the limits, by what `SendsBounded` allows |
| `OtpSends` | `RefusedForActiveCodes` | expired codes count as active for the rest of the window |
| `RateLimit` | `RollingLimit` | two fixed windows meet in one rolling hour, up to `TwiceTheLimit` |
| `RateLimit` | `CounterExpires` | a crash between INCR and EXPIRE leaves a counter for ever, the exception in `WindowEnds` |
| `Applications` | `MismatchRefused` | the controller passes no payload hash, so another body gets the first one's answer |
| `Applications` | `RetryAnswered` | a retry while the first submission is at work fails on UNIQUE |
| `Applications` | `ReplaysAreFree` | the guard counts before the key is looked up |
| `Applications` | `AuditIsAChange` | two equal changes write two audit rows |
| `Questionnaire` | `OneActive`, with rollbacks | a publish and a rollback that saw the same active version leave two (`schema.prisma:1810`) |
| `Questionnaire` | `LastOutPublishesThePool`, two admins | a publish that read the pool before another's edit is numbered after it: the edit is in the pool and not in what is served (`questionnaire.service.ts:1036`) |
| `Questionnaire` | `FixedRulesHold`, two admins | each edit is legal on the pool it was judged on, both together are not (`engine-contract.service.ts:121`) |
| `Questionnaire` | `NoGateCycle` | reorders, which look at no gate, let two questions be shown after each other (`questionnaire.service.ts:868`) |
| `Questionnaire` | `FixedAreServed` | a fixed question in a group that is closed, or revived in vain by a create that is then refused, is in no version (`questionnaire.service.ts:264`, `:291`) |
| `BankPrograms` | `QuotesItsProof`, world `{"relink"}` | a name with live programs is linked or unlinked and states another proof (`platform-enumerations-admin.service.ts:1232`) |
| `BankPrograms` | `QuotesItsProof`, world `{"overlap"}` | a program is saved while the rule of its name changes: both checks pass |
| `BankPrograms` | the conclusion of `OneProgramPerName`, worlds `{"overlap"}`, `{"noBankId"}` | two creations race, for no index is unique, or one program has no `bankId` (`bank-programs.service.ts:785`) |
| `BankPrograms` | the conclusion of `NoFork`, world `{"overlap"}` | a rule and a link of one name race (`platform-enumerations-admin.service.ts:1250`) |
| `BankPrograms` | `lost = {}` | the event of a change is lost by a crash, or by a deletion in between (`bank-programs.service.ts:1607`) |
| `MirroredList` | `Cardinality(options) >= Least` | two racing retirements, or one judged on a stale entry, leave fewer than two answers (`postgres-platform-enumerations.repository.ts:2131`) |

## 7. Not modelled, and what could be

Parts left out of modelled components are named in the notes of `PROJECT.json`. Of the rest:

1. Customer profile: completion, unique e-mail, social sessions, and the identity and income
   documents of `documents.service.ts`. Next in order: it shares the two stores of `ProfilePhoto`.
2. The matching engine and the calculator are pure. The rule evaluation could be stated as
   operators over bounded inputs; the calculator is floating point, which TLC has not.
3. The figures of a program (rates, terms, tables) and the fan-out of a product's defaults: wide
   data without concurrency beyond what `DecidedOnTheRowReplaced` covers.
4. Saved offers, onboarding, support: single-statement edits of small tables.
5. The console and the mobile app, half of the repository's lines, are user interfaces; their
   refresh queues could be clients of the two session modules.
6. Controllers, DTOs, wiring, logging, telemetry, seeds, configuration, deployment: no state of
   their own that a decision reads.
