# stitches-stories-backend in TLA+

The program is a NestJS HTTP server.  PostgreSQL holds users, authentication
sessions and the security audit; Redis holds verification codes, counters and
buffered activity.  Several requests, a job that runs every minute and two that
run every day use both stores at the same time, and any of them can stop half
way.  The specifications here model that concurrency: what a statement sees,
what a row lock protects, in which order Redis calls take effect.

## The system and its parts

| Part | State | Operations | Talks to |
| --- | --- | --- | --- |
| Authentication sessions (`auth.service.ts`, `session-token.service.ts`, the three strategies) | rows of `auth_session`: hash, expiry, revocation, reason | sign in, refresh, revoke one, revoke all, session limit | locks the user row to sign in, the session row to refresh |
| Session maintenance | the same rows | daily deletion of stale rows | row locks |
| Credential changes (`password-reset`, `password-change`, `email-change`) | password and email of the user row | confirm a change | verification codes, then sessions, in one transaction |
| Administration (`admin.service.ts`), own account (`users.service.ts`) | `is_blocked`, existence of the user row | block, unblock, delete | user row lock, sessions, activity |
| Session activity (`activity/`) | a Redis key per session; `last_used_at`, `last_activity_at` | stamp, flush, discard | row locks of sessions, then of users |
| Verification codes (`tokens.service.ts`, `registration.service.ts` and the three change services) | Redis: token per code, active code, attempts, resend reservation, lockout | request, resend, confirm, reject, status | mail, then the transaction of the change |
| Rate limits (login, per session, public, API), readiness | Redis counters | check, count, clear, ask for the TTL | in front of the handlers; the one Redis connection |
| Profile | user row | update of one's own fields | unique indexes |
| Transactions | pool of connections, row locks | take, wait, give back | PostgreSQL, Redis and the mail server while they hold both |
| Admin directory | none of its own | queries | |
| Security audit | append-only rows | record, clean up | fire and forget |
| Guards, configuration, errors, hashing, mail, logging, health, migrations | none that changes | | |

What is hard here, in the order of how much depends on it:

1. **READ COMMITTED and partial locking.**  A sign-in locks the user row but only
   reads the sessions; a refresh locks the session row and never the user row; an
   `UPDATE ... WHERE` takes its rows one at a time, waits for each, and looks at
   its condition again on a row that changed.
2. **Checks made before the transaction** (`is_blocked`, the password, the token's
   expiry) and used inside it.
3. **Two stores without a common commit**: a code is consumed in Redis before the
   change commits in PostgreSQL; a key is deleted after the batch has committed.
4. **Redis sequences that are not atomic**: read the active code, replace it,
   delete the old one; check a counter and increment it later; delete a key that
   may have a new owner.
5. **Overlapping runs** of the job that flushes activity, and slow mail.
6. **Waiting while holding**: a transaction that calls Redis, the mail server or
   the pool keeps its rows and its connection, and PostgreSQL, which resolves
   deadlocks, sees the rows only.
7. **A Redis that is away**: what was sent is rejected, executed or not; what is
   sent later waits.

What makes each part correct:

| Part | Must hold |
| --- | --- |
| Sessions | a refresh token is exchanged once; a revoked session never comes back and gets no token; a block, deletion or credential change that commits has reached every session there is, also those of sign-ins that overlap it; no row outlives its account; the number of active sessions stays within the limit; a request that fails leaves nothing |
| Session activity | the dates of rows and accounts never go back, whatever runs and refreshes overlap; a batch raises a session and its account together; a deleted key has been persisted; every key leaves the buffer |
| Verification codes | a code is accepted once, for its own subject; an earlier code is not accepted after a later one was delivered, nor one whose delivery failed; failed requests clean up after themselves only; failures are counted and limited; codes are not issued too often |
| Rate limits | no window admits more than its limit, however checks and counts interleave; a limiter that cannot reach Redis fails the way its caller expects; waiting as long as `retry_after` says, and half a second for its rounding, is enough; everything is answered |
| Account flows as a whole | addresses and nicknames stay unique; what was checked before a transaction (password, block, address) still holds when it commits, or the exception is known; an answer tells what happened; a refusal does not use a code up |
| Transactions | deadlocks only where the lock order is known to differ; everything ends, whatever waits for whom |

## Modules

| Module | Models | Checked by | Proved in |
| --- | --- | --- | --- |
| `Sessions` | sessions, the transactions that create, rotate and revoke them, the accounts they belong to | `MCSessions` | `SessionsProofs` |
| `SessionLedger` | the abstract specification of `Sessions`: no locks, requests or transactions | as a property of `MCSessionsRotation.cfg` and `MCSessionsAccounts.cfg` | `LedgerProofs` |
| `ActivityFlush` | the activity buffer and the job that empties it | `MCActivityFlush` | `ActivityProofs` |
| `VerificationCodes` | the five flows that issue and confirm codes | `MCVerificationCodes` | `CodesProofs` |
| `Accounts` | every request that changes an account, from the first query to the answer, over both stores | `MCAccounts` | `AccountsProofs` |
| `RateLimits` | the limiters in front of the handlers, their Redis commands, the connection to Redis, readiness | `MCRateLimits` | `RateLimitsProofs` |
| `RowLocks` | what every kind of transaction waits for: connections, rows, Redis | `MCRowLocks` | `RowLocksProofs` |

The same code appears in several modules, each with what its questions need.
The reset, for example: `VerificationCodes` has its code and its attempts,
`Sessions` its locks and revocations, `Accounts` its outcome and its answer,
`RowLocks` its waits.

Operators named "Fault: ..." in their comment are plausible bugs.  No
specification uses them; each is the replacement of the definition that follows
it, and shows that a property notices the bug.

### Sessions

State: the committed rows (`user`, `session`), the row locks (`userLock`,
`rowLock`), the requests in flight (`request`), the clock.  `issued`, `spent` and
`revived` are history: what clients hold, what was exchanged, what was rotated
after it had expired.

A transaction is a request that passes through the steps

    lockUser -> select -> update (once per row) -> commit

or, for a refresh, `lockRow -> decide -> commit`.  `Select` takes the snapshot of
an `UPDATE ... WHERE`, `VisitRow` waits for one row of it, looks at the condition
again as PostgreSQL does, and locks it; what the transaction writes appears at
its commit, in one step.  Reads that take no lock (`Admitted`, `Valid`,
`Active`, the snapshots) see committed rows only.

| Code | Actions |
| --- | --- |
| `LocalStrategy`, `AuthController.login`, `AuthService.createSession`, `enforceActiveSessionLimit` | `BeginLogin`, `LockUser`, `Select` with `Overflow`, `VisitRow`, `CommitSignIn` |
| `JwtRefreshStrategy`, `refreshJwtTokens` | `BeginRefresh`, `LockRow`, `Rotate` or `RevokeReused` |
| `logout`, `revokeSession` (owner, administrator) | `RevokeSession`: one autocommitted single-row `UPDATE`, so one step |
| `logoutAll`, `revokeAllSessions` | `BeginRevokeAll`, `Select`, `VisitRow`, `CommitRevokeAll`; the user row is not locked |
| `PasswordResetService.confirm`, `AuthController.resetPassword` | `BeginReset` ... `CommitReset`, then `BeginRecovery`: the controller reads the user, checks the block and the new password, and opens a session in a second transaction |
| `PasswordChangeService`, `EmailChangeService` (their transactions) | `BeginChange` ... `CommitChange` |
| `AdminService.blockUserById`, `unblockUserById` | `BeginBlock` ... `CommitBlock`, `Unblock` |
| `deleteUserById`, `deleteCurrentUser` | `BeginDelete` ... `CommitDelete`, with the cascade to `auth_session` |
| `SessionMaintenanceService.cleanup` | `Cleanup`, one row at a time under its lock |
| every error path, deadlock victim, lost connection or crash | `Abort` |

Abstractions.  A refresh token is the pair of its session and its generation,
which stands for the hash: two tokens are equal when both agree.  A credential is
the number of changes made so far.  Passwords, addresses, user agents, device
names and the reasons of a password or an email change, which only differ in
wording, are left out.  The expiry of a new token is computed at its commit: in
the code generating, saving and committing follow each other with no wait in
between.  `created_at` is the start of the transaction, as `now()` is in
PostgreSQL, so sessions may appear out of the order of their dates.  The foreign
key of `auth_session` deletes rows with their account and is not asked when a row
is inserted: that the account is there then is what the user lock is for, and
`NoOrphans` shows it.

### SessionLedger

A session is unused, open, closed or purged; `Open`, `Exchange`, `Close`, `Purge`
are one step each, and a token is exchanged while its session is open and at most
once.  `Ledger` in `Sessions` maps the rows to phases and `spent` to `exchanged`;
locks, snapshots and requests disappear.

### ActivityFlush

State: the buffer in Redis (a date per session, 0 for no key), `last_used_at` and
`last_activity_at`, the row locks, the runs of the job (`flush`), the accounts that
are closed.  `recorded` and `since` are history.

| Code | Actions |
| --- | --- |
| `ActivityInterceptor`, `setSessionActivity` | `Record` |
| `refreshJwtTokens`, which writes `last_used_at` too | `LockForRefresh`, `CommitRefresh` |
| `flush`, `scanSessionActivities` (pages with duplicates, `MGET` per page) | `BeginFlush`, `ScanPage`, `EndScan` |
| `flushBatch`: `updateSessions` with `GREATEST`, `updateUsers`, commit, `deleteKeys` | `BeginBatch`, `VisitSession`, `EndSessions`, `VisitUser`, `CommitBatch`, `DeleteKeys`, `EndFlush` |
| the `catch` of a batch and of a run | `Fail` |
| blocking and deleting accounts, `deleteUserActivities`, cascade and clean-up of rows | `Close`, `Discard`, `Remove` |
| `EX` of the keys | `Expire` |

All calls of the process share one Redis connection, so a call takes effect in
the order in which it was issued.  `Close` is for good: an unblocked account
would only stamp again.

### VerificationCodes

State: the token under each code, the active code, counter, reservation and
lockout of each subject, the row locks of accounts, the requests for a code
(`issue`) and the confirmations.  Which flow the keys belong to is chosen in the
initial state; flows share no keys.  `spent`, `before`, `reserved` and `late` are history.

The five flows are the three that lock a subject out after five failures (`registration`,
`reset`, `emailChange`) and the two ways of the account settings to a password
(`currentReset`, which mails, and `passwordChange`, which returns the code to the
client).  They share the operations of `TokensService` and differ in which step
comes first (`SavesFirst`), what is checked (`LocksOut`, `Mails`, `MayDiffer`) and
how a failure is cleaned up (`Discard` and `Compare`, or `FindActive` and
`DiscardActive`).

| Code | Actions |
| --- | --- |
| `reserveVerificationCodeRequest`, `releaseVerificationCodeRequest` | `Reserve`, `Release` |
| `saveVerificationToken`, `getRegistrationCode`, `replaceActiveUserCode` | `SaveToken`, `ReadPrevious`, `Activate`, `DropPrevious` |
| delivery, its success and its failure | `Deliver`, `ClearFailures`; `Throw`, then the clean-up of the flow, any part of which may fail (`GiveUp`) |
| notices to addresses without or with an account | `SendNotice` |
| `confirm`: lockout, attempts, look-up, `SELECT ... FOR UPDATE`, `CONSUME_ACTIVE_TOKEN_SCRIPT`, commit | `BeginConfirm`, `CheckAttempts`, `LookUp`, `LockUser`, `Consume` or `RefuseCode`, `Commit`, `ClearAttempts`, `Unlock` |
| `rejectInvalidCode` | `Count`, `Remaining`, `Invalidate`, `LockOut` |
| `EmailChangeService.getStatus` | `Status` |
| expiry | `ExpireToken` and the four others |

A step is one Redis call, or one script.  Keys hold the request that wrote them,
so that the properties can tell two issues of one code apart; the program is only
ever shown their code.  Keys expire at any time, with two exceptions that follow
from the durations: a token does not expire in the few calls between saving it
and mailing its code, and an active key outlives its token, which was written
before it with the same `EX`.  Whether an account exists is a choice
(`SendNotice`, `Fail`).  Addresses are no data here: a confirmation of an email
change that finds the token of another request than the one it looked up may find
the same address in it, and goes on, or a different one, and refuses it
(`MayDiffer`).

### Accounts

State: the committed rows, who has locked them, the requests, the sessions and
the live codes.  All requests are in flight from the beginning, past their
guards and the attempt counters.  Each follows a `Script` of steps, one per call
of a store, and may fail at every step (`Fail`); the reply of the call that
consumes a code may be lost (`LoseReply`).

| Code | Script |
| --- | --- |
| `RegistrationService.confirm`, then `login` | consume the code, `Draw` a nickname, `Claim` address and nickname (`INSERT`), commit, clear, revoke, open a session |
| `PasswordResetService.confirm`, then `AuthController.resetPassword` | `LookUp`, lock, consume, commit, clear, compare the new password, open a session |
| `confirm` and `confirmReset` of `PasswordChangeService` | `LookUp`, lock, consume, commit |
| `EmailChangeService.confirm` | `LookUp`, lock, `CheckTaken`, consume, `Claim`, commit |
| `updatePartialUserData` | `Claim`, commit; `RollBackTwice` when there is no row |
| `deleteCurrentUser` | compare, `DELETE`, commit |
| `blockUserById`, `deleteUserById` | `VerifyAdministrator` under a lock, lock, commit, mail |
| `unblockUser`, `unblockUserById` | `VerifyOutside`, lock, commit, mail |
| `validateUserByEmailAndPassword`, `loginNewSession` | compare, open a session |

A write that nobody can see or wait for before the commit is a part of the
commit.  An `INSERT` or `UPDATE` of a unique value is not: it waits for every
uncommitted row that clashes or stops to clash (`Undecided`), as the indexes do.
Answers are `ok`, `refused` (4xx), `invalid` (401 for the code) and `error` (500);
calls whose failure the code ignores have no step.  Left out: the expiry of codes
(in `VerificationCodes`), the session limit (in `Sessions`), a `COMMIT` whose
answer is lost, which no handler can tell from a failure.

### RateLimits

State: the counters in Redis with their expiry, the connection, the requests.
A request passes through stages: the general limiter, the one of `/api/auth`,
and the limiter of its endpoint; a login checks two counters, compares the
password and counts or clears.  `window`, `seen` and `admitted` are history.

| Code | Actions |
| --- | --- |
| `ApiRateLimitGuard`, `PublicVerificationRateLimitService`, `SessionRateLimitService` | `Begin`, `Pass`, `AskTtl`, `Refuse`, `LimiterFails` with `FailsOpen` and `StatusOf` |
| `LocalStrategy.validate`, `LoginRateLimitService` | `Allow`, `Compare`, `Cleared`, `Throw`, and `AskTtl`, `Refuse` again |
| `HealthController.ready` | `Ready`, `LimiterFails` |
| `incrWithExpire` and its script, `get`, `ttl`, `del`, `ping` | `Execute` |
| the socket breaks; `reconnectStrategy` | `Disconnect`, `Reconnect` |
| expiry | `Tick` |

Commands of one `Promise.all` are in flight together.  `Disconnect` rejects what
is in flight; Redis may have executed one of the commands, or may have restarted
without the counters, for which `docker-compose.yml` names neither a volume nor a
log.
Commands that are sent while the client is disconnected wait: node-redis 4 queues
them unless `disableOfflineQueue` is set.  A continuation runs before the next
event (`Quiet`), as the event loop does.  The clock counts ticks, `Second` of them in
a second.  Redis counts milliseconds and answers `TTL` in seconds, to the nearest
(`Rounded`): a key that lasts 10.4 seconds more is answered 10, one that lasts 0.4
is answered 0, which `getRetryAfter` takes for no key.  So `RetryAfterIsEnough`
promises a client that waits half a second longer than it was told that the
windows that refused it are over.  It does not hold without that half second: TLC
finds a client that waited as told and a window that is not over.
Not modelled: a single command that Redis answers with an error, and more than
one executed command among those an outage rejects.

### RowLocks

State: for each transaction the needs that are left of its plan, the connections
it keeps, the row it waits for; the holder of each row; whether Redis is there.
`PlanOf` is the plan of each kind of transaction, read off the code in the order
of its calls; a set of rows is locked in any order.  `Connect` takes a connection
of the pool, `VisitRow` and `Granted` lock rows, `CallRedis`, `SendMail` and
`QueryElsewhere` (a repository's query, on another connection) are made while all
of that is held, `CommitFirst` gives the rows back and `Commit` or `Fail` the
connection.  `Victim` is PostgreSQL's deadlock detection: it ends one transaction
of a cycle of waits for rows.

## Runs

| Run | Instance | What it shows |
| --- | --- | --- |
| `sessions_rotation` | 2 accounts, 2 sessions, 2 requests: sign in, refresh, log out everywhere; the clock passes an expiry | `TypeOK`; tokens are exchanged once (`RefreshAtMostOnce`), revocations are final (`RevocationIsFinal`) and keep their reason but for the session limit's (`ReasonIsKept`); the limit holds but for revived sessions (`ActiveLimitButRevived`); `ImplementsLedger` |
| `sessions_accounts` | 1 account, 3 sessions, 2 requests: sign in, refresh, reset, both changes, block, delete | `LockInv`, the inductive invariant; `ImplementsLedger` over the rest of the code; `NoOrphans`, `BlockRevokesAll`, `ChangeRevokesOthers` |
| `sessions_over_limit` | 1 account, 3 sessions | *violation* of `ActiveLimit` |
| `sessions_blocked_recovery` | 1 account, a reset and a block | *violation* of `RecoveryRefusesBlocked` |
| `activity_overlap` | 1 session, 2 runs of the job, 1 failure, 2 ticks, fairness | `TypeOK`, `ActivityInv`, `AccountFollowsSession`, `TimesNeverGoBack`, `OnlyRecentIsLost`, `BufferDrains` |
| `codes_confirms` | all flows, 1 request, 2 confirmations, 2 codes | `TypeOK`, `AttemptsAreLimited`, `CodeIsSpentOnce` |
| `codes_requests` | four flows, 2 requests, 1 confirmation, 2 codes | `CodesInv`, `FailedIsNeverSpent`, `LatestIsSpent`, `FailureSparesOthers`, `CooldownHolds` |
| `accounts` | any 3 of 19 requests; an administrator, an account, 2 ids to come | `TypeOK`, `AccountsAreDistinct`, `AnswersTellWhatHappened`, `RefusedKeepTheirCode`, `OutdatedWasLate`, `ProvenAtCommit` |
| `rates` | 2 requests of any of 5 kinds from one address, 1 outage, 1 tick, fairness | `TypeOK`, `LimitsHold`, `ComparedWereCounted`, `FailuresAreCounted`, `RequestsAreAnswered` |
| `rates_clock` | 2 requests, logins or public requests for a code; 3 ticks in a second, 6 ticks, no outage | `RetryAfterIsEnough` |
| `rates_outage` | 1 request, a connection that need not come back | *violation* of `OutagesAreSurvived` |
| `row_locks` | 3 transactions of any kind, 2 accounts, 2 sessions, 2 connections, 1 outage, fairness | `TypeOK`, `OrderedNeverDeadlock`, `TransactionsEnd` |

### Bounds

- *Requests*: the races found by reading the code are between two transactions,
  and a request whose transaction is over leaves its slot to the next, so a
  refresh, a replay and a revocation meet in `sessions_rotation` too.  `accounts`
  and `row_locks` have three: for two that compete and one that changes what both
  depend on, and for the longest cycles among two accounts and two connections.
- *Sessions*: each uuid is used once, so the pool bounds the sign-ins of a
  behaviour.  One session more than `MaxActive` makes the limit revoke; the third
  gives a sign-in that overlaps a change a row of its own.
- `MaxTime`, `Lifetime`, `Retention`: one tick past an expiry is enough to have
  an expired session in each step; runs about anything else keep the clock at 0.
- `MaxGeneration`: two rotations make a current, a previous and an older token.
- `MaxCredential`: one change; a second meets the rows in the same states.
- `MaxFailures`, `BatchSize`, `Ttl` of `ActivityFlush`: a failure, an expired key and
  a full batch, in which the session occurs twice with two dates, each occur; more
  ticks only add larger dates.  A second batch meets the rows as a second run does.
- `activity_overlap` has one session, so its runs never deadlock with each other;
  `row_locks` has two, and the flush twice.  Several sessions in a batch, of one
  account or of several, are left to the proofs.
- `rates`: limits of 1 and 2, so that two requests reach each of them; a counter
  of the address of a login may be left from before (`Busy`), for a refusal whose
  counters expire at different times; one tick ends the short windows.
- `rates_clock`: three ticks in a second are the fewest of which one is rounded up
  and one down; six are the longest window, two seconds.  The other
  runs have a tick for a second, since only the wait is about less.
- `PoolSize` is 2 for 3 transactions, as 10 (the default of `pg`, which the code
  does not change) is for more than 10.
- `MaxAttempts` is 1, so that every failure meets the limit; each request for a
  code is made once, and three of them (two of them overlapping) are the longest
  story told above.  `codes_requests` leaves registration out, whose requests are
  those of a reset but for the keys; `codes_confirms` has it.

The configurations of `RowLocks` and `Accounts` say `CHECK_DEADLOCK FALSE`, since
each transaction and request runs once; that all of them end is `TransactionsEnd`.
The configurations of `Sessions` say `CHECK_DEADLOCK FALSE`: a behaviour ends when
the uuids and the bounds are used up or all accounts are deleted.  Waiting for
each other shows there as `Abort`, the deadlock victim of PostgreSQL.  Symmetry is
declared for accounts, request slots, uuids and codes where they are
interchangeable, and not in the runs with a liveness property.

### Fairness

- `BufferDrains`: strong fairness of each run of the job and weak fairness of the
  commit of a refresh.  A cron job starts the run every minute and the run never
  waits for a condition other than row locks.  PostgreSQL grants those in turn, so
  a run that finds its row locked again and again by refreshes gets it, which weak
  fairness would not say.  Failures are bounded by `MaxFailures`: a database that
  is down for ever drains nothing.
- `RequestsAreAnswered`: weak fairness of the replies of Redis to a request, of
  the continuation of a request, which the event loop runs, and of `Reconnect`,
  since `reconnectStrategy` never gives up.  None is assumed of `Begin`, of the
  clock or of outages.  `OutagesAreSurvived` has the same without `Reconnect`.
- `TransactionsEnd`: weak fairness of each transaction's next step or its choice
  as a victim, and of `Reconnect`.  Each transaction runs once, so nobody takes a
  row again and again and weak fairness is enough.  `Fail` is not assumed.

## Where the code does something else than its documents say

- *The limit of sessions can be exceeded* (`sessions_over_limit`).
  `enforceActiveSessionLimit` counts with a plain `SELECT` under the user lock, a
  refresh never takes that lock.  A refresh that passed its expiry check commits
  after the count and revives a session that was counted as expired.
- *A blocked account can be signed in by a recovery* (`sessions_blocked_recovery`).
  `is_blocked` is read before the transaction of `createSession`, which locks the
  user row and does not read it again.
- *Limiters and readiness hang instead of failing* (`rates_outage`).  Commands sent
  while the client is disconnected wait in its queue without a timeout, so the
  `catch` that fails open is not reached before the connection is back; only a
  command in flight at the moment of the outage is rejected.

The following were met while modelling and are exceptions in a property that
otherwise holds:

- *The pool can be exhausted for good* (`TransactionsEnd`).  `rejectInvalidCode` of
  a password reset runs inside the transaction, and on the last attempt
  `invalidateActiveCode` (`password-reset.service.ts:52`) queries a repository, so
  it waits for a second connection while it keeps the first and the row lock.  When
  confirmations of the same code, all past the check of the attempts, hold every
  other connection and wait for that row, none of them ever goes on, and neither
  `pg` nor PostgreSQL has a timeout here.  Every other transaction ends.
- *Activity can be lost* (`OnlyRecentIsLost`).  `deleteKeys` deletes what was
  stamped after the scan, but never anything stamped before the run began.
- *A late failure hits the next request*, which is why `FailureSparesOthers` and
  `CooldownHolds` say `~late`.  The program sets no timeout for mail, nodemailer's are
  minutes, and the reservation is 60 s by `.env.example`.  When a delivery fails after
  that, the clean-up may delete the active code of the request that came next: a
  reset compares the code in one call and deletes in another, an email change does
  not compare.  And it deletes the reservation of that request, so a third may follow
  at once.  Without `~late` TLC finds both.
- *An outdated session can be opened* (`OutdatedWasLate`), by a sign-in that
  compared the password before a change committed, and by nothing else.
- *An email change can lose its code to a refusal* (`RefusedKeepTheirCode`), when
  the address was taken after it had been looked for.
- *An error can follow a commit* (`AnswersTellWhatHappened`): after a registration
  or a reset when Redis or the sign-in fails, after a block, an unblock or a
  deletion when the mail fails.
- *A right password can count as a failure*: `clearEmailFailures` is inside the
  `try` of `LocalStrategy.validate`, so its error is counted like a wrong password.
- The `UPDATE` of the session limit replaces a `refresh_reuse` reason
  (`ReasonIsKept`).

## Proofs

Everything that a passing run checks of safety is also a theorem, for any sets of
accounts, sessions, requests, codes and rows and for any bounds; a run shows it on
one instance, and that it can be broken.  The assumptions are those of the
modules (`SessionsAssumption`, `ActivityAssumption`, ...): the markers are no members of
the sets, parameters are numbers in their ranges, sets that are counted are
finite, the first rows obey the unique constraints, inputs are what guards and
DTOs let through.  TLC evaluates them in every run.

| Module | Theorem | Statement |
| --- | --- | --- |
| `SessionsProofs` | `TypeCorrect`, `LocksCorrect` | `[]TypeOK`, `[]LockInv` |
| | `RefreshOnce`, `RevocationFinal`, `ReasonKept` | `RefreshAtMostOnce`, `RevocationIsFinal`, `ReasonIsKept` |
| | `NoOrphansEver`, `BlockIsComplete`, `ChangeIsComplete` | `[]NoOrphans`, `BlockRevokesAll`, `ChangeRevokesOthers` |
| | `LimitHolds` | `[]ActiveLimitButRevived` |
| `LedgerProofs` | `SessionsImplementLedger` | `ImplementsLedger` |
| `ActivityProofs` | `TypeCorrect`, `RunsAreSafe` | `[]TypeOK`, `[]ActivityInv` |
| | `TimesOnlyRise`, `LittleIsLost`, `AccountIsRaised` | `TimesNeverGoBack`, `OnlyRecentIsLost`, `AccountFollowsSession` |
| `CodesProofs` | `TypeCorrect`, `CodesAreKept` | `[]TypeOK`, `[](TypeOK /\ CodesInv)` |
| | `AttemptsStayLimited`, `SpentOnce` | `[]AttemptsAreLimited`, `CodeIsSpentOnce` |
| | `LatestWins`, `FailedStayUnspent` | `LatestIsSpent`, `FailedIsNeverSpent` |
| | `FailureIsLocal`, `CooldownIsKept` | `FailureSparesOthers`, `CooldownHolds` |
| `AccountsProofs` | `TypeCorrect`, `AccountsAreKept` | `[]TypeOK`, `[](TypeOK /\ AccountsInv)` |
| | `StayDistinct`, `AnswersAreTrue` | `[]AccountsAreDistinct`, `[]AnswersTellWhatHappened` |
| | `RefusalsCostNoCode`, `OutdatedAreLate`, `ProofHoldsAtCommit` | `[]RefusedKeepTheirCode`, `[]OutdatedWasLate`, `ProvenAtCommit` |
| `RateLimitsProofs` | `TypeCorrect`, `CountersAreKept` | `[]TypeOK`, `[](TypeOK /\ CountersInv)` |
| | `LimitsAreKept`, `WaitingIsEnough` | `[]LimitsHold`, `[]RetryAfterIsEnough` |
| | `ComparedAreCounted`, `FailuresCount` | `[]ComparedWereCounted`, `[]FailuresAreCounted` |
| `RowLocksProofs` | `TypeCorrect`, `LocksAreKept` | `[]TypeOK`, `[](TypeOK /\ LocksInv)` |
| | `OrderKeepsFromDeadlock` | `[]OrderedNeverDeadlock` |

`AccountsInv`, `CountersInv` and `LocksInv` are in no configuration: they hold by
their theorems, and what they are for is checked by TLC.

Each module of proofs is laid out alike: what an action does to each variable
(lemmas named `...Effect`, `...Commits`, `...Moves`), how one part of the invariant
survives each action, `InitHolds` and `NextKeeps`, then the theorems.

### Sessions

A commit revokes the rows it has locked; that these are all the
rows it should revoke is not visible in the state in which it commits.
`LockInv` makes it so, in parts:

- `RequestShape`, `RowsHaveOwners`: a request is at a step of its kind, a row that
  is in use has an account;
- `UserLockIsHeld`: from its snapshot to its commit a transaction holds the user
  row, and the account exists;
- `TodoIsOwned`, `HeldIsOwned`: the rows it has to visit, and those it has locked,
  are rows of that account, and a locked one is unrevoked unless the statement
  does not look;
- `TargetsAreCovered`: every row it must change has been locked by it or is still
  to be visited.  New rows cannot appear meanwhile, because a sign-in needs the
  user lock (`NextShrinksRows`, `NoNewTargets`);
- `RoomIsMade`: without the rows a sign-in has locked or has still to visit, and
  without the revived ones, fewer than `MaxActive` sessions of its account are
  active.  Time and other transactions only take rows away from that set: a
  refresh that makes an expired row active again puts it into `revived`;
- `DecisionHolds`: while a refresh holds its row, the row stays unrevoked and the
  comparison of the hashes stays right;
- `SpentIsPast`: exchanged tokens are older than the one that is stored.

`BlockIsComplete` and `ChangeIsComplete` follow from `TargetsAreCovered` with
nothing left to visit, `LimitHolds` from `RoomIsMade` in the same way,
`RefreshOnce` from `DecisionHolds` and `SpentIsPast`, `RevocationFinal` from
`DecisionHolds` and `HeldIsOwned`, `ReasonKept` from the condition that every
statement but the session limit's evaluates again.

`LedgerProofs` maps every step to a step of `SessionLedger` or to a stutter: the
commits of sign-ins to `Open`, rotations to `Exchange`, the other commits, the
replay of a token and the single-row revocations to `Close`, the clean-up and the
cascade to `Purge`, everything else to nothing.  That `Close` takes sessions of one
account is `HeldIsOwned`; that the session of `Open` was unused and that of
`Exchange` open are `TypeOK` and `DecisionHolds`.

### ActivityFlush

`ActivityInv` has what a run (`RunInv`) relies on while others go on: the dates it
found are from after its beginning and not from the future (`FoundIsRecent`); a row
it has locked keeps its date until the commit, which raises it or leaves it
(`LockedIsRaised`); a batch has locked, or will visit, each of its rows and their
accounts, and deletes only keys of rows that have caught up (`BatchIsCovered`,
`AccountsAreCovered`).  `TimesOnlyRise` is `LockedIsRaised` at the commit;
`LittleIsLost` is the last part of `BatchIsCovered`; `AccountIsRaised` needs the lock
on the account too.  Steps of others (`Quiet`, `Forward`) only move the clock, the
buffer and unlocked rows.

### VerificationCodes

- `TokensAreTheirs`, with `HistoryIsKept`: a token under a code is that of a request
  that drew the code, and is not spent.  The script deletes what it accepts in one
  step, so a code that is drawn again comes with a new request: `SpentOnce`.
- `AttemptsAreReserved`: the counter and the confirmations past the check together
  stay below the bound; a confirmation that counts gives its place up.
- `RequestsAreInOrder`, `ActiveIsCurrent`: the active key is that of a request that
  no request begun later has passed.
- `RequestsTakeTurns`: unless a key expired under its owner, a request that is past
  its reservation still has it, so that requests of a subject follow each other
  (`WorkIsReserved`, `DeliveryIsReserved`), clean-ups unset what is their own, and
  codes that were superseded or cleaned up are not active.

Proving these changed how three properties are stated.  `LatestIsSpent`,
`FailedIsNeverSpent` and `FailureSparesOthers` spoke of requests, and held in the
run because it has two requests and two codes.  With more of them a code can be
drawn again after its token expired, and then Redis compares digits only: the
digits of a later request may be accepted with the token of an earlier one if the
requests overlapped.  The properties now say which digits are accepted (`Drawn`),
and of the token only what holds of it.

### Accounts

The invariant is about one request at a time and its view of the rest.
`ProgressIsTold`: the steps that are left tell whether the code is consumed and
the change done.  `ChangesAreLocked`: from its check to its commit a request holds
the row it changes, and an administrator's operation the administrator's row
with the password it was given.  `ClaimsAreApart`: who is about to commit an address
or nickname shares it with no row and no other such request.  `TakenSince`: an
address that was free when an email change looked is missing later only because
another request took it.  The lemmas split the state into what is common and what is `Mine(r)`;
a step of `r` is shown to leave `Mine(q)` true for every other `q` (`ProceedKeeps`, `OthersSurviveCommit`).
`ProofHoldsAtCommit` is `ChangesAreLocked`, `StayDistinct` is `ClaimsAreApart` at the
commit, the other three are parts of the invariant.

### RateLimits

`Within(c, w)` are the requests that window `w` of counter `c` has admitted, or whose
`INCR` was answered within the limit and who are about to be admitted.
`CountsAreKept`: there are at most as many as the limit, and in the present window
at most as many as the counter shows.  `INCR` and `EXPIRE` are one script, so every
request is answered a count of its own, and the one that raises the counter to `v`
makes the set at most `v` large; this holds whatever the connection loses, since
a lost reply only means that the counter shows more.  `WindowsGoOn` and
`WaitsAreLongEnough`: windows that were read are not later than the present one,
and a TTL that was read is too short by less than half a second (`RoundedIs`).
`ComparedWereCounted` and
`FailuresAreCounted` are inductive with the route of a request (`OnRoute`).

### RowLocks

`PlansAreOrdered` is read off the plans: in an ordered kind the needs that are left
lock the administrator, then an account, then sessions of it, and `LocksAreOrdered`
says the same of what is held.  In a smallest cycle of waits everybody holds a row
that another waits for.  Who needs one row only holds nothing while it waits;
who waits for a session holds its account, as does the holder of the session,
unless that one needs no other row; so all wait for accounts, and then nobody holds
an account but the administrator's, for which only those wait who hold nothing.

### What proving changed in the models

- `Accounts`: that inputs are well-formed (`WellAsked`) is an assumption on `Asked`
  and not a part of `TypeOK`: a reset's sign-in may find another account than the
  one it began with.  `deleteCurrentUser` refuses the administrator (`Compare`).  Ids
  that are drawn are those not used and not in use by an open transaction
  (`FreeIds`).
- `RateLimits`, `RowLocks`, `Accounts`: types say what a request or plan may be at
  all; sets that are counted are finite.
- `VerificationCodes`: the three properties above.

### Only model-checked

- `BufferDrains`, `RequestsAreAnswered`, `TransactionsEnd`: liveness under fairness
  is beyond the prover.
- The three runs that expect a violation: counterexamples.

## Not modelled

- Queries that only read: the profile, the sessions of an account, the directory.
- Fields of a profile without a constraint: one `UPDATE` of one's own row.
- A `COMMIT` whose answer is lost, and a process that stops between a commit and
  the Redis calls after it other than by the failure of those calls.
- The security audit: append-only, never read, failures ignored.
- Guards, configuration, hashing, mail, logging, the wording of errors and
  migrations: no state that changes while the program runs.

## Plan

1. *Sessions*, its ledger and its proofs; *ActivityFlush*; *VerificationCodes*;
   *Accounts*; *RateLimits*; *RowLocks*: done.
2. Theorems for every safety property of every run, each from an
   inductive invariant: done.
3. To come: an abstract specification of a verification code (issued, superseded,
   spent) and one of a window of a limiter, each with its refinement as a theorem;
   lemmas that several modules of proofs share in one place.
