# Verification of the MCP authentication sample server

TLA+ models of the parts of this server in which concurrency, failure and time
decide whether it is right: the per-user API tokens, their automatic rotation
by several server instances, the second factor of the admin panel with its
database transactions, and servers themselves, from the environment they read through
start-up, seeding, serving and clean-up to shutdown, crash and restart. TLC
checks the models on small instances; TLAPS proves the main safety results for
every value of the constants.

All line numbers are of the repository at the commit beside this project; `token.py`,
`policy.py`, `token_rotate.py` and so on are under `src/auth/`, `server.py` is at
the top.

## 1. Inventory

| Component | State | Operations | What must be true of it |
|---|---|---|---|
| `TokenStore` (`token.py`) | table `api_tokens` | create, verify, list due, apply rotation, revoke, delete | a secret opens its owner's account only; a revoked token stays revoked; the audit log tells the truth |
| Rotation loop (`token_rotate.py`) | advisory lock of MySQL, locals of a pass | poll, list, mint, mail, apply, release | one rotation per due date, whatever instances overlap; due tokens are served; the user gets the new secret |
| `PolicyStore`: users (`policy.py` 158-299) | table `users` | add, remove, role, e-mail, upsert | no token or backup code without its user; an administrator is left |
| `PolicyStore`: audit log (644-654) | table `audit_log` | insert, paginate | an entry for each effect, none without one |
| `PolicyStore`: MFA (354-642) | MFA columns of `users`, tables `user_backup_codes`, `policy_settings` | set up, confirm, disable, clear, verify, regenerate, require | a backup code works once; MFA is on only with a confirmed secret; what is required cannot be disabled |
| `PolicyStore`: passwords (327-352) | `users.password_hash` | set, verify | at most 72 bytes are hashed |
| `PolicyStore`: schema, seed (115-156) | the tables | ensure, seed | one seeded administrator |
| Lifespan (`server.py` 61-158) | pool, background tasks | start, stop | everything started is stopped; no token call before the store is there |
| Provider assembly (`provider.py`) | configuration | `setup_auth` | each mode gets the verifiers it names, in the documented order |
| GitHub verifiers (`oauth.py`) | allowlist | verify, normalise scopes | only allowed logins; scopes that GitHub reports, as far as one step of the table goes |
| OAuth store (`oauth_store.py`) | table `oauth_kv` | get, set, delete, clean up | no live entry is cleaned up |
| URL helper (`oauth_url.py`), MFA helpers (`mfa.py`), e-mail (`notify/email.py`), debug log (`debug.py`), crypto, password generator, sample tool | none or a cached value | pure functions and I/O | see section 7 |

How they interact. Every store method takes a session from one aiomysql pool
(`server.py` 88-97, `autocommit=True`) and gives it back, so between two
statements of a method any other coroutine, and any other server process on the
same database, can run a statement; only the MFA methods open transactions.
`DbTokenVerifier` calls `TokenStore.verify_token` for each request. The rotation
task calls `TokenStore`, `PolicyStore.get_email` and `send_email`. Foreign keys
with `ON DELETE CASCADE` tie tokens and backup codes to `users`. The methods that
change users, tokens and MFA are called by an admin panel that is not in this
repository; the models let several callers call them at any time.

`server.py`'s lifespan creates the pool, lets `PolicyStore` and the OAuth store create their
tables and seed, sets the getter through which `DbTokenVerifier` finds its store, and
starts the rotation task and the clean-up loop; at shutdown it cancels both, waits for
them and closes the pool. `setup_auth` decides before that, from the environment, whether the
process starts and which verifiers requests are shown to.

Hard behaviours: a lock taken and released on different sessions; passes that
overlap after a session died; lists that are stale when used; checks and the
writes that rely on them in different statements; effects committed before
their audit entry; crashes between making a secret and storing it; rows that
fill a `LIMIT`; times in UTC compared with `NOW()` or `CURRENT_TIMESTAMP`; transactions that
take the same locks in different orders; servers that create tables and seed at the same
time, or die half-way. `PROJECT.json` lists them
one by one under `hazards`.

## 2. Modules

| Module | Models |
|---|---|
| `Credential` | abstract: what a user of the tokens is promised, without tables and locks |
| `TokenStore` | `api_tokens`, `users` and `audit_log` under the calls of `TokenStore`, `DbTokenVerifier`, `add_user` and `remove_user`; implements `Credential` |
| `TokenRotate` | the rotation loops of several instances, on top of `TokenStore` (EXTENDS); implements `Credential` |
| `RotatePool` | the same loops on the pools that hand out their sessions (EXTENDS `TokenRotate`); implements `TokenRotate` |
| `SecondFactor` | abstract: what backup codes promise an administrator, without tables and transactions |
| `AdminMfa` | MFA, backup codes and the policy that requires MFA, a transaction being one step; implements `SecondFactor` |
| `MfaTx` | the same with each transaction taken statement by statement (EXTENDS `AdminMfa`); implements `AdminMfa` and so `SecondFactor` |
| `AuthProvider` | `setup_auth`, the GitHub verifiers, the allowlist and the scopes, as operators on an environment |
| `PolicyUsers` | users, roles and the seed's INSERT |
| `OAuthStore` | `oauth_kv` and its clean-up |
| `Server` | several servers on one database, over the last three (EXTENDS) |
| `SqlNull` | the constant these share |
| `MCTokenStore`, `MCTokenRotate`, `MCRotatePool`, `MCAdminMfa`, `MCMfaTx`, `MCServer` | instances for TLC: symmetry sets, a bound on the audit log, deployments |
| `TokenStoreProofs`, `AuditProofs`, `TokenRotateProofs`, `CredentialProofs`, `AdminMfaProofs`, `MfaTxProofs`, `ScopeProofs`, `ServerProofs` | the theorems |

### TokenStore

A step is one SQL statement, because the pool commits each. A method that changes
a table and then inserts into `audit_log` is two steps: its effect, which leaves
the entry in `call[a]`, and `WriteAudit(a)`. `CallFails(a)` is a failure or
crash between them. `verify_token` is `VerifySelect` (its WHERE clause is
`Matches`) and `VerifyTouch`. A token's secret is a number: `minted[s]` is the
login that the s-th call of `generate_raw_token` was made for, which is how the
properties can say whose secret it is; `token_hash` and the raw token are the
same thing here, as SHA-256 does not collide. Time is counted in days.
`SqlNow == now + Zone` is what `NOW()` answers in a session whose time zone is
`Zone` days ahead of UTC (`expires_at` is written in UTC). A call that affects no
row returns without an audit entry and is a stuttering step; `remove_user` is
audited in any case, as in the code. `AUTO_INCREMENT` never reuses an id.

### TokenRotate

`pc[i]` is where the loop of instance `i` is. `GetLock(i, k)` is a poll that gets
the lock on session `k` of `i`'s pool; a poll that does not get it goes back to
sleep without a change. `owner` and `depth` are MySQL's side: the session that
holds the advisory lock and how many times, since the same session may take it
again. `ReleaseLock(i, k)` runs on any session of the pool, and releases
something only on the owner. `List` keeps `ORDER BY expires_at ASC LIMIT`
(`Batch`), `SkipZero` is `continue` on rotation_days 0, `Take` makes a secret,
`Email` is the mail, `Apply` and `AuditRotation` are the two statements of
`apply_rotation`. Faults: `PassFails` (a statement raises, `finally` still runs),
`ReleaseFails`, `SessionDies` (the lock goes, the pass does not notice), and
`Crash` (the process ends, restarts, and its sessions end).

`depth` is counted up to `MaxDepth`, which stands for "that many or more": a
release at the cap may or may not lower it. This keeps the model finite without
leaving out a behaviour.

`SendEmailBinds` compares the keywords of the call in `token_rotate.py` 77-87
with the parameters of `send_email` (`notify/email.py` 118), and is false.

### RotatePool

In `TokenRotate` a statement may run on any session of the pool, which is what safety needs: it
covers whatever the pool does. Whether rotation gets done depends on which session it is, so
`RotatePool` adds the pool of each instance: `free[i]` is aiomysql's queue of sessions nobody uses and `lent[i]`
those that requests have. An acquire takes the head of the queue, or a new session if there is none
and the pool may grow (`Handed`); a release puts it at the tail (`Turn` is both, around one
statement). `PollOn(i, k)` is a poll on the session handed out: `GET_LOCK` answers 1, or 0 and the loop
sleeps again. `Borrow` and `Return` are everybody else's acquires: verifications, the clean-up, the
panel. A session that dies leaves the queue and is replaced below `minsize` (`PoolSessionDies`), a
process that starts again opens a new pool (`PoolCrash`). The clean-up's session is a `Borrow` like a request's.

### AdminMfa

What happens between `begin()` and `commit()` is one step (`MfaTx` shows that the locks make it
atomic; a transaction that raises or loses a deadlock is rolled back: `RolledBack`,
`Abort`); every read before it is a step of its own, and `call[c]` holds what
the method does next. `users[l]` has the MFA columns, `codes` the rows of
`user_backup_codes`; a code is `<<batch, number>>`, as each batch is random and
new. `proved`, `spent` and `accepts` are history variables: which secrets a
confirmation verified, and which codes let somebody in, how often. A TOTP code
that is accepted changes nothing, so `verify_mfa_code` is the one step that
consumes a backup code. The entries that `add_user`, `remove_user` and
`update_user_role` write after their commit are in `TokenStore` (the first two)
or left out (the last); here `logged` keeps the MFA entries only.

### Credential

`owner[s]` is the login a secret was made for, `life[s]` goes from `"unmade"` to `"made"`
(the rotation has it in hand) to `"live"` to `"dead"` and never back, and
`answer[r]` is what a verification took its secret for. A secret is accepted only while
it is live, and as its owner's; `Replace` makes one live and another dead in one
step. `TokenStore` maps a secret to the row that has it (`IsLive`), `TokenRotate` adds the
secrets in the hands of its passes (`InHand`). Expiry is not part of the promise: `Accept` may
refuse any secret, and the properties of rotation say what happens in time.

### SecondFactor

`on` are the logins that are asked for a second factor, `good[l]` the codes that would let `l` in,
`made` the codes there have been. A batch is good for one login until the next one is
issued or it is withdrawn; a code that lets somebody in is good no more, and none ever
becomes good again. The factor goes on only in the step that issues a batch. In `AdminMfa` a good code is a row
with `used_at` NULL (`GoodCodes`), and `on` is `mfa_enabled`. Switching off without a withdrawal is
`start_mfa_setup`, which leaves the old codes in their table. What proves that a TOTP secret is
held is no part of this promise: the run `mfa_secret_verified` shows what happens to it.

### MfaTx

`tx[c]` is the open transaction of caller `c`: its next statement, its locks on the user's
row and on the user's codes, and what its statements found. The steps are `begin()`
(`BeginTx`), each UPDATE, DELETE and INSERT that may wait (`UserStatement`,
`CodesStatement`, `ParentCheck`, `InsertCodes`), `Commit` and `Rollback`. The locks are InnoDB's under
REPEATABLE READ (external): an exclusive or shared record lock on a row that is found, a gap lock where none is,
which holds off an INSERT and nothing else. A batch is one INSERT step, because between its INSERTs the
transaction holds what later ones need. `Blockers(c)` are the callers that `c`'s next
statement waits for; a cycle of them (`Deadlocked`) lets InnoDB choose a `Victim`, whose statement raises,
and the code rolls back and raises again. `regenerate_backup_codes` takes codes before the user, the
others the user before the codes, so cycles occur. Calls that are one statement, or that only read
before a transaction, are `AdminMfa`'s actions, guarded by the locks they would wait for. Locks on
neighbouring logins' rows are left out: waiting for them is a delay, and a deadlock over them is
an `Abort` of `AdminMfa`.

### AuthProvider, PolicyUsers, OAuthStore, Server

`Starts(env)` is when `setup_auth` does not exit, `Verifiers(env)` whom the server asks,
`Accepts(env, hasStore, cred)` whether a genuine credential is let in, after `DbVerifies` or `GitHubVerifies`. In mode `token` with a policy
database the static token is not asked for, as in the code (end of section 3). Logins are compared in lower case,
so a model value is a login in all spellings. `Normalize` maps each scope once, as the
code does; `read:repo_hook` becomes `write:repo_hook`, which itself has a parent in the
code's table, and stays that (end of section 3).

`PolicyUsers` has each operation as one statement. `OAuthStore` keeps of an entry when MySQL wrote
`updated_at`, `Zone` hours from UTC; `cleanup_stale` is two steps, the cutoff (`CutOff`) and the DELETE
(`Sweep`). Only `ensure_table` and `cleanup_stale` are called in this repository; `set` and `delete` are there
for FastMCP's proxy and called at any time while a server is up.

In `Server` `at[s]` is the statement that the lifespan of server `s` awaits. `CreateTable` creates the
missing tables in the order of `ensure_tables` and is stuck if a foreign key's parent is not
there. `CountUsers` and `SeedAdmin` are the two statements of `seed_admin`; `SeedFails` is an
INSERT that meets the login another server has just seeded, and ends start-up. `Wire` sets the
getter and starts both tasks, with no await in between. `Stop`, `EndRotation`, `EndCleanup` and
`ClosePool` are the shutdown, `Crash` ends a process anywhere. What has ended is started again by Docker
(`docker-compose.yml` 13, `unless-stopped`), unless it was being stopped.

## 3. Properties and runs

Passing runs:

| Run | Instance | Properties |
|---|---|---|
| `token_store` | 2 logins, 2 administrators, 1 verification, 2 rows, 1 fault, 2 days | `StoreTypeOK`; `IdentityCorrect`: whoever presents a secret is taken for its owner, even if the row changes between the two statements; `RowsHaveUser`; `AuditOnce`: concurrent revocations are logged once; `AuditTruthful`: no entry without its effect; `AuditComplete`: without faults every effect has its entry; `StoreKeepsCredentials`: the refinement of `Credential`, with a verification running |
| `rotate_safety` | 2 instances with 2 sessions each, 2 rows, 1 administrator, 1 fault, `rotation_days` 0 or 2 | `RotateTypeOK`; `RotateIdentity`; `OneRotator`: without faults passes exclude each other; `RotationWhenDue`: a secret changes only while its row is due, so that overlapping passes rotate it once; `RevokedIsFinal`; `AuditTruthful` beside the loops, whose `Apply` must not bring back a deleted row; `RotateKeepsCredentials`: the refinement of `Credential`, where a rotation must be one `Replace` |
| `rotate_live` | 2 instances, pools of 1 session that may grow to 2, 1 request at a time, 2 rows, no administrator, 1 fault, sessions one day ahead of UTC, rotation_days 0 or 3, LIMIT 1 | `PoolTypeOK`: a session is in the queue once or with one user, and the lock's holder is a session some pool has; `DueIsServed` under fairness: if from some time on an instance serves no requests while one of its sessions has the lock, every due row is rotated in the end, unless rows that stay due fill the LIMIT |
| `admin_mfa` | 1 user, with any role and policy or over 3 minutes, or 2 users side by side; 2 requests, 2 secrets, 2 batches of 2 codes | `MfaTypeOK`; `CodesConsistent`: a user's codes are one whole batch or none, in step with `mfa_backup_generated_at`, whatever is done about the other; `NoCodeTwice`; `EnabledIsSettled`: enabled MFA has no pending set-up, has codes, and is what the audit log says last; `MfaKeepsSecondFactor`: the refinement of `SecondFactor`, for both users |
| `mfa_tx` | 1 user, 2 callers, 1 secret, 2 batches of 1 code | `TxTypeOK`; `FoundIsCurrent`: what a transaction's statements found is still in the tables when it ends, so no update is lost; `AtomicSpec`: the refinement of `AdminMfa`; `DeadlockNeedsRegenerate`: a cycle of waits has a `regenerate_backup_codes` in it; `TxEnds`: every transaction ends, whatever it waits for |
| `server` | 2 servers, 2 logins, 1 key, 1 administrator's call, 1 fault, a session in UTC, an empty or half-made database, two servers that seed with different logins or with the same, one that seeds beside one that does not, and one with each environment beside one that cannot start | `ServerTypeOK`; `ServingIsReady`: a server that is up has all tables and its pool; `ParentsComeFirst`: no table is created before the table its foreign key names; `TasksHavePool`; `FirstAdmin`: seeding leaves an administrator, however start-ups race; `ModesEnforced`: each mode and the allowlist let in whom they name and nobody else; `ModesUsable`: each kind of credential that `setup_auth`'s docstring gives a mode is accepted; `ScopesMapped`: what is required is one step of the table, each scope once; `ServerComesUp`: a server with right settings comes up; `StaleIsRemoved`; `FreshIsKept`: a clean-up takes no entry that was set later than the age it cleans by |

Why the bounds are enough. Two instances, two sessions each and two rows are what
the races over the lock and over a row need; a third would only repeat a role.
One fault lets any one session, statement or process fail at any point. In `rotate_live` a pool starts with
one session instead of two (`OneSession`), so that two are enough for it to grow, and `MaxLent` 1 request
is enough to take the session a poll would have had. `BatchLimit` 1 with two rows makes
`LIMIT` bite. Two secrets and two batches are an old and a new one. Two transactions on one user are
what a deadlock needs; the users of different logins share no row, which
`admin_mfa` covers: it follows two users (`SideBySide`) while they are administrators, MFA is not
required, the clock stands, the requests are about different users and at most one code has been used, which
lets both have MFA on and one call change codes beside the other's. With one user it follows any number of uses,
requests that overlap, and either every role and policy (`now = 0`) or the passing of time (`OnePolicy`): the clock
only decides whether a secret may still be confirmed, and role and policy only whether MFA may be disabled.
Two servers race over tables and seed; a third would only be one more of
either. One entry and two hours are enough to be set before or after a cutoff, and to
grow stale: `MaxAge` 0 has an entry of the same hour fresh and one of the hour before stale, and stands
for the 24 hours, as `SweepKeepsFresh` shows for every age. The environments of `server` are all combinations of mode,
static token, database, OAuth variables and allowlist; with a database, those that differ only
in which variable is missing or which login is allowed are taken once. The runs have
bounded counters and may stop when these are used up, so deadlock is not
checked: where the code waits (a transaction for a lock, a shutdown for its tasks) `TxEnds` and
`ServerComesUp` say that it goes on.

`StoreKeepsCredentials` is checked with a verification and without rotation, `RotateKeepsCredentials` with
rotation and without a verification; the theorem `RotateImplementsCredential` covers both together.
`FreshIsKept` holds in `server`, where the session is in UTC, and not in `fresh_is_kept`, where it is an hour behind. `FewEntries` cuts off
behaviours with more than `MaxEntries` different audit entries, which is enough for
every kind of entry to be written. `MaxSecrets` in `rotate_live` is larger than any
behaviour of that instance reaches, so that it does not hide a livelock.

Runs that show a disagreement between the code and what is written about it
(each checks the one property, and the trace is short):

| Run | What it shows |
|---|---|
| `due_is_replaced` | `token_rotate.py` 3-5 promises a replacement secret to a row that is due, and line 127 "acquire advisory lock, rotate, release, sleep". `RELEASE_LOCK` goes to whichever session the pool hands out; where it misses, the lock is with one session while the loop sleeps. If one other acquire, a verification, runs between two polls, each poll gets the other of the two sessions, `GET_LOCK` answers 0, and this goes on for as long as the traffic does, under the fairness of section 4 and with nothing failing. |
| `user_gets_new_token` | `token_rotate.py` 71 mails "BEFORE applying rotation so user gets new token". The call passes `to=`, `send_email` takes `to_addr`; the TypeError is caught and the rotation applied, so nobody has the new secret. |
| `mfa_secret_verified` | `confirm_mfa_enable` refuses when there is no set-up or the code is wrong (`policy.py` 475-478), but enables in a later transaction that does not look again: a clearing in between leaves MFA on without a secret. |
| `mfa_required` | "2FA is required by policy and cannot be disabled" (`policy.py` 516), but `start_mfa_setup` switches it off (459-460) and asks no policy. |
| `seed_only_when_empty` | `seed_admin` inserts "only if users table is empty" (`policy.py` 145), but counts and inserts in two statements: two servers with different seeds that start together count no users, and both insert. (With the same seed the second INSERT raises and start-up ends once; `server` has that deployment and shows that the restart comes up.) |
| `fresh_is_kept` | "Delete KV entries older than max_age_hours" (`oauth_store.py` 67): the cutoff is in UTC and `updated_at` in the session's zone, which nothing sets. Behind UTC, entries are deleted that are not that old. |

Two disagreements are visible in `AuthProvider` without a run. `README.md` 9 has mode `token` as "static
bearer token (`MCP_API_TOKEN`)" and `token.py` 6 speaks of "a static fallback token", but with a policy database
mode `token` asks `DbTokenVerifier` alone (`provider.py` 115-118) and refuses the static token, as `setup_auth`'s own
docstring has it (51-52); `ModesEnforced` and `ModesUsable` state the docstring's version. `oauth.py` 15-18 maps "any child
scope to its parent so the token check always uses the scope GitHub actually reports", but `read:repo_hook` becomes
`write:repo_hook` (31), a child of `admin:repo_hook` (32), and that is required; `ScopesMapped` states the one step that is
taken, and the theorem `ReportedWithoutChains` that these rows are all that is in the way.

A definition whose name ends in `Mutant` is a wrong version of the definition of the
same name after it. No specification uses them: substituting one shows that the property named
with it in `PROJECT.json` notices such a bug.

## 4. Fairness

`FairPoolSpec` of `RotatePool` asks, for each instance, for weak fairness of `PoolPoll(i)`, `PoolPassStep(i)` and `Return(i)`.

- `PoolPoll(i)`: the loop wakes up every `POLL_SECONDS` for ever and polls on the session at the head of
  the queue, whichever that is. Nothing says that it is the one that has the lock.
- `PoolPassStep(i)`: a pass that has begun is a coroutine the event loop keeps
  running, each await in it ends or raises, and a raise is a fault, of which
  there are finitely many.
- `Return(i)`: a request ends and gives its session back.
- No fairness for faults, callers, requests that begin or the clock.

This is not enough for rotation, as `due_is_replaced` shows: requests and polls may take turns so that no poll
ever comes to the session with the lock. `DueIsServed` therefore has a hypothesis, `<>[]HolderIsQuiet`: from some time on, an instance one of
whose sessions has the lock has no session with a request. Its polls then go round the queue and come to that
session. The hypothesis is about traffic and not something the code provides; a deployment with
requests all the time does not meet it.

`FairTxSpec` of `MfaTx` asks, for each caller, for strong fairness of `Statement(c)` and weak fairness of
`Commit(c)` and `ParentMissing(c)`, and for weak fairness of `Victim`. InnoDB queues the waiters for a
lock, so a statement whose lock comes free again and again gets it; a statement that has returned is followed by the
next, as the coroutine goes on; InnoDB looks for cycles at each wait. The liveness instance has two callers: with three or more,
holders of a gap lock do not wait for each other and could overtake an INSERT for ever, until
`innodb_lock_wait_timeout` raises in it and the code rolls back.

`ServerFairness` asks for weak fairness of `StartUp(s)`, `ShutDown(s)` and `Loop(s)` of each server: Docker starts
a process that ended, each await of start-up and shutdown returns or raises (a raise by itself is a fault, of
which there are finitely many), and the clean-up loop sleeps for a bounded time. Nobody has to stop a server, use a store or
wait for the clock.

## 5. What is proved

All theorems hold for any set of logins, callers, instances and sessions and any
bounds, under the named assumptions on the constants (`StoreAssumption`,
`NullAssumption`, `RotateAssumption`, `PoolAssumption`, `MfaAssumption`, `TxAssumption`, `AuthAssumption`, `UsersAssumption`,
`KvAssumption`, `ServerAssumption`), which TLC evaluates in every run of a module that has them.
Every invariant, action property and refinement that a passing run checks is a theorem here;
only the four that need fairness are not. Two theorems have an assumption of their own, named below.

- `TokenStoreProofs`. `StoreTypeCorrect`, `StoreIdentity`, `StoreRowsHaveUser`, `StoreRevokedIsFinal`. The inductive invariant is
  `StoreInv`: the types, `IdentityCorrect`, and that ids and secrets in use
  are below the counters (`IdsInUse`), without which a new row could fall on an id that a
  verification still holds.
- `TokenRotateProofs`. `RotateOneRotator` rests on `LockInv`: while nothing has failed, an
  instance that is not asleep is the one whose session owns the lock. That a
  release may miss does no harm to exclusion: the lock stays with the same pool.
  `RotateIdentityCorrect`, `RotatesWhenDue` and `RotateRevokedIsFinal` rest on `RotateInv`, which
  adds that a secret in hand is in no row, that a list entry has its row's owner,
  and that the rotation in hand was listed for the row it names; they hold
  with any number of faults. `RotateTypeCorrect` gives the types. `EarliestAreListed` is what
  `ORDER BY` and `LIMIT` come to: a pass can always list, lists nothing only when nothing is due, and leaves a due row out only if
  more rows than the limit expire no later than it. `PoolTypeCorrect` is an induction on the queue: whatever an acquire hands
  out is nobody's, and what a session that ends leaves behind has no repetition; `PoolImplementsLoops` has each step on a pool
  be a step of `TokenRotate` or none, so all theorems about that module hold with the queues.
- `AuditProofs`. `StoreAuditOnce`, `StoreAuditTruthful` and `StoreAuditComplete` are shown together, as each
  step needs more than one of them: a revocation is new to the log because the log is
  truthful, and a deleted row's revocation is in it because the log was complete. `AuditInv` adds that no
  entry is about an id that `AUTO_INCREMENT` has still to give (`LoggedIds`), without which a
  new row could make an old entry untrue. `RotateAuditOnce`, `RotateAuditTruthful`, `RotateAuditComplete` and
  `RotateRowsHaveUser` are the same for the whole system, with the loops of all instances between any two statements of the calls:
  a rotation changes a row that is there and neither its login nor `revoked` (`LoopRows`), and its
  entry is none of those the three speak of (`LoopAudit`).
- `CredentialProofs`. `StoreImplementsCredential` and `RotateImplementsCredential`: the initial
  states map to initial states and every step to a step of `Credential` or none. They rest on `StoreInv` and `RotateInv`
  and on every secret being made before it is stored or in hand; the crucial step is `Apply`, where the
  guard of the UPDATE and the freshness of the secret in hand make it a `Replace`.
- `AdminMfaProofs`. The inductive invariant `MfaInv` joins the types, `EnabledIsSettled`,
  `CodesConsistent`, `NoCodeTwice` and that no two rows have the same code and no
  code comes from a batch that was not stored yet. `CodeMoves` reduces every step to one of
  four moves of the codes (`Keeps`, `Replaces`, `Drops`, `Uses`), and each move is shown to keep the
  invariant. From it `MfaTypeCorrect`, `MfaCodesConsistent`, `MfaNoCodeTwice` and
  `MfaEnabledIsSettled`. `MfaImplementsSecondFactor` maps the moves to the actions of `SecondFactor`: a replaced
  batch is new because no code is of a batch still to come (`Issue`), a use takes away one good code because no two rows have it (`Spend`), and
  whatever switches MFA on replaces the codes in the same transaction.
- `MfaTxProofs`. The inductive invariant says which locks are compatible, where in its sequence of statements a
  transaction has which, and `FoundIsCurrent`: an exclusive or gap lock keeps every other step
  from what was found. With it the commit of a transaction is a step of `AdminMfa`
  (`TxImplementsAtomic`) and everything before it is a stutter, so that what is proved of `AdminMfa` carries over:
  `TxCodesConsistent`, `TxNoCodeTwice`, `TxEnabledIsSettled` and `TxImplementsSecondFactor`.
  `TxFoundIsCurrent` and `TxTypeCorrect` are parts of the invariant. `TxDeadlockNeedsRegenerate` holds because who blocks
  another has passed its statement on the user's row; two that do so in a circle both hold its gap lock, so there is no such user, and
  one of them has the codes of that user locked, which then has none (`CodesConsistent`).
- `ScopeProofs`. `ScopesAreMappedOnce`, for lists of any length, and from it `NoChildIsLeft` for a table in which no parent is a child. `Normalize` is a fold, which the library defines by a choice of a recursive
  function on sets of indices; that there is one (`FoldExists`) and what each turn adds (`TurnCollects`) are shown by induction. The
  library's induction theorems take an operator as a parameter, which the provers cannot instantiate, so the induction is a
  least counterexample (`LeastNat`, from the well-foundedness of `<`) that is refuted; `FirstRowsExist` of
  `TokenRotateProofs` goes the same way.
- `ServerProofs`. `ServingHasTables` and `NoOrphanTable` need that tables are never dropped and that what a
  server takes to be missing covers what is (the others only add); `PoolOutlivesTasks` that
  only a server without tasks closes its pool; `SeedGivesAdmin` that before the first administrator's call every user there is was
  seeded; `OnlyNamedGetIn` and `EnabledIsUsable` are about the operators of `AuthProvider` and hold for any environment that starts, the latter
  with the getter that `Wire` has set and a GitHub token that has every scope; `RequiredScopesAreMapped` is `ScopesAreMappedOnce` at a server.
  `ReportedWithoutChains` assumes `NoChains` of the table, which the code's does not meet: its two rows for `repo_hook` are all that breaks
  `ScopesReported`. `SweepKeepsFresh` assumes `Zone >= 0`, without which `fresh_is_kept` is the counterexample; it
  needs that an entry's time is that of its last set, and a cutoff is never in the future.
  `ServerTypeCorrect` gives the types.

Checked by TLC only: what needs fairness (`DueIsServed`, `TxEnds`, `ServerComesUp`, `StaleIsRemoved`), as the
prover has no rules for ENABLED, and the runs of section 3 that end in a violation.

## 6. What could come next

The code offers little more that depends on order, time or failure. Worth adding when it
changes: the admin panel, once it is in the repository (which calls it makes together, whether it keeps the last
administrator); FastMCP's proxy on the OAuth store, once the server hands it over; a time limit in
`MfaTx` for three and more callers.

## 7. Not modelled

- `crypto.py` wraps Fernet and `password_util.py` draws random characters; they have no
  order or state that could go wrong. TOTP, QR codes and bcrypt are library calls.
- `sample_tools.py`, the health route, log formatting and the SMTP dialogue: pure formatting or I/O.
- `list_tokens`, `list_users`, `get_audit_log`, `get_mfa_status` and the other pure reads change nothing.
- E-mail addresses (`set_email`, and the e-mail column of `upsert_user`) and passwords: columns nothing else decides by,
  each written by one statement.
- `normalize_loopback_oauth_url`, `normalize_backup_code` and the splitting of lists: decisions on the text of
  one string, without state; the models keep what comes out of them.
- `debug.py` and the logging middleware: the trace id is a context variable, so each request
  has its own whatever runs beside it, and a tool of this server calls no other tool.
- The last administrator: nothing in this repository promises that one is left (`count_admins` is there to be asked).
- What FastMCP, aiomysql, MySQL, GitHub and Docker do inside, except the locks and restarts stated above as external.
