# A verification project for elineas-auth

elineas-auth is an identity server: a Bun/Hono backend over Postgres, with an
optional Redis, and a React panel. Applications ("systems") send their users to
it to log in; a login yields a session (opaque token) and a JWT, and each system
asks the server which roles and permissions the user has in it. This directory
holds TLA+ models of the parts of the program where the order of events decides
whether it is correct, the TLC runs that check them and TLAPS proofs about them.
Paths below are relative to `src/apps/backend/src/` unless they start at `src/`.

## 1. The system

One Node-like process: handlers run concurrently and interleave at every
`await`. State lives in three places, none of them updated together: Postgres
(each statement atomic, few explicit transactions, READ COMMITTED), Redis (caches
with a TTL, rate-limit counters, a stream of request logs; every command may time
out after 250 ms or be rejected by the circuit breaker of `lib/redis.ts`) and the
memory of the process (breaker, fallback counters, queue of invitations, cached
JWKS promise), lost at a restart. The panel decides and orders the calls of an
import of employees in the browser.

| Component | State | Operations | Talks to |
|---|---|---|---|
| Login and binding (`services/auth.service.ts`, `session-system.service.ts`) | `session`, `session_system` | sign-in, sign-out, bind to a system, JWT, JWKS | better-auth, flag, roles, scopes |
| Revocation (`services/session.service.ts`, `user.service.ts`) | `session` | own sessions, any session, on password change | cascades to `session_system` |
| Deactivation flag (`lib/user-active.ts`) | `employee.active`, `deactivated:<user>` in Redis | check, invalidate, close sessions | every login and request |
| Google login (`services/google-auth.service.ts`) | `verification` (codes) | start, finish, exchange | flag, binding |
| Employees and accounts (`services/employee.service.ts`, `managed-user.service.ts`, `lib/invite.ts`) | `employee`, `user`, queue of invitations | sign-up with compensation, link, update, delete, edit | flag, sessions, roles, pool |
| Import of employees (`src/apps/frontend/src/modules/employees/`) | rows of the dialog | preview, run | the routes of employees and roles |
| Roles, systems (`services/user-role.service.ts`, `role.service.ts`, `system.service.ts`, `service-key.service.ts`) | `user_role`, `role`, `system`, `system_service_key` | assign, remove, last-administrator rule, cascades | scope caches |
| Scopes and permissions (`services/system-admin.service.ts`, `permission.service.ts`, `middleware/admin.ts`, `permission.ts`) | `permission`, `role_permission`, `sysadmin:`, `admin:` and `perm:` caches | cached checks, catalogue, replacement of a role's set | Redis, roles |
| Redis access, rate limits (`lib/redis.ts`, `middleware/rate-limit.ts`) | breaker, counters in Redis and memory | guarded command, fixed window, failure counter | everything cached |
| Request log (`lib/logging.ts`, `workers/request-log-worker.ts`) | stream `request_logs`, table `request_log` | append, drain in batches, purge, stop | Redis, Postgres, shutdown |
| Database export (`services/db-export.service.ts`) | none of its own | one read only transaction over every table | every writer |
| Connection pool (`db/index.ts`) | the connections | acquire, transaction, time out | every query |
| HTTP shell (`app.ts`, `routes/`, `openapi/`, other `middleware/`) | none | validation, routing, 504 after 15 s | services |
| Panel (`src/apps/frontend`), contracts (`src/packages`) | browser | forms, tables, imports | HTTP API |

What is hard here, and what makes each component correct:

- **Logins** take a dozen awaits. Two of them, an administrator and a restart
  interleave, and each may throw: one session per user and system, a link that never
  dangles, a login that succeeded bound to its system, no foreign session ended.
- **Deactivation** changes a row, a cached flag and a set of sessions in three
  steps, against checks that read and write the flag themselves. It must cut
  access, soon without exception and at once as the code's comments promise.
- **Google logins** hand a session over to somebody else: between the redirect and
  the exchange nobody uses it. Its code is taken once, and whoever fails ends it.
- **Sign-ups** span better-auth and Postgres without a common transaction and
  compensate by hand; deletions check first and lock nothing.
- **The pool** is finite, and a transaction asks for a second connection.
- **Caches** are cache-aside without versions, with swallowed failures. **Limits**
  are sums of counters in Redis and in memory, chosen by a breaker.
- **Administration** must leave a system its last administrator, whatever service
  the request goes through.
- **An import** promises in a preview what three calls per row do later, against a
  server that others change.
- **The export** reads one table after another while others commit, leaves out what is
  secret, and must still restore.
- **The request log** must lose nothing between stream and table, duplicate
  nothing, and get past entries it cannot store.

`PROJECT.json` lists each of these hazards with the line where it bites.

## 2. Plan

Done, in this order: `UserActive`, `Sessions` (which composes it), `DurableLog`,
`RequestLog` (which implements it), `RoleAdmin`; then `OneTimeCode`, `GoogleLogin`
(which implements it and composes `UserActive`), `RedisBreaker` under `RateLimit` and
`AuthzCache`, composed in `RedisGuards`; `EmployeeAccounts` with the pool;
`EmployeeImport`; `DatabaseDump`; and the proofs about them.

What is left, most important first: the JWKS cache and the rotation of service keys;
the fallback of `requireIdentity` to a JWT and the cookie cache of better-auth; the
server functions of the panel; the parsing of files on both sides of the import.

## 3. Modules

### UserActive

`isUserDeactivated` and `updateEmployee`. `chk[p]` is a call of the check: GET,
on a miss the query, then the SET; `upd[w]` is an update: the row, the DEL, and on
deactivation the deletion of the sessions. Each Redis command and each query is an
action; with `RedisMayFail` a command may also do nothing and report failure, and
the code goes on as its empty `catch` says. `Expire` is the TTL. `inactive` is
what the query answers: users with an employee row with `active = false`. A query
may throw: the check then has no answer (`QueryFails`), and an update ends in an error
("failed") with its statement executed or not, and nobody repeats it.

### Sessions

`signInFn` with everything it calls, step by step: `login[l].st` is the await at
which login `l` is. Every await may throw, with its statement or its call of better-auth
executed or not: before the cookies are forwarded the login is then "aborted", after
that "failed" (the catch at `auth.service.ts:155` answers with the cookies and an
error). The rows of `session` are `live`, named by the login that
opened them; `link` is `session_system` by its unique key (user, system); deleting
sessions always cascades to links (`DeleteSessions`). The roles are kept with the
kind of the role (plain member or administrator), because `isDelegatedAdminOfPanel`
asks for it. Revocations (`SignOut`, `RevokeOne`, ...) come from sessions whose
token reached a client: `forwardAuthHeaders` runs before the bind, so that includes
logins answered with a late error. Administrators' actions (updates and deletions
of employees, systems, role assignments, password changes) are one action each: the
code makes them in one statement or transaction, except `updateEmployee`, whose
three steps are those of `UserActive`, instantiated as `UA`. `contended` is a
history variable: the pairs for which two binds have been between the read of the
previous session and the upsert at once; `misled` another: the logins that a cached
flag called active when the row said otherwise. A statement that failed is executed at
once or not at all: one that Postgres runs after its caller gave up is not here.

Left out of the data: tokens, credentials (a login of an existing user presents the
right password), expiry of sessions, what the answers say. better-auth is external:
`signInEmail` inserts a session or refuses, `revokeSession` deletes if the caller's
session resolves, `getToken` answers for a session that resolves.

### OneTimeCode, GoogleLogin

`OneTimeCode` is the promise of the exchange: a code is taken once, and only who took
it is given the token. `GoogleLogin` is the code, over `UserActive`: a login `g` is a
caller of `isUserDeactivated`. `fin[g]` is the await of `googleFinishFn` at which login
`g` is; each may throw, and then `FailAndRevoke` is the catch, which may fail in turn.
`code[g]` is its row of `verification`, `exch[x]` the await of an exchange and whose
code it took. "burn" is the branch of a wrong verifier, which ends the session too. A
lapsed code stays in the table until some login sweeps it (`PurgeCodes`), and is not
taken. The tables of roles and systems are those of `Sessions`: here any answer of
theirs may come. The bind is one step, with its two failures. `misled` is a history
variable: the logins that a cached flag called active when the row said otherwise.

### DurableLog, RequestLog

`DurableLog` is the promise: an entry that is queued ends up kept, and is dropped
only if no row can be made of it or if the full buffer gave it up. `RequestLog` is
the code: `stream` is the Redis stream, `rows` the table by its unique `stream_id`;
`dr["tick"]` and `dr["flush"]` are the two callers of `drain()`, at one of their
awaits (`read`, `insert`, `rowwise`, `delete`, and `purge` for the tick) with the
locals `parsed` and `toDelete`. `running` is "the tick is not idle"; `tracked` says
whether `currentTick` is the promise of the tick that did the work. `proc` follows
`shutdown()`: stop, wait, flush, close, exit; `Exit` is also a crash.

Every await may fail. A Redis command that times out has been executed, or not, or
will be later (`late`). An INSERT fails by a lost connection, committed or not, or is
`Refused` with an SQLSTATE: by the data (`Poison`), or, with `ServerErrors`, because
the server is in trouble. `Wrapped` says where the SQLSTATE is, on the error or on its
`cause`: the repository says both occur (`lib/http.ts:46-48`) and `isPgDataError` looks
in one place only. Data are reduced to kinds of entries: `Corrupt` ones do not parse,
`Poison` ones are refused, `Ageing` ones may outlive the retention. That `stream_id`
is unique makes `rows` a set: "once" is the database's doing and is not checked.
`seen`, `trimmed` and `purged` are history variables. Redis losing its data is not
modelled, nor is the breaker as such: `redisUp` stands for both.

In the refinement mapping an entry is kept once it has reached the table (purged or
not), queued while the stream has it or a drain holds it unstored, and dropped after
that: an entry trimmed under a drain is still stored.

### RoleAdmin

The tables `system`, `user`, `role`, `user_role`, `permission` and `role_permission`
and every request that changes them. An id of `RoleIds` or `PermIds` goes from
"unborn" to a name (or `resource:action`) to "gone"; its system never changes, because
no body of an update carries `system_id`. A row of `user_role` is named by the request
that inserted it, so that a row deleted and assigned again is another row. Role names
are "admin" and the rest: nothing in the code asks for more.

A request is a record of `flight`: the await it is at (`st`), the scope
`requireSystemManager` gave it and the locals that later statements use. The arrival of
a request is the check of its scope (`getRoleScope`, `getUserRoleScope`, `getRole`,
`getPermissionSystemId` and `assertCanManageSystem`); what comes later is a step per
statement. Requests refused at once change nothing and do not arrive. Any scope may
arrive, so that a stale cached one is covered. `CreateRole`, `DeleteUser` and
`DeleteSystem` are one statement each, or one transaction whose reads decide only
whether it happens.

The two explicit transactions run at READ COMMITTED, and their locks are modelled, for
they are what the code relies on: a statement reads the committed rows (`ForUpdate`,
`Clear`), waits until no other transaction holds one of them, then goes on with those
that are left and holds them (`Counted`, `Cleared`) until the commit (`Remove`, `Fill`).
`LockedRows` and `LockedGrants` are the rows that open transactions hold; every other
statement and cascade that deletes them waits. A deadlock that Postgres breaks, a failed
await and a stop of the server are `Fails`: the transaction rolls back.

`HasPermission` is the query of `requirePermission`, `MyPermissions` what
`listMyPermissions` returns. Left out: the caches in front of them, `active` flags,
descriptions, listings, repeated ids in the body of a replacement. `linked` is a history
variable: what was granted one by one.

### RedisBreaker, RateLimit, AuthzCache, RedisGuards

`RedisBreaker` is `redisCommand`: `fails` counts the failures in a row up to the
threshold, `openLeft` the ticks until `breakerOpenUntil`. Whoever sends a command asks
`Rejected` in the step that sends it and `Succeeds` or `Fails` in a later one, so that
commands under way when the breaker opens, or when Redis comes back, settle late.
`OtherCommand` is the rest of the server. Time is a number of ticks, each longer than a
command and shorter than a window, a TTL or the cooldown.

`RateLimit` has both limiters for one subject. `count` and `left` are the key in Redis,
`hits` the list in memory (`hits[a]`: how many are at most a ticks old); `req[r]` is the await of a request: the script by its
hash, the script in full after NOSCRIPT, the GET and PTTL of the failure counter, the
handler. A command that fails may have been executed. `AuthzCache` has the three cached
answers about a user (`admin`, `scope`, `perm`): the tables say `facts`, `Answer` is the
query, `check[c]` a check between GET, query and SET, `pending` the assignments between
their statement and the DEL. `passed` (`passed[a]`: let through at most a ticks ago),
`since`, `upFor` and `excused` are history variables. So is `forgotten`: of `passed`, what no counter holds.

`RedisGuards` composes them over one breaker, one clock, a Redis that stops and comes
back with its data or without, and a process that restarts. The limiter and the cache
share nothing but the breaker, so a behaviour watches one of them (`guard`), and the
other's commands are `OtherCommand`.

### EmployeeAccounts

`user`, `employee` and `employee.userId` (`accounts`, `rows`, `link`), who is an
administrator of the panel (`admins`), the queue of invitations and the requests:
`createEmployeeWithUser`, `createAccountForEmployee`, `deleteEmployee`,
`deleteUserAccount` and the edit behind `assertUserEditable`, one step per await;
`createEmployee`, `updateEmployee`, sign-up and the changes of roles are single
statements. `Free` is a free connection: a transaction holds one from BEGIN on, every
other statement needs one while it runs. `Locked` are the employees that a DELETE has
marked and not committed; what touches one waits. A statement that fails may have been
executed. `since` marks in a request what others have changed since it checked; `bare` is
a history variable: accounts that nobody is giving an employee to.

Ids are given once. Names, e-mails and CIs are not here: whether a CI is free is an
answer that may come either way. `AssertUserEditable` keeps the one role in another
system that makes a difference, that of administrator.

### EmployeeImport

The panel's import. `people` is the listing by id, an employee with an account or
without, or an account alone; `file` the rows, `plan` what the preview decides for each,
`at` and `row` the call that runs. The preview's sets of seen ids, CIs, names and e-mails
are written as what earlier rows have passed (`IdPasses`, `CiPasses`, `NamePasses`,
`MailPasses`): a row whose value was seen fails that check, so that one operator per check
says what the loop with its sets does. Each call to the server is one action, with the
server's own checks: refused, done, done with the answer lost, not done;
`createEmployeeWithUser` may also leave the account without the employee. `users` is
the account of each entry; `account` the one the roles of the row go to, which for an update
is what the preview saw (`result.userId`), whoever has it by then. Other administrators
create employees, change them (PATCH: name, CI, and the account, which leaves the old one
as an entry of its own: `Puts`), delete them and give them accounts in between. `made[r]`
(the employees created for row r that are there under its name), `stale` and `edited`
(those whom a PATCH by others has changed since the preview) are history variables. Ids are random: a file may name any that was given before the import, to
somebody or to nobody any more (`1..MaxPeople`), none that is yet to be given.

The listing is read in one step when the file is opened (the code reads pages); a row has
the CI, the name, the e-mail, the id and one role, each of which may be missing but for the
name; wrong formats are errors of the same kind as `Error` and are not told apart. A call
answered 504 after 15 s that the server finishes later, after the next one, is not here:
what a failed call does it does before its failure is seen. An account that an employee
has from the start is younger, in the order of the listing, than the entries there. There
is no limit on the time of a call, hence no liveness.

### DatabaseDump

`generateDatabaseDump`: `step` is the await it is at, `reading` the table. `snap` is what
the transaction sees: REPEATABLE READ takes it at the first query. `excluded` grows in
`Cascade` as the loop does, from the tables of secrets along the foreign keys. `out` is the
script: CREATE TABLE for each table, an INSERT for each table with rows, the foreign keys.
`Commit` is any change of one table that Postgres accepts; one over several tables is a
sequence of these. `Succeeds` is what psql answers to each statement on an empty database:
it is part of the property, not of the program.

A row is its id, what its foreign keys point to and whether a redacted column carries
anything. The catalogue is constant: migrations run before the server starts.

### MC modules and proofs

`MCSessions`, `MCRoleAdmin`, `MCRedisGuards`, `MCEmployeeAccounts` and `MCDataTransfer`
have the constants and symmetries for TLC (the last puts `EmployeeImport` and `DatabaseDump`,
which share nothing, behind one choice of which is watched); the instances of `GoogleLogin` and `RequestLog`
need none. `SessionsProofs`, `RequestLogProofs`, `RoleAdminProofs`, `GoogleLoginProofs`,
`RedisGuardsProofs`, `EmployeeAccountsProofs`, `DatabaseDumpProofs` and
`EmployeeImportProofs` have the proofs.

Mutants: each property of a passing run has a mutant, an operator that stands for a
plausible bug in one definition (named `Mutant:` in its comment, just before the
definition it alters) and makes the property fail in the same run.

## 4. Runs

| Run | Instance | Shows |
|---|---|---|
| `SessionsBind` | 3 logins, 1 user, 2 systems, a delegated administrator, 1 crash | `OneSessionUnlessContended`, `LinksCoherent`, `SuccessfulLoginsAreBound`, `LoginSparesOtherSessions` |
| `SessionsDeactivation` | 2 logins, 1 request, 1 update, failing Redis and database, fair handlers | `DeactivationClosesSessions`, `DeactivatedEndsWithoutSessions` |
| `GoogleLogins` | 1 login, 1 request, 2 exchanges, 1 update, failing Redis and database, restarts, fair handlers | `SessionsAreHeldOrAbandoned`, `DeactivationSparesOnlyMisledLogins`, `CacheCatchesUp`, `LoginsEnd`, refinement of `OneTimeCode` |
| `RequestLog` | 3 entries, one of each kind, `MaxLen` 2, batches of 2, 2 iterations, the SQLSTATE anywhere, fair timers | `NothingLost`, `FlushWaitsUnlessTickSkipped`, `StreamDrains`, `OldRowsExpire`, refinement of `DurableLog` |
| `RoleAdminRaces` | 2 requests of any kind, 2 administrators, 2 systems, 4 roles, 3 permissions, deletions, failures | `RolesCarryOwnPermissions`, `PanelAgreesWithMiddleware`, `LastAdminStays`, `ChangesStayInScope` |
| `RedisGuards` | 2 requests at either limiter, or 2 checks of one of three answers; threshold, window, TTL and cooldown of 2 | `BreakerIsSound`, `LimitHolds`, `RefusalsAreEarned`, `CacheIsSound` |
| `EmployeeAccounts` | 3 accounts, 2 employees, 2 requests, a pool of 2 | `SignUpsAreWhole`, `ActsAreEntitled`, `AccountsAreKept`, `NobodyIsStuck` |
| `DataTransfer` | import: 2 rows against 2 entries, or 1 against 2 or 2 against 1 with 1 change by others, the file opened twice; dump: 4 tables, 4 foreign keys, 1 row in each | `AcceptedRowsRun`, `NobodyTwice`, `OkMeansDone`, `DumpRestores` |
| `SessionsUnbound` | 1 login, 1 crash | violated: a live session with a slug and without a link |
| `RequestLogPoison` | 2 entries, one poisoned, wrapped errors | violated: the stream is blocked |
| `RoleAdminReplacement` | the same as `RoleAdminRaces`, both permissions of the system listed | violated: the role keeps the union of two sets |
| `EmployeeImportPreview` | 1 entry, 1 row, nobody else | violated: an accepted row is answered 404 |

Each module's type invariant is checked by its passing run (`GoogleTypeOK` has that of
`UserActive`, `GuardsTypeOK` those of the three modules it composes, `TransferTypeOK` those of the two it
chooses from).

Why the bounds are enough:

- Sessions. Two logins are what a bind can race with; three let a third bind meet the
  leftovers of a race (the case in which the unique key hides a live session). Two systems
  are the panel and another one. One user is enough for what relates sessions of a pair;
  that users do not disturb each other is left to the proofs, which quantify over them. One
  update is what a login can race with. `SessionsBind` has one crash: one lost handler of
  each kind; the tables carry nothing from one crash to the next that one crash does not
  produce. `SessionsDeactivation` has none: a crash between the row and the deletion is an
  excuse of both its properties, as an error there is.
- Google. Two exchanges are the race for a code; a request is the other caller whose SET
  makes the flag stale. A second login adds only the sweep of another's lapsed code and the
  session that a bind replaces; the proofs have any number.
- Log. Three entries make a full batch and a rest, a batch of mixed kinds and a stream that
  overflows under a drain; failures, crashes and restarts are unbounded.
- Roles. Two requests are the race of two revocations, or of a check with whatever may
  change under it; two administrators are the fewest of which one may go; one role is yet to
  be created, one permission yet to be listed, and this server's system has a role and a
  permission of its own, out of the delegated administrator's scope. A third request adds no
  new pair of steps, and the proofs cover any number.
- Guards. Every deadline is 2 ticks, so that it can be met exactly, early and late; a limit
  of 2 can be reached by one request or by two; two requests in flight are the fewest whose
  checks precede both increments. `Most`, where `passed` stops
  counting, is 12, above three of the largest shares (9); the proofs have any number from
  `Max` on.
- Accounts. Two requests on two connections are the fewest that can hold every connection
  and ask for more; two employees and three accounts let a link move twice. The proofs have
  any number but for `NobodyIsStuck`.
- Import. Two rows are a row and what it sees of one before; two entries let one row match
  two of them by different keys; two openings are a retry; one change of others makes a
  preview stale. With that change, or with a role or a second e-mail, there are two rows or
  two entries but not both, for time (`TransferInit`): a change touches one entry, a role one
  row. The proofs have any number of each.
- Dump. A table read before the one it points to, one read after, a table of secrets and one
  that depends on it; one row each, because a key dangles with one row. The proofs have any.

Deadlock is not checked: a server with all its logins made and nothing to revoke rests.

Fairness (`SessionsDeactivation`, `GoogleLogins`): the steps of handlers in flight are
weakly fair, because every await settles (Redis commands by timeout, queries by the
server's `statement_timeout`, `db/index.ts:30-38`); nothing is assumed of clients,
browsers, administrators or crashes. `Expire` and `LapseCode` are fair because Redis runs
the TTL and the clock goes on. In `RequestLog` the drains' awaits settle too, the two
timers run and docker restarts the process; the properties ask nothing unless, from some
point on, both servers answer and nobody stops the process (`Calm`). `NobodyIsStuck` needs
no fairness: it is a state predicate.

### What the violations say

- `signInFn` promises that a login with slug leaves a session bound to that system. The
  cookies are forwarded before the bind: when the bind throws, the browser has a live session
  without a link, in the panel's list a session of no system. `SuccessfulLoginsAreBound` is
  what holds: of a login answered with 200.

- The worker promises to discard poisoned rows and not to stick on them.
  `isPgDataError` reads `code` on the error alone. Where drizzle has wrapped the error,
  no SQLSTATE is ever recognised: a poisoned row stops the drain, and the purge behind
  it, until MAXLEN trims it.
- `setRolePermissions` promises to replace the whole set. The transaction's DELETE does
  not see rows that another replacement inserts after it started: two replacements at once
  leave the union of their sets. It is not a lost rollback: each applied its set whole.
- The preview of an import promises that errors show before anything is sent. A row that
  matches an account without an employee is accepted as an update and answered 404:
  `/employees/{id}` has no such id.

### What else the code does not keep

These have no run of their own; the models contain them, and a property says what holds
instead.

- `bindSessionToSystem` promises "una sola sesión por usuario y sistema"
  (`session-system.service.ts:25-27`). Two logins at once break it: each finds no previous
  session, the later upsert takes the link, and the earlier session lives on without a
  system. `OneSessionUnlessContended` is what holds, for any number of logins.
- `lib/user-active.ts:8-11` promises that the TTL only covers changes made outside the
  service. A check that read the row before the update writes the old flag after the DEL:
  the deactivated user passes for up to 15 s. `CacheCatchesUp` and
  `DeactivationSparesOnlyMisledLogins` are what holds.
- A deactivation that ends in an error, or with the server, between the row and the deletion
  of the sessions leaves them, and nobody deletes them later (`GivenUp`); so does a refusal
  whose `revokeSession` throws, and a login whose check throws, with a session that no
  client was given (`DeactivatedEndsWithoutSessions` lists them).
- Where the error of an INSERT is not wrapped, every SQLSTATE counts as an error of the
  data, a statement timeout or a restart of Postgres included; `Misjudges` names that case,
  and `NothingLost` is claimed outside it only.
- `stop()` promises to wait for the tick in flight, but a tick that outlasts the interval
  loses its promise to the next, skipped one, and the flush and the closing of the pool then
  overtake it: `FlushWaitsUnlessTickSkipped` says exactly when. Entries stay in the stream
  until stored, so `NothingLost` covers these behaviours.
- NOSCRIPT counts as a failure of Redis: one below the threshold, it opens the breaker and
  the EVAL that should follow is rejected (`rate-limit.ts:45-48`).
- "nunca fail-open" (`rate-limit.ts:125`, `src/apps/backend/README.md:1230`) is not kept
  for failed logins: one that cannot be recorded in Redis is recorded in memory, where a
  check whose GET works does not look (`rate-limit.ts:226-234`), so that a Redis which
  answers the checks and not the script lets any number through. `LimitHolds` bounds the
  rest: those are `forgotten`. Each loss of a counter, by a restart of Redis or of the
  server, allows the limit again.
- After the cooldown every request is a probe until one fails, not one alone
  (`redis.ts:37-38`).
- No limit in force is `Max`: it is less than three times that (`LimitHolds`), and for the failure counter the requests in flight come on top.
- `deleteUserAccount` refuses an account with an employee (`employee.service.ts:346-348`);
  one linked between the check and the DELETE goes, and its employee stays.
- A row of an import with a CI of its own overwrites a homonym with another one
  (`import-validate.ts:197-198` keeps it for rows without CI or id, `:222` does not).
- A row may say ok with its role on another account: the roles go to the account that the
  preview saw (`import-dialog.tsx:208`, `import-validate.ts:364-371`), and another
  administrator may have given the employee another one since. `OkMeansDone` has this one
  excuse, and only for an employee whom others have changed.
- A creation whose compensation failed leaves an account that keeps its e-mail: opening the
  file again matches the row with it, and the import can never complete.
- A row can make its employee twice all the same, with no failure and nobody else, when
  another row of the file renames the first: `(n1, m2)`, `(c1, n1, m1)`, `(c1, n3)`, `(n3)`,
  where `n` is a name, `m` an e-mail and `c` a CI, opened four times on an empty database,
  makes two employees for the last row. `NobodyTwice` therefore asks that the first still
  has the row's name.
- `updateEmployee` with another `userId` neither invalidates the old account's flag nor ends
  its sessions. `updateManagedUser` is two UPDATEs without a transaction.
- As many deletions as connections all wait for a second one until the pool times out: none
  is stuck (`NobodyIsStuck`), all fail.

## 5. Proofs

Each proof module proves the safety properties of its runs for any constants that the
named assumptions allow, from an inductive invariant that TLC has checked first.

`SessionsProofs`, from `SessionsAssumption` (names are distinct), for any sets of users,
systems, logins, requests and updates and any number of crashes:

- `BaseInvariant`: types and `Lifecycle` (a session's login is past `signInEmail` and
  its user exists; a login that binds has a system). `TypeCorrect` follows.
- `LinksStayCoherent`: inductive on top of it, one step per action.
- `SingleSession` needs `BindInv`: overlapping binds are recorded (`OverlapsRecorded`),
  an uncontended bound session is the linked one (`SuccessfulLoginsAreBound`) or its system
  is gone, and while a login is about to revoke it that login has read it
  (`BoundIsReplaced`). Steps that touch no bind go
  through one frame lemma.
- `LoginsAreBound`: a part of it.
- `DeactivationCutsAccess`, with Redis or without: the invariant starts where the check
  has answered (`Checked`), not where the login has moved on, and a deactivation counts
  as pending until it has deleted the sessions (`Pending`) or given up. `ChecksFollowLogins` ties
  the check's locals to the login's.
- `LoginsSpareOthers`: `PreviousIsSamePair`, established by `LinksCoherent` at the read.

`GoogleLoginProofs`, from `GoogleAssumption`, for any logins, exchanges, systems, callers
and updates. `GoogleInvariant` proves `GoogleInv`: the types; a check belongs to the login
that waits for it; a code exists only for a login that has made it, and at most one exchange
has taken it; a live session is held or abandoned; a login that is past the check of an
account that is deactivated is in reach of an update that has not closed the sessions yet, or
is misled.

- `GoogleTypes`, `SessionsHeld`, `DeactivationReachesLogins`: parts of it.
- `CodesAreTakenOnce`: every step is a step of `OneTimeCode` or a stutter (`CodeStep`).
- `WaitsAreServed` (proved only): a login that waits for `isUserDeactivated` has a call of it
  in flight (`WaitsHaveChecks`), which with `ChecksBelong` leaves no login at an await that
  nobody answers.
- `LoginsFinish`: `LoginsEnd` from `GoogleFairSpec` and `GuardsEnable`. `AwaitsLeft` ranks
  where a login is, from 9 down to 0; every step of its handler lowers it (`FinishLowers`),
  no other step but a stop of the server changes it (`OwnSteps`, `LevelsOnlyFall`), so under
  weak fairness each of the nine levels leads to a lower one (`LevelDrops`) and PTL chains
  them (`FinishComesToEnd`). The rank is bounded by the code, not by the instance, which is
  why no induction is needed. An exchange has two levels (`ExchangeComesToEnd`).
  `GuardsEnable` says that in a typed state a handler whose guard holds (`AwaitReady`) has a
  step: what ENABLED of the two actions is, spelled out. It is no condition on the
  behaviour, for every branch of every await may fail; it is a hypothesis because tlapm has
  no rule for ENABLED. TLC computes ENABLED itself when it checks `LoginsEnd`.

`RequestLogProofs`, for any entries, bounds and placement of the SQLSTATE:

- `BaseInv`: types, and a drain about to read has iterations left. `LogTypeCorrect`.
- `FlushWaits` from `FlushInv`: the flush runs only between the wait and the close, and
  a tracked tick is idle from the wait on.
- `PurgeExhausts` (proved only): the tick leaves the purge by `PurgeOldLogs`, when nothing
  old is left, or with the process.
- `NothingIsLost`, `LogImplementsDurableLog`, under `~Misjudges` (errors of the server do
  not pass for errors of the data): `LogInv` says that what a drain, or a late XDEL, is about
  to delete is stored or cannot be, and that what a drain has yet to store was appended and
  parses. One lemma, `StepsSettle`, turns every step that is not an append into a step of
  `DurableLog`.

`RoleAdminProofs`, from `RoleAdminAssumption` (well-formed tables to begin with), for any
delegations and any number of requests, from one inductive invariant, `IInv`: `TypeOK`,
`RolesCarryOwnPermissions`, and of each request `JobOK` (what it acts on lies in its scope,
what it grants belongs to the role's system, what it counts are assignments of one role) and
`TwoLocked` (a revocation about to delete the assignment of an administrator holds two that
exist).

- `RoleAdminTypes`, `OwnPermissionsOnly`: parts of `IInv`. One lemma for requests that read
  (`ReadMoves`), one for each statement that writes; every lemma of a deletion uses the locks
  for `TwoLocked`.
- `PanelAgrees`: follows from `IInv` in each state. Without `RolesCarryOwnPermissions` the
  panel would list a permission of another system that the middleware refuses.
- `LastAdminKept`: from `TwoLocked`; `MoreThanOne` turns the count into two rows.
- `ScopeKept`: `JobOK` for the rows a statement names, `RolesCarryOwnPermissions` for the
  cascades.

`RedisGuardsProofs`, from the assumptions of the three modules, for any threshold, cooldown,
window, limit, TTL, flight and number of requests, from `IInv`: the types; of the breaker
(`BInv`) that Redis has answered for a while only if it answers, and that while the script is
known what is left of a cooldown and the time since Redis failed do not exceed a cooldown; of
the cache (`CInv`) that a check about to store an answer that has changed is marked and
started before the change, and that what is stale has been so, and will be so, for a TTL and a
flight in all.

- `GuardsTypes`, `BreakerSound`, `CacheSound`: parts of it. One lemma for a success, one for
  a failure and one for a count (`CountsKeeps`, NOSCRIPT) serve every command of both guards;
  `ChangesKeeps` serves every change of the tables, `DroppedOrKept` every end of an answer.
- `LimitKept`, `RefusalsEarned` from `LInv`. What has passed splits into what the counter in
  Redis let through (R) and what the list in memory did (M); a state has such a split
  (`Parts`), and every step has one for the next state (`StepParts`). A key `a` ticks old is
  the only one of the last `a` ticks, and the one before it began more than a window ago, so
  that R stays below two shares and M below or at one; the rest is `forgotten`, which a failed
  record grows and a loss sets to all there is. A share counts the requests that
  passed the check of `failureRateLimit` and may still fail: they are what its split of check
  and increment lets through on top. `CountIsSeen` says the converse for `RefusalsEarned`:
  a key that began while Redis was sound counts nothing but what passed.

`EmployeeAccountsProofs`, from `AccountsAssumption`, for any employees, accounts, requests and
connections, from `IInv`: `TablesOK` (types; an employee with a link has a row; queued ids
were given out), `ReqOK` (what each request knows: the account of a creation was given out, a
deletion was entitled when it checked, the target of an edit is not the caller), `Apart` (two
requests hold different employees and create different accounts), `NoOrphans` and
`InvitedAreFinished`.

- `AccountsTypes`, `SignUpsWhole`, `ActsEntitled`: parts of it. Requests that do not move go
  through `Keeps` and `Moving`, reads through `Reading`, each writing statement has a lemma.
- `AccountsKept`: `OnlyUpdateReplaces`, a link is replaced by an update alone.

`DatabaseDumpProofs`, from `DumpAssumption` (tables of different names, keys between them),
for any catalogue, exclusions and redacted columns:

- `DumpTypes`, `DumpsRestore` from `IInv`: when the loop is over no exported table points to
  an excluded one (`Dependent = {}`); what is written so far is every table, then one INSERT
  with the rows of the snapshot for each table read that has any (`Body`); a finished script
  is that and the keys (`Script`). That a key holds is then the snapshot's own consistency.

`EmployeeImportProofs`, from `ImportAssumption`, for any people, file, number of openings and
of changes by others, from `ImportInv`:

- The preview (`PlanFits`, `PlanApart`, `PlanReady`, `PlanMakesOnce`): any two accepted rows
  have different targets, CIs and e-mails; the tables have a place for each; a row that would
  create has nobody under its name. That the target is one person is the uniqueness of CIs
  and e-mails.
- `RestReady` is what makes it inductive: until somebody else writes, the tables have a place
  for every row ahead. What a call touches (`Touches`) is its own row's CI, e-mail and target,
  which are not those of a row ahead (`Apart`), so `Ready` stays (`ReadyStays`). `RowDoes` is
  the one summary of the six actions of a row from which `RowKeeps` follows. `MidRow` carries what
  the first call for a row has saved to the next one.
- `AcceptedRun`, `NobodyMadeTwice`: parts of it. `MadeAreThere` says that what a row has made
  is found by its name, and so is the target when the file is opened again.
- `OkIsDone`: only a step that leaves the row done reports "ok" (`RowDoes`), for until
  somebody changes the employee that the row has saved it keeps its name, its CI and the
  account of the preview (`UsersKept`, `MidRow`, `Unedited`; that no account is two employees' is `UsersOK`).
- `TransferTypes`: a behaviour of `MCDataTransfer` is one of both modules (`TransferIsBoth`).

Only model-checked: four liveness properties (`DeactivatedEndsWithoutSessions`,
`StreamDrains`, `OldRowsExpire`, `CacheCatchesUp`), which need induction under a temporal
operator (over the batches left, or over the finite set of calls with an old answer),
and `NobodyIsStuck`, which is about ENABLED: both out of the prover's reach. `LoginsEnd` is a
theorem given `GuardsEnable`. Every other property of the passing runs is a theorem.

## 6. Not modelled

See the components with status `not_modelled` in `PROJECT.json`. Routing, validation,
schemas of the bodies, e-mail templates and migrations are I/O or layout. The panel is
a client of the API: its forms and tables keep no state that another component relies on,
but for the import, which is modelled. Of the components that are `partly` modelled, what is
missing is in their notes and, where it has state, in the plan.
