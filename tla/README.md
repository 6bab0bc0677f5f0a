# A TLA+ model of review-bingo

review-bingo is a grid of machines that review pull requests. GitHub tells the
*hub* (a FastAPI service over Postgres) of a pull request, the hub queues a job
for its head, a *client* leases the job, runs its own reviewer on it and reports,
and the hub posts the result as a comment. A client sees only the repos its
GitHub account can reach, and only as long as the hub's snapshot of that access
is recent. Dashboards follow along over server-sent events. The hub grew out of a
service template whose users, organizations, documents and token authentication
are still there, mostly not mounted.

This directory models the parts of it where several actors, failures or clocks
meet, checks them with TLC on small instances, and proves the main results for
all instances with TLAPS. Paths below are relative to the repository; `hub/…`
stands for `hub/review_bingo_hub/…` where no ambiguity arises.

    tlc -workers 2 -config OneJob.cfg MCDispatch.tla      # any run of the table below
    tlapm Dispatch_proofs.tla                             # any *_proofs module

## 1. Inventory

| Component | State it keeps | Operations | Talks to |
|---|---|---|---|
| Job dispatch: `services/job_service.py`, `api/jobs.py`, `api/webhooks.py`, `services/relay_service.py` | `review_job` rows: state, head, leaseholder, lease clock, attempts, result, relay error | enqueue and cancel (webhook), lease next, lease by name, lazy reclaim, report, relay, release on revoke | Postgres row locks; client rows; GitHub comments; event bus |
| Clients: `api/clients.py`, `services/client_service.py` | `review_client` rows: status, account, profile, last seen | enrol, check in (plain, or with a token), check out, revoke, roster | identities; jobs (release) |
| GitHub identities: `services/identity_service.py`, `services/github_identity_service.py` | `github_identity` and `identity_repo_access`: which repos, when re-read | read GitHub page by page, replace the snapshot, scope by it, refuse when stale | GitHub; every scoped endpoint |
| Dashboard login: `api/auth.py`, `services/dashboard_session_service.py`, `dashboard/index.html` | `dashboard_session` rows with an expiry; the page's session, timers and roster | device start and poll, mint a session, read, revoke | identities; GitHub's device flow |
| Event bus and streams: `core/event_bus.py`, `api/events.py` | the subscriber list, a bounded queue each; per process | subscribe under a cap, publish, heartbeat, close when stale | reports publish; pool of connections |
| Client: `client/bingo_client.py` | the state file (client token, GitHub tokens, opt-out); what this run has learned | login, check in, loop: lease, review, report, re-attest on schedule, recover from a 409 | hub API; GitHub's device flow and token refresh |
| Policies and gates: `services/policy_service.py`, `models/repo_policy.py`, `models/review_strategy.py`, the gates in `job_service.py` and `api/jobs.py` | `repo_policy` rows: floor, model allowlists, strategies, enabled; the group registry | PUT, read; snapshot onto a job; gate a lease | dispatch |
| Users: `api/users.py`, `services/user_service.py` (mounted) | `user` rows with a unique email | create, update, delete with cascades | memberships |
| Organizations, memberships, documents, storage (not mounted) | their tables; a gauge of memberships; files in one of four stores | CRUD with roles; upload, download, delete | users; a store |
| `core/auth.py`, `core/tenants.py` (switched off in `main.py`) | the cached key set of the provider | verify a bearer token; find the caller's role in a tenant | an identity provider |
| Infrastructure: `db/session.py`, `core/config.py`, `core/http_client.py`, logging, metrics, migrations | the pool; settings | one session per request, commit or roll back | everything |
| Around the client: `client/bingo_mcp.py`, `client/examples/*` | none | wrap calls; run one review | the loop runs them as a subprocess |

What correctness means for each:

- **Dispatch**: one leaseholder at a time; a job with a result keeps one and is
  never worked on again; attempts are bounded; every job settles although leases are
  reclaimed only when somebody asks for work; requests do not lock each other out.
- **Clients and identities**: nobody is in whom GitHub did not admit; the snapshot
  is what GitHub said; access that ends at GitHub ends at the hub although GitHub
  announces nothing.
- **Login**: a code gives one session, of the account that granted it; nobody waits for
  a code that can give nothing any more; what the page offers can be done.
- **Event bus**: exactly the open streams are subscribed, under the cap; each gets
  what its account may see and nothing else; nobody is passed over because others
  come, go or stall; a report never waits for a reader.
- **Client loop**: an unattended loop survives trouble or says what a person has
  to do; the state file holds only credentials that work and that it may hold.
- **Gates**: the SQL and the Python version of each gate are one rule; a lease clears
  it as it is at that moment; a PUT changes what it names and nothing else.
- **Workspace and documents**: of two removals one removes; the gauge counts; a row
  has its file and a file its row; an answer is true when it is given.
- **Tokens**: nobody is admitted on keys the provider gave up longer ago than the
  cache may live, and nobody is refused without a cause.

What is hard: handlers are asyncio tasks that interleave at every `await`, each in
its own READ COMMITTED transaction, with ORM objects loaded before a lock is
taken; leases, snapshots, sessions and key sets run out by the clock; a process may
die between two commits, or between a file and its row; GitHub answers late, not at
all, or about a moment that has passed; streams live long and end in five ways; the
page is driven by two timers. `PROJECT.json` lists each such hazard at its line with
the properties that would show it going wrong.

## 2. Modules

| Module | Models | Composed with |
|---|---|---|
| `Dispatch` | the job table and every handler that moves jobs, statement by statement | implements `JobLifecycle` |
| `JobLifecycle` | abstract: the lifecycle `models/review_job.py` promises of one job | – |
| `Attestation` | accounts, snapshots, client rows and sessions, and the requests that read GitHub | – |
| `Login` | device codes, the dashboard page and its timers, sessions, the roster, the client's commands beside each other | – |
| `EventBus` | streams, the bus, publishes, the pool | – |
| `ClientLoop` | one `bingo_client.py loop` with its state file; hub and GitHub as environment | – |
| `PolicyGates` | policies, the jobs they are snapshotted onto, and the gates, as SQL and as Python | – |
| `Workspace` | users, organizations, memberships, the tenant check, the gauge | extended by `Documents` |
| `Documents` | document rows and files in one of four stores | extends `Workspace` |
| `Bearer` | `AuthMiddleware`, `verify_token`, the cached key set, the provider | – |
| `Stack` | the authentication middleware in front of the handlers | composes `Documents` and `Bearer` |
| `MC…` | instances for TLC (`ClientLoop` needs none) | |
| `…_proofs` | the theorems about each | |

Operators whose comment begins with *Mutant* are plausible bugs put beside the
definition they would replace; no specification uses them, and for each property
`PROJECT.json` names one that TLC must refute.

### Dispatch

`jobs` and `status` are the committed tables, `fresh` whether a client's account
has a snapshot inside its TTL, `comments` what GitHub shows. `task[r]` is a
handler: `op` the request, `at` the statement or await it is at, `seen` the ORM
object its session loaded, `pend` the rows it has written and so locked. A write
waits while another task's `pend` holds the row; the commit copies `pend` into
`jobs`. Each action is the stretch of a handler between two points where another
transaction may be seen:

| Action | Code |
|---|---|
| `LeaseNextStart`, `LeaseOneStart` | authentication, the status check, `get_job_for_identity` and the gates (`api/jobs.py:52-63`, `80-144`) |
| `Touch`, `TouchGone` | `touch_client`: the client's row is locked, or is gone |
| `LeaseNextSelect` | the two UPDATEs of `reclaim_expired_leases`, `_refuse_if_access_stale`, the `SKIP LOCKED` select and `_hand_over` of the object it loads |
| `LeaseOneSelect` | the locking select by id; `_hand_over` changes the object loaded at the start (`seen`), so a value equal to the stale one is not written |
| `LeaseNothing`, `LeaseRefusedStale`, `LeaseCommit` | the three ways a lease request ends |
| `ReportStart`, `ReportUpdate` | the unlocked lease check, and the UPDATE by id with its commit |
| `Relay`, `RelaySucceeded`, `RelayFailed` | the comment, and the second commit; a comment may be posted although the call fails |
| `RevokeStart`, `RevokeRequeue`, `RevokeExhaust`, `RevokeDelete` | the two UPDATEs and the DELETE, whose foreign keys null `leased_by` and `reported_by` |
| `EnqueueCheck`, `EnqueueInsert`, `CancelQueued` | the webhook |
| `CheckIn`, `CheckOut`, `AccessExpires`, `LeaseExpires` | plain heartbeats and check-outs; the clocks |
| `Abort`, `BreakDeadlock` | a request that dies; Postgres's answer to a ring of waits |

`Spec` lets everything overlap with everything. `UndisturbedSpec` is `Spec` but for three
windows in which the code reads without a lock and writes by what it read: the job a
lease by name has loaded, until it is locked; the lease a report has checked, until its
UPDATE; the rows a revoke has released, until its DELETE. In these (`Undisturbed`) nobody
else commits a change of just what was read; every other step may still come there.

The payload of a job or result is reduced to who wrote it; `CanTake` stands for
the gates, which are `PolicyGates`. A statement takes all its row locks at once (the
order in which one multi-row UPDATE locks its rows is not modelled).

### Attestation

`history` is what GitHub granted, epoch by epoch; `identity[u]` the snapshot of an
account with the epochs it was read between (history, for the property only);
`client` the rows with the account each is linked to; `session` the accounts with
a dashboard session. Enrolment, check-in with a token and login are one kind of
task: `ReadUser`, then a `ReadInstallations` per page of the account's installations and
a `ReadRepos` per page of each installation's repos, while `Change` may happen between any
two of them; then `FindIdentity`, `WriteIdentity` (the flush that locks or inserts the
row), `EnrolCommit`/`CheckInCommit`/`LoginCommit`. As in the code a page is asked for by
its number, and a page that is not full is the last (`Page`, `Last`), so what is withdrawn
between two pages moves what comes after it. That GitHub lists by id, and an installation
only while it has a repo the account reaches, is assumed of GitHub; installations of other
Apps, which `_is_our_app` drops from a page after it was read, are left out.
`GithubFails` covers a rejected token and an outage: the answers differ, and neither writes
anything. This is github mode; in dev mode there are no accounts and nothing is scoped.
`Legacy` clients are those registered before accounts existed.

### Login

A device code at GitHub is opened, decided by a person, spent by whoever polls first
after the grant, or lapses. A behaviour looks at one side. On the *page* side,
`flight[f]` is a request of `dashboard/index.html` with the answer it will land with:
the page's `Interval` (`poll()` every `POLL_MS`), `Second`, `LoginTimer`,
`ClickSignIn`, `ClickRevoke` and the landings of each answer against `HubStart`,
`HubPoll`, `HubMint`, `HubRead`, `HubRevoke` at the hub; `Lose` loses any request or
answer. `ShowLogin` is `showLogin`, with the `clearTimeout` in it. On the *client* side
`proc[p]` is a command: `login` (`RequestCode`, `PollGithub`, `Enrol`, `Save`),
`check_in --reattest` (`LoadState` after the flow, the check-in, `Save`), or a loop that
holds the state in memory and writes the whole file. At the hub a check-in loads the
client's row (`CheckInAsks`) and then asks GitHub whose the token is: `CheckIn` is an
answer, which links a client that had no account; `CheckInLetThrough` is an outage, whose
200 the client takes for acceptance, storing a token nobody has looked at. `Near` stands for the access
snapshots: who shares a repo with whom. One tab, which is not reloaded; `slow_down` is
in the choice of `Intervals`. A check-in without `--reattest` and `register` leave no
state of a new kind. What the hub does with a GitHub token is `Attestation`'s.

### EventBus

One process. `stream[s]` says where the generator of `_event_stream` is: at the
top of its loop, asking whether its access is stale, waiting on its queue, or
writing a frame. `Forgotten`/`Closed` are its `finally`. `report[r]` and `walk[r]`
are a publish at the end of a report: per subscriber `CheckAccess` (the await) and
`Put`, which acts on the answer of a moment ago. `CanConnect` counts the pooled
connections: a stream keeps the one its caller was resolved on (FastAPI 0.141,
pinned in `hub/uv.lock`, closes `yield` dependencies after the response). A
`Stalled` reader stops reading without hanging up. `audience`, `entitled`,
`steady`, `overrun`, `blips` are history kept during a publish. A database error
in one check aborts the transaction all later checks of that publish use
(`CheckOnAborted`). A stream that never starts its generator is not modelled. An
event that is queued when access is lost is still delivered (`api/events.py:98`), as
the model does; no document says otherwise.

### ClientLoop

`pc` walks `run_loop`: scheduled re-attestation (`renew`, `check_in`), then
`one_round` (`lease`, `review`, `report`), `recover` for a 409, and the two
sleeps. `disk` is the GitHub credential in the state file, `held` the one this
check-in presents; refreshing spends the stored refresh token at GitHub at once
and the new pair reaches the file only after the hub accepted it, as in the code.
What the hub answers follows from `hub` (status, age of the snapshot, lease,
revoked, whether it can read GitHub). `Faults` and `MaxFaults` say what may go
wrong and how often. `faults.seen` is what did since the loop last slept, was served,
was started again or aged by half a TTL (`Afresh`), with what still lasts (`Lasting`). A refresh token of `none` also stands
for a client without an App client id. `proved` and `retries` are history. The hub's
snapshot age and the client's half-TTL clock run independently. `save_state` truncates
the file and then writes it (`bingo_client.py:217-220`); here, and in `Login`, the file
changes in one step, so a process killed between the two is not modelled.

### PolicyGates

`policy`, `jobs`, `offered`, `perm` and `stale` are committed rows, `groups` the
registry of model groups a process was started with. A PUT is `PutStart` (the
authorization), `PutUnknownGroup` or `PutRead`, then `PutUpdate` (the ORM writes only
the attributes that differ from the row it read) or `PutInsert` (the second of two
first PUTs fails on the unique name). The webhook is `EnqueueRead`, `EnqueueInsert`: a
job carries the floor and strategies of the policy that was read. A lease is
`LeaseNextStart`, or `LeaseOneStart` and `LeaseOneChecks`; then `LeaseRefusedStale` or
`LeaseScope`; then `Lease`, the locking query of both, takes a row that no other
transaction has locked (`Available`: SKIP LOCKED), and `LeaseCommit` hands it over, or
`Abort` rolls back; or `LeaseNothing` finds none, which a named lease answers with a 409.
`task[r].taken` is the row a request has locked. The webhook's cancel holds one too, from
`CancelStart` to `CancelCommit`. `QueryMatches` is
the WHERE clause, `PreChecks` the Python. `Redeploy` is a restart with other groups.

### Workspace and Documents

`task[r]` is a request between its statements: `admitted` (the role the middleware
found is kept for the rest of the request), `read`, `flushed` (its row is written and
locked), and for documents `stored`, `unlinking`, `committed`. Row locks are read off
the steps of the other tasks (`Wrote`); a foreign key to a row that is being deleted
waits too. `said` is the answer the last step gave. `mix` picks which kinds of request
arrive together. `strays` and `aborts` record what moves the gauge away from the table,
see section 4. `PATCH /users/{user_id}` flushes and answers, and never commits
(`api/users.py:114-139`), so its change is rolled back: `UpdateUserEnds`.

A document has a row (`docs`) and a file (`files`: none, torn, whole). Each store's
upload, delete and signing is an operator of what it may leave behind: a local write
that fails may leave a torn file, a cloud call that fails may have arrived. `Imports`
says for which cloud providers the factory finds a class. In the code at hand that is
none: `storage.py:209`, `235` and `261` import the class as if it were a module and
always raise `ModuleNotFoundError`, so only the local store can be built. The run takes
the providers as found, to look at the code behind the import as well.

### Bearer and Stack

`call[q]` is a request at the middleware: it is passed on, refused, admitted, or waits
for the provider (`asks`) or for its key set (`fetches`). `key` says what the provider
does with each key and since when, `cache` is the pair of module globals. Time goes in
ticks and stops at `Ttl`. The expiry of a cached set is counted from before its fetch
(`Stored`); overlapping fetches all store. A token whose `exp` has passed by more than
the leeway is `exp`. `clear_jwks_cache` during a fetch does not keep the older answer
out. An `AUTH_PROVIDER_TYPE` that is none of the known strings is not modelled (it
raises a `ValueError` on each request), nor is `get_user_from_headers`, which reads two
headers and keeps nothing.

`Stack` puts the middleware in front of the handlers. `main.py:218-239` has both
middlewares commented out; uncommented in the order its comments give, Starlette would
run tenant isolation *before* authentication, while `core/tenants.py` says it must come
after. `Stack` composes them in the order they need. Since nothing but the user passes
from one to the other, a behaviour looks either at the middleware (`mix = {}`) or at the
handlers, and their states do not multiply.

## 3. Runs

Instances are the smallest in which every actor the property mentions has a rival
to interleave with; the bounds are named in the modules.

| Run | Instance | Shows | States |
|---|---|---|---|
| `one_job` (`OneJob.cfg`) | 2 clients, 2 overlapping requests of any kind, 1 job, 2 attempts, aborts | what holds in *every* interleaving: a job row agrees with itself, its clients and its pull request, finished jobs stay finished, nothing reopens, a lease is never stolen, only a revoke can deadlock, a revoked client stays out | 561k |
| `apart` (`Apart.cfg`) | as `one_job`, under `UndisturbedSpec` | but for the three windows the leases add up, nothing is announced twice, and `Dispatch` implements `JobLifecycle` | 115k |
| `polling` (`Polling.cfg`) | 1 steady client that polls, 2 requests, fair, no aborts | every job settles; every report is relayed or says why not | 249k |
| `admission` (`Admission.cfg`) | 2 accounts, 1 repo, 2 clients (1 legacy), 2 requests, aborts | nobody is in without GitHub | 2.2M |
| `access_loss` (`AccessLoss.cfg`) | 1 account, enrolments and check-ins (`Ops`), 2 repos of one installation on pages of 1, 2 requests, 1 change of mind by GitHub, fair | snapshots are true to one read and whole unless something was withdrawn during it; lost access ends | 198k |
| `login` (`Login.cfg`) | 2 accounts, 3 machines (with an account, registered without one, not yet enrolled), 2 codes (1 for the page), 3 sessions (1 of an earlier visit), 2 requests of the page, or 2 commands; 1 lost answer; fair | a code gives one session of its account; what the roster calls yours can be revoked; nobody is left waiting, on the page or at the command line | 229k |
| `streams` (`Streams.cfg`) | 3 streams (1 stalled), cap 2, pool 3, 1 report, queue 1, 1 database error, fair | subscribers are the open streams; nobody gets what it may not see; stale streams close | 188k |
| `publishes` (`Publishes.cfg`) | 2 streams (1 stalled), 2 reports, queue 1, fair | nobody is passed over; publishes end whatever readers do | 283k |
| `loop` (`Loop.cfg`) | 3 faults of all 11 kinds, at any step; expiring tokens; fair | the state file is clean; the loop is served again, or exits naming the fix; what its comments say of 409s, exits and pauses fails only while the trouble they overlook is fresh | 326k |
| `gates` (`Gates.cfg`) | 2 clients of different tiers and models, 2 models, 1 strategy, 1 group, 1 repo, 1 job, 2 requests that lock, commit and roll back, 3 changes | SQL and Python gates are one rule; a lease clears them; a PUT leaves alone what it leaves out; a named lease that is refused lost a race, to the lock, to the job or to the clock | 1.35M |
| `stack` (`Stack.cfg`) | 3 users, 2 organizations, 2 memberships, 2 documents, 2 requests of one mix, 2 store failures, 1 abort; or 2 calls, 2 keys, 1 token, TTL 2, timeout 1 | removals are one request's own, the gauge counts, rows have files and files rows, answers are true; no admission on old keys, no refusal without a cause | 600k |
| `sign_in` (`V_ThenPolls.cfg`) | the page side of `login` with GitHub's 5 seconds between polls | **violation**: the page opens the flow and never polls | – |

Why these bounds are enough for the questions: a race in this code is between two
requests over one row, so two tasks and one or two rows show it; two attempts have
a first, a last and a boundary between; a queue of one is full after one event; a
pool of three is a cap of two and one report; with one item on a page two repos are
enough for the second to move onto the page of the first, and the larger instance of three
repos of two installations on pages of one (`Home <- TwoHomes`, `Repos = {1, 2, 3}`,
`MaxChanges = 2`, `Reqs = {r1}`, `Spec`) has also been checked; a key set can be fresh, due or too old within a TTL
of two ticks, and a fetch can take one of them; two keys are an old and a new one; three
changes let a PUT, another PUT and a redeploy fall into one lease. What grows with the
instance is covered by the theorems of section 5. Deadlock checking is off only where
the system may really stop: all clients revoked and all rows used, the loop having
exited, every stream and report served, every code used, the last organization gone.

`login` uses an interval of one second although GitHub's is five: with five the page
does not get as far as polling, which is what `sign_in` shows, and the properties of
what follows would hold for want of anything to violate them.

### Fairness

- `polling`: strong fairness for each step of a request, because a row lock is
  granted in the order it was asked for (a weakly fair waiter might be overtaken
  for ever); a steady client's lease request is strongly fair because it polls
  between its own requests; leases expire; Postgres breaks deadlocks. No request
  dies: one that dies between a report's commit and the relay's leaves the job
  reported with no outcome, for ever, and nothing in the code picks it up again.
- `apart` needs no fairness but has the condition `Undisturbed`, which the code does not
  enforce: section 4 shows what each of its windows lets happen. Without it `one_job`
  checks what holds all the same.
- `access_loss`: requests end, time passes. Nobody is assumed to check in.
- `streams`, `publishes`: the event loop runs every coroutine that can go on. No
  reader is assumed to read (`Stalled`) or to hang up.
- `loop`: the loop runs and is kept running by its supervisor, access
  tokens expire, an outage of GitHub as the hub sees it ends. Faults are finite in
  number, not in place.
- `login`, `sign_in`: timers fire, requests are answered or lost, commands go on,
  GitHub's codes lapse. Nobody has to click, to decide, or to let a session expire.

## 4. Where code and documents disagree

One disagreement is a run, `sign_in`: `poll()` runs every 2 seconds and, while there is
no session, calls `showLogin`, whose `clearTimeout` cancels the timer that `pollLogin`
has just set for 5 seconds later; the page never asks whether its code was granted
(`dashboard/index.html:570`, against line 653). The others are properties defined in
the modules with no run of their own; each is refuted by the change of a passing run's
configuration given here.

| Property | Refuted by | What the code does |
|---|---|---|
| `ReportNeedsLease` | `OneJob.cfg` with it as a PROPERTY | the lease is checked on an unlocked read and the UPDATE is by id alone: a report lands after its lease is gone (`api/jobs.py:191`, `172`) |
| `OneActivePerHead` | `Apart.cfg` with `MaxJobs = 2` and it as an INVARIANT | `enqueue_job` looks and inserts in two statements without a unique constraint: two deliveries of a webhook make two jobs (`docs/…/2026-08-14-pr-handoff-grid.md:68`: "never two jobs per head") |
| `NoOrphanedLease` | `Apart.cfg` with `SPECIFICATION Spec` and it as an INVARIANT | a lease that commits between a revoke's UPDATEs and its DELETE is left leased by nobody until the clock lapses (against the comment at `api/clients.py:271`) |
| `ExhaustedMeansSpent` | same | the second UPDATE of `_transition_leased_jobs` has no attempts condition and exhausts a lease committed after the first |
| `QueuedIsFree`, `AttemptsCountLeases` | same, the second as a PROPERTY | `lease_specific_job` changes an object loaded before the lock: a queued job keeps a leaseholder, or an attempt is lost (`job_service.py:356-358`, `review_job.py:12`) |
| `LeaseWhileCheckedIn` | `OneJob.cfg` with it as a PROPERTY | the status is read once; a check-out in between is followed by a lease (`api/jobs.py:56`) |
| `LinkIsForGood` | `Admission.cfg` with it as a PROPERTY | two check-ins of an unlinked client with tokens of two accounts link it twice (`identity_service.py:707-709`) |
| `GrantedIsSeen` | `AccessLoss.cfg` with it as an INVARIANT | lists are read by page number: a withdrawal between two pages moves a repo that was granted all along onto a page already read, and the snapshot lacks it (`github_identity_service.py:362`: "to exhaustion") |
| `SnapshotsMoveForward` | `AccessLoss.cfg` with it as a PROPERTY | a snapshot is stamped when written, not when read: the older of two readings may win (`models/github_identity.py:75`) |
| `BlipCostsOne` | `Streams.cfg` with it as an INVARIANT | one database error costs every later subscriber the event (`tests/unit/test_event_bus.py:105`: "costs that subscriber its event and nothing more") |
| `ReportsGetConnections` | `Streams.cfg` with `PoolSize = 2` and it as an INVARIANT | an open stream keeps the connection its caller was resolved on, so as many idle streams as the pool is large starve a report (`api/events.py:58-63`) |
| `ConflictMeansStale` | `Loop.cfg` with it as an INVARIANT | a 409 of the report is answered as one of the lease (`client/README.md:152-153`) |
| `LoginAgainIsNeeded` | same | an outage during a refresh looks like a dead credential, and the loop exits (`bingo_client.py:667-668`) |
| `WeatherIdles` | same | only HTTP status errors are caught; no answer at all kills the loop (`bingo_client.py:752-754`) |
| `NoBareLoop` | same | a check-in that renewed nothing counts as a recovery: lease, 409 and check-in alternate without a pause (`docs/…/2026-08-12-work-grid-operations.md:50-51`) |
| `KeepsServing` | `Loop.cfg` with `Expires = FALSE` | a token that never expires is presented for ever after its authorization was withdrawn (same document, line 112) |
| `StoredOnlyAccepted` | `Login.cfg` with it as an INVARIANT | a check-in during an outage of GitHub is answered 200 before anyone knows whose the token is, and the client stores it (`api/clients.py:206-218`, against `bingo_client.py:541-544`) |
| `LoginOverwrites` | `Login.cfg` with it as a PROPERTY | a running loop writes the whole file it loaded: a `login` that saved meanwhile is undone, down to the machine (`bingo_client.py:447`) |
| `DropsOnlyRefused` | `Login.cfg` with it as a PROPERTY | the 401 of a request sent with the old session lands after the person signed in again and drops the new one (`dashboard/index.html:606-607`) |
| `MissingMeansGone` | `Login.cfg` with it as an INVARIANT | after a change of accounts an old row's button is answered 404, and the page takes a row off whose machine is enrolled (`dashboard/index.html:995-998`) |
| `PairWasPut` | `Gates.cfg` with it as an INVARIANT | the ORM writes only the attributes that differ from what was read, so two PUTs leave the floor of one with the `enabled` of the other (`policy_service.py:40`: "Full-replace `min_tier`/`enabled`") |
| `FailedDeleteKeepsFile` | `Stack.cfg` with it as a PROPERTY | a delete may be answered 503 with the file gone: a cloud call that fails may have arrived, and of two deletes of a local file one finds it unlinked between its look and its own unlink (`api/documents.py:318`) |
| `FallsBack` | `Stack.cfg` with it as a PROPERTY | with Cognito and a configured key the remote validation is the local one once more (`core/auth.py:615`, against `646-647`) |

What the code does keep of these is checked where it can be said: `LeasesAddUp`, the
conjunction of the dispatcher's promises on a lease, by `apart`; `SnapshotIsWhole`, which
grants `GrantedIsSeen` its one excuse, by `access_loss`; and by `loop` `KeepsItsWord`, the
conjunction of `ConflictIsStale`, `LoginAgainMeansLogin` and `BacksOff`, which may each be
broken only by the trouble that the promise overlooks, and only while that is fresh or lasts.

Without a property, because they are about one statement each:

- `core/event_bus.py:44-48` says the oldest event is dropped from a full queue;
  `put_nowait` drops the newest, as the model does.
- The membership gauge (`organization_service`, `membership_service`) is moved before
  the commit and not moved back; `create_organization` does not count the owner it
  adds, `delete_organization` subtracts what it counted earlier, and cascades from a
  user are not counted. `GaugeCounts` therefore excludes those (`strays`, `aborts`).
- `user_service.py:60-67` says the counter follows a successful commit; it precedes it.
- `log_activity_decorator` adds its row to the session after the endpoint committed,
  against "atomically" in its docstring (`activity_logging.py:203-208`).
- `storage_retry` retries on every `Exception` (`storage_providers.py:209`), its
  docstring speaks of transient failures.
- A cloud download redirects whether or not the blob exists.

## 5. Theorems

TLC checks the small instances; these hold for all values of the constants that
satisfy the named assumption of each module.

| Theorem | States | Argument |
|---|---|---|
| `Dispatch_proofs!Typing` | `Spec => []TypeOK` | with `ReportShape`, what a report in flight holds |
| `Dispatch_proofs!ResultsStand` | `Spec => FinishedWorkStands` | `WorkInv` below |
| `Dispatch_proofs!LeasesAreSafe` | `Spec => LeaseNotStolen` | `WorkInv` below |
| `Dispatch_proofs!DeadlockNeedsRevoke` | `Spec => []OnlyRevokeDeadlocks` | `WorkInv` and `RevokeShape` (who may wait for job rows while holding some): whoever waits without revoking holds no row another such request waits for |
| `Dispatch_proofs!RowsAgree` | `Spec => []RowsCohere` | `CohereInv` below |
| `Dispatch_proofs!RevocationIsFinal` | `Spec => RevokedIsOut` | `CohereInv` below: a commit can only name a caller who is not revoked |
| `Dispatch_proofs!JobsStayEnded` | `Spec => NothingReopens` | `WorkInv` below: a row that an open transaction has written is still queued or leased |
| `Dispatch_proofs!CalmLeasesAddUp` | `UndisturbedSpec => []LeasesAddUp` | `CalmInv` below, here and in the next two |
| `Dispatch_proofs!CalmCommentedOnce` | `UndisturbedSpec => []CommentedOnce` | two relays are never of one job, and a relay under way is of a job without a comment |
| `Dispatch_proofs!CalmImplementsLifecycle` | `UndisturbedSpec => FollowsLifecycle` | refinement: each step of `Dispatch`, of however many rows, is for each job a step of `JobLifecycle` or leaves that job alone |
| `Attestation_proofs!Typed` | `Spec => []TypeOK` | |
| `Attestation_proofs!SnapshotsAreTrue` | `Spec => []SnapshotWasTrue` | `TrueInv`: what a task has found so far was granted in some epoch since it began |
| `Attestation_proofs!SnapshotsAreWhole` | `Spec => []SnapshotIsWhole` | `TrueInv` below |
| `Attestation_proofs!Admitted` | `Spec => []AdmittedByGithub` | |
| `EventBus_proofs!Typed` | `Spec => []TypeOK` | |
| `EventBus_proofs!OnlyOpenStreams` | `Spec => []SubscribersAreOpen` | `ListInv`: nobody is twice in the list, so that removing the first occurrence removes the stream |
| `EventBus_proofs!OnlyToTheEntitled` | `Spec => []SentWasReachable` | `ReachInv`: before its event is offered no stream has it, and an answered check is of an account that was entitled |
| `EventBus_proofs!EverybodyIsServed` | `Spec => []NobodySkipped` | `OwedInv`: everybody due is still ahead in the walk or has been given the event |
| `ClientLoop_proofs!Typed` | `Spec => []TypeOK` | |
| `ClientLoop_proofs!StoredCredentialsWork` | `Spec => []StoredWasAccepted` | the file changes by an accepted check-in or by age |
| `ClientLoop_proofs!OptOutHolds` | `Spec => OptOutGainsNothing` | same lemma |
| `ClientLoop_proofs!WordKept` | `Spec => []KeepsItsWord` | `WordInv` below |
| `Login_proofs!LoginTyped` | `Spec => []TypeOK` | `LoginInv` below |
| `Login_proofs!CodesGiveOneSession` | `Spec => []CodeGivesOneSession` | `LoginInv` below |
| `Login_proofs!OwnMeansRevocable` | `Spec => []OwnIsRevocable` | `LoginInv`: a request carries a session that was minted, so its caller has an account |
| `PolicyGates_proofs!GatesAreOne` | `Spec => []GatesAgree` | `OneRule`, about the operators alone: both sides read the same lists of a policy that is well typed |
| `PolicyGates_proofs!LeasesClearGates` | `Spec => LeaseClearsGates` | only `Lease` takes a row, and it looks with `OneRule`; only the commit of that request makes the row leased, and `Held` says nobody else has it meanwhile |
| `PolicyGates_proofs!OmissionsStand` | `Spec => OmittedListStands` | a list left out is the one that was read, so the UPDATE does not name it (`UpdateLeavesOut`) |
| `PolicyGates_proofs!RefusalsAreRaces` | `Spec => RefusalIsARace` | `Checked`: what the pre-checks found depends on nothing that changes under the request, so with the same policy a queued row that nobody has locked fails the query over the access alone |
| `Bearer_proofs!Typed` | `BearerSpec => []BearerTypeOK` | with `AskedRightly`, why a request waits |
| `Stack_proofs!StackCacheStaysRecent` | `StackSpec => []CacheIsRecent` | `BearerInv` below; every behaviour of the stack is one of `Bearer` |
| `Stack_proofs!StackAdmitted` | `StackSpec => AdmittedWasVouched` | same |
| `Stack_proofs!StackRefused` | `StackSpec => RefusedForCause` | same |
| `Stack_proofs!HubTyped` | `StackSpec => []TypeOK` | `HubInv` below, here and in the rest |
| `Stack_proofs!RemovalsAreOwn` | `StackSpec => RemovalIsOwn` | the row a request is about to delete is there, and no other request takes it |
| `Stack_proofs!AnswersTrue` | `StackSpec => AnswersAreTrue` | each answer is compared with what its request did |
| `Stack_proofs!DocumentsHaveFiles` | `StackSpec => []RowsHaveFiles` | a stored upload, not committed yet, has its whole file |
| `Stack_proofs!NothingIsLeftOver` | `StackSpec => []NothingLeftOver` | on the condition of the property a file appears with an upload and goes before its row does; only the deletion of an organization takes rows and leaves files |
| `Stack_proofs!GaugeIsRight` | `StackSpec => []GaugeCounts` | `Gauged`: without aborts and `strays` the gauge is the number of members, plus the inserts and less the deletes in flight; each of the three sets gains or loses one |

`WorkInv` is the invariant the dispatcher rests on: only reported and relayed jobs
have a result (`ResultsAreFinal`); a row an open transaction has written is one the
commit may still replace, that is, it is queued or leased and not under a running
lease that the write would give to somebody else (`LocksHeld`, by `Fit`); and no two
open transactions have written one row (`LocksExclusive`). None is inductive alone. A
write is fit when it is made, but only stays so until the commit because nobody else
can write the row meanwhile; and that a finished row is written by no lease or revoke
needs both. Each commit is then shown to be one of four harmless changes of a row
(`Harmless`), from which the two action properties follow. A job that has a result
keeps *a* result: the late report of section 4 may replace it.

`CohereInv` is `RowsCohere` strengthened by what is not committed yet: every row a
transaction has written would cohere too if it replaced the committed one
(`WriteCoheres`), and a request that is past the look at its caller has one who is not
revoked (`TaskCoheres`). The latter holds because a revoke marks nothing before its
commit and waits for the client row that the request has touched. It holds in every
interleaving; TLC confirms it on the instance of `one_job`.

`CalmInv` is what `UndisturbedSpec` adds, for any number of overlapping requests. Every
row adds up (`RowAddsUp`); only finished work has a comment, and one; no two relays are of
one job (`RelaysApart`); and what a request has read or written is still what the table
says (`TaskAddsUp`): a pending row is one lifecycle move from the committed one and does
move it, the job a report has checked is still leased to its caller, the object a lease by
name has loaded is still like its row as long as the job is active (`LikeLoaded`), and a
revoke that has released its jobs has them all pending. The core is what another request's
commit does to a request that does not move (`OthersStand`): rows it has written it has
locked, so nobody moves them, by `WorkInv`; what it has read without a lock is in one of
the three windows, and there `Undisturbed` speaks. TLC confirms `CalmInv` on the instance of
`apart`. `OneActivePerHead` is not among its parts: nothing of the above depends on it.

`TrueInv` follows a read of GitHub page by page. Whatever has been found was granted at some
epoch since the read began. And as long as nothing was withdrawn since, whatever was granted
when it began is found or still `Ahead`: its installation is kept for later or not read yet,
or its place in the list (`Rank`) is not before the page that comes next. A list that has
only grown moves an item backwards, so it cannot fall behind the walk; and a page
that is not full is the end of the list, so nothing is ahead of it (`WalkOn`).

`LoginInv` follows a code from GitHub to the session. A granted code is somebody's; a
code spent by the hub is held by exactly one request until its session is minted
(`MintingOK`), and by exactly one session from then on (`SessionOK`). Every
token the page holds or has sent was minted (`MintedOnce`), and so belongs to an account,
which is why a 404 cannot be of a machine of the caller's. The page and the client's
commands are looked at one at a time (`side`), so no machine is enrolled while a revoke of
the page is under way.

`WordInv` has two strengthenings. `HubRemembers`: what lasts of a trouble is among those
seen, a job under review was leased, and a 409 in hand is justified by the client's state
or a lost lease. `RetriesLead` says where a loop is that has answered one
409, or two, without a pause: after one it has checked in or is about to, after two it
presents a credential or the snapshot is new, and a new snapshot cannot be refused before
it ages, which resets the count. It is conditional on the same troubles as the promise it
supports. These are forgotten exactly where the count starts again, and then only if they
are over (`SeenGrows`, `LastingSeen`), so an excuse is never older than the stretch it excuses.

`HubInv` says for each request what it relies on between its statements (`TaskOK`), for
each pair what keeps them out of each other's way (`Apart`: two inserts differ in their
rows, what one request deletes no other deletes or takes along with its user or
organization), for each document that a committed row has no half a file (`DocOK`), and
that no organization is gone unless `strays` says so. `Apart` is needed for all the
others: a request's row stays what it was because every other request that could change
it would have to wait. TLC confirms `HubInv` on the instance of `stack`.

`BearerInv` says of a key set not only that it is recent but how long it may still be
used: `Recent(state, K, n)` gives a retired key of the set, and a current one that is
missing from it, an age of at most `Ttl - n`. A cached set is recent for as many ticks
as it has left (`CacheRecent`), one under way for `Ttl` less the ticks since its request
began (`ArrivingRecent`). Each tick takes one from the one and adds one to the other, so
both are kept, and storing a set turns the second into the first exactly because the
code counts the hour from before the fetch. `VouchedWhileSound` says that a provider's
yes or no, still under way, was right about the token when it was formed.

The assumptions on the constants are the `ASSUME` of each module. Most say of which type
a constant is. The others: ids of different kinds differ (`Workspace`: a membership's id
is no document's, both are UUIDs of their own tables; `Login`: no account is one of the
marks for "no account", "not there yet" and "gone"), and the membership table and the
requests that overlap are finite, without which the gauge would count nothing.

Only model-checked: everything under fairness (`JobsSettle`, `ReportsAnswered`,
`LossEnds`, `StaleStreamsClose`, `PublishEnds`, `KeepsServing`, `NobodyWaitsForEver`,
`CommandsEnd`), which the prover does not do. Every invariant and every action property that a passing
run checks is stated by a theorem, about `UndisturbedSpec` where the run is. `ThenPolls` is
the one a run refutes. `FairSpec` in a configuration is `Spec` with fairness, so a theorem
about `Spec` is about that run too.

## 6. Plan

Done: the modules of section 2, the runs of section 3 and the theorems above. Left:

1. **Reloads and a second tab** of the page; the policy form, whose PUT is `PolicyGates`'s.
2. **A state file in two steps**: the window in `save_state` between truncating and
   writing, with a process killed or another one loading in it, in `Login`.
3. **The page beside the commands**: a machine enrolled while the page has a request under
   way, which `side` keeps apart.

## 7. Not modelled

- What a page draws, the job list and the policy form; argument parsing of the client;
  its one-shot commands that make one call and keep nothing.
- Formatting of comments and prompts, webhook signatures, token hashing, the parsing of a
  JWT: conversions no property here is about.
- Logging, metrics (but for the membership gauge), request size limits, migrations,
  health, the admin endpoints, the background tasks, the MCP wrapper and the example
  reviewers: no state that interacts.
- Reads that change nothing: `GET /policies`, `GET /documents/{id}/metadata` and their
  like. Presigned upload URLs, which nothing calls.
- The moment in which `save_state` has truncated the state file and not written it yet.
- Retries within one call of a store or of the database: a call that is retried is one
  call that takes longer, with the failures of the last attempt.
- Several hub processes: the tables are shared through Postgres, so `Dispatch`,
  `Attestation`, `PolicyGates` and `Workspace` already cover them (a task may live in any
  process); the event bus and the key cache are per process by design, so a stream hears
  only its own process's reports.
