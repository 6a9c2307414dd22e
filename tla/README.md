# RD-Sync in TLA+

RD-Sync collects bank transactions from the web portals of several banks and
shows them to the staff of one company.  A worker drives a long-lived browser
per bank; when a bank ends the browser's session, RD-Sync logs in by itself,
and it must never do so twice at once, twice for one event, or without leaving
a record.  Most of what is hard in this code is that coordination: leases and
compare-and-set statements in PostgreSQL, a BullMQ queue in Redis, a timer in
every worker process, and page calls that cannot be taken back.

This directory models that coordination in TLA+, checks it with TLC on small
instances, and proves parts of it for all instances with TLAPS.  Every
definition that models code is listed in `PROJECT.json` under `map` with the
lines it stands for.

    tlc -config Ingestion.cfg Ingestion            # a run; see the table below
    tlapm AttemptStoreProofs.tla                   # the proofs

## 1. The system

Paths are relative to `src/`, so `src/modules/...` is `src/src/modules/...`
seen from this directory's parent.

| Component | State it keeps | Operations | Talks to |
|---|---|---|---|
| **Durable authentication attempt** `modules/persistence/prisma-bank-session-authentication-attempt-repository.ts` | one row per (bank, run): status, phase, retry count, owner token, generation, lease | getOrCreate, acquireLease, renewLease, beginCredentialInteraction, recordSubmitBarrier, claimRetry, complete*, reconcileExpiredLease | PostgreSQL |
| **Authenticated session coordination** `modules/bank-sessions/ensure-authenticated-session.ts`, `authentication-mutation-authority.ts`, `worker/scraper/authenticated-session-mutation-runner.ts`, `durable-auto-login-mutation.ts` | per invocation: handle, phase reached, sticky failure, heartbeat | probe, mint, claim, run, fence every page mutation, decide | attempt rows, the bank's page |
| **Expiry episode store** `prisma-bank-session-expiry-episode-repository.ts` | one row per bank: event, publication, audit marks, consumer attempt, terminal verdict; resolutions | 21 conditional statements | PostgreSQL |
| **Expiry monitor and runtime** `modules/bank-sessions/index.ts`, `expiry-episodes.ts`, `worker/expiry-runtime.ts` | per process: candidate, known episode, last status | tick: check, elect, audit, publish, restore; observe terminal jobs | episode store, queue, audit sink, browser |
| **Publication queue and consumer** `modules/bank-sessions/expiry-publication*.ts`, `worker/expiry-publication-consumer.ts`, `ingestion-worker*.ts` | BullMQ jobs | add, deliver, retry, stall, evict; reserve, run | Redis, episode store, processor |
| **Scrape-time recovery** `worker/queues/index.ts` | none of its own | recover, reserve, log in, recollect, resolve or give up | episode store, login, browser |
| **Manual recovery** `manual-recovery-*.ts` | resolutions and their audit outbox | resolve, deliver, authorize replay | PostgreSQL, audit sink |
| **Auto-login lock** `modules/bank-auto-login-lock` | one key per (bank, trigger) in Redis, one fencing counter | acquire, renew, release | Redis |
| **Circuit breaker** `modules/bank-auto-login-config` | per bank: window start, failure count, opened at, enabled | recordFailure, openBreaker, resetBreaker, configure | PostgreSQL |
| **Auto-login state machine** `worker/scraper/auto-login.ts` | none between logins | preconditions, throttle, fields, submit, outcome | lock, breaker, page, audit |
| **Scrape runs and ingestion** `modules/scrape-runs`, `worker/queues`, `worker/ingestion-consumer.ts` | ScrapeRun rows, the ingestion queue | run now, mark running, ingest, terminal status | PostgreSQL, Redis, adapters |
| **Browser runtime** `worker/scraper/browser-runtime.ts`, `modules/observability/browser-capacity-monitor.ts`, `scripts/launch-bank-browser.sh` | slots and waiters per process, launches in flight, a launch lock per browser profile | acquire, release, ensure, launch, sample | the bank's browser over CDP, operators |
| **Transactions** `modules/transactions`, `prisma-transaction-repository.ts` | transactions, review status | upsert by source hash, review | PostgreSQL |
| **Portal scraper** `worker/scraper/navigation/popular*.ts` | none between collections | warm up, page, settle, collect; the monitor's session check | the bank's portal |
| **Run-now buttons and routes** `components/transactions/refresh-button.tsx`, `components/admin/*`, `app/api/scrape-runs` | pending flag per button | post, poll, give up | ingestion, browser of the staff |
| **Authentication** `modules/auth` | sessions in cookies, login attempts in memory | log in, rate limit | - |
| **Other adapters, rest of the UI, alerts, other scripts** | - | parsing, rendering, I/O | - |

### Who meets whom

The monitor of every worker process ticks on a timer and sees the bank's
browser session; the first that sees it expired *elects* an episode (one row
per bank), audits it, and publishes a job for it.  Independently a worker that
is scraping meets the expired session, adopts the same episode (or creates
one), reserves its *consumer attempt*, moves it to `mutation_started`, and only
then logs in.  When the session is active again whoever notices first writes
the *restored* audit, cancels the publication and closes the row; a row whose
login may have happened and was not settled is retained for an operator.
The authentication attempt, which fences each single page mutation of a login with
a lease in the database, stands beside that: its coordinator, mint and runner are
complete, but the worker in production is not wired to them and logs in under the
lock, the reservation and the mutation hook alone.

A scrape itself begins with a button: the run-now route looks for an active run
of the bank, inserts a `ScrapeRun` row and adds a job, to BullMQ or to a queue in
its own memory that it drains itself; the processor marks the row, collects, stores
what is new and marks the row again, while the button polls the status route.
Scrapes and logins of one process share its browser slots, and all of them the one
browser of the bank, which the launch script starts.

### What is hard

* Every conditional `UPDATE` can find the row changed by somebody else, and
  what the caller does then differs from call to call.
* A lease can run out between two awaits of its holder, and a page call that
  was authorized cannot be called back.
* Jobs are delivered at least once, may stall, may be forgotten by the queue,
  and may be added twice by a publisher whose `add` threw after it took effect.
* An audit is recorded before it is marked delivered; the process may stop in
  between, and another may do the same audit at the same time.
* A verdict of the queue (job failed, job missing), an operator's decision and
  the login's own outcome reach the same row in any order.
* A monitor keeps a candidate and an episode id in memory while other
  processes change the row.
* A job may be processed twice, at the same time even, and a run that was
  declared failed may yet run.
* The portal renders late, redirects late, and lists new movements while its
  pages are read one by one.
* A browser that was started is not there yet: everybody who looks meanwhile
  sees none.  A page may come after nobody waits for it, and its close may fail.
* Some calls have no time limit: the queue's `add` while Redis is away, and most of
  what a scraper asks of its page.

`PROJECT.json` lists them under `hazards`, each at its line with the
properties that cover it.

### What makes each component correct

* *Attempt*: one lease at most is told to write credentials, the same lease
  alone passes the submit barrier, a verdict is final, retries stay in budget
  and are used only while nothing was written.
* *Coordination*: the portal sees the fields of one invocation and one submit;
  what is answered to the scrape is what the row says for good; every
  invocation answers.
* *Episode*: the row can always be read back; one login per event; a login
  that may have happened is on record until settled; a replay is earned.
* *Monitor, worker, queue*: logins of a bank overlap only by an operator's
  decision; no episode is closed without its audits; a restored session is rid
  of its episode; a failed delivery is noticed.
* *Ingestion*: a success is backed by what is stored, reviews are not undone, one
  failure is survived where nothing was lost, buttons come back.
* *Browser*: slots are exact, no page is forgotten, logins come back, a profile has
  one browser.
* *Collection*: a success is complete; an expired session is called expired.

## 2. The modules

| Module | Models | Relation to the others |
|---|---|---|
| `OneLogin` | what the authentication attempt promises, without leases or generations | implemented by `AttemptStore` |
| `AttemptPolicy` | the pure policy of one attempt: transitions, classes of failure, retries | implemented by the row of `AuthenticatedSession` |
| `AttemptStore`, `AttemptStoreProofs` | the attempt row and the statements of its repository, called by anyone with any handle ever issued | - |
| `AuthenticatedSession`, `AuthenticatedSessionProofs` | several deliveries of one run: coordinator, mint, vault, runner, heartbeat, page fence, portal | extends `AttemptStore`, whose statements are its repository calls; proved to implement it |
| `EpisodeStore` (`MCEpisodeStore`) | the expiry episode, the manual resolutions, and all their statements | - |
| `EpisodeMemory` | the in-memory repository of the same interface | extends `EpisodeStore`, and is compared with it in every state |
| `ExpiryRecovery` (`MCExpiryRecovery`) | monitors, terminal observer, workers, BullMQ, operator, browser session | extends `EpisodeStore`, whose statements are its repository calls |
| `ExpiryProofs` | - | the proofs about `EpisodeStore`, `EpisodeMemory` and `ExpiryRecovery` |
| `AutoLoginLock` | the Redis scripts of the lock and the end of the key's life | - |
| `AutoLogin` (`AutoLoginProofs`) | runs of the auto-login: preconditions, lock, guarded mutations, outcome, cleanup, release | extends `AutoLoginLock` |
| `CircuitBreaker` (`MCCircuitBreaker`, `CircuitBreakerProofs`) | the breaker's row, its policy, serializable recording, administration | `AutoLogin` hands failures over and counts them in `failures` |
| `Ingestion` (`IngestionProofs`) | buttons, run-now route, both queues, processor, `ScrapeRun` rows, transactions, reviews | its `Collect` has the outcomes that `PopularPortal` and `ExpiryRecovery` arrive at |
| `BankBrowser` | the one browser of a bank: launch script, launch lock, joined launches | - |
| `BrowserSlots` (`BrowserSlotsProofs`, of `BankBrowser` too) | the semaphore, its two users and the capacity monitor | extends `BankBrowser`; opens up `EnsureBrowser` and `CloseBrowser` of `AutoLogin` |
| `PopularPortal` (`MCPopularPortal`, `PopularPortalProofs`) | one collection of movements, or one check of the session, against the portal | - |

An `MC` module adds the symmetry set of its instance and nothing else.  A definition
whose name ends in `_Bug` or `_<What>Bug` is not part of any specification: it is the
form a plausible programming error would give the definition after it, and
`PROJECT.json` names the property that notices (`mutants`).

### How state and actions correspond to the code

**AttemptStore.**  `attempt` is the row; `leaseExpiresAt` is the number of
ticks left, so that every comparison with the database clock is `= 0` or
`> 0`.  A statement of the repository is one action, because it is one
`UPDATE ... WHERE` (or one short transaction under a row lock).  An action
carries the whole `WHERE` clause; a statement that matches no row changes
nothing and is not an action.  A handle is `[attemptId, token, generation]`,
and any handle in `issued` may be presented at any time: that is what stale
workers do.  `issued`, `begun` and `barred` record what callers were told.

**AuthenticatedSession.**  A worker's `pc` names the repository, probe or page
call it is about to make; between two of its calls everybody else moves.
`Deliver` starts an invocation, `FindExact` ... `CompleteObserved` are the
coordinator's loop, `Auth*` the mint of the authority, `BeginFence`,
`RenewFence`, `BarrierFence` the durable fence before each page mutation,
`WriteField` and `ClickSubmit` the mutations, `Decide` the one answer at the
end.  The page mutation is a step of its own *after* its fence, so a lease may
run out between the two, as it may in the code.

**EpisodeStore.**  An event stands for the pair (expired event id, run id),
which are derived from one another.  `updatedAt` is kept as the only comparison
made with it, *older than the claim timeout*.  The leased consumer statements
are modelled although no production code calls them yet.
`started`, `settled` and `born` are histories.

**ExpiryRecovery.**  `proc[p].pc` again names the call about to be made;
`memory[m]` is what a monitor keeps between ticks (known episode, candidate);
`jobs[e]` the publication job, `session` the browser session, `audits` the set
of audit records, whose ids are deterministic.  `Check` ... `MarkPublished` is
a tick of the monitor, `TerminalFind`, `TerminalObserve`, `TerminalReconcile`
the terminal observer, `Recover` ... `ResolveLogin` the recovery inside a
scrape, `TakeJob` ... `JobFault` a delivery of the publication job, `ForgetJob`
and `Stall` what the queue does by itself.

**AutoLoginLock, AutoLogin.**  A lease is named by its fencing number, drawn
once per acquisition as its random token is.  A guard is three steps -
required controls, detection window, URL - so that the portal can cover the
page or navigate inside it.  `Mutated` lists what a page call that fails may
have done: nothing, or all of it.  `Scrub`, `CloseBrowser` and `Release` are the
cleanup on every path, and may fail too.  `Unauthorized` is the hook before the
first fill, in which a recovery reserves its attempt and may be refused.

**CircuitBreaker.**  `version` stands for the database's conflict detection: a
serializable transaction commits only if the row was not written since it was read
(`CommitFailure`).  P2034 (`Conflict`) may meet it at any of its statements and for any
reason, as PostgreSQL refuses transactions whose row nobody wrote too; it tries again up
to `Attempts` times.  `OpenBreaker` and `ResetBreaker` are the unconditional
updates they are in the code, a read earlier.

**AttemptPolicy.**  The functions of `session-authentication-attempt.ts` have no
caller in production: the repository's statements and the runner's `decide` say the
same things again, in SQL and in place.  `Parsed` reads the row as
`parseSessionAuthenticationAttemptRecord` does (a row it refuses is *malformed*), and
`ImplementsPolicy` says that what happens to it is what the policy allows.

**EpisodeMemory.**  An operation of the in-memory repository is the set of the rows it
would make, empty when it refuses; `Same` compares that set with the statement of
`EpisodeStore`, guard and result, by ENABLED.

**Ingestion.**  `request[n]` is the n-th POST and `scrapeRun[n]` its row.  `Click` and
`ClickTrigger` are the two kinds of buttons; `AbortPost`, `PollDeadline` the timers of
the one that has timers.  `HasActiveRunForBank`, `CreateQueued`, `ScheduleIngestionJob`
are the route's three awaits.  `worker[w]` is one call of the processor, in BullMQ's
worker or in a drain of the in-memory queue (`mode`); `Throws` is what becomes of a
call whose exception leaves the processor, `Stall` a lock that ran out with its worker
dead or merely late, whose late result BullMQ then discards (`Returns`).
`reported`, `judged`, `known` and `ghost` are histories.

**BankBrowser, BrowserSlots.**  The launch script opens the lock file on descriptor 9
and starts the browser as its child, which inherits the descriptor: the lock lasts as
long as the browser (`LockIsHeld`).  `ensure[c]` is a call of `ensureCdpBrowser`, of which
those that come later join the first (`Joined`).  A hand-over of a slot is part of the
release that makes it (`ReleaseSlot`).  The scraper closes its page and connection and then releases, the auto-login the other way round;
`late` is the setup that was abandoned while its page was being created.  Every close
may fail, hang or be swallowed, and leaves a *stray* page, which nobody returns to; the
close of the connection ends a `newPage` that is still under way, or it does not.

**PopularPortal.**  `tab` is what the page shows: nothing, the frame of the results, or
their rows as the ledger was when the portal looked.  `settle` is the loop of
`settleReadResultsTable`, its clock reduced to the two limits it knows.  `Post`, `Leave`,
`Redirect` and `Render` are the portal's own moves, between any two page calls.

## 3. What is checked

| Run | Instance | States | Shows |
|---|---|---|---|
| `AuthenticatedSession` | 2 workers, 1 attempt id, 1 retry, lease of 1 tick, 1 crash, fair | 115 k | the portal sees one login; verdicts say what happened; *authenticated* is durable; a late write is up for review; the row implements `OneLogin` and `AttemptPolicy`; every invocation answers, and redelivery frees a dead worker's lease |
| `EpisodeStore` | 3 events, 2 publication tokens, 2 claims, lease of 2 ticks | 160 k | the row can always be read back; one mutation per event; an unsettled mutation is never deleted; a replay follows a decision and its audit; a verdict of the queue spares a leased login; the in-memory repository agrees |
| `ExpiryRecovery` | 1 monitor, 2 workers, 1 event, 1 mishap, fair | 594 k | logins of one bank overlap only after an operator's decision; no closed episode without its two audits; a restored session is rid of its episode; a job that failed for good gets its verdict |
| `ExpiryRevival` | 1 monitor, 1 worker, 2 events, 1 mishap | - | *fails*: see findings |
| `ExpiryVerdict` | 1 monitor, 1 worker, 2 events, no mishap | - | *fails*: see findings |
| `AutoLogin` | 1 run started twice, 3 moves of the portal, 2 faults, fair | 81 k | at most one mutation meets a page that moved; no password left in a page; success is concluded about a submitted, uncovered page; runs answer and keys end |
| `CircuitBreaker` | 2 workers, 1 administrator, threshold 3, window 2, 2 attempts, 4 reports, 3 commands | 452 k | the counter is exact; it opens at its window's threshold; what is counted together lies in one window; only a reset closes it |
| `CircuitRolling` | 1 worker, 1 administrator, threshold 3, window 2, 4 reports | - | *fails*: see findings |
| `Ingestion` | 1 page, 2 workers, 2 requests, 1 movement, 2 attempts, 1 fault, both queues, fair | 266 k | a success is backed; active runs overlap only unseen or revived; movements and reviews stay; one fault leaves no run active for good, short of a row whose request was lost; buttons come back |
| `BrowserSlots` | 1 scraper, 2 logins, 2 slots, queue of 1, 2 launchers, with and without flock, fair | 359 k | slots are exact; one browser per profile; every open page has an owner; alerts match spells; logins come back |
| `PopularPortal` | 5 movements, pages of 2, at most 2 pages | 141 k | a success is complete; an expired session is reported as such |
| `PortalRedirect` | 2 movements, 1 page | - | *fails*: see findings |

A type invariant is stated for every component and proved (`TypeCorrect`, `SessionTypes`,
`RecoveryTypes`), and no run repeats it; nor does a run repeat the proved
`OneRunAtATime`, `StaleLeaseStaysOut`, `SingleInteraction`, `GenerationsAreUnique`,
`LeaseBudget` and `RetryOnlyUntouched`.

### Bounds, and why they are enough

* Two workers (monitors, runs) make every pairwise race; nobody in this code
  ever compares three of them.  Three events in `EpisodeStore` are one before
  a replay, its replay, and a third to be refused.  `ExpiryRecovery` has one: its
  properties speak of one event, of the workers and the monitor that meet in it, and of
  what a crash makes of it.  What further events add is in the theorems, which take any
  number of them, and in the two runs of the findings, which have two.
* A lease of one tick is either good or over, which is all that a caller can
  see; `EpisodeStore`, where renewal has to show, uses two.
* `MaxMishaps`, the failing calls and stopping processes of a behaviour of
  `ExpiryRecovery`, is 1 in its run: one mishap at every single place.  The theorems
  take any number; a job that stalls again is failed by BullMQ (`Stalled`).
* The delayed backoff of a retried job is part of *waiting*: nothing in the
  system can tell the two apart but by the clock.
* `Elect` may find the set of event ids used up; that disjunct bounds the
  instance and stands for nothing in the code, which draws a random id.
* The operator of `ExpiryRecovery` decides *safe to retry* only.  The other
  two outcomes leave the row as that one does, without the replay.
* In `AutoLogin`, the page of a process that stopped is not followed further:
  nobody in this code returns to it.
* `AutoLogin` has one run, started twice, since pages are not shared and exclusion by
  the lock is proved for any number of runs.  Threshold 3
  with 4 reports opens the breaker, resets it and counts again; 2 attempts let
  a transaction be retried and be dropped.
* `AuthenticatedSession` has one attempt id: `getOrCreate` never replaces a row, so a
  second id is only ever refused.
* `Ingestion`: two requests are the race for the active-run lock, two attempts a job
  that is tried again and one that has used them up, one fault every single failure at
  every place.  Movements are stored independently of one another, so one is enough for
  reviews and duplicates; a collection that lists it again in a later run is the skipped
  one.  The page's first request may still be served when it clicks again.
* `BrowserSlots`: three callers on two slots make a waiter and a hand-over; the queue's
  limit itself is never the reason to refuse with three callers.  Two launchers are the
  race for the lock; a third would only wait beside the second.
* `PopularPortal`: two pages of two rows and a fifth movement reach the limit of pages,
  a full last page, and a movement that is pushed from one page to the next.
* Symmetry is used over tokens, claims, workers and movements of *safety* runs only.
  These identities are never ordered and only compared for equality.
* `CHECK_DEADLOCK FALSE` stands where the system may really stop: the stores accept no
  further statement once their ids are used up, the breaker's bounded clock ends, every
  request of `Ingestion` has been made and nobody reviews, a collection is over.

### Fairness

* `AuthenticatedSession`: weak fairness of a worker's next call and of the
  database clock.  Repository, probe and page calls are bounded by timeouts.
  A worker that *crashed* owes nothing.  `DeliveriesFreeLeases` states as its
  premise that the row's attempt keeps being delivered, since that is the
  scheduler's business and not this module's.
* `ExpiryRecovery`: weak fairness of a monitor's step, because the runtime's
  `setInterval` fires again and again, and strong fairness of a check that finds
  the active session, because an unreachable browser is reconnected and not
  unreachable for ever from some point on.  Workers and operators owe nothing:
  the liveness here rests on the monitor alone.
  A tick is assumed to end: its queue, unlike its timer, answers only while Redis
  does, and so these two properties say nothing of a Redis that stays away.
* `AutoLogin`: weak fairness of a run's next step and of Redis' own clock.  A run's
  steps are bounded by the setup timer of its page, the timeouts of Playwright's
  actions, the cleanup budget and the lock's own Redis command timeout.
* `Ingestion`: weak fairness of the timers of the refresh button, of the route that
  serves a request and of its answer's arrival, of a worker's next step, and of BullMQ
  finding the job of a dead worker.  A poll need not find anything, a click and a
  network error need not happen, and a lock need not run out under a living worker.
  Two calls owe nothing, since nobody has put a time limit to them: `queue.add`, whose
  connection retries for ever (`Adding`; `maxRetriesPerRequest: null` and no command
  timeout in `bullmq-queue.ts`), and a collection (`Collecting`).  The properties say
  what may wait for them: a run that is being added, collected or kept from a slot
  (`Unanswered`), and a trigger button whose request is adding.
* `BrowserSlots`: weak fairness of the steps that a timer enforces (`Bounded`): the end
  of the wait for a slot and the polls of the browser for every caller; for a login also
  its connect and its page actions (Playwright's 30 s), its setup timer and its bounded
  cleanups.  `newPage` and `evaluate` have no timeout, and neither have the scraper's
  `page.close` and `browser.close`: a scraper may keep its slot for ever, a page that was
  asked for need not come.  Nothing is assumed of the browser, of the scripts or of
  operators.

## 4. What is proved

The theorems hold for all values of the constants that satisfy the assumptions named
in the modules: `StoreAssumption` and, for the session, `CrashAssumption`;
`EpisodeAssumption` and, for the processes, `RecoveryAssumption`; `LockAssumption` with
`AutoLoginAssumption`; `BreakerAssumption`; `IngestionAssumption`; `BrowserAssumption`
with `SlotsAssumption`; `PortalAssumption`.  They say which constants are numbers and
which names differ, and bound nothing.  Each proof
has the same shape: an inductive invariant (`IInv`, or `SInv` and `RInv` on top of a
store's), one lemma per action that it is preserved, the temporal step at the end.
Every safety property that a passing run checks is stated by a theorem, `TwinAgrees`
excepted: it is written with ENABLED, and what it says is proved without it, as
`TwinTakesEveryStep` and `TwinImplementsStore`.

**AttemptStoreProofs.**  `SingleInteraction` alone is not inductive: nothing in
it prevents a second lease from being told *interaction started* after the first
one ended.  What prevents it is spread over the row: owner and lease go
together and only an active row has them (`OwnerShape`); each retry costs two
generations, one to lease and one to let go, so the generation tells how often
the row was leased (`GenerationLaw`, `IssuedCount`); a touched active row still
belongs to the lease that touched it (`TouchedByOwner`); and the phase column
never understates what callers were told (`PhaseTellsAll`).

With these: types, the single writer, distinct generations, the retry budget,
that an unowned active attempt is untouched, that a verdict is final, that a
retry is only taken untouched, and the refinement `StoreSpec => Login!OneSpec`
(`Refinement`): `Stage` maps the row to the abstract stage, `begun` to the
writers and `barred` to the submitters.  Two of the strengthenings are of
interest by themselves, `UnownedMeansUntouched` and `VerdictIsFinal`, and are
stated in `AttemptStore`.

**AuthenticatedSessionProofs.**  Every call of a worker is a statement of
`AttemptStore` or leaves the row alone (`SessionImplementsStore`), so the store's
invariant holds here too.  What is added is, for each worker, how its own record
agrees with row and portal (`Session`): the handle it works under was issued; its
phase is *leased* exactly as long as that handle has not begun; it is past the
barrier before it clicks, nobody else has clicked, and it can call itself
successful only after the click came back.  `Verdicts` says what a recorded
verdict means for the portal.  A worker that does not move keeps its record,
because histories only grow and a settled row does not change (`Bystander`); a
worker that moves is dealt with call by call.  The result is every safety property that the run checks:
types, one login at the portal (`PortalSafe`), true verdicts, and the
late mutation that is always up for review.

`PolicyIsKept` adds that the row, read as `AttemptPolicy` reads it, only makes the
steps of the policy: each statement is one permitted transition of `Parsed`.  What it
needs beyond the invariants is that a recorded failure says why (`SaysWhy`).

**ExpiryProofs.**  *The repository.*  The row is deleted and born again while the
histories go on, so the invariant is how the two agree (`Ledger`): everything that the
histories speak of was born; a row's attempt that nobody acted upon has no login
on record, one that is resolved is settled; an operator's decision settles.
From it: types, that every row can be read back, one login per event, that an
unsettled login is never deleted, that a replay is earned, and that a verdict
of the queue spares a login whose lease is good.

*The processes.*  A monitor may bring a closed id back (the first finding), and the
ledger of a second row under an old id is not what `Ledger` says: with two workers the
revived event is logged in to a second time, so `OneMutationPerEvent` holds of the
statements, not of the processes.  They keep what speaks of the row alone
(`RowInv`).  `RInv` adds that the row's marks are true of the audit log
(`MarksAreTrue`), that a job which waits or runs has an attempt left (`JobsOK`), the
order of the audits (`WorldOK`), and for each process what
it has read and still relies on (`SnapshotOK`): it marks delivered only an audit that
is recorded, closes only after both, and the login it was told to start is the row's
unless an operator decided about its event (`InHand`).  The last is the heart of it: of
all statements only the claimant's own and the operator's decision take a login away
(`HandsKept`).  `RInv` was checked by TLC on the instances of the expiry runs before it
was proved.  From it: types, readable rows, `AuditsPrecedeClose`,
`LoginsOverlapOnlyByDecision`; that every step of monitors, workers and operators is a
statement of `EpisodeStore`, insertions under any id allowed (`StatementsOnly`), hence
`VerdictSparesLeasedLogin` under them too.  `FreshIdsImplementStore` says that the
finding is the only gap: in a behaviour in which no id comes back (`NoIdComesBack`)
the processes implement `EpisodeSpec`, and one login per event, the record of every
unsettled login and the decision before a replay hold of them as well
(`FreshIdsSuffice`).

*The tests' repository.*  `TwinAgrees` is proved as its two halves.  Whatever the
database carries out, the repository of the tests carries out and makes the same row of
it, the leases of a replay excepted (`TwinTakesEveryStep`).  That needs `RowInv` only, so
it holds under the processes as well (`TwinTakesEveryCall`).

The other way, `TwinSpec` is the repository of the tests run by itself, and every run of
it is one of the database's (`TwinImplementsStore`): what it accepts, the database
accepts.  One statement needs more than `IInv`: the database looks for an earlier
decision in the log of resolutions, the tests' repository in the attempt, and both find
the same because a decision settles the attempt (`SettledIsResolved`, checked by TLC
first).  `updatedAt` is taken to be set where the database sets it: the tests'
repository does not always, and `TwinAgrees` leaves it out for the same reason.  So what
is proved of the database's row holds of the one the tests see (`TwinIsSafe`).

**AutoLoginProofs.**  `LeaseInv` says that the lease of a run is the key's or
ended, and that no two runs have the same one; `RunInv(r)` ties `pc` to how many
mutations reached a moved page, to the lease and to whether submit was pressed.
From them: types, exclusion (`RunsExclude`), no return of an ended lease,
`NextBoundaryCatches` for any number of moves of the portal and faults, that the
breaker only hears of runs that pressed submit, and that success is concluded about a
submitted page that nothing covers.  `CleanupInv(r)` counts: a password that one step of
the cleanup left behind has cost a fault, and two steps that might leave it two, so that
none stays in a page that was not submitted (`PasswordsAreCleared`).

**CircuitBreakerProofs.**  `Current` says that a transaction that read the
present version holds the present, closed row.  From it: types, the exact
counter, opening exactly at the threshold of the window that the row keeps, that window,
and that an open breaker stays open.  A transaction may be refused at any time, so
nothing is said of which failures are dropped.  `BreakerIsAtomic`
sums it up for the callers: under any number of transactions that race, lose and retry,
the row changes as if every failure, opening, reset and switch were one step upon the
row as it stands, with a stamp that is past.  It needs, besides, that a row once found
is never deleted and that stamps are not ahead of the clock (`Sound`).

**IngestionProofs.**  `JobInv` is the life of a job: it is in the queue, held by a worker, or
done with, and in the queue only once.  `RunInv` is what the row says of a run that was
not revived, that is, whose job was delivered once at most; `StoreInv` what rows and
movements say of each other: a worker about to record a success has stored everything
it found.  From them: types, `SuccessIsBacked`, `ActiveRunsOverlap`, and that stored
movements and reviews stay, over any number of buttons, workers, requests, attempts and
faults.

**BrowserSlotsProofs.**  `LockInv`: of all scripts and browsers one at most shares the
description of the launch lock, where there is `flock`.  `SlotInv`: a call has a slot
exactly between its acquire and its release, wherever those stand in its own order
(`Keeps`); the semaphore's counter is the number of such calls; somebody waits only
while all slots are taken; the queue holds each waiter once.  `MonitorInv` ties the
monitor's counter to the length of the spell.  From them: types, `OneBrowser` of
`BankBrowser` under everything the callers do, `SlotsAreExact`, `AlertsMatchSpells`,
`PagesHaveAnOwner` (`PagesStayOwned`, which needs only where each page may be), and
that slots are handed out in the order of the queue (`QueueIsFair`): who gets one is
its head, or a newcomer while nobody queues.

**PopularPortalProofs.**  `CollectInv`: as long as no half-rendered page was taken for a
whole one, a movement that is owed is in the rows, on the page at hand, or further down
than the pages read, because movements come in at the top only and push others down
(`ListedPage` says where each row of the ledger is listed).  `WarmInv`: a page that the
portal has left shows where it went.  From them: types, `CollectedIsComplete`,
`WarmUpSeesExpiry`, for any ledger, any page size and any limit of pages.

**Model-checked only.**  `TwinAgrees` as it is written, with ENABLED; its two halves are
proved above.  All liveness (fairness and ENABLED are
beyond the proof system): `EveryInvocationAnswers`, `DeliveriesFreeLeases`,
`RestoredEpisodesClose`, `FailedDeliveryIsNoticed`, `RunsAnswer`, `KeysEnd`,
`OneFaultIsSurvived`, `ButtonsComeBack`, `LoginsComeBack`.

## 5. Findings

* **A closed episode comes back** (`ExpiryRevival`).  When the publication of a
  newly inserted episode throws, `tickOnce` keeps the candidate in memory.
  A worker that then recovers the session closes the row; the next tick that
  does not see the session active - an unreachable browser is enough - inserts
  the same event id again.  The specification retains the identity "until the
  session is restored".
* **The terminal observer judges a login it knows nothing of**
  (`ExpiryVerdict`).  A scrape that recovers its own session publishes the
  episode without a job, so to the observer its job is *missing*, the row is
  moved to `manual_recovery_required` while the login is in progress, and the
  login that then succeeds cannot resolve its attempt.  The episode stays for an
  operator although the session is back.

* **A redirect is taken for an empty page** (`PortalRedirect`).  The collection reads the
  URL of a page of results once, before it waits for the table.  A redirect that comes
  later leaves no table, the missing table counts as an empty page, and the rows of the
  pages before are returned as the whole (`popular.ts:420`); the comment of the function
  promises *expired* for a redirect during pagination (`popular.ts:305`).
* **Three failures in half an hour do not always open the breaker** (`CircuitRolling`).
  The window starts with its first failure and is replaced whole by the first after its
  end: of failures at minutes 0, 28, 32 and 34 the last three count as two.  The policy
  calls the window "rolling" (`breaker-policy.ts:24`) and the specification says "open
  after 3 failures within 30 min"; the comment of `nextStateOnFailure` describes what the
  code does.  `OpensAtThreshold` and `WindowHolds` speak of the window that the row keeps.

Observations that are not findings, since no run shows them or nothing in the
repository says otherwise:

* The coordinator does not probe a row it saw owned
  (`ensure-authenticated-session.ts:83`); when the owner has let go before the
  lease is acquired, it logs in without a probe of its own.
* The login's lock is never renewed and not checked before submit
  (`auto-login.ts:603`): a run longer than its five minutes overlaps with the
  next.  `OneRunAtATime` says so precisely.  This is not what the specification asks
  for: `multi-bank-auto-login/spec.md:142` wants every state write under the lock to
  carry its fencing token with compare-and-set, and no write of the application carries
  it.  That an event is not logged in twice rests on the episode's reservation instead.
* `resetBreaker` and `openBreaker` of the breaker have no caller in the application.
* The two repositories of the expiry episode agree in every state but one kind: a row
  that a replay made has no `terminalFailureReason` in memory (`expiry-episodes.ts:420`),
  which is not `null`, so that every leased operation on it is refused there and
  accepted by the database.  `markAuditDelivered` does not touch `updatedAt` in memory.
* A launch script that waits for the lock waits as long as the browser lives: started
  twice by hand, the second opens the browser again when somebody closes it.
  Without `flock` the script says so and two browsers may meet on one profile.
* The first look at the dashboard takes any other URL for an expired session, also that
  of a maintenance page (`popular.ts:334`); the monitor takes a dashboard that does not
  render for one.
* Two readings of the same non-zero number of rows are a page, also when the portal
  shows half of them; `CollectedIsComplete` excepts it by name (`early`).
* A row that is inserted and never gets its job stays `queued`, and the active-run lock
  then refuses every later run of the bank (`run-now.ts:139`).  One fault is enough: the
  reply of the insert is lost (`run-now.ts:162` stands outside the `try` of 164), or the
  web process stops between the insert and `queue.add`.  Nothing in the code looks for
  such a row.  `OneFaultIsSurvived` excepts it by name (`lost`).
* The runs whose jobs the in-memory queue loses in a restart stay active in the same
  way (`restarted`).  The code calls that queue one for development.
* While Redis is away `queue.add` neither returns nor throws: the request hangs, the
  trigger buttons, which have no timer, stay pending, and the row stays `queued`.
* A job that Redis took although `add` threw runs after its row was marked failed
  (`run-now.ts:178`), so that a run may be seen to fail and then to succeed, beside one
  that was started in between; `ActiveRunsOverlap` excepts it by name (`ghost`).
* Two real movements of the same day, amount, reference and text have one source hash
  (`modules/transactions/index.ts:94`): the second is skipped.
* In the mode with expiry events an unavailable browser that comes back sends no
  message, although the comment of the monitor speaks of one
  (`modules/bank-sessions/index.ts:268`); alerts are not modelled.
* A terminal alert is sent after its row has been committed; a process that
  stops in between sends none.

## 6. Not modelled, and why

Signing in of the staff and the limiter of its attempts, credential encryption, alert
and audit sinks are access control, cryptography and I/O; where a modelled component
writes an audit, the record is an element of a set.  The other banks' adapters hold
configuration, and most of the user interface renders.  Within the modelled components
the following is left out: the resolver completion mode of the coordinator and
`resolveObservedRestoration`; validation of malformed repository answers; the
transition bookkeeping that chooses alerts; the leased delivery of the resolution
audits, which has no caller in production (one step in `EpisodeStore`); the renewal of
the lock, which nothing calls; cells, dates and amounts of a page of results; the
filters and the presentation of transactions and runs; the CDP connections
but for the end that the close of a login's connection puts to a `newPage` under way; a
throttled acquire, which changes nothing but a counter
that is only displayed.

## 7. Plan

In this order:

1. Proofs: what the liveness arguments rest on and is itself safety, such as that a key
   of `AutoLoginLock` which nobody renews is always bounded by its expiry.
2. `AuditOutbox`, composed into `EpisodeStore`, as soon as something delivers from it:
   claim, deliver, mark and release of resolution audits under a lease of their own.
3. Pure algorithms against reference definitions on enumerated inputs: alert
   transitions of the monitor, trusted-URL decisions.
