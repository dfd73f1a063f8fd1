# A verification of Axio-CRED's collection engine

The repository holds a Go collection engine with two ways of running it, and a
customer application (`app/`) that calls it.

* The **dashboard** (`main.go`, `runner/webrunner`, `web/`) is one process with one
  worker. Operators queue lead jobs over HTTP; each is run with a browser, its rows go to a
  CSV, and the CSV is folded into one deduplicated lead list from which leads are
  sent to outreach.
* The **SaaS** (`cmd/gmapssaas`, `rqueue/`, `scraper/`, `admin/`, `api/`) puts jobs on a
  River queue in Postgres; workers, which are virtual machines the admin pages create and
  delete, take them, share one long-lived scraper per machine, and write the results to
  Postgres.

Both drive the same crawl (`gmaps/`, `exiter/`, `deduper/`): a search page finds places, a
place page yields a listing and its reviews, a website yields an email, and a counter
decides when the crawl is over.

## The parts, their state and what is hard about them

| Part | State | Operations | Talks to | Hard behaviours | What makes it correct |
|---|---|---|---|---|---|
| Dashboard job runner (`runner/webrunner`) | the job in hand, `currentID`/`cancelCurrent`, the `stalled`, `paused`, `attempts` maps | worker loop, watchdog, pause watch, boot | job table, CSVs, lead list, scrapemate | three goroutines share the maps, each reads under the lock and acts after it; restarts at any point; browsers that never close | nothing found is lost; a cut run goes back in the queue; a finished one is not run again; nothing waits for ever |
| Job table and HTTP handlers (`web/`, `web/sqlite`) | one row per job | create, rerun, delete, list | runner | read, test, write back whole | no update is undone by a stale one |
| Lead list (`web/leads`) | leads, job links, `ingested_jobs`, outreach marks | ingest, filter, status, opt-in/out, export | runner, Saleshandy, WhatsApp | merging two runs; operator's fields against re-ingest; an outreach call that times out | re-ingest never touches the operator's fields; nobody who opted out is messaged |
| Crawl completion (`exiter`, `gmaps/*job.go`, `deduper`) | four counters, the set of seen urls | process a search, a place, a website | scrapemate, result writer | steps of many goroutines in any order; jobs that fail, jobs that fan out | the crawl is declared over when, and only when, all of it is |
| Scraper pipeline (`scraper/`, `rqueue/rqueue.go`) | the tracked job, the provider's queue, restart signal; the River job row | register, submit, add result, flush, restart, retry | River, Postgres, scrapemate | retries under the same id, a restart between submit and fetch, a timer against a late completion | each job's results are saved once and whole, and a job that is done is reported done |
| Worker fleet (`admin/handlers_workers.go`, `rqueue/worker_jobs.go`) | a row per worker, cloud machines, provision and delete jobs | provision, delete, health check, cleanup | cloud API, SSH, Postgres, River | three jobs and a handler write one row; each can fail half-way or be retried | no machine runs that no row knows; no row says active when its machine is gone |
| Review collector (`gmaps/review*.go`, `rpcpage.go`) | cursor, seen tokens, review set, identity pool, page budget | stages, pages, retries, rotation, merge | HTTP, browser | restart from the beginning after a rotation, a token that repeats, budgets | it ends whatever Google answers; what calls itself complete is whole |
| Block guard (`gmaps/blockguard.go`) | consecutive refusals, wait-until | refused, loaded, wait | the browsers | many pages reporting at once | the back-off is never shorter than what the refusals in a row call for, nor longer than the longest |
| Admin login (`admin/`, `ratelimit/`) | sessions, pending logins, TOTP secret, backup codes, rate windows | login, second factor, set-up, disable | Postgres | two requests with one backup code, a limit read and then used | no code is used twice; an enabled second factor can be answered; nobody is shut out for longer than a window |
| Provisioning wizard (`cmd/gmapssaas/cmdprovision`) | a state file of completed steps | ask, create, deploy, save after each step | cloud API, Postgres | killed between an effect and saving that it happened | what a run stores or deploys the next one can read; nothing made is forgotten that was saved; the password shown is the admin's |
| Legacy Postgres provider (`postgres/`, `runner/databaserunner`) | `gmaps_jobs`, a batch of results | push, fetch, write | Postgres | several processes on one table, a batch marked and then lost, a save that fails half-way | no job is handed to two workers; no result is written twice or silently dropped |
| Pure parts (`grid/`, `web/grid.go`, `runner/webrunner/pause.go`, review page budget) | none | arithmetic | | boundaries | the squares cover the box; a window over midnight |
| Customer app (`app/backend`, `app/frontend`) | the paid requests' ledger, its lock and results; a job per backend; stores of businesses, snapshots, cases | collect, fall back, cancel, resume; compare, bill | the collector, Outscraper, PayPal | two backends on one ledger, requests whose answer is lost, a lock that is never waited for or left behind, a cancellation in between | no place is paid for twice a day, nor more than the allowance a month; what is shown is stored and the best there is |

## WebRunner: the dashboard's job runner

`WebRunner.tla` models `runner/webrunner` with the parts it shares state with.

* **State.** `row`, `created`, `final` are the job table (status, age, and whether the
  job is one that is never retried: a retry or a grid job); `csv`, `leads` and `ingested` the
  CSVs, the lead list and its table of ingested jobs. The worker is `pc`, the position in
  `work`/`scrapeJob`/`afterJob` between two reads or writes of shared state, with the job in
  hand `wjob`, its `job.Status` as `wstat`, `restartAfterJob` as `hung` and the boot scan
  `bq`. `cur` is `currentID`; `paused`, `stalled`, `attempts` are the maps under the mutex.
  The watchdog's locals are `dpc`, `dId`, `dLive` (whether the cancel it read is that of
  the run now in progress), `watching`, `lastRows` and `age`, the ticks since `lastChange`.
  `cut` says who cancelled the run in hand; `cutShort`, `requeued` and `wLive` are history the
  properties read and no guard does, except that a run ends by itself or once `cut`.
* **Actions.** One per step between two shared accesses. `Begin`, `SaveOutcome`,
  `SaveRequeue`, `SetupFails` and `RequeueSave` are `svc.Update`, which writes nothing to a
  deleted row and may fail; `CreateCSV` is `os.Create`; `StartRun` and `ClearCurrent` are
  `setCurrent`; `RunEnds` is `startMate` returning, in any of its ways; `IngestRun`,
  `TakePauseMark`, `TakeStallMark`, `RetryEmpty` are `ingest` and `afterJob`.
  `WatchRead`, `WatchCompare`, `WatchMark`, `WatchCancel` split the watchdog where it holds and
  releases the lock; `PauseMark` and `PauseCancel` the pause watch. `RerunGet`/`RerunUpdate`
  and `DeleteCSV`/`DeleteRow` split the handlers where another step can come between.
  `Restart` and `ExitBrowsersHung` lose all memory and keep the table, CSVs and lead list.
* **Data.** A listing is a model value, a CSV a set of listings, the lead list a set
  per job; a job's searches are not modelled, so whether some came back empty is a choice.
  A job with no keywords, which the handlers refuse, is not modelled. Counts that are
  compared with `maxStallRetries` saturate one above it.
* **Time.** A tick of the watchdog comes only while the worker waits, for the run or for a
  job: its statements take far less than a period. `StallAfter` counts ticks.

### What the runs show

| Run | Instance | Shows |
|---|---|---|
| `runner` | two jobs, one listing; up to two of: a window, a rerun, a delete, a restart, a failing write | no pause mark outlives its run; unless a write failed, nothing stays `working` unowned; unless also the process died, between jobs the lead list has every finished job's rows, no `os.Create` loses one, and a run cut by the watchdog or the window is not left `ok` |
| `runner_live` | one job, a window, a restart, under fairness | the pause watch alone frees the machine when the window opens; with the watchdog, the queue drains |

The bounds: `maxStallRetries` is 1 rather than 2, so that the last stall, which fails the job,
is reached; one tick of silence is a stall, so every order of a tick against a row is
there; two jobs are enough for one to wait while another runs and for a retry job; one restart, window,
rerun, delete and fault, any two of them with one job, a rerun with two (`SecondJobOrTrouble`), reach every pair of these with a run in progress. The system may really
stop (every job finished, nobody at the dashboard), so deadlock is not checked.

**Fairness** (`LiveSpec`): the worker and the pause watch keep running. A run is only assumed to end once it has been cancelled - the context reaches the
crawl and its results channel closes, which is what `startMate` waits for; a run nobody
cancels may hang for ever. The watchdog is left out, as it never stops a run that keeps finding listings:
freeing the machine has to be the pause watch's own doing. `QueueDrains` assumes, in its hypothesis, that
the watchdog runs too, that time passes, that a handler that has read a job writes it back
(`WatchdogKeepsTime`) and that pause windows end.

### Disagreements met while modelling

* `backfill` (webrunner.go:247) passes over every job that was ever ingested, so a job run
  again whose second ingest is cut off or fails is not "any whose ingest failed"
  (webrunner.go:228). No run lists it: `BackfillCatchesUp` states the opposite, and TLC refutes it with `WebRunnerBackfill.cfg`.
* A stall mark can stay behind: `afterJob`'s pause branch returns before taking it, and the
  watchdog can make it after the run is over. The next run of the job, which nothing stopped, is then taken
  for a stalled one. No run lists it.
* The watchdog's clock is kept by job id and survives from one run of a job to its next. No run lists
  it: `StallNeedsSilence` states the opposite, and TLC refutes it with `WebRunnerStallClock.cfg`.
* The stall count is memory only, so "at most this many times" holds per process.
  `StallRetriesAreBounded` is proved for one life of the process; no run lists it.

### What is proved

`WebRunnerProofs.tla`, for any finite or infinite set of jobs, any finite set of listings and
any bounds:

* `TypeInvariant`: `Spec => []TypeOK`. `TypeOK` is a conjunction of one predicate per group of
  variables, and `TypeFrames` says that a step that leaves a group alone keeps its predicate;
  each action then has one step per group it writes.
* `PauseMarkInvariant`: no pause mark outlives its run. Not inductive alone: the strengthening
  `CurIsInHand` says that `currentID` is the job in hand, from `StartRun` to `ClearCurrent`.
* `WorkingOwned`: as long as no write has failed, nothing stays `working` unowned; needs `VerdictInHand` (what the worker is about to save is
  never `working`).
* `LeadsComplete` and `TruncationSafe`, as long as the process has stayed up and no write has failed: from
  `CSVInLeads`, that only the run in hand, up to its own ingest, has rows the lead list lacks.
* `StoppedRunsRequeued`, for a process that has stayed up with no failed write: `CancelsInHand` (the cancel functions the watchers hold
  are those of the run in hand and their marks were made first), `CutIsMarked` (a run that was cut carries
  a mark until `afterJob` takes it) and `RowInHand` (its row is not `ok` before its outcome is saved).
* `StallRetriesBounded`, assuming no restart: every requeue of a stalled job is counted in `attempts` first
  (`RetriesCounted`), and nothing but `afterJob`'s stall branch writes either count.

The assumptions are those under which the code's claim holds: with a restart or a failing write TLC
finds the counterexamples above. Liveness is only model-checked.


## Crawl: when is a crawl over?

`Crawl.tla` models the exit monitor (`exiter`) with everything that moves its counters: the
`Process` of a search (`GmapJob`, `SearchJob`), of a place and of a website, the deduper, and
the SaaS's result writer. `CrawlPromise.tla` is the abstract specification: a set of outstanding work
that only outstanding work adds to, and an announcement made only when it is empty.

* **State.** `seed` and `place` say where each job is; a place job is a pair of the search that found it and the place. `feed`,
  `asking` and `next` are the locals of `GmapJob.Process`: hrefs not yet looked up, the one between
  the deduper's two locks, and those a job will be made for. `seedCount`, `seedCompleted`, `placesFound`,
  `placesCompleted` and `doneCh` are the monitor's fields; `exit` is its `Run`.
* **Modes.** `Modes` are the ways the callers set a crawl up: the dashboard and the command
  line (deduper, places count themselves, emails or not, fast or not), lambda (no deduper) and the SaaS worker (the writer
  counts, no deduper). Every run starts in any of them.
* **Actions.** One per critical section: the monitor's mutex, the deduper's read lock (`LookUp`)
  and write lock (`AddIfNotExists`), one result in the writer. The send on `doneCh` comes after the unlock
  in the code and belongs to the locked step here: the channel holds one token, the send never blocks, and its one reader
  cannot tell when it was made. A listing is a set of hrefs; what a page or body says is an input.

| Run | Instance | Shows |
|---|---|---|
| `live` | two searches, two places, every mode, fair | the deduper hands no place out twice; the crawl ends by itself whichever job comes last; the counters implement `CrawlPromise`, so that the end is not announced early |

Two searches and two places give every order of a count against a completion, a place listed by
both, a search with none, and a last job of every kind. A finished crawl stops, so deadlock is not checked.
`MCLive` checks `Reviews` and `JobProvider`, which share nothing with it, in the same run (see `MCParts`).
**Fairness**: scrapemate processes each job it is given (every job kind asks for `Process` on a
failed fetch) and the writer each result, and `Run` is scheduled.

**Proved** (`CrawlProofs.tla`, for any finite sets of searches and places): all four invariants and
the refinement. `CountersAgree` says that the counters are the cardinalities of the finished
searches, the places found and the places complete; `JobsFollowSeeds` that a place exists only
once its search has counted it, so that nothing is found after the last search is done; `WholeSet`, a part
of a finite set that is as large as the whole is the whole, turns equal counters into
equal sets; and `EndIsStable` that nothing undoes the end. `DedupInv` relates the
deduper's map to the jobs of the searches that asked it.

That a crawl ends is liveness and stays with TLC (`CrawlEnds`), but all of it that is not fairness is
proved: `EndIsNoticed` (the step that makes everything done is an increment that finds the counters equal,
`LastStepNotices`, and only `Run` takes the token), `NeverStuck` (until then some goroutine has a step to take) and
`CrawlAdvances` (every step brings a search or a place a stage on, or shortens what a search has to ask). Stages and
lists are finite, so a crawl whose goroutines are scheduled ends.

## ScrapeJobs: one job at a time through a shared scraper

`ScrapeJobs.tla` models a SaaS worker machine: River's row of each job, `ScrapeWorker.Work`, the
`CentralWriter`, the exit monitor of each attempt, the `ScraperManager` and its cycles, the deletion of a job,
and the process being stopped or killed.

* **State.** `state`, `attempt`, `cancelReq` are River's; `wpc` is where Work is and `wjob` the attempt in hand, a pair
  of a job and a number. `current` is the writer's tracked job; `wTaken` and `mTaken` what Work's and a
  monitor's `Flush` have taken and not yet saved; `answer` the completion channels. `crawl` and `sent`
  say how far the scraper is with an attempt. Everything but River's row and `saved` (the
  results table) is memory, which `ProcessEnds` forgets.
* **Actions.** `Flush` is two actions, the part under the lock and the save, because everything
  interleaves between them. The monitor's `select` may see its token or the end of its context
  first when both are there. The timer is a step that may always be taken while Work waits, so a
  timeout races everything. A row carries the attempt whose crawl found it, so that the
  properties can tell whose it is, which the code cannot.
* **From Crawl** comes that a crawl announces its end after its last row (`NoEarlyExit` with the
  writer counting).

| Run | Instance | Shows |
|---|---|---|
| `scrape_jobs` | two jobs, two attempts each, a restart after three | each forced flush is answered; no row lands under another job |
| `scrape_jobs_stops` | one job, a stop, a failing save, a restart after every job, deletion, fair | completed means saved; the job comes to an end whatever the scraper does |

Two attempts give every race of an attempt with the one before; a third adds no new kind.
`MaxStops` bounds SIGTERMs and crashes, `MaxFaults` failed saves, `Deletable` the jobs that may be deleted. A
finished queue stops, so deadlock is not checked. **Fairness**: Work (its timer included),
monitors, manager, rescue and deletion go on and a stopping process ends; nothing is assumed of the scraper. The
90 seconds `waitForFlushResult` waits are not modelled as a timeout: a save is given 30, and
`AnswerIsComing` says one is always under way or done.

**Differences** met while modelling that no run lists: a Work that is running when its job is deleted saves its results
afterwards, and they stay (jobs.go:39-49; `DeletedLeavesNothing` states the opposite, and TLC refutes it with
`ScrapeJobsDeleted.cfg`); an attempt's late rows are taken for the next attempt's,
which has the same job id (centralwriter.go:82), where centralwriter_test.go:127 speaks of a row after the flush as
"silently dropped"; a restart signal sent while the old cycle is stopping is left in `restartChan` (scraper.go:216) and
restarts the next scraper before it has done a job, where scraper.go:148 says it runs "until the job threshold is
reached"; and the clean-up after a failed submit (rqueue.go:229) flushes the empty registration, which
replaces the rows an earlier attempt had saved, where the writer's `Discard` would keep them.

**Proved** (`ScrapeJobsProofs.tla`, for any jobs, listings, attempts, cycle length and
bounds): the two invariants of `scrape_jobs` and `CompletedIsSaved`, and besides them that no forced flush is answered twice (`OneAnswer`) and
that what is tracked is the attempt in hand (`TrackedIsInHand`). The inductive invariant says where a registration is: `Held`, whatever is tracked,
taken or answered is the attempt in hand; `Alone`, it is in one of those places; `Coming`, from
registering to being answered it is in one. `Fresh` (only a submitted attempt has a monitor) is
what keeps a new attempt's monitor from overwriting an old one's, and `Latest` and `GoodIsSaved` carry
the meaning of a good answer from the save to River's row. Two action properties follow with one more invariant,
`OrderInv` (a registration still to be saved belongs to the attempt in hand, which is later than all that have saved): `SavesInOrder`,
no late flush puts old or partial rows over newer ones although the upsert lets whoever comes last win, and
`EndedStaysEnded`, nothing takes up a job again that has ended. That jobs settle is liveness and stays with TLC.

## WorkerFleet: machines, the rows that know them, and who writes those

`WorkerFleet.tla` models the SaaS server's side of its worker machines: the two handlers that add and delete a row,
the three jobs of the maintenance queue (provision, delete, health check), and what the cloud has.

* **State.** `status`, `deleted`, `named`, `addressed` are a row's columns, as far as anything depends on them: an id is the
  machine's or the "pending-" one. `machine` is the cloud's. `prov[w]` says where a provisioning is, `dpc[d]` a click on
  delete, from the handler's read to its job's last attempt; `dnamed` and `daddr` are what the handler read.
  `hpc`, `todo`, `hrow` are the health check's; rows already active change only in their metadata and are not
  in `todo`. `early` is history, for `RaceIsGuarded`.
* **Actions.** One for each database or cloud call, because any other writer may come between two. Calls
  whose error the code drops (`_, _ =`) may fail and go on. `ctx.Done()` of the ten-minute job is a step
  that may always be taken while a wait goes on. `Crash` ends handlers and jobs; a delete job is
  rescued, a provisioning (one attempt) is not.

| Run | Instance | Shows |
|---|---|---|
| `fleet` | two rows, one deletion, two attempts, one crash, one failed call, fair | a completed deletion leaves no machine it knew of; the guard against deleting while provisioning works; no row is left provisioning; a queued deletion is done or given up |

Two rows are what it takes to hold both workers of the queue; a crash and a failed call are enough for two attempts to
be lost, which is all the delete job has here. `MaxCrashes` and `MaxFaults` bound the environment. The queue runs
empty in the end, so deadlock is not checked. One health check runs at a time, and a
`Work` cut off by its timeout is a failed call. **Fairness**: what is running goes on (every job has a deadline) and
River starts a queue's jobs in the order they came, which is strong fairness for a waiting deletion, as
health checks keep taking and leaving the second worker. Nothing is assumed of the machines.

**Differences** met while modelling that no run lists: a health check that makes a row active before its provisioning's last
update is taken by that update for a deletion, and the machine is destroyed (worker_jobs.go:264; `CleanUpMeansDeleted` states the
opposite, refuted with `WorkerFleetCleanUp.cfg`); a row whose wait for SSH timed out is "failed", which the health check that is to
mend it leaves out (worker_jobs.go:209-210, 529; `TimeoutIsHealable`, refuted with `WorkerFleetHeals.cfg`); a machine whose address does not come in time, or whose
cloud call answers after a crash, is named by no row, so deleting the row skips the cloud (worker_jobs.go:371) and the
machine runs on; the health check's update asks for nothing but the id (worker_jobs.go:584), so it writes "active" over
"deleting", "failed" and even "deleted"; a deletion that used up its attempts leaves its row "deleting".

**Proved** (`WorkerFleetProofs.tla`, for any rows, deletions, attempts, workers of the queue, crashes and faults): the
three invariants of the run, and that active rows name their machine (`ActiveCanBeDeleted`). None is inductive. `NamedIsMade` (a row that names its machine is past the making of it) is what keeps
a destroyed machine destroyed; `AddressedIsNamed` (whoever read an address, a row, a deletion or a health check, belongs to a row with
an id) carries `ActiveIsNamed` through the health check's delay; `Marked` (a marked row is never "provisioning" again) is
why the last update of a provisioning cannot miss a deletion. That deletions settle is liveness and stays with TLC; what of it needs no fairness
is proved: `FleetAdvances` (a machine is made once and stays destroyed, a provisioning only goes on, every step of a deletion uses up
effort, four for an attempt and one for each stage in it) and `EffortIsBounded`. `Unmade` (no machine is there before its provisioning makes
it) is the invariant it needs.

## Outreach: the lead list, Saleshandy and WhatsApp

`Leads.tla` is the store (`web/leads`): one row per business, whatever number of jobs found it, with the operator's status,
the Saleshandy mark and the WhatsApp dates. Each of its operations is one transaction. `Outreach.tla` composes it with the
requests that use it (`web/saleshandy_handlers.go`, `web/whatsapp_handlers.go`): a request reads its leads once, decides from
what it read, and then makes one outside call after another, each followed by a write that says it was made.

* **State.** `req[h]` is a request: the batches it has yet to import, the one it is about to mark (`marking`), the messages it
  has yet to send (`rows`) and the one it is about to record. `into` is what Saleshandy holds. `unasked`, `today`, `late`, `shared` and
  `doubled` are history, kept as differences so that what the code cannot know (an answer that was lost, a mark that was not
  written) is taken out at the step where it happens.
* **Actions.** The outside call (`Import`, `Message`) and the write after it (`MarkBatch`, `Record`) are separate, because the
  process may stop between them and other requests run there. `Ingest`, `OperatorSets`, `OptsIn` and `OptsOut` may come at any point. An
  answer is "taken", "refused" or "lost", which the code takes for a refusal; a write may fail.
* **Data.** A listing says whether there is an email, a usable number, how many reviews and which category; matching a category
  to a sequence by its longest key is the constant `Routes`. A day passes for everybody at once.

| Run | Instance | Shows |
|---|---|---|
| `outreach` | two businesses, two requests, two CSVs with torn rows, one stop or one day | no request that begins after an opt-out reaches the lead, whatever is ingested or recorded in between; one message a day and one import per lead, unless the answer was lost, the mark not written, two requests had the lead in hand or resend was ticked |
| `outreach_optout` | the same, nothing fails | **violated**: a request that read the opt-in before the opt-out sends the message after it, where leads/store.go:69 says "nothing is sent after that, whatever else is recorded" |

Two requests are what it takes to have a lead in hand twice; a stop and a day each come after any call, and either is enough to separate
the call from its mark. Requests run out, so deadlock is not checked. Nothing is assumed of the scheduling.

**Proved** (`OutreachProofs`): the three invariants of `outreach`, and that the recorded sequence is one the lead was
imported into (`MarkIsTrue`), for any leads, sequences, routes, files and finite set of requests.
`StopTakesEffect`, `OnceADay` and `NoRepeatUnasked` are about what a request decided from a list that others have changed since.
The strengthening says what such a request still knows: `OneMessenger` and `NotCooling` that whoever has a lead in hand alone and
not yet messaged found it out of its cool-down, `OnRecord` that a message of today which nobody has yet to record is on record, and
`OneImporter`, `NotSent` and `OnMark` the same of imports and marks. `InHand` and `Imported` tie the batches of a request to what was imported.

## Reviews and BlockGuard: what is collected of a place

`Reviews.tla` models the collector (`gmaps/review_collector.go` with its cursor and budget, `review_identity.go`, `reviewset.go`,
`review_report.go` and the merge in `PlaceJob.Process`).

* **State.** `where` and `stage` are the control: the browser's review endpoint, then the proxies' identities, then the scrolled
  panel. `token` and `seen` are the cursor, `rows` and `orphans` the set of reviews with an id and the count of those without,
  `cur` and `retired` the identity pool, `attempt` and `rotated` the locals of a page's fetch, `report` the outcome.
* **Environment.** The endpoint serves `Listing`, page by page; any request may fail in any of the ways the code tells
  apart (transient, refused, unreadable, no address), the budget may run out at any moment (`TimeUp`), and a page may hand out a
  token that was handed out before. A page cut by the cap may keep any of its reviews.
* **What it shows.** `CompleteIsWhole`: a collection that calls itself complete, of a listing whose count is no less than what is
  served, has every review. `ExhaustedReadsAll`: a reading that ended because the pages ran out has every page, across retries, identities and
  the one restart from the beginning - where a cursor that remembered the first reading's tokens would stop at once and call that the end.
  `CollectionEnds`: it ends whatever Google answers, under the fairness of the job's goroutine. That each request is answered
  or gives up is an assumption for the browser's endpoint: `pageRPC.fetchPage` (review_collector.go:438) passes no deadline on to the page's script; the requests over a proxy have a timeout (review_httpclient.go:16).

`BlockGuard.tla` models the back-off that the browsers of a process share (`gmaps/blockguard.go`): `hold` is the time left,
`consecutive` the refusals in a row, `page` and `wait` each browser's page and timer. `HoldsBack` relates them: while refusals in a row stand, what has
passed since the last of them and what is left add up to the back-off they call for, and nothing exceeds the longest. A load
ends a run of refusals and not the wait; a page that was under way when the first refusal came may still be
refused, and doubles it.

**Proved** (`PartsProofs`): `CompleteIsWhole` and `ExhaustedReadsAll` for any listing, caps, counts and proxies, `HoldsBack` for any number of
browsers. `Reading` is the strengthening: as long as no token was handed out twice and the reading is not over, the tokens handed out are 1 to the
cursor, and the pages before it are in the set; it survives retries, the change of route and the restart, which begins at the
first page again. `PageAdded` is where the cap comes in: a page that is not kept whole fills the set, and that ends the reading as
"cap".

That a collection ends is proved up to fairness. `EffortIsBounded`: no more than twice the budget of pages, one restart, as many rotations as there
are identities, and the limits of retries and scroll passes. `NeverBack`: but for the clock, every step raises the first thing it changes of the list
`Effort` (stretch, restarts, pages, whether a page is asked for, identities left, attempts, reviews scrolled past, passes without any). A list that
only goes up in this order, with each entry bounded, goes up finitely often; the provers cannot say that last sentence (it is an induction), nor
that what may go on does (`CollectionEnds`, which TLC checks). `WithinBudget` is why the bound is twice the budget: a route begins with
the whole of it, but the pages are counted on; only the second route rotates, so only it starts over, which adds the pages read so
far. `Routes` is why a rotation never comes back: an identity that was left is not in use (`RetiredStaysOut`). TLC checked the two invariants, the
action property and `WithinBudget /\ Routes /\ Tries` on the instance of `parts`; no run lists them.

For `HoldsBack` the module assumes that no shift of the back-off overflows; the code shifts by five at most.

## JobProvider and ResultBuffer: the database mode

`JobProvider.tla` models `postgres/provider.go` as several processes on one table: `fetchJobs`, which marks a batch and returns
it in one statement (`Claim`), its channel and the goroutine of each call of `Jobs`, with `ContextEnds`, `Restart` of a process at any point,
a statement that fails after it has marked its rows (`ClaimFails`), and jobs that push the jobs they found. `HandedOnce`: no job is
handed to two workers. `NewJobsReachWorkers`: a new job is taken while some process goes on fetching, and handed over while the
one that took it goes on. What was taken and not handed over when a process ends stays "queued" for ever,
and nothing in the code takes it up again: the properties do not promise it.

`ResultBuffer.tla` is its result writer (`postgres/resultwriter.go`): results are buffered, saved by number or by time and at the
end, row by row after a batch the database refused. A save may fail before or after it took effect for some rows.
`ResultsKept`: nothing is written twice, and when the writer ends well every result it received is in the table or was left out for a byte the database cannot hold.

**Proved** (`PartsProofs`): `HandedOnce` for any jobs, processes, callers, batches and restarts: the strengthening says that a job is in one place
only, the table, a process's batch, a goroutine of `Jobs` or a worker's hands, and in none before the table calls it queued. `ResultsKept` for any results and size of
batch: what was received is in the buffer, in the table or left out, and in one of them.

## Provisioning: the wizard and its state file

`Provisioning.tla` models `cmd/gmapssaas/cmdprovision/provision.go` and the update command. `mem` and `file` are
`ProvisionState` in the run and on disk; each step is one action, and where the code makes something and saves it afterwards there are two, because
`Stop` (an error, a kill, a file that cannot be written) may come between them. `SaveState` empties the file before it writes it
(state.go:122), so where a run saves (`Saving`) `Stop` may also leave a file that no run can load (`TornFile`), until the operator removes it
(`RemoveTorn`). A run resumes the file or gives it up; either of the two losses is remembered (`lost`). What a run generates - a key, a password, a server - is named by the number of the run, so that what an earlier run left
behind can be told from what this one made.

* `SecretsOutlive`: while no state is given up and no write of the file is cut in the middle, every entry stored in any database has the key and the value
  the file has, wherever a run ended; and whatever was lost, an app the file calls deployed can read its entries.
* `AdminCanLogIn`: the credentials shown at the end are those of the user there is.
* `OnlyCutShortIsLost`: while no state is given up or torn, a server or a database no file knows was made by a run that ended before it saved it.

**Differences** met while modelling that no run lists; in each the wizard stops, and resuming it stops at the same place:

* docs/saas.md:38 says "State is saved to `~/.gmapssaas/` so you can resume if interrupted". A run that is interrupted while it saves leaves an empty or
  half-written file (`os.WriteFile`, state.go:122, with no temporary file and rename), which `LoadState` refuses (state.go:99): nothing can be resumed, and the key
  under which the database's entries are encrypted, the server and the database's password are gone with it.
* The admin user is created and then saved (provision.go:395): a run killed in between leaves a user the next one cannot create again.
* The wizard's SSH key is generated, registered and used for a server before it is saved (provision.go:877-891). The next run
  generates another, but a key registered under that name is kept (hetzner.go:45), so that the server it makes opens to the first key only and
  `Connect` cannot pass.
* The database script on a server is run again with a new password, which an existing database ignores (provision.go:207): the URL that is saved is not the one it answers to.

**Proved** (`PartsProofs`): the three invariants, for any number of runs. `Reached` says how far a run has come: where it has saved, the run and the file
are the same; elsewhere the run goes beyond the file and contradicts it nowhere (`Extends`), whatever step it is at. `Sound` says that what either of them
claims of the database and the app is so, `StoredByFile` that what is stored goes by the file while no state is given up or torn. The
last is what saving each secret before it is used gives: whatever was stored, the file has a key, and no later run generates another.

## AdminAccount and RateLimit: the admin's login

`AdminAccount.tla` models the handlers of the login, the second factor and its set-up with the store behind them
(`admin/handlers_auth.go`, `handlers_2fa.go`, `handlers_settings.go`, `admin/postgres`), used by one owner from several browsers at once.
One action is one call of the store (the two reads of a page are taken as one), and a request may end before any of them. `view[b]` is the page of the set-up a browser shows, or has been sent to. The page handler takes the step from the query string and
the forms ask for no earlier step, so `Get` shows any step's page at any time if there is something to show on it, and each form (`NewSecret`, `VerifyCode`, `Confirm`, `Disable`)
may be sent from any page, however old; `strayed` remembers the ways of going back that matter.
`lock` is the row lock of `ValidateBackupCode`; `device` and `sheet` are what the owner has in the authenticator and on paper.

* `CodeUsedOnce`: no backup code is accepted twice, from whatever browsers and however closely it is entered, until its set is stored again.
* `EnabledCanBeAnswered`: an enabled second factor can be answered: its secret is one whose code was right once, and of some set the owner has seen every
  code is stored or was used - wherever an earlier set-up was cut short, reloaded or begun anew. It is promised unless two browsers change the set-up at once (`overlap`), or the
  owner goes back in it (`strayed`): asks for the page of the backup codes, or sends its form, without having been sent there since the set-up was begun, or
  sends the form that begins it when the step is enabled already.

**Proved** (`PartsProofs`): both, for any number of browsers, secrets, sets and codes. `LockedReads` is why a code is used once: whoever is between
reading and writing the codes has the row, so that what it read is what is stored. For `EnabledCanBeAnswered`, `Verified`, `Seen` and
`Enabling` say what each step of a set-up has established, and `Answered` what is so once it is enabled; together (`InCourse`) they hold while nobody overlapped or strayed.

**Differences** met while modelling that no run lists. A secret can be enabled without a code ever having been entered for it, where
handlers_2fa.go:282 says "enabling 2FA after verification", in two ways: with two browsers in the set-up, by the second one's new secret; and with one browser that
saves a set of backup codes, begins again (a new secret), goes back to `?step=backup` and confirms: the page is shown and the form taken whatever was verified (205-223, 369-393).
Drop `overlap` or `strayed` from `EnabledCanBeAnswered` and TLC refutes it on `AccountSpec` with the bounds below. And the QR code encodes the
text of the stored secret once more (handlers_2fa.go:248-252), so that the model's owner types the secret in.

`RateLimit.tla` is the limit on attempts (`ratelimit/postgres`): a counter of a fixed window, started or raised by one statement, with a
time that was taken before the statement ran (`now`, at most `MaxDelay` old). `LimitHolds`: a check is refused only when as many as the limit were
allowed within the last window, refusals do not prolong it, and no more than twice the limit are allowed while one window gives way to the
next.

**Proved** (`PartsProofs`): `LimitHolds`, for any limit, window and delay. The property speaks of the last window, the row of one that begins with a
check; `LimitInv` ties the two: as many as the row counts, up to the limit, were allowed since its window began (`SinceStart`), and, but for checks
that take up to `MaxDelay` to run, no more, nor more than the limit in the window before (`TwoWindows`). The sums over the ages are handled by `SumTheorems`.

`AdminAccount` leaves the limit open, so its invariants hold whatever the limit does. Nothing calls `Cleanup` or
`CleanupExpiredSessions`: rows pile up, and only expiry in the queries makes them harmless.

## MCParts: the small parts in one run

Reviews, BlockGuard, JobProvider, ResultBuffer, Provisioning, AdminAccount and RateLimit share no state. `MCParts.tla` checks
them together: `part` says which one a behaviour is of, and the others stay as they begin, so their states add up instead of
multiplying and what is found of a part is found of it alone.

| Run | Instance | Shows |
|---|---|---|
| `parts` | all seven | the eleven invariants of the seven parts |
| `live` | Reviews and JobProvider, each with its fairness (`MCLive`, where the crawl is the third part) | `CollectionEnds`, `NewJobsReachWorkers` |

| Part | Bounds, and why they are enough |
|---|---|
| Reviews | three pages, one review of which carries no id; two identities, so that one can be refused and one rotated to; a cap below and one above the listing; a count that is unknown, one that is the reviews with an id and one that is all; one transient retry. Because of the review without an id no reading of this instance is complete with a full count: that it never calls itself so is what `CompleteIsWhole` comes to here (a count of orphans or of repeated reviews would), and the theorem covers listings where it may |
| BlockGuard | three browsers, so that two are under way when a third is refused; a back-off that doubles twice and is capped |
| JobProvider | three jobs, one of them found by another; two processes with one caller each; batches of one, so that a channel fills; one restart. `live` has two jobs and no review that a page brings along, one cap and one count for Reviews |
| ResultBuffer | three results, batches of two: a full one and the rest |
| Provisioning | two runs: every point at which the first can end, and what the second makes of it |
| AdminAccount | two browsers, two secrets, two sets of one code: a second set-up over the first, complete or cut short anywhere, and one code entered twice at once. The second secret and the second set are followed only while nobody overlapped or strayed (`SecondInOrder`); what is beyond that is explored with one of each |
| RateLimit | two requests, a limit of two, a window of three, a delay of one: checks of both windows run out of order |

Each part may really stop (a finished collection, an ended writer, no runs left), so deadlock is not checked. **Fairness**: the collector's step, `fetchJobs`' loop and the
goroutines of `Jobs` go on while they can; that nothing else is fair is why the properties of the provider ask for a process that goes on.

## PaidFallback and Discovery: the customer app's collections

**PaidFallback** models `app/backend/src/outscraper.ts`. The ledger (`ledger`, its rows the paid requests reserved) is one file that every
backend process of the machine changes, each inside a transaction: `holder` is who created `ledger.lock`, `copy[a]` what that actor has read
and not yet written back. The lock is never waited for, so an actor that finds it taken gives up (`Locked`). A backend has two actors:
the one collection it runs (`call[b]`, whose `pc` is where `collect` has come to) and a status request, which rewrites the ledger too.
`results` are the result files that are whole, `mixed` the backends that write one at the same time, `paid` (a history) the requests submitted and
`rewritten` (a history) the results that a second collection wrote over or beside. One action is the code between two awaits that another
process can see.

| Code | Actions |
|---|---|
| `transaction` | `Enter`, `Locked`, `WriteFails`, `CloseLedger` around what is done inside |
| `status` | `StatusEnter`, `StatusWrite` |
| `collect`, reservation | `Collect`, then `Reserve`, `Reuse` or `Refuse` |
| `collect`, request | `Tell`, `Submit`, `SubmitFails`, `Note`, `Poll`, `PollRefused`, `StillPending`, `Unusable`, `EmptyResult`, `FillResult`, `FillFails`, `Keep`, `Fail` |
| outside | `Dies` (leaves the lock `Stale`), `RemoveLock` (as the documentation asks: when no provider runs), `Tick` |

* `OneChargePerDay`: no place is submitted twice within 24 hours, by any backend, whatever failed, was lost or died in between.
* `AllowanceHolds`: the limits of what is submitted in a month never add up to more than the allowance.
* `SuccessIsReadable`: a row that says success has its result whole on disk, wherever its collection failed or died. `writeFile` empties the file
  before it fills it (`EmptyResult`, `FillResult`), and the process may die, or the write fail, in between (`Dies`, `FillFails`). The one exception is a second
  collection that resumed the same request and writes its result over the first one's or beside it: until a write that runs alone has ended, the file may be
  torn under a row that says success. That is the third difference below.

**Discovery** extends it with `app/backend/src/business-discovery.ts`: in each backend one job (`job[b]`), its `job.json` (`disk[b]`) and the
data sets stored for it (`store[b]`). `RunnerStopped`, `RunnerRefused`, `RunnerFails` and `RunnerReturns` are the outcomes of the built-in
collector; `StoreSample`, `Fallback`, `Pay`, and `PayFails`, `Taken`, `TakenFails` or `Left` the way over the provider; `Settle` and `SaveJob` the end;
`Cancel`, `Crash` and `Get` may come in between. `Pay` is the provider's `Collect`; the provider's own steps (`Works`) leave the job alone.

* `BestSampleShown`: a completed job shows a data set that is stored and no smaller than the built-in collector's, which is stored as well.
* `StoredBeforePaying`: no paid request is under way unless the job's own sample, if it has one, is stored. It is proved; no run lists it.
* `PaidAsSpecified`: every step of the jobs is a step of `PaidSpec` or none, so what the provider promises holds below them.
* `JobSettles`: a job ends.

**Bounds.** `paid`: two backends and one place, so that they meet on its rows; three ticks of the clock, a day of two of them and a month of
three, so that a second request falls in the month of the first; an allowance of 4, which the first request (3 reviews) leaves too little
for a whole second one; one poll. The cool-downs are 0: with one place they are shorter than the day
for which it is refused anyway, and never decide (`discovery` has them). It has one crash, and results written twice, on the first day only (`TroubleOnTheFirstDay`), so that what a dead process left meets the same place again
within the day; `discovery` has one with one backend, where the
stale lock and the job both have to be got over. Samples of one or two reviews of a reported three, or of an unknown count, are
smaller than, as large as or larger than each other. `MaxTime` and `MaxCrashes` bound the runs; the proofs have no bounds.

**Abstractions.** The limits of the configuration are set and the provider is switched on with a key. `Slack` stands for the larger of 5 and
2 % of the count; `Ten` for both uses of 10. A count of 0 stands for an unknown one. Times are those of the reservation, as in the
ledger. A backend answers one status request at a time: others would find the lock taken. A corrupt ledger is a transaction that
throws. What `store` has of earlier jobs is left out, except that reading it may fail (`NothingKnown`).

**Fairness.** `JobSettles` assumes that a job that can go on does: the runner's process is killed after 20 minutes at the latest
(business-discovery.ts:66), a request ends after 45 seconds (outscraper.ts:111), and the polls are counted. It does not assume that time
passes, that anybody removes a stale lock, or that any one of the possible outcomes comes about.

**Proved** (`DiscoveryProofs`), for any backends, places, limits, sizes, times and crashes: `OneChargePerDay`, `AllowanceHolds` and `SuccessIsReadable` of
`PaidSpec`; that `DiscoverySpec` implements `PaidSpec`, and so has the first two; and `BestSampleShown` and `StoredBeforePaying` of
`DiscoverySpec`. Two more of `PaidSpec` are proved and in no run (TLC checked them on the instance of `paid`): `ReservationsStay`, no write
of the ledger loses a row or takes back what it stands for - every writer puts back a whole file it read an await earlier - and
`ChargesAreOnRecord`, each request is that of a row of its own. `PaidInv` says that who has a copy of the ledger has the lock and that the copy is the ledger (`Copies`), that rows of one place are a day
apart (`Spread`), that each request is that of one row (`Recorded`) and that a row about to be submitted is one collection's alone
(`Owned`), that a row which says success has its result on disk unless it was rewritten, and who is about to record success has written it
(`OnDisk`, `Writing`), and that the rows of a month add up to the allowance at most (`Budgeted`; a request's limit is its row's, and since no two requests have
the same row, their sum is part of that of the rows: `SumRenamed`, `SumGrows`): the property itself says nothing of the copies that are about to be written back. `JobInv` adds what a job knows at each of its
steps (`Fits`), and that without a collection a backend does not hold the lock for one (`Unheld`).

**Three differences from the documentation**:

* Run `discovery_cancel`: NATIVE-COLLECTION-ARCHITECTURE.md:68 says "Cancellation does not initiate fallback". `cancel` is accepted until `run` has
  set the fallback's status, two awaits after the collector came back, but the signal is read only right after the collector. A
  cancellation in between is answered with 202 and the paid request is made.
* No run lists it: OUTSCRAPER-FALLBACK.md:40 says "Completed provider results are cached locally for reuse within the same 24-hour window". When the
  update to success fails - a status request has the lock for a moment, or the disk is full - the catch takes it for a failed request
  and marks the row failed, although the result is on disk: for a day the place is refused. `CompletedIsCached` states the opposite, and TLC refutes it with
  `PaidFallbackCached.cfg`.
* No run lists it, and the same sentence is what it contradicts: two backends may resume one pending request (outscraper.ts:128). When the first has
  recorded success, the second empties the result and writes it again (156 is a plain `writeFile`; the ledger is replaced by a rename, 91-92). If it dies
  there, or the disk is full for this write and for the update to failed after it, the row goes on saying success and the result cannot be parsed: for a
  day every collection of the place fails at line 142. Drop `rewritten` from `SuccessIsReadable` and TLC shows it on the instance of `paid`.

## What is proved and what is only checked

| Module of proofs | Proves, for every value of the constants | By |
|---|---|---|
| `WebRunnerProofs`, `CrawlProofs`, `ScrapeJobsProofs`, `WorkerFleetProofs` | type correctness, every safety invariant and the progress properties of the four, and that `Crawl` implements `CrawlPromise` | the invariants described with each part above |
| `OutreachProofs` | the three invariants of `outreach` and `MarkIsTrue` | what a request has in hand is what it once read, and what nobody else may have changed since if it was alone |
| `PartsProofs` | `CompleteIsWhole`, `ExhaustedReadsAll`, the bounds and the progress of a collection, `HoldsBack`, `HandedOnce`, `ResultsKept`, the three invariants of `Provisioning`, the two of `AdminAccount`, `LimitHolds` | the cursor counts the pages that are in the set; a running back-off and the time since the last refusal make up what the refusals call for; a job is in one place: the table, a batch, a relay or a worker's hands; a run and its file agree wherever it may be cut short but in the middle of a write; who spends a code has the row locked; who enables has been through the set-up alone and in order; the row counts what its window let through |
| `DiscoveryProofs` | `OneChargePerDay`, `AllowanceHolds`, `SuccessIsReadable`, `ReservationsStay`, `ChargesAreOnRecord`, `BestSampleShown`, `StoredBeforePaying`, and that `Discovery` implements `PaidSpec` | who has a copy of the ledger has the lock; who records a success has written its result; each request is that of a row of its own; the rows of a month add up to the allowance |
| `SumTheorems` | what the sum of a function over a finite set does when the set or the function changes, or is renamed | a smallest subset for which the fact would fail: it has an element, and without it the fact holds (the induction theorems of the library take an operator, which the provers cannot instantiate) |

Every safety property of the passing runs is proved. Nineteen others are proved and in no run, because one of the
run's is stronger or about the same code: `NoEarlyExit`, `ListedPlacesAreVisited`, `OneAnswer`, `TrackedIsInHand`, `StallRetriesAreBounded`,
`MarkIsTrue`, `StoredBeforePaying`, `ActiveIsNamed`, `EffortIsBounded` with `RetiredStaysOut`, `NeverBack`, `ReservationsStay`, `ChargesAreOnRecord`,
`EndIsNoticed`, `NeverStuck`, `CrawlAdvances`, `SavesInOrder`, `EndedStaysEnded`, and of the fleet `FleetAdvances` and `EffortIsBounded`. TLC checked each of them on
the instance of its part's run first. The theorems rest on the named assumptions of the modules (bounds are naturals, the
"none" values are not members, the sets that are counted are finite, no shift of the back-off overflows) and, where the theorem
says so, on there being no restart (`StallRetriesBounded`). The type
invariants of the first four specifications are proved and were checked by TLC with the rest of their inductive invariants;
the runs that remain check what is more than a type.

Only checked by TLC:

* Liveness (`QueueDrains`, `PauseFreesTheMachine`, `CrawlEnds`, `JobsSettle`, `DeletionsSettle`, `CollectionEnds`,
  `NewJobsReachWorkers`, `JobSettles`): it needs ENABLED, which the prover does not handle. For the crawl, the reviews and the
  deletions the rest of the argument is proved: every step is progress, of which there is finitely much.
* The differences from what a comment or a document says: runs `outreach_optout` and `discovery_cancel`, and the
  configurations no run lists (`WebRunnerBackfill`, `WebRunnerStallClock`, `ScrapeJobsDeleted`, `WorkerFleetCleanUp`,
  `WorkerFleetHeals`, `PaidFallbackCached`), each of which ends in the violation described with its part.

There is no RECURSIVE operator.

## What is not modelled, and why

* Browsers, HTTP, SSH, cloud and database drivers: the models keep what they may answer, in which order.
* Parsing (`gmaps/entry.go`, `multiple.go`, `emailfind.go`, `internal/jsonbsanitize`), rendering, templates, prompts, logging,
  encryption: functions of data, with no control a model could keep.
* `CleanupWorker`: three deletions by age, whose only subtlety is that the queue library may have removed the job rows first.
* `filerunner`, `lambdaaws`: one crawl, run to its end. `examples/`, `deploy/`, `app/frontend`: callers.
* The rest of the customer app (`app/backend`): analysis, reports, payments and the stores; only its collection jobs and the paid
  provider are modelled.
* What the next section plans.

## Plan

The modules of the first plan are written: `Reviews`, `Outreach` on `Leads`, `BlockGuard`, `Provisioning`, `JobProvider` with
`ResultBuffer`, `AdminAccount` and `RateLimit`, `PaidFallback` and `Discovery`. What is left, in order of what matters most:

| Next | Specification | Runs and bounds | To prove |
|---|---|---|---|
| `ReviewPromise` | what a collection promises its place (rows only grow, one reason to stop), implemented by `Reviews` | the instance of `parts` | the refinement |
| composition | `WorkerFleet` with `ScrapeJobs`: machines that are destroyed while they work | one machine, one job | a job outlives its machine |
| API keys | keys that are made and revoked beside the requests that use them | one key, two requests | a revoked key is refused |
| `Grid`, `PauseWindow` | pure arithmetic against reference definitions | small boxes, all minutes of a coarse day | bounds lemmas |

Three compositions exist. `Crawl` is under `ScrapeJobs`: the promise `CrawlPromise` is what `Crawl` is shown to implement and what
`ScrapeJobs` assumes of a crawl (`CrawlEnds`, after its last row); `WebRunner` uses the same promise through `exitMonitor`.
`Leads` is under `Outreach`: the list's operations are actions on its rows, which the requests of both channels call.
`PaidFallback` is under `Discovery`, which is shown to implement it. The plan
keeps each module provable: constants with named assumptions, one action per operation, invariants as named parts.

## Files

* `X.tla` is the specification, `MCX.tla` its instance, `X*.cfg` its runs, `XProofs.tla` its proofs. `MCParts` is the instance
  of the seven smaller parts, which share no state, and `MCLive` that of the crawl, the reviews and the job provider with their fairness; `PartsProofs` holds the proofs of the seven;
  `DiscoveryProofs` those of `PaidFallback` and `Discovery`, `SumTheorems` what both need to know of sums.
* Definitions introduced by "Faulty variant" are mistakes a change of the code could make; `PROJECT.json` names the property
  that notices each.
* `PROJECT.json` maps definitions to lines, lists the runs, the hazards and the theorems.
