----------------------------- MODULE ScrapeJobs -----------------------------
(***************************************************************************)
(* A worker machine of the SaaS. River hands it one job at a time; the     *)
(* job's Work registers it with the central writer, submits its crawl to   *)
(* the provider of the one long-lived scraper and waits for the writer to  *)
(* have saved its rows, or gives up and has what there is saved. After     *)
(* maxJobs jobs the manager replaces the scraper. A job is tried again,    *)
(* under the same id, when its Work fails or its machine goes down, and    *)
(* may be deleted at any time.                                             *)
(* rqueue/{rqueue,jobs}.go, scraper/{scraper,provider,centralwriter}.go    *)
(***************************************************************************)
EXTENDS Naturals, FiniteSets

CONSTANTS
  Jobs, Listings,
  MaxAttempts,    \* 3 in ScrapeJobArgs.InsertOpts
  MaxJobs,        \* jobs of one scraper cycle (--max-jobs-per-cycle)
  MaxStops,       \* bound: times the process is stopped or killed
  MaxFaults,      \* bound: saves that fail
  Deletable,      \* the jobs an operator may delete
  NoAttempt       \* model value

ASSUME AttemptBound == MaxAttempts \in Nat \ {0}
ASSUME CycleBound == MaxJobs \in Nat \ {0}
ASSUME EnvironmentBounds == MaxStops \in Nat /\ MaxFaults \in Nat /\ Deletable \subseteq Jobs
ASSUME NoAttemptIsNone == NoAttempt \notin Jobs \X (1..MaxAttempts)

AttemptsOf(j) == {j} \X (1..MaxAttempts)
Attempts == Jobs \X (1..MaxAttempts)
Row == Attempts \X Listings               \* a row and the attempt whose crawl found it
Tracked == [reg : Attempts, rows : SUBSET Row]
NotTracked == [reg |-> NoAttempt, rows |-> {}]

VARIABLES
  state, attempt,     \* River's row of each job
  cancelReq,          \* JobCancel was called while it was running
  deletion,           \* of the job: none, queued, results (deleted), done
  saved,              \* scrape_results: which attempt wrote the rows, and the rows
  wpc, wjob, why,     \* the Work in progress, its attempt, why it gave up
  verdict,            \* what Work returns
  wTaken,             \* what its ForceFlush has taken from the writer
  current,            \* CentralWriter.current
  answer,             \* the completion channel of each attempt
  mon, mTaken,        \* exit monitor of each attempt, what it has taken from the writer
  crawl, sent,        \* the crawl of each attempt, the listings it has delivered
  mgr, jobCount, restartChan,    \* the scraper manager
  stops, faults, shut            \* environment; shut: the process was asked to stop

river   == <<state, attempt, cancelReq, deletion>>
work    == <<wpc, wjob, why, verdict>>
writer  == <<wTaken, current, answer, mTaken>>
crawls  == <<crawl, sent>>
manager == <<mgr, jobCount, restartChan>>
env     == <<stops, shut>>
vars == <<river, saved, work, writer, mon, crawls, manager, env, faults>>

WorkStep == {"idle", "register", "submit", "wait", "flush", "save", "answer", "return", "settle"}
Nothing == [by |-> NoAttempt, rows |-> {}]

RiverType ==
  /\ state \in [Jobs -> {"available", "running", "completed", "discarded", "cancelled", "deleted"}]
  /\ attempt \in [Jobs -> 0..MaxAttempts]
  /\ cancelReq \in [Jobs -> BOOLEAN]
  /\ deletion \in [Jobs -> {"none", "queued", "results", "done"}]
SavedType == saved \in [Jobs -> [by : Attempts \cup {NoAttempt}, rows : SUBSET Row]]
WorkType ==
  /\ wpc \in WorkStep
  /\ wjob \in Attempts \cup {NoAttempt}
  /\ why \in {"none", "submit", "timeout", "cancelled"}
  /\ verdict \in {"none", "ok", "error"}
WriterType ==
  /\ wTaken \in Tracked \cup {NotTracked}
  /\ current \in Tracked \cup {NotTracked}
  /\ answer \in [Attempts -> {"none", "rows", "empty", "error"}]
  /\ mTaken \in [Attempts -> Tracked \cup {NotTracked}]
CrawlType ==
  /\ mon \in [Attempts -> {"off", "on", "told", "fired", "saving"}]
  /\ crawl \in [Attempts -> {"none", "queued", "running", "over"}]
  /\ sent \in [Attempts -> SUBSET Listings]
ManagerType ==
  /\ mgr \in {"starting", "up", "stopping"}
  /\ jobCount \in Nat
  /\ restartChan \in BOOLEAN
EnvType == stops \in 0..MaxStops /\ faults \in 0..MaxFaults /\ shut \in BOOLEAN

TypeOK == /\ RiverType /\ SavedType /\ WorkType /\ WriterType
          /\ CrawlType /\ ManagerType /\ EnvType

\* What a process that has just started has in memory.
MemoryInit ==
  /\ wpc = "idle" /\ wjob = NoAttempt /\ why = "none" /\ verdict = "none"
  /\ wTaken = NotTracked /\ current = NotTracked
  /\ answer = [a \in Attempts |-> "none"]
  /\ mon = [a \in Attempts |-> "off"]
  /\ mTaken = [a \in Attempts |-> NotTracked]
  /\ mgr = "starting" /\ jobCount = 0 /\ restartChan = FALSE
  /\ shut = FALSE

Init ==
  /\ state = [j \in Jobs |-> "available"]
  /\ attempt = [j \in Jobs |-> 0]
  /\ cancelReq = [j \in Jobs |-> FALSE]
  /\ deletion = [j \in Jobs |-> "none"]
  /\ saved = [j \in Jobs |-> Nothing]
  /\ crawl = [a \in Attempts |-> "none"]
  /\ sent = [a \in Attempts |-> {}]
  /\ stops = 0 /\ faults = 0
  /\ MemoryInit

-----------------------------------------------------------------------------
(* The central writer. A job is looked up by its id: the attempts of a job *)
(* share it.                                                               *)

Tracks(a) == current.reg \in AttemptsOf(a[1])

\* pgSave: the row of the job is written over, whoever wrote it; it has no foreign key.
\* The answer goes to the channel of the registration that was taken, which has room for one.
Save(t) ==
  /\ answer[t.reg] = "none"
  /\ \/ /\ saved' = [saved EXCEPT ![t.reg[1]] = [by |-> t.reg, rows |-> t.rows]]
        /\ answer' = [answer EXCEPT ![t.reg] = IF t.rows = {} THEN "empty" ELSE "rows"]
        /\ UNCHANGED faults
     \/ /\ faults < MaxFaults
        /\ faults' = faults + 1
        /\ answer' = [answer EXCEPT ![t.reg] = "error"]
        /\ UNCHANGED saved

-----------------------------------------------------------------------------
(* ScrapeWorker.Work, one at a time (MaxWorkers: 1).                       *)

Fetch(j) ==
  /\ wpc = "idle" /\ ~ shut
  /\ state[j] = "available"
  /\ state' = [state EXCEPT ![j] = "running"]
  /\ attempt' = [attempt EXCEPT ![j] = @ + 1]
  /\ cancelReq' = [cancelReq EXCEPT ![j] = FALSE]
  /\ wjob' = <<j, attempt[j] + 1>>
  /\ wpc' = "register"
  /\ UNCHANGED <<deletion, saved, why, verdict, writer, mon, crawls, manager, env, faults>>

RegisterJob ==
  /\ wpc = "register"
  /\ wpc' = "submit"
  /\ current' = [reg |-> wjob, rows |-> {}]
  /\ UNCHANGED <<river, saved, wjob, why, verdict, wTaken, answer, mTaken, mon, crawls,
                 manager, env, faults>>

\* The current provider is not nil from the first cycle on; nobody ever closes one.
SubmitJob ==
  /\ wpc = "submit"
  /\ mgr # "starting"
  /\ wpc' = "wait"
  /\ crawl' = [crawl EXCEPT ![wjob] = "queued"]
  /\ mon' = [mon EXCEPT ![wjob] = "on"]
  /\ UNCHANGED <<river, saved, wjob, why, verdict, writer, sent, manager, env, faults>>

\* The context of the job is done: the process is stopping, or the job was cancelled.
ContextDone == shut \/ \E j \in Jobs : cancelReq[j] /\ wjob \in AttemptsOf(j)

SubmitFails ==
  /\ wpc = "submit"
  /\ ContextDone
  /\ wpc' = "flush" /\ why' = "submit"
  /\ UNCHANGED <<river, saved, wjob, verdict, writer, mon, crawls, manager, env, faults>>

\* Mutant: the error of the save is dropped.
CompletionUnchecked ==
  /\ wpc = "wait"
  /\ answer[wjob] # "none"
  /\ wpc' = "return"
  /\ verdict' = "ok"
  /\ answer' = [answer EXCEPT ![wjob] = "none"]
  /\ UNCHANGED <<river, saved, wjob, why, wTaken, current, mTaken, mon, crawls, manager, env,
                 faults>>

Completion ==
  /\ wpc = "wait"
  /\ answer[wjob] # "none"
  /\ wpc' = "return"
  /\ verdict' = IF answer[wjob] = "error" THEN "error" ELSE "ok"
  /\ answer' = [answer EXCEPT ![wjob] = "none"]
  /\ UNCHANGED <<river, saved, wjob, why, wTaken, current, mTaken, mon, crawls, manager, env,
                 faults>>

\* exitCancel: the monitor's context is done, which its select may or may not see first.
Told == [mon EXCEPT ![wjob] = IF @ = "on" THEN "told" ELSE @]

\* Mutant: there is no timer.
GiveUpUntimed(reason) ==
  /\ wpc = "wait" /\ reason = "cancelled"
  /\ reason = "cancelled" => ContextDone
  /\ wpc' = "flush" /\ why' = reason
  /\ mon' = Told
  /\ UNCHANGED <<river, saved, wjob, verdict, writer, crawls, manager, env, faults>>

\* The timer, or River's deadline two minutes later; either way exitCancel comes first.
GiveUp(reason) ==
  /\ wpc = "wait"
  /\ reason = "cancelled" => ContextDone
  /\ wpc' = "flush" /\ why' = reason
  /\ mon' = Told
  /\ UNCHANGED <<river, saved, wjob, verdict, writer, crawls, manager, env, faults>>

\* Mutant: the tracked job is discarded, not flushed.
ForceFlushDiscards ==
  /\ wpc = "flush"
  /\ IF Tracks(wjob)
     THEN current' = NotTracked /\ wpc' = "answer" /\ UNCHANGED wTaken
     ELSE wpc' = "answer" /\ UNCHANGED <<wTaken, current>>
  /\ UNCHANGED <<river, saved, wjob, why, verdict, answer, mTaken, mon, crawls, manager,
                 env, faults>>

\* Flush under the lock, for whatever attempt of the job is tracked now.
ForceFlush ==
  /\ wpc = "flush"
  /\ IF Tracks(wjob)
     THEN wTaken' = current /\ current' = NotTracked /\ wpc' = "save"
     ELSE wpc' = "answer" /\ UNCHANGED <<wTaken, current>>
  /\ UNCHANGED <<river, saved, wjob, why, verdict, answer, mTaken, mon, crawls, manager,
                 env, faults>>

ForceFlushSave ==
  /\ wpc = "save"
  /\ Save(wTaken)
  /\ wTaken' = NotTracked
  /\ wpc' = "answer"
  /\ UNCHANGED <<river, wjob, why, verdict, current, mTaken, mon, crawls, manager, env>>

\* Partial rows are a success only when it was time that ran out.
Outcome == IF why = "timeout" /\ answer[wjob] = "rows" THEN "ok" ELSE "error"

WaitForFlushResult ==
  /\ wpc = "answer"
  /\ answer[wjob] # "none"
  /\ wpc' = "return"
  /\ verdict' = Outcome /\ why' = "none"
  /\ answer' = [answer EXCEPT ![wjob] = "none"]
  /\ UNCHANGED <<river, saved, wjob, wTaken, current, mTaken, mon, crawls, manager, env, faults>>

\* The deferred exitCancel, and JobDone as the last thing.
JobDone ==
  /\ wpc = "return"
  /\ wpc' = "settle"
  /\ mon' = Told
  /\ jobCount' = jobCount + 1
  /\ restartChan' = (restartChan \/ jobCount + 1 >= MaxJobs)
  /\ UNCHANGED <<river, saved, wjob, why, verdict, writer, crawls, mgr, env, faults>>

NextState(j) ==
  IF state[j] = "deleted" THEN "deleted"
  ELSE IF attempt[j] < MaxAttempts THEN "available" ELSE "discarded"

\* River records the outcome; the promoter makes a failed job available again.
Settle ==
  /\ wpc = "settle"
  /\ wpc' = "idle" /\ wjob' = NoAttempt /\ verdict' = "none"
  /\ LET j == wjob[1] IN
       state' = [state EXCEPT ![j] =
         IF state[j] # "deleted" /\ verdict = "ok" THEN "completed"
         ELSE IF state[j] # "deleted" /\ cancelReq[j] THEN "cancelled"
         ELSE NextState(j)]
  /\ UNCHANGED <<attempt, cancelReq, deletion, saved, why, writer, mon, crawls, manager, env,
                 faults>>

-----------------------------------------------------------------------------
(* The exit monitor of an attempt: Run's select, then MarkDone.            *)

MonitorFires(a) ==
  /\ mon[a] \in {"on", "told"}
  /\ crawl[a] = "over"
  /\ mon' = [mon EXCEPT ![a] = "fired"]
  /\ UNCHANGED <<river, saved, work, writer, crawls, manager, env, faults>>

MonitorQuits(a) ==
  /\ mon[a] = "told" \/ (mon[a] = "on" /\ shut)
  /\ mon' = [mon EXCEPT ![a] = "off"]
  /\ UNCHANGED <<river, saved, work, writer, crawls, manager, env, faults>>

MarkDone(a) ==
  /\ mon[a] = "fired"
  /\ IF Tracks(a)
     THEN /\ mTaken' = [mTaken EXCEPT ![a] = current] /\ current' = NotTracked
          /\ mon' = [mon EXCEPT ![a] = "saving"]
     ELSE mon' = [mon EXCEPT ![a] = "off"] /\ UNCHANGED <<mTaken, current>>
  /\ UNCHANGED <<river, saved, work, wTaken, answer, crawls, manager, env, faults>>

MarkDoneSave(a) ==
  /\ mon[a] = "saving"
  /\ Save(mTaken[a])
  /\ mTaken' = [mTaken EXCEPT ![a] = NotTracked]
  /\ mon' = [mon EXCEPT ![a] = "off"]
  /\ UNCHANGED <<river, work, wTaken, current, crawls, manager, env>>

-----------------------------------------------------------------------------
(* The scraper (scrapemate): takes crawls from the provider it was started *)
(* with, delivers their rows to the writer. That a crawl announces its end *)
(* only after its last row is Crawl's NoEarlyExit.                         *)

StartCrawl(a) ==
  /\ mgr = "up"
  /\ crawl[a] = "queued"
  /\ crawl' = [crawl EXCEPT ![a] = "running"]
  /\ UNCHANGED <<river, saved, work, writer, mon, sent, manager, env, faults>>

\* Mutant: a row is added to whatever job is tracked.
AddResultUnchecked(a, l) ==
  /\ mgr \in {"up", "stopping"}
  /\ crawl[a] = "running"
  /\ l \notin sent[a]
  /\ sent' = [sent EXCEPT ![a] = @ \cup {l}]
  /\ current' = IF current.reg # NoAttempt
                THEN [current EXCEPT !.rows = @ \cup {<<a, l>>}] ELSE current
  /\ UNCHANGED <<river, saved, work, wTaken, answer, mTaken, mon, crawl, manager, env,
                 faults>>

AddResult(a, l) ==
  /\ mgr \in {"up", "stopping"}
  /\ crawl[a] = "running"
  /\ l \notin sent[a]
  /\ sent' = [sent EXCEPT ![a] = @ \cup {l}]
  /\ current' = IF Tracks(a) THEN [current EXCEPT !.rows = @ \cup {<<a, l>>}] ELSE current
  /\ UNCHANGED <<river, saved, work, wTaken, answer, mTaken, mon, crawl, manager, env,
                 faults>>

CrawlEnds(a) ==
  /\ mgr \in {"up", "stopping"}
  /\ crawl[a] = "running"
  /\ crawl' = [crawl EXCEPT ![a] = "over"]
  /\ sent' = [sent EXCEPT ![a] = {}]
  /\ UNCHANGED <<river, saved, work, writer, mon, manager, env, faults>>

-----------------------------------------------------------------------------
(* ScraperManager.Run.                                                     *)

Dropped == [a \in Attempts |-> IF crawl[a] = "over" THEN "over" ELSE "none"]

\* runCycle installs a new provider: what the old one holds, nobody will read.
StartCycle ==
  /\ mgr # "up" /\ ~ shut
  /\ mgr' = "up"
  /\ jobCount' = 0
  /\ crawl' = Dropped
  /\ sent' = [a \in Attempts |-> {}]
  /\ UNCHANGED <<river, saved, work, writer, mon, restartChan, env, faults>>

TakeRestart ==
  /\ mgr = "up"
  /\ restartChan
  /\ mgr' = "stopping"
  /\ restartChan' = FALSE
  /\ UNCHANGED <<river, saved, work, writer, mon, crawls, jobCount, env, faults>>

-----------------------------------------------------------------------------
(* The environment: SIGTERM, the end of the process, River's rescue of     *)
(* jobs whose worker is gone, an operator deleting a job.                  *)

Terminate ==
  /\ ~ shut /\ stops < MaxStops
  /\ shut' = TRUE
  /\ stops' = stops + 1
  /\ UNCHANGED <<river, saved, work, writer, mon, crawls, manager, faults>>

ProcessEnds ==
  /\ shut \/ stops < MaxStops
  /\ stops' = IF shut THEN stops ELSE stops + 1
  /\ wpc' = "idle" /\ wjob' = NoAttempt /\ why' = "none" /\ verdict' = "none"
  /\ wTaken' = NotTracked /\ current' = NotTracked
  /\ answer' = [a \in Attempts |-> "none"]
  /\ mon' = [a \in Attempts |-> "off"]
  /\ mTaken' = [a \in Attempts |-> NotTracked]
  /\ crawl' = [a \in Attempts |-> "none"]
  /\ sent' = [a \in Attempts |-> {}]
  /\ mgr' = "starting" /\ jobCount' = 0 /\ restartChan' = FALSE
  /\ shut' = FALSE
  /\ UNCHANGED <<river, saved, faults>>

Rescue(j) ==
  /\ state[j] = "running"
  /\ wjob \notin AttemptsOf(j)
  /\ state' = [state EXCEPT ![j] = NextState(j)]
  /\ UNCHANGED <<attempt, cancelReq, deletion, saved, work, writer, mon, crawls, manager,
                 env, faults>>

\* DeleteJob: cancel it if it is running, and queue its deletion.
DeleteJob(j) ==
  /\ j \in Deletable /\ deletion[j] = "none"
  /\ deletion' = [deletion EXCEPT ![j] = "queued"]
  /\ cancelReq' = [cancelReq EXCEPT ![j] = state[j] = "running"]
  /\ UNCHANGED <<state, attempt, saved, work, writer, mon, crawls, manager, env, faults>>

DeleteResults(j) ==
  /\ deletion[j] = "queued"
  /\ deletion' = [deletion EXCEPT ![j] = "results"]
  /\ saved' = [saved EXCEPT ![j] = Nothing]
  /\ UNCHANGED <<state, attempt, cancelReq, work, writer, mon, crawls, manager, env, faults>>

DeleteRow(j) ==
  /\ deletion[j] = "results"
  /\ deletion' = [deletion EXCEPT ![j] = "done"]
  /\ state' = [state EXCEPT ![j] = "deleted"]
  /\ UNCHANGED <<attempt, cancelReq, saved, work, writer, mon, crawls, manager, env, faults>>

-----------------------------------------------------------------------------
Work ==
  \/ \E j \in Jobs : Fetch(j)
  \/ RegisterJob \/ SubmitJob \/ SubmitFails
  \/ Completion \/ GiveUp("timeout") \/ GiveUp("cancelled")
  \/ ForceFlush \/ ForceFlushSave \/ WaitForFlushResult \/ JobDone \/ Settle
Monitor(a) == MonitorFires(a) \/ MonitorQuits(a) \/ MarkDone(a) \/ MarkDoneSave(a)
Scraper(a) == StartCrawl(a) \/ (\E l \in Listings : AddResult(a, l)) \/ CrawlEnds(a)
Manager == StartCycle \/ TakeRestart
Deletion(j) == DeleteResults(j) \/ DeleteRow(j)
Environment == Terminate \/ ProcessEnds

Next ==
  \/ Work
  \/ \E a \in Attempts : Monitor(a) \/ Scraper(a)
  \/ Manager
  \/ \E j \in Jobs : Rescue(j) \/ DeleteJob(j) \/ Deletion(j)
  \/ Environment

Spec == Init /\ [][Next]_vars

\* Work goes on, its timer being one of its steps; so do the goroutines of the
\* monitors, the manager, and the rescue of jobs without a worker. A process that was
\* asked to stop ends (River's Stop is given ten seconds). Nothing is assumed of the
\* scraper.
Fairness ==
  /\ WF_vars(Work)
  /\ \A a \in Attempts : WF_vars(Monitor(a))
  /\ WF_vars(Manager)
  /\ \A j \in Jobs : WF_vars(Rescue(j)) /\ WF_vars(Deletion(j))
  /\ WF_vars(shut /\ ProcessEnds)
FairSpec == Spec /\ Fairness

-----------------------------------------------------------------------------
(* Properties.                                                             *)

\* The writer tracks one job, and it is the one in hand: no path of Work (a submit
\* that fails, a timer against a completion, a cancellation) leaves its registration
\* behind for the next job's rows or the next job's register to meet.
TrackedIsInHand ==
  current.reg # NoAttempt => current.reg = wjob /\ wpc \in {"submit", "wait", "flush"}

\* Work never waits in vain for the flush it asked for: the answer is there, or
\* somebody who took this very registration is saving it (rqueue.go gives the wait 90 s,
\* the save has 30 s).
AnswerIsComing ==
  wpc = "answer" =>
    answer[wjob] # "none" \/ \E a \in Attempts : mon[a] = "saving" /\ mTaken[a].reg = wjob

\* A registration is in one place only: tracked, taken by one flush, or answered. Two
\* answers would leave whoever sends the second one blocked for good.
Holders(r) ==
  {p \in {"tracked", "work", "monitor", "answered"} \X Attempts :
     \/ p = <<"tracked", r>> /\ current.reg = r
     \/ p = <<"work", r>> /\ wTaken.reg = r
     \/ p[1] = "monitor" /\ mTaken[p[2]].reg = r
     \/ p = <<"answered", r>> /\ answer[r] # "none"}
OneAnswer == \A r \in Attempts : \A p, q \in Holders(r) : p = q

\* Rows never end up under another job, although a crawl that was given up goes on
\* while the next job is tracked.
RowsStayWithTheirJob == \A j \in Jobs : \A r \in saved[j].rows : r[1][1] = j

\* A job River calls completed has its rows in the table, saved by the attempt that
\* completed it (a save that fails is not taken for success, on any path).
CompletedIsSaved ==
  \A j \in Jobs : state[j] = "completed" /\ deletion[j] = "none" => saved[j].by = <<j, attempt[j]>>

\* The rows of a job change only while it runs, or after it was deleted: its latest
\* attempt writes over what earlier ones saved, once. No flush of an attempt that was
\* given up or retried comes late and puts old or partial rows over newer ones
\* (centralwriter.go's ON CONFLICT overwrites, whoever comes last).
SavesInOrder ==
  [][\A j \in Jobs :
       saved'[j] # saved[j] /\ saved'[j] # Nothing =>
         /\ state[j] \in {"running", "deleted"}
         /\ saved'[j].by = <<j, attempt[j]>>
         /\ saved[j].by # NoAttempt => saved[j].by[2] < attempt[j]]_vars

\* A job that has ended is not taken up again, by no rescue, retry or late Settle; a
\* deletion is all that can still happen to it.
Ended == {"completed", "discarded", "cancelled", "deleted"}
EndedStaysEnded ==
  [][\A j \in Jobs :
       /\ attempt'[j] # attempt[j] => state[j] = "available" /\ attempt'[j] = attempt[j] + 1
       /\ state[j] \in Ended => state'[j] \in {state[j], "deleted"}]_vars

\* Every job comes to an end, whatever the scraper does with its crawl: swallowed by a
\* provider nobody reads, stuck in a browser, cut off by a restart.
JobsSettle ==
  \A j \in Jobs : <>(state[j] \in {"completed", "discarded", "cancelled", "deleted"})

\* A job that was deleted, and that nobody works on, has no results left
\* (jobs.go:39, "deletes the job and its associated results").
DeletedLeavesNothing ==
  \A j \in Jobs :
    deletion[j] = "done" /\ wjob \notin AttemptsOf(j) => saved[j] = Nothing
=============================================================================
