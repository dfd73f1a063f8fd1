----------------------------- MODULE WebRunner -----------------------------
(***************************************************************************)
(* The dashboard's job runner (runner/webrunner) with the parts it shares  *)
(* state with: the job table (web/sqlite), the per-job CSV on disk, the    *)
(* deduplicated lead list (web/leads) and the HTTP handlers that create,   *)
(* rerun and delete jobs (web/web.go).                                     *)
(*                                                                         *)
(* Four activities interleave: the worker that runs one job at a time, the *)
(* watchdog that stops a run with no new listing, the pause watch that     *)
(* stops it when the pause window opens, and the HTTP handlers.  The first *)
(* three share currentID/cancelCurrent and the stalled, paused and         *)
(* attempts maps under one mutex; all of that is memory and dies with the  *)
(* process, while the table, the CSVs and the lead list survive.           *)
(***************************************************************************)
EXTENDS Integers, Sequences, FiniteSets

CONSTANTS
  Job,              \* job ids
  Place,            \* the listings a run can find
  Handler,          \* HTTP requests in flight
  None, NoFile,     \* "no job / no request", "no CSV on disk"
  MaxStallRetries,  \* maxStallRetries
  StallAfter,       \* web.StallAfter, in watchdog periods
  GridJob,          \* the jobs that run on a map grid
  MaxRestarts, MaxWindows, MaxReruns, MaxDeletes, MaxFaults   \* bounds on the environment

ASSUME RunnerAssumption ==
  /\ IsFiniteSet(Place) /\ None \notin Job
  /\ \A s \in SUBSET Place : s # NoFile
  /\ MaxStallRetries \in Nat /\ StallAfter \in Nat \ {0}
  /\ GridJob \subseteq Job
  /\ {MaxRestarts, MaxWindows, MaxReruns, MaxDeletes, MaxFaults} \subseteq Nat

VARIABLES
  row, created, final,      \* job table: status, creation order, "is a retry or a grid job"
  csv, leads, ingested,     \* CSV rows on disk; lead list per job; the ingested_jobs table
  pc, wjob, wstat, hung, bq,\* worker: position, job in hand, its job.Status, restartAfterJob, boot scan
  cur, cut,                 \* currentID; who cancelled the run in hand
  cutShort, requeued,       \* history: jobs whose last run was cut; stall requeues of each job
  paused, stalled, attempts,\* the maps under w.mu
  due, dpc, dId, dLive, watching, wLive, lastRows, age,   \* watchdog
  ppc, pLive,               \* pause watch
  req,                      \* HTTP handlers
  window, restarts, windows, reruns, deletes, faults   \* environment

tableVars == <<row, created, final>>
dataVars  == <<csv, leads, ingested>>
workVars  == <<pc, wjob, wstat, hung, bq>>
runVars   == <<cur, cut, cutShort, requeued>>
markVars  == <<paused, stalled, attempts>>
dogVars   == <<due, dpc, dId, dLive, watching, wLive, lastRows, age>>
pauseVars == <<ppc, pLive>>
envVars   == <<window, restarts, windows, reruns, deletes>>
vars == <<tableVars, dataVars, workVars, runVars, markVars, dogVars, pauseVars, req, envVars, faults>>

Status   == {"pending", "working", "ok", "failed"}
Finished == {"ok", "failed"}
Request  == [op : {"rerun", "delete"}, job : Job]

Rows(j) == IF csv[j] = NoFile THEN {} ELSE csv[j]
CountRows(j) == Cardinality(Rows(j))
-----------------------------------------------------------------------------
(* The job table.  An update writes the whole row where the id still exists, *)
(* so it does nothing to a deleted job, and any write may fail.              *)

Fault == faults < MaxFaults /\ faults' = faults + 1

Stored(j, s) == IF row[j] \in Status THEN [row EXCEPT ![j] = s] ELSE row

Update(j, s) == /\ \/ row' = Stored(j, s) /\ UNCHANGED faults
                   \/ Fault /\ UNCHANGED row
                /\ UNCHANGED <<created, final>>

Create(j, isFinal) == /\ row[j] = "none"
                      /\ row' = [row EXCEPT ![j] = "pending"]
                      /\ created' = Append(created, j)
                      /\ final' = IF isFinal THEN final \cup {j} ELSE final

\* SelectPending: the pending row added first.
OldestPending(j) == \E i \in DOMAIN created :
  /\ created[i] = j /\ row[j] = "pending"
  /\ \A k \in 1..(i - 1) : row[created[k]] # "pending"

\* The lead list takes a CSV and the ingested mark in one transaction; a
\* failure is logged and changes nothing, and a missing CSV is skipped.
Ingest(j) == \/ /\ csv[j] # NoFile
                /\ leads' = [leads EXCEPT ![j] = @ \cup csv[j]]
                /\ ingested' = ingested \cup {j}
                /\ UNCHANGED <<csv, faults>>
             \/ csv[j] = NoFile /\ UNCHANGED <<dataVars, faults>>
             \/ csv[j] # NoFile /\ Fault /\ UNCHANGED dataVars
-----------------------------------------------------------------------------
Init ==
  /\ row = [j \in Job |-> "none"] /\ created = <<>> /\ final = {}
  /\ csv = [j \in Job |-> NoFile] /\ leads = [j \in Job |-> {}] /\ ingested = {}
  /\ pc = "down" /\ wjob = None /\ wstat = "ok" /\ hung = FALSE /\ bq = {}
  /\ cur = None /\ cut = {}
  /\ cutShort = {} /\ requeued = [j \in Job |-> 0]
  /\ paused = {} /\ stalled = {} /\ attempts = [j \in Job |-> 0]
  /\ due = FALSE /\ dpc = "idle" /\ dId = None /\ dLive = FALSE
  /\ watching = None /\ wLive = FALSE /\ lastRows = 0 /\ age = 0
  /\ ppc = "idle" /\ pLive = FALSE
  /\ req = [h \in Handler |-> None]
  /\ window = FALSE /\ restarts = 0 /\ windows = 0 /\ reruns = 0 /\ deletes = 0 /\ faults = 0

WorkerStep(from, to) == pc = from /\ pc' = to

(* Starting up: requeueInterrupted, then backfill, each over a snapshot of   *)
(* the table; a snapshot that cannot be read is taken for an empty one.      *)

Snapshot(S) == \/ bq' = S /\ UNCHANGED faults
               \/ bq' = {} /\ Fault

\* Faulty variant: a start that leaves interrupted jobs as they are.
BootForgets ==
  /\ WorkerStep("down", "requeue")
  /\ UNCHANGED <<tableVars, dataVars, wjob, wstat, hung, bq, runVars, markVars,
                 dogVars, pauseVars, req, envVars, faults>>

Boot ==
  /\ WorkerStep("down", "requeue")
  /\ Snapshot({j \in Job : row[j] = "working"})
  /\ UNCHANGED <<tableVars, dataVars, wjob, wstat, hung, runVars, markVars,
                 dogVars, pauseVars, req, envVars>>

RequeueIngest(j) ==
  /\ WorkerStep("requeue", "requeueSave")
  /\ j \in bq
  /\ wjob' = j
  /\ Ingest(j)
  /\ UNCHANGED <<tableVars, wstat, hung, bq, runVars, markVars, dogVars, pauseVars, req, envVars>>

RequeueSave ==
  /\ WorkerStep("requeueSave", "requeue")
  /\ bq' = bq \ {wjob}
  /\ Update(wjob, "pending")
  /\ UNCHANGED <<dataVars, wjob, wstat, hung, runVars, markVars, dogVars, pauseVars, req, envVars>>

BackfillScan ==
  /\ WorkerStep("requeue", "backfill")
  /\ bq = {}
  /\ Snapshot({j \in Job : row[j] \in Finished})
  /\ UNCHANGED <<tableVars, dataVars, wjob, wstat, hung, runVars, markVars,
                 dogVars, pauseVars, req, envVars>>

BackfillOne(j) ==
  /\ pc = "backfill" /\ j \in bq
  /\ bq' = bq \ {j}
  /\ IF j \in ingested THEN UNCHANGED <<dataVars, faults>> ELSE Ingest(j)
  /\ UNCHANGED <<tableVars, pc, wjob, wstat, hung, runVars, markVars,
                 dogVars, pauseVars, req, envVars>>

Ready ==
  /\ WorkerStep("backfill", "idle")
  /\ bq = {} /\ wjob' = None
  /\ UNCHANGED <<tableVars, dataVars, wstat, hung, bq, runVars, markVars,
                 dogVars, pauseVars, req, envVars, faults>>
-----------------------------------------------------------------------------
(* The worker: work, scrapeJob, startMate, afterJob. *)

Select(j) ==
  /\ WorkerStep("idle", "selected")
  /\ ~window
  /\ OldestPending(j)
  /\ wjob' = j /\ wstat' = "pending"
  /\ UNCHANGED <<tableVars, dataVars, hung, bq, runVars, markVars,
                 dogVars, pauseVars, req, envVars, faults>>

HoldForPause ==
  /\ WorkerStep("selected", "idle")
  /\ window /\ wjob' = None /\ wstat' = "ok"
  /\ UNCHANGED <<tableVars, dataVars, hung, bq, runVars, markVars,
                 dogVars, pauseVars, req, envVars, faults>>

\* job.Status = working; a failed update still goes on to ingest and afterJob.
Begin ==
  /\ pc = "selected" /\ ~window
  /\ wstat' = "working"
  /\ Update(wjob, "working")
  /\ pc' = IF faults' = faults THEN "create" ELSE "ingest"
  /\ UNCHANGED <<dataVars, wjob, hung, bq, runVars, markVars, dogVars, pauseVars, req, envVars>>

\* os.Create empties the CSV of an earlier run (and creates one for a job
\* deleted meanwhile).  When it fails the row stays "working".
CreateCSV ==
  /\ pc = "create"
  /\ \/ /\ csv' = [csv EXCEPT ![wjob] = {}]
        /\ pc' = "setup"
        /\ cutShort' = cutShort \ {wjob}
        /\ UNCHANGED faults
     \/ pc' = "ingest" /\ Fault /\ UNCHANGED <<csv, cutShort>>
  /\ UNCHANGED <<tableVars, leads, ingested, wjob, wstat, hung, bq, cur, cut, requeued,
                 markVars, dogVars, pauseVars, req, envVars>>

\* setupMate or seedJobs returned an error.
SetupFails ==
  /\ WorkerStep("setup", "ingest")
  /\ wstat' = "failed"
  /\ Update(wjob, "failed")
  /\ UNCHANGED <<dataVars, wjob, hung, bq, runVars, markVars, dogVars, pauseVars, req, envVars>>

NoSeeds ==
  /\ WorkerStep("setup", "save")
  /\ wstat' = "ok"
  /\ UNCHANGED <<tableVars, dataVars, wjob, hung, bq, runVars, markVars,
                 dogVars, pauseVars, req, envVars, faults>>

StartRun ==
  /\ WorkerStep("setup", "running")
  /\ cur' = wjob
  /\ UNCHANGED <<tableVars, dataVars, wjob, wstat, hung, bq, cut, cutShort, requeued, markVars,
                 dogVars, pauseVars, req, envVars, faults>>

\* The result writer appends a listing; to a CSV deleted meanwhile it writes unseen.
WriteRow(p) ==
  /\ pc = "running"
  /\ csv[wjob] # NoFile /\ p \notin csv[wjob]
  /\ csv' = [csv EXCEPT ![wjob] = @ \cup {p}]
  /\ UNCHANGED <<tableVars, leads, ingested, workVars, runVars, markVars,
                 dogVars, pauseVars, req, envVars, faults>>

\* mate.Start returned: finished, out of time or cancelled ("ok"), or an error
\* of its own ("failed"); or its results are written and its browsers hang.
RunEnds(s, hangs) ==
  /\ WorkerStep("running", "save")
  /\ wstat' = s
  /\ hangs => s = "ok" /\ restarts < MaxRestarts
  /\ hung' = (hung \/ hangs)
  /\ dLive' = FALSE /\ wLive' = FALSE /\ pLive' = FALSE
  /\ cutShort' = IF cut # {} /\ s = "ok" THEN cutShort \cup {wjob} ELSE cutShort
  /\ UNCHANGED <<tableVars, dataVars, wjob, bq, cur, cut, requeued, markVars, due, dpc, dId,
                 watching, lastRows, age, ppc, req, envVars, faults>>

SaveOutcome ==
  /\ WorkerStep("save", "clear")
  /\ Update(wjob, wstat)
  /\ UNCHANGED <<dataVars, wjob, wstat, hung, bq, runVars, markVars, dogVars, pauseVars, req, envVars>>

\* The deferred setCurrent("", nil).
ClearCurrent ==
  /\ WorkerStep("clear", "ingest")
  /\ cur' = None
  /\ UNCHANGED <<tableVars, dataVars, wjob, wstat, hung, bq, cut, cutShort, requeued, markVars,
                 dogVars, pauseVars, req, envVars, faults>>

\* Faulty variant: only a run that went well is taken into the lead list.
IngestRunIfOK ==
  /\ WorkerStep("ingest", "afterPause")
  /\ IF wstat = "ok" THEN Ingest(wjob) ELSE UNCHANGED <<dataVars, faults>>
  /\ UNCHANGED <<tableVars, wjob, wstat, hung, bq, runVars, markVars, dogVars, pauseVars, req, envVars>>

IngestRun ==
  /\ WorkerStep("ingest", "afterPause")
  /\ Ingest(wjob)
  /\ UNCHANGED <<tableVars, wjob, wstat, hung, bq, runVars, markVars, dogVars, pauseVars, req, envVars>>

\* Faulty variant: a run that failed returns before its pause mark is taken.
TakePauseMarkIfOK ==
  /\ pc = "afterPause"
  /\ IF wjob \in paused /\ wstat = "ok"
     THEN paused' = paused \ {wjob} /\ pc' = "afterSave" /\ wstat' = "pending"
     ELSE pc' = "afterStall" /\ UNCHANGED <<paused, wstat>>
  /\ UNCHANGED <<tableVars, dataVars, wjob, hung, bq, runVars, stalled, attempts,
                 dogVars, pauseVars, req, envVars, faults>>

TakePauseMark ==
  /\ pc = "afterPause"
  /\ paused' = paused \ {wjob}
  /\ IF wjob \in paused THEN pc' = "afterSave" /\ wstat' = "pending"
                        ELSE pc' = "afterStall" /\ UNCHANGED wstat
  /\ UNCHANGED <<tableVars, dataVars, wjob, hung, bq, runVars, stalled, attempts,
                 dogVars, pauseVars, req, envVars, faults>>

\* Counts saturate one above the bound they are compared with.
Bump(f, j) == [f EXCEPT ![j] = IF @ <= MaxStallRetries THEN @ + 1 ELSE @]

MayRetry(tries) == tries <= MaxStallRetries
\* Faulty variant: a job out of retries is left "ok".
StallVerdictLenient(tries) == IF MayRetry(tries) THEN "pending" ELSE "ok"
StallVerdict(tries) == IF MayRetry(tries) THEN "pending" ELSE "failed"

TakeStallMark ==
  /\ pc = "afterStall"
  /\ stalled' = stalled \ {wjob}
  /\ IF wjob \in stalled
     THEN /\ attempts' = Bump(attempts, wjob)
          /\ wstat' = StallVerdict(attempts'[wjob])
          /\ requeued' = IF wstat' = "pending" THEN Bump(requeued, wjob) ELSE requeued
          /\ pc' = "afterSave"
     ELSE pc' = "afterEmpty" /\ UNCHANGED <<attempts, wstat, requeued>>
  /\ UNCHANGED <<tableVars, dataVars, wjob, hung, bq, cur, cut, cutShort, paused,
                 dogVars, pauseVars, req, envVars, faults>>

SaveRequeue ==
  /\ WorkerStep("afterSave", "done")
  /\ Update(wjob, wstat)
  /\ UNCHANGED <<dataVars, wjob, wstat, hung, bq, runVars, markVars, dogVars, pauseVars, req, envVars>>

\* One retry job for the searches with no row, when others of the job have one.
RetryEmpty(j) ==
  /\ WorkerStep("afterEmpty", "done")
  /\ wstat = "ok" /\ wjob \notin final /\ Rows(wjob) # {}
  /\ Create(j, TRUE)
  /\ UNCHANGED <<dataVars, wjob, wstat, hung, bq, runVars, markVars,
                 dogVars, pauseVars, req, envVars, faults>>

NoRetry ==
  /\ WorkerStep("afterEmpty", "done")
  /\ UNCHANGED <<tableVars, dataVars, wjob, wstat, hung, bq, runVars, markVars,
                 dogVars, pauseVars, req, envVars, faults>>

NextJob ==
  /\ WorkerStep("done", "idle")
  /\ ~hung /\ wjob' = None /\ wstat' = "ok" /\ cut' = {}
  /\ UNCHANGED <<tableVars, dataVars, hung, bq, cur, cutShort, requeued, markVars,
                 dogVars, pauseVars, req, envVars, faults>>

Worker ==
  \/ Boot \/ RequeueSave \/ BackfillScan \/ Ready
  \/ HoldForPause \/ Begin \/ CreateCSV \/ SetupFails \/ NoSeeds \/ StartRun
  \/ SaveOutcome \/ ClearCurrent \/ IngestRun \/ TakePauseMark \/ TakeStallMark
  \/ SaveRequeue \/ NoRetry \/ NextJob
  \/ \E j \in Job : RequeueIngest(j) \/ BackfillOne(j) \/ Select(j) \/ RetryEmpty(j)
-----------------------------------------------------------------------------
(* The watchdog.  It reads the job under the lock, counts rows and decides   *)
(* without it, marks under it again and cancels without it.                  *)

Unwatch == watching' = None /\ wLive' = FALSE /\ lastRows' = 0 /\ age' = 0

WatchRead ==
  /\ due /\ due' = FALSE
  /\ IF cur = None
     THEN Unwatch /\ UNCHANGED <<dpc, dId, dLive>>
     ELSE /\ dpc' = "compare" /\ dId' = cur /\ dLive' = (pc = "running")
          /\ UNCHANGED <<watching, wLive, lastRows, age>>
  /\ UNCHANGED <<tableVars, dataVars, workVars, runVars, markVars, pauseVars, req, envVars, faults>>

\* Faulty variant: takes an unchanged file for a changed one.
NoNewListingStrict == dId = watching /\ CountRows(dId) < lastRows
NoNewListing == dId = watching /\ CountRows(dId) = lastRows

WatchCompare ==
  /\ dpc = "compare"
  /\ IF NoNewListing
     THEN UNCHANGED <<watching, wLive, lastRows, age>>
     ELSE watching' = dId /\ wLive' = dLive /\ lastRows' = CountRows(dId) /\ age' = 0
  /\ IF NoNewListing /\ age = StallAfter
     THEN dpc' = "mark" /\ UNCHANGED <<dId, dLive>>
     ELSE dpc' = "idle" /\ dId' = None /\ dLive' = FALSE
  /\ UNCHANGED <<tableVars, dataVars, workVars, runVars, markVars, due, pauseVars, req, envVars, faults>>

WatchMark ==
  /\ dpc = "mark" /\ dpc' = "cancel"
  /\ stalled' = stalled \cup {dId}
  /\ UNCHANGED <<tableVars, dataVars, workVars, runVars, paused, attempts, due, dId, dLive,
                 watching, wLive, lastRows, age, pauseVars, req, envVars, faults>>

\* cancel() of a run that has ended does nothing.
WatchCancel ==
  /\ dpc = "cancel" /\ dpc' = "idle"
  /\ cut' = IF dLive THEN cut \cup {"watchdog"} ELSE cut
  /\ dId' = None /\ dLive' = FALSE
  /\ Unwatch
  /\ UNCHANGED <<tableVars, dataVars, workVars, cur, cutShort, requeued, markVars, due,
                 pauseVars, req, envVars, faults>>

(* The pause watch marks the current job while it holds the lock. *)

\* Faulty variant: the test of the mark is inverted.
PauseMarkInverted ==
  /\ ppc = "idle" /\ pc # "down" /\ window
  /\ cur # None /\ cur \in paused
  /\ ppc' = "cancel" /\ pLive' = (pc = "running")
  /\ UNCHANGED <<tableVars, dataVars, workVars, runVars, markVars, dogVars, req, envVars, faults>>

PauseMark ==
  /\ ppc = "idle" /\ pc # "down" /\ window
  /\ cur # None /\ cur \notin paused
  /\ paused' = paused \cup {cur}
  /\ ppc' = "cancel" /\ pLive' = (pc = "running")
  /\ UNCHANGED <<tableVars, dataVars, workVars, runVars, stalled, attempts,
                 dogVars, req, envVars, faults>>

PauseCancel ==
  /\ ppc = "cancel" /\ ppc' = "idle"
  /\ cut' = IF pLive THEN cut \cup {"pause"} ELSE cut
  /\ pLive' = FALSE
  /\ UNCHANGED <<tableVars, dataVars, workVars, cur, cutShort, requeued, markVars,
                 dogVars, req, envVars, faults>>
-----------------------------------------------------------------------------
(* The HTTP handlers.  Rerun reads the job and writes it back; delete removes *)
(* the CSV and then the row.                                                  *)

Submit(j) ==
  /\ pc # "down"
  /\ Create(j, j \in GridJob)
  /\ UNCHANGED <<dataVars, workVars, runVars, markVars, dogVars, pauseVars, req, envVars, faults>>

RerunGet(h, j) ==
  /\ pc # "down" /\ req[h] = None /\ reruns < MaxReruns
  /\ row[j] \in Finished
  /\ req' = [req EXCEPT ![h] = [op |-> "rerun", job |-> j]]
  /\ reruns' = reruns + 1
  /\ UNCHANGED <<tableVars, dataVars, workVars, runVars, markVars, dogVars, pauseVars,
                 window, restarts, windows, deletes, faults>>

RerunUpdate(h) ==
  /\ req[h] # None /\ req[h].op = "rerun"
  /\ Update(req[h].job, "pending")
  /\ req' = [req EXCEPT ![h] = None]
  /\ UNCHANGED <<dataVars, workVars, runVars, markVars, dogVars, pauseVars, envVars>>

DeleteCSV(h, j) ==
  /\ pc # "down" /\ req[h] = None /\ deletes < MaxDeletes
  /\ deletes' = deletes + 1
  /\ row[j] \in Status
  /\ csv' = [csv EXCEPT ![j] = NoFile]
  /\ req' = [req EXCEPT ![h] = [op |-> "delete", job |-> j]]
  /\ UNCHANGED <<tableVars, leads, ingested, workVars, runVars, markVars, dogVars,
                 pauseVars, window, restarts, windows, reruns, faults>>

DeleteRow(h) ==
  /\ req[h] # None /\ req[h].op = "delete"
  /\ \/ row' = [row EXCEPT ![req[h].job] = "deleted"] /\ UNCHANGED faults
     \/ Fault /\ UNCHANGED row
  /\ req' = [req EXCEPT ![h] = None]
  /\ UNCHANGED <<created, final, dataVars, workVars, runVars, markVars, dogVars,
                 pauseVars, envVars>>
-----------------------------------------------------------------------------
(* The environment: the watchdog's ticker, which fires while the worker waits *)
(* (no whole period passes between two of its statements), the pause window,  *)
(* and the process going down - a crash, a redeploy, a table that cannot be   *)
(* read between jobs, or the runner's own exit when browsers hang.            *)

Tick ==
  /\ pc \in {"running", "idle"} /\ ~due /\ dpc = "idle"
  /\ cur # None \/ watching # None
  /\ due' = TRUE
  /\ age' = IF watching # None /\ age < StallAfter THEN age + 1 ELSE age
  /\ UNCHANGED <<tableVars, dataVars, workVars, runVars, markVars, dpc, dId, dLive,
                 watching, wLive, lastRows, pauseVars, req, envVars, faults>>

OpenWindow ==
  /\ ~window /\ windows < MaxWindows
  /\ window' = TRUE /\ windows' = windows + 1
  /\ UNCHANGED <<tableVars, dataVars, workVars, runVars, markVars, dogVars, pauseVars,
                 req, restarts, reruns, deletes, faults>>

CloseWindow ==
  /\ window /\ window' = FALSE
  /\ UNCHANGED <<tableVars, dataVars, workVars, runVars, markVars, dogVars, pauseVars,
                 req, restarts, windows, reruns, deletes, faults>>

\* Everything in memory is lost.  The history cutShort keeps a run that was
\* cut only if its outcome had been saved as final.
ProcessDies ==
  /\ pc' = "down" /\ wjob' = None /\ wstat' = "ok" /\ hung' = FALSE /\ bq' = {}
  /\ cur' = None /\ cut' = {}
  /\ paused' = {} /\ stalled' = {} /\ attempts' = [j \in Job |-> 0]
  /\ due' = FALSE /\ dpc' = "idle" /\ dId' = None /\ dLive' = FALSE
  /\ watching' = None /\ wLive' = FALSE /\ lastRows' = 0 /\ age' = 0
  /\ ppc' = "idle" /\ pLive' = FALSE
  /\ req' = [h \in Handler |-> None]
  /\ UNCHANGED <<tableVars, dataVars, cutShort, requeued, window, windows, reruns, deletes, faults>>

Restart ==
  /\ pc # "down" /\ restarts < MaxRestarts
  /\ restarts' = restarts + 1
  /\ ProcessDies

ExitBrowsersHung ==
  /\ pc = "done" /\ hung /\ restarts < MaxRestarts
  /\ restarts' = restarts + 1
  /\ ProcessDies
-----------------------------------------------------------------------------
Watchdog == WatchRead \/ WatchCompare \/ WatchMark \/ WatchCancel
PauseWatch == PauseMark \/ PauseCancel
Handlers == \E h \in Handler :
              \/ RerunUpdate(h) \/ DeleteRow(h)
              \/ \E j \in Job : RerunGet(h, j) \/ DeleteCSV(h, j)
Listing == \E p \in Place : WriteRow(p)
RunOver == \E s \in Finished, hangs \in BOOLEAN : RunEnds(s, hangs)
Users == \E j \in Job : Submit(j)

Next == \/ Worker \/ ExitBrowsersHung \/ Listing \/ RunOver
        \/ Watchdog \/ PauseWatch \/ Handlers \/ Users
        \/ Tick \/ OpenWindow \/ CloseWindow \/ Restart

Spec == Init /\ [][Next]_vars

(* The goroutines keep running.  A run is only assumed to end once it has     *)
(* been cancelled: a browser may hang for ever, which is what the watchdog    *)
(* is for.                                                                    *)
LiveSpec == /\ Spec
            /\ WF_vars(Worker \/ ExitBrowsersHung)
            /\ WF_vars(cut # {} /\ RunOver)
            /\ WF_vars(PauseWatch)

(* So does the watchdog, time passes, and a handler that has read the job     *)
(* writes it back.                                                            *)
WatchdogKeepsTime ==
  /\ WF_vars(Watchdog) /\ WF_vars(Tick)
  /\ \A h \in Handler : WF_vars(RerunUpdate(h) \/ DeleteRow(h))
-----------------------------------------------------------------------------
TableType == /\ row \in [Job -> Status \cup {"none", "deleted"}]
             /\ created \in Seq(Job) /\ final \subseteq Job
DataType == /\ csv \in [Job -> {NoFile} \cup SUBSET Place]
            /\ leads \in [Job -> SUBSET Place] /\ ingested \subseteq Job
WorkType == /\ pc \in {"down", "requeue", "requeueSave", "backfill", "idle", "selected", "create",
                      "setup", "running", "save", "clear", "ingest", "afterPause", "afterStall",
                      "afterEmpty", "afterSave", "done"}
            /\ pc \notin {"down", "requeue", "backfill", "idle"} => wjob \in Job
            /\ wjob \in Job \cup {None} /\ wstat \in Status /\ hung \in BOOLEAN /\ bq \subseteq Job
RunType == /\ cur \in Job \cup {None} /\ cut \subseteq {"watchdog", "pause"}
           /\ cutShort \subseteq Job /\ requeued \in [Job -> 0..MaxStallRetries + 1]
MarkType == /\ paused \subseteq Job /\ stalled \subseteq Job
            /\ attempts \in [Job -> 0..MaxStallRetries + 1]
DogType == /\ due \in BOOLEAN /\ dpc \in {"idle", "compare", "mark", "cancel"}
           /\ dpc # "idle" => dId \in Job
           /\ dId \in Job \cup {None} /\ dLive \in BOOLEAN
           /\ watching \in Job \cup {None} /\ wLive \in BOOLEAN
DogTimeType == lastRows \in Nat /\ age \in 0..StallAfter
PauseType == ppc \in {"idle", "cancel"} /\ pLive \in BOOLEAN
ReqType == req \in [Handler -> Request \cup {None}]
WindowType == window \in BOOLEAN
EnvType == /\ restarts \in 0..MaxRestarts /\ windows \in 0..MaxWindows
           /\ reruns \in 0..MaxReruns /\ deletes \in 0..MaxDeletes
FaultType == faults \in 0..MaxFaults

TypeOK == /\ TableType /\ DataType /\ WorkType /\ RunType /\ MarkType
          /\ DogType /\ DogTimeType /\ PauseType /\ ReqType /\ WindowType /\ EnvType /\ FaultType

(* As long as no write has failed, a job is "working" only while the worker    *)
(* has it between Begin and the save of its outcome, or while a start is       *)
(* putting interrupted jobs back: nothing is left "working" that nobody runs   *)
(* (webrunner.go:198-201).                                                     *)
WorkingHasOwner ==
  faults = 0 => \A j \in Job : row[j] = "working" =>
    \/ pc = "down"
    \/ j \in bq /\ pc \in {"requeue", "requeueSave"}
    \/ j = wjob /\ pc \in {"create", "setup", "running", "save"}

(* A pause mark belongs to the run in hand: pauseWatch sets it and afterJob   *)
(* takes it for the same run, so no mark is left that would requeue a later   *)
(* run, or keep the pause watch from stopping one (webrunner.go:897-909).     *)
PauseMarkIsOfTheRun ==
  \A j \in paused : j = wjob /\ pc \in {"running", "save", "clear", "ingest", "afterPause"}

(* As long as the process has stayed up and no write has failed, a run the    *)
(* watchdog or the pause watch cut is not left "ok": its row says so only      *)
(* until afterJob has taken the mark (webrunner.go:656-704).                   *)
Undisturbed == restarts = 0 /\ faults = 0

StoppedRunIsRequeued ==
  Undisturbed => \A j \in cutShort : row[j] = "ok" =>
    j = wjob /\ pc \in {"clear", "ingest", "afterPause", "afterStall", "afterSave"}

(* Between jobs, every finished job's CSV is in the lead list, as long as the *)
(* process has stayed up and no write has failed (webrunner.go:176-177).      *)
LeadsCaughtUp ==
  Undisturbed /\ pc = "idle" => \A j \in Job : row[j] \in Finished => Rows(j) \subseteq leads[j]

(* The backfill adds any job whose ingest failed, too: as the comment at      *)
(* webrunner.go:228-229 has it.                                               *)
BackfillCatchesUp ==
  faults = 0 /\ pc = "idle" => \A j \in Job : row[j] \in Finished => Rows(j) \subseteq leads[j]

(* Until then emptying a CSV for a new run loses nothing: what it held is in  *)
(* the lead list already (webrunner.go:198-200, web.go:844-846).              *)
TruncationLosesNothing ==
  [][Undisturbed => \A j \in Job : csv'[j] = {} => Rows(j) \subseteq leads[j]]_vars

(* A stalled job is queued again at most maxStallRetries times                *)
(* (webrunner.go:65).                                                         *)
StallRetriesAreBounded == \A j \in Job : requeued[j] <= MaxStallRetries

(* The silence the watchdog acts on is the run's own: it began to time it     *)
(* during the run it stops, not during an earlier one (webrunner.go:590-592). *)
StallNeedsSilence ==
  [][dpc = "compare" /\ dpc' = "mark" /\ dLive => wLive]_vars

(* While the pause window is open the machine is freed: the run in progress   *)
(* is stopped, by the pause watch alone (webrunner.go:874).                   *)
PauseFreesTheMachine == window /\ cur # None ~> ~window \/ cur = None

(* If pause windows always end, the queue drains: every job finally rests in  *)
(* a finished state, hung browsers, stalls, pauses and restarts included      *)
(* (webrunner.go:590-592, 198-201).                                           *)
QueueDrains ==
  WatchdogKeepsTime /\ []<>~window => <>[](\A j \in Job : row[j] \notin {"pending", "working"})
=============================================================================
