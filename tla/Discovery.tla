----------------------------- MODULE Discovery -----------------------------
(***************************************************************************)
(* The customer app's collection jobs (app/backend/src/                    *)
(* business-discovery.ts): one at a time in each backend; the built-in     *)
(* collector first, its sample stored, and then, for an exact place that   *)
(* failed or is short of reviews, the paid provider.  job.json is saved    *)
(* as the job starts and as it ends; a user may cancel in between, and     *)
(* the process may die.  The provider is switched on.                      *)
(***************************************************************************)
EXTENDS PaidFallback

CONSTANTS Slack   \* the 5 reviews that may be missing (2 % of a small listing is less)

ASSUME DiscoveryAssumption == Slack \in Nat /\ 0 \notin Sizes

VARIABLES
  job,    \* the latest job of each backend, in memory
  disk,   \* its job.json: a status, or "none"
  store   \* AppStore: the data sets saved for that job, [by, size]

jobVars == <<job, disk, store>>
discoveryVars == <<paidVars, jobVars>>

NoSample == [by |-> "none", size |-> 0]
NoJob == [pc |-> "idle", status |-> "none", place |-> "none", full |-> FALSE, sample |-> NoSample, failed |-> FALSE,
          reported |-> 0, data |-> NoSample, fallback |-> "none", asked |-> FALSE]

DiscoveryInit ==
  /\ PaidInit /\ job = [b \in Backend |-> NoJob] /\ disk = [b \in Backend |-> "none"]
  /\ store = [b \in Backend |-> {}]

\* One step of a job, which touches nothing of the provider's.
Step(b, change) == job' = [job EXCEPT ![b] = change] /\ UNCHANGED paidVars
Is(b, pc) == job[b].pc = pc
-----------------------------------------------------------------------------
(* start, and the built-in collector. *)

\* The directory of the new job is empty; what is known of the earlier ones goes.
Start(b) ==
  /\ Is(b, "idle")
  /\ \E place \in Place \cup {"none"}, full \in BOOLEAN :
       Step(b, [NoJob EXCEPT !.pc = "begin", !.status = "running", !.place = place, !.full = full])
  /\ disk' = [disk EXCEPT ![b] = "none"] /\ store' = [store EXCEPT ![b] = {}]

Begin(b) ==
  /\ Is(b, "begin") /\ Step(b, [job[b] EXCEPT !.pc = "runner"])
  /\ disk' = [disk EXCEPT ![b] = "running"] /\ UNCHANGED store

BeginFails(b) == Is(b, "begin") /\ Step(b, NoJob) /\ UNCHANGED <<disk, store>>

\* The job's last status; what is left is to save it.
Finally(b, status) == Step(b, [job[b] EXCEPT !.pc = "final", !.status = status]) /\ UNCHANGED <<disk, store>>

RunnerStopped(b) == Is(b, "runner") /\ job[b].asked /\ Finally(b, "cancelled")

\* An error of the set-up, another listing than the one asked for, malformed rows.
RunnerRefused(b) == Is(b, "runner") /\ ~job[b].asked /\ Finally(b, "failed")

\* Timed out, blocked, or empty; the count reported is that of a sample stored before, if any.
RunnerFails(b) ==
  /\ Is(b, "runner") /\ ~job[b].asked
  /\ \E r \in Reports : Step(b, [job[b] EXCEPT !.pc = "weigh", !.failed = TRUE, !.reported = r])
  /\ UNCHANGED <<disk, store>>

RunnerReturns(b) ==
  /\ Is(b, "runner") /\ ~job[b].asked
  /\ \E n \in Sizes \cup {0}, r \in Reports :
       Step(b, [job[b] EXCEPT !.pc = "store", !.reported = r,
                              !.sample = [by |-> "builtin", size |-> n]])
  /\ UNCHANGED <<disk, store>>

StoreSample(b) ==
  /\ Is(b, "store") /\ Step(b, [job[b] EXCEPT !.pc = "weigh", !.data = job[b].sample])
  /\ store' = [store EXCEPT ![b] = @ \cup {job[b].sample}] /\ UNCHANGED disk

StoreFails(b) == Is(b, "store") /\ Finally(b, "failed")

\* cancel: the runner's process is killed; afterwards nobody looks at the signal.
Cancel(b) ==
  /\ ~Is(b, "idle") /\ job[b].status = "running" /\ job[b].fallback # "running" /\ ~job[b].asked
  /\ Step(b, [job[b] EXCEPT !.asked = TRUE]) /\ UNCHANGED <<disk, store>>
-----------------------------------------------------------------------------
(* The paid provider. *)

\* fallbackReason; the count reported is unknown when it is 0 here.
Short(j) ==
  \/ j.failed
  \/ j.full /\ (j.sample.size = 0 \/ (j.reported > 0 /\ j.reported - j.sample.size >= Slack))
Reason(j) == j.place # "none" /\ Short(j)

NoFallback(b) ==
  /\ Is(b, "weigh") /\ ~Reason(job[b])
  /\ Step(b, [job[b] EXCEPT !.pc = "settle"]) /\ UNCHANGED <<disk, store>>

\* After fallback.status, whose transaction is StatusEnter's.
Fallback(b) ==
  /\ Is(b, "weigh") /\ Reason(job[b])
  /\ Step(b, [job[b] EXCEPT !.pc = "tell", !.fallback = "running"]) /\ UNCHANGED <<disk, store>>

TellJobFails(b) == Is(b, "tell") /\ Finally(b, "failed")

\* Without a sample the count comes from the data sets stored before; they cannot be read.
NothingKnown(b) ==
  /\ Is(b, "tell") /\ job[b].data = NoSample
  /\ Step(b, [job[b] EXCEPT !.pc = "settle", !.fallback = "failed"]) /\ UNCHANGED <<disk, store>>

Pay(b) ==
  /\ Is(b, "tell") /\ job' = [job EXCEPT ![b].pc = "paying"]
  /\ Collect(b, job[b].place, job[b].full, job[b].reported, job[b].sample.size) /\ UNCHANGED <<disk, store>>

\* collect is back: what it did to the job, and the caller idle again.
Back(b, pc, change) ==
  /\ Is(b, "paying") /\ At(b, pc) /\ Return(b)
  /\ job' = [job EXCEPT ![b] = change]
  /\ UNCHANGED <<clock, holder, copy, files, crashes, paid, disk>>

PayFails(b) == Back(b, "threw", [job[b] EXCEPT !.pc = "settle", !.fallback = "failed"]) /\ UNCHANGED store

Bought(b) == [by |-> "paid", size |-> call[b].size]

(* The larger sample, or one as large that is newer. *)
\* Faulty variant: what was paid for is shown.
BetterAlways(b) == call[b].size > 0
Better(b) == job[b].data = NoSample \/ call[b].size > job[b].data.size

AsLarge(b) == job[b].data # NoSample /\ call[b].size = job[b].data.size

Taken(b) ==
  /\ Better(b) \/ AsLarge(b)
  /\ Back(b, "returned", [job[b] EXCEPT !.pc = "settle", !.fallback = "completed", !.data = Bought(b)])
  /\ store' = [store EXCEPT ![b] = @ \cup {Bought(b)}]

\* saveIntelligenceImport fails: the job keeps what it has.
TakenFails(b) ==
  /\ Better(b) \/ AsLarge(b)
  /\ Back(b, "returned", [job[b] EXCEPT !.pc = "settle", !.fallback = "failed"]) /\ UNCHANGED store

Left(b) ==
  /\ ~Better(b)
  /\ Back(b, "returned", [job[b] EXCEPT !.pc = "settle", !.fallback = "completed"]) /\ UNCHANGED store
-----------------------------------------------------------------------------
(* The end of a job, and the end of the process. *)

Settle(b) == Is(b, "settle") /\ Finally(b, IF job[b].data = NoSample THEN "failed" ELSE "completed")

SaveJob(b) ==
  /\ Is(b, "final") /\ Step(b, [job[b] EXCEPT !.pc = "idle"])
  /\ disk' = [disk EXCEPT ![b] = job[b].status] /\ UNCHANGED store

SaveJobFails(b) == Is(b, "final") /\ Step(b, [job[b] EXCEPT !.pc = "idle"]) /\ UNCHANGED <<disk, store>>

\* Faulty variant: whoever stops the process removes the lock at once.
CrashUnlocks(b) ==
  /\ crashes < MaxCrashes /\ crashes' = crashes + 1 /\ call' = [call EXCEPT ![b] = Idling]
  /\ copy' = [a \in Actor |-> Nothing] /\ holder' = Free /\ UNCHANGED <<clock, files, paid>>
  /\ job' = [job EXCEPT ![b] = NoJob] /\ UNCHANGED <<disk, store>>
Crash(b) == Dies(b) /\ job' = [job EXCEPT ![b] = NoJob] /\ UNCHANGED <<disk, store>>

\* get, once the job is not in memory.
Get(b) ==
  /\ job[b] = NoJob /\ disk[b] = "running" /\ disk' = [disk EXCEPT ![b] = "failed"]
  /\ UNCHANGED <<paidVars, job, store>>

JobStep(b) ==
  \/ Begin(b) \/ BeginFails(b) \/ RunnerStopped(b) \/ RunnerRefused(b) \/ RunnerFails(b) \/ RunnerReturns(b)
  \/ StoreSample(b) \/ StoreFails(b) \/ NoFallback(b) \/ Fallback(b) \/ TellJobFails(b) \/ NothingKnown(b) \/ Pay(b)
  \/ PayFails(b) \/ Taken(b) \/ TakenFails(b) \/ Left(b) \/ Settle(b) \/ SaveJob(b) \/ SaveJobFails(b)

DiscoveryNext ==
  \/ Around /\ UNCHANGED jobVars
  \/ \E b \in Backend : \/ Works(b) /\ UNCHANGED jobVars
                        \/ Start(b) \/ JobStep(b) \/ Cancel(b) \/ Crash(b) \/ Get(b)

DiscoverySpec == DiscoveryInit /\ [][DiscoveryNext]_discoveryVars

(* The runner's process is killed after 20 minutes at the latest; a request of the provider ends after   *)
(* 45 seconds.  Nobody has to cancel, to look or to remove a lock.                                        *)
DiscoveryFairSpec ==
  DiscoverySpec /\ \A b \in Backend : WF_discoveryVars(JobStep(b) \/ (Works(b) /\ UNCHANGED jobVars))
-----------------------------------------------------------------------------
(* Properties. *)

(* A job that is shown as completed has a data set that is stored, and it  *)
(* is no smaller than what the built-in collector found, which is stored   *)
(* too: what was paid for never replaces more with less.                   *)
BestSampleShown ==
  \A b \in Backend : job[b].status = "completed" =>
    /\ job[b].data \in store[b] /\ job[b].data.size >= job[b].sample.size
    /\ job[b].sample # NoSample => job[b].sample \in store[b]

(* No paid request is under way for a job unless its own sample, if any,   *)
(* is stored: what is lost later cannot take with it what was free.        *)
StoredBeforePaying ==
  \A b \in Backend : call[b] # Idling /\ job[b].sample # NoSample => job[b].sample \in store[b]

(* Jobs use the provider as it is specified by itself: their crashes, too, *)
(* are its crashes, so that what it promises holds below them.             *)
PaidAsSpecified == PaidSpec

(* A job ends, whatever the collector, the provider, the disks and the     *)
(* lock do: the backend takes the next one.                                *)
JobSettles == \A b \in Backend : job[b].pc # "idle" ~> job[b].pc = "idle"

(* Once a cancellation has been accepted the paid provider is not asked.   *)
CancelStartsNoFallback ==
  [][\A b \in Backend : job[b].asked /\ job'[b].asked => call'[b] = Idling]_discoveryVars
=============================================================================
