---------------------------- MODULE JobProvider ----------------------------
(***************************************************************************)
(* The scrape jobs of the database mode: a table that a producer and the   *)
(* jobs themselves fill, and that several processes empty in batches       *)
(* (postgres/provider.go).  Which of the new jobs a batch gets is left     *)
(* open: rows that another process has locked are skipped.                 *)
(***************************************************************************)
EXTENDS Integers, FiniteSets, FiniteSetsExt

CONSTANTS
  Job,
  Parent,        \* the job that pushes it, or itself for a seed
  Proc, Caller,  \* processes; the callers of Jobs in each
  BatchSize,     \* of the provider
  MaxRestarts    \* bound: restarts of processes

ASSUME JobProviderAssumption ==
  /\ Parent \in [Job -> Job] /\ {"free", "gone"} \cap Job = {}
  /\ BatchSize \in Nat \ {0} /\ MaxRestarts \in Nat

VARIABLES
  table,         \* gmaps_jobs: "absent", "new" or "queued"
  fetch,         \* fetchJobs of each process: "running", "ended"
  batch, jobc,   \* jobs, and the channel
  relay,         \* the goroutine of each call of Jobs: "free", "gone" or the job it offers
  ctx,           \* of each process: "running", "done"
  restarts,
  handed,        \* history: how often a job was handed over
  claimed        \* history, of this start: jobs taken from the table

jobVars == <<table, fetch, batch, jobc, relay, ctx, restarts, handed, claimed>>
life == <<ctx, restarts>>

JobInit ==
  /\ table = [j \in Job |-> "absent"] /\ handed = [j \in Job |-> 0]
  /\ fetch = [p \in Proc |-> "running"]
  /\ ctx = [p \in Proc |-> "running"] /\ restarts = 0
  /\ batch = [p \in Proc |-> {}] /\ jobc = [p \in Proc |-> {}]
  /\ claimed = [p \in Proc |-> {}]
  /\ relay = [c \in Proc \X Caller |-> "free"]

New == {j \in Job : table[j] = "new"}
Lesser(a, b) == IF a <= b THEN a ELSE b
-----------------------------------------------------------------------------
(* The table. *)

\* A seed from the producer, or what a job found.  The same id is kept as it is.
Push(j) ==
  /\ Parent[j] = j \/ handed[Parent[j]] > 0
  /\ table[j] = "absent" /\ table' = [table EXCEPT ![j] = "new"]
  /\ UNCHANGED <<fetch, batch, jobc, relay, life, handed, claimed>>

Batches == kSubset(Lesser(BatchSize, Cardinality(New)), New)
Mark(S) == table' = [j \in Job |-> IF j \in S THEN "queued" ELSE table[j]]

\* Faulty variant: the rows are read, and marked only as they are handed over.
ClaimUnmarked(p) ==
  /\ fetch[p] = "running" /\ batch[p] = {} /\ New # {}
  /\ \E S \in Batches : /\ batch' = [batch EXCEPT ![p] = S]
                        /\ claimed' = [claimed EXCEPT ![p] = @ \cup S]
                        /\ table' = [j \in Job |-> IF handed[j] > 0 THEN "queued" ELSE table[j]]
  /\ UNCHANGED <<fetch, jobc, relay, life, handed>>
\* One statement marks the rows and returns them.
Claim(p) ==
  /\ fetch[p] = "running" /\ batch[p] = {} /\ New # {}
  /\ \E S \in Batches : /\ Mark(S) /\ batch' = [batch EXCEPT ![p] = S]
                        /\ claimed' = [claimed EXCEPT ![p] = @ \cup S]
  /\ UNCHANGED <<fetch, jobc, relay, life, handed>>

\* fetchJobs returns: what is in its hands is dropped, and both channels are closed.
FetchEnds(p) ==
  /\ fetch' = [fetch EXCEPT ![p] = "ended"] /\ batch' = [batch EXCEPT ![p] = {}]

\* The statement fails before or after it has marked the rows, or a row cannot be decoded.
ClaimFails(p) ==
  /\ fetch[p] = "running" /\ batch[p] = {}
  /\ \E S \in Batches \cup {{}} : Mark(S)
  /\ FetchEnds(p)
  /\ UNCHANGED <<jobc, relay, life, handed, claimed>>

PassOn(p) ==
  \E j \in batch[p] :
    /\ Cardinality(jobc[p]) < 2 * BatchSize
    /\ batch' = [batch EXCEPT ![p] = @ \ {j}] /\ jobc' = [jobc EXCEPT ![p] = @ \cup {j}]
    /\ UNCHANGED <<table, fetch, relay, life, handed, claimed>>

FetchStops(p) ==
  /\ fetch[p] = "running" /\ ctx[p] = "done" /\ FetchEnds(p)
  /\ UNCHANGED <<table, jobc, relay, life, handed, claimed>>
-----------------------------------------------------------------------------
(* Jobs: one goroutine for each call. *)

Take(p, c) ==
  /\ relay[<<p, c>>] = "free"
  /\ \E j \in jobc[p] : relay' = [relay EXCEPT ![<<p, c>>] = j] /\ jobc' = [jobc EXCEPT ![p] = @ \ {j}]
  /\ UNCHANGED <<table, fetch, batch, life, handed, claimed>>

\* Faulty variant: a call of Jobs hands one job over.
OfferOne(p, c) ==
  /\ relay[<<p, c>>] \in Job
  /\ handed' = [handed EXCEPT ![relay[<<p, c>>]] = @ + 1] /\ relay' = [relay EXCEPT ![<<p, c>>] = "gone"]
  /\ UNCHANGED <<table, fetch, batch, jobc, life, claimed>>
Offer(p, c) ==
  /\ relay[<<p, c>>] \in Job
  /\ handed' = [handed EXCEPT ![relay[<<p, c>>]] = @ + 1] /\ relay' = [relay EXCEPT ![<<p, c>>] = "free"]
  /\ UNCHANGED <<table, fetch, batch, jobc, life, claimed>>

RelayEnds(p, c) ==
  /\ relay[<<p, c>>] # "gone"
  /\ ctx[p] = "done" \/ (relay[<<p, c>>] = "free" /\ fetch[p] = "ended")
  /\ relay' = [relay EXCEPT ![<<p, c>>] = "gone"]
  /\ UNCHANGED <<table, fetch, batch, jobc, life, handed, claimed>>

\* Once fetchJobs has ended its channels tell a caller so, with an error or with none,
\* even while jobs are left in the other one.  A caller that asks for more calls Jobs
\* again: fetchJobs is not begun again.
JobsAgain(p, c) ==
  /\ relay[<<p, c>>] = "gone" /\ ctx[p] = "running"
  /\ relay' = [relay EXCEPT ![<<p, c>>] = "free"]
  /\ UNCHANGED <<table, fetch, batch, jobc, life, handed, claimed>>
-----------------------------------------------------------------------------
\* The app is stopped or has been inactive, or its writer has failed.
ContextEnds(p) ==
  /\ ctx[p] = "running" /\ ctx' = [ctx EXCEPT ![p] = "done"]
  /\ UNCHANGED <<table, fetch, batch, jobc, relay, restarts, handed, claimed>>

\* The process ends, at whatever point it is, and is started again: the table is all that is left.
Restart(p) ==
  /\ restarts < MaxRestarts /\ restarts' = restarts + 1
  /\ ctx' = [ctx EXCEPT ![p] = "running"] /\ fetch' = [fetch EXCEPT ![p] = "running"]
  /\ batch' = [batch EXCEPT ![p] = {}] /\ jobc' = [jobc EXCEPT ![p] = {}]
  /\ claimed' = [claimed EXCEPT ![p] = {}]
  /\ relay' = [c \in Proc \X Caller |-> IF c[1] = p THEN "free" ELSE relay[c]]
  /\ UNCHANGED <<table, handed>>

Fetching(p) == Claim(p) \/ PassOn(p)
Relaying(p, c) == Take(p, c) \/ Offer(p, c)

JobNext ==
  \/ \E j \in Job : Push(j)
  \/ \E p \in Proc : \/ Fetching(p) \/ ClaimFails(p) \/ FetchStops(p)
                     \/ \E c \in Caller : Relaying(p, c) \/ RelayEnds(p, c) \/ JobsAgain(p, c)
                     \/ ContextEnds(p) \/ Restart(p)

(* The loop of fetchJobs and the goroutines of Jobs go on while they can. *)
JobFair == \A p \in Proc : WF_jobVars(Fetching(p)) /\ \A c \in Caller : WF_jobVars(Relaying(p, c))
JobSpec == JobInit /\ [][JobNext]_jobVars /\ JobFair
-----------------------------------------------------------------------------
(* However many processes empty the table, fail, end and start again, a job    *)
(* is handed to one worker once (provider.go:152-165).                         *)
HandedOnce == \A j \in Job : handed[j] <= 1

(* A new job is taken while some process goes on fetching, and what a process  *)
(* has taken reaches a worker while that process goes on, whatever the others  *)
(* do.                                                                         *)
NewJobsReachWorkers == \A j \in Job :
  /\ table[j] = "new" ~> table[j] = "queued" \/ \A p \in Proc : fetch[p] = "ended"
  /\ \A p \in Proc :
       j \in claimed[p] ~> handed[j] > 0 \/ fetch[p] = "ended" \/ ctx[p] = "done" \/ j \notin claimed[p]
=============================================================================
