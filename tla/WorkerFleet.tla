---------------------------- MODULE WorkerFleet ----------------------------
(***************************************************************************)
(* The worker machines of the SaaS. The admin pages add a row for a worker *)
(* and queue a job that creates its machine, waits for its address and for *)
(* its SSH port, and calls the row active; they mark a row "deleting" and  *)
(* queue a job that destroys the machine. A health check runs all the time *)
(* and calls every row active whose machine answers. Handlers, jobs and    *)
(* check write the same row, each from what it read earlier, and a machine *)
(* is only known by the resource id the row has.                           *)
(* admin/handlers_workers.go, admin/postgres, rqueue/worker_jobs.go        *)
(***************************************************************************)
EXTENDS Naturals, FiniteSets

CONSTANTS
  Workers,        \* the rows that may be added
  Deletions,      \* the clicks on delete
  None,           \* model value
  MaxWorkers,     \* of QueueMaintenance: 2 in NewClient
  MaxAttempts,    \* 3 in WorkerDeleteArgs.InsertOpts
  MaxCrashes,     \* bound: times the process goes down
  MaxFaults       \* bound: database or cloud calls that fail

ASSUME NoneIsNoWorker == None \notin Workers
ASSUME QueueBounds == MaxWorkers \in Nat \ {0} /\ MaxAttempts \in Nat \ {0}
ASSUME EnvironmentBounds == MaxCrashes \in Nat /\ MaxFaults \in Nat

VARIABLES
  status,       \* of each row
  deleted,      \* the rows with a deleted_at
  named,        \* the rows whose resource_id is the machine's, not "pending-..."
  addressed,    \* the rows with an ip_address
  machine,      \* what the cloud has for each row
  prov,         \* where each provisioning is
  dpc, drow,    \* where each deletion is, and its row
  dnamed,       \* the deletions whose ProviderResourceID is a machine's
  daddr,        \* the deletions that have read an ip_address, not yet written it back
  early,        \* history: the deletions that marked a row still "provisioning"
  tries,        \* attempts of the delete job
  hpc, todo,    \* where the health check is, the rows not "active" it has still to probe
  hrow,         \* the row whose machine has answered
  crashes, faults

rowVars  == <<status, deleted, named, addressed>>
delVars  == <<dpc, drow, dnamed, daddr, early, tries>>
checkVars == <<hpc, todo, hrow>>
vars == <<rowVars, machine, prov, delVars, checkVars, crashes, faults>>

Provisioning == {"create", "ip", "persist", "ssh", "finish", "cleanup"}
Deleting == {"cloud", "soft"}

RowType == /\ status \in [Workers -> {"none", "provisioning", "active", "failed", "deleting", "deleted"}]
           /\ deleted \subseteq Workers /\ named \subseteq Workers /\ addressed \subseteq Workers
CloudType == machine \in [Workers -> {"none", "starting", "up", "gone"}]
ProvType == prov \in [Workers -> {"none", "inserting", "queued", "done", "failed", "lost"} \cup Provisioning]
DelType == /\ dpc \in [Deletions -> {"idle", "read", "refused", "marked", "queued", "stuck", "done", "discarded"}
                                    \cup Deleting]
           /\ drow \in [Deletions -> Workers \cup {None}]
           /\ \A d \in Deletions : dpc[d] # "idle" => drow[d] \in Workers
           /\ dnamed \subseteq Deletions /\ daddr \subseteq Deletions /\ early \subseteq Deletions
TriesType == tries \in [Deletions -> 0..MaxAttempts]
CheckType == /\ hpc \in {"idle", "next", "write"}
             /\ todo \subseteq Workers /\ hrow \in Workers \cup {None}
             /\ hpc = "write" => hrow \in Workers
EnvType == crashes \in 0..MaxCrashes /\ faults \in 0..MaxFaults
TypeOK == RowType /\ CloudType /\ ProvType /\ DelType /\ TriesType /\ CheckType /\ EnvType

Init ==
  /\ status = [w \in Workers |-> "none"] /\ deleted = {} /\ named = {} /\ addressed = {}
  /\ machine = [w \in Workers |-> "none"]
  /\ prov = [w \in Workers |-> "none"]
  /\ dpc = [d \in Deletions |-> "idle"] /\ drow = [d \in Deletions |-> None]
  /\ dnamed = {} /\ daddr = {} /\ early = {} /\ tries = [d \in Deletions |-> 0]
  /\ hpc = "idle" /\ todo = {} /\ hrow = None
  /\ crashes = 0 /\ faults = 0

Fault == faults < MaxFaults /\ faults' = faults + 1

\* A job starts while fewer than MaxWorkers of them are running.
FreeWorker ==
  Cardinality({w \in Workers : prov[w] \in Provisioning})
    + Cardinality({d \in Deletions : dpc[d] \in Deleting})
    + (IF hpc = "idle" THEN 0 ELSE 1) < MaxWorkers

SetIn(S, x, yes) == IF yes THEN S \cup {x} ELSE S \ {x}

-----------------------------------------------------------------------------
(* ProvisionWorkerHandler and WorkerProvisionWorker.Work.                  *)

ProvisionStep(w, from, to) == prov[w] = from /\ prov' = [prov EXCEPT ![w] = to]

CreateResource(w) ==
  /\ status[w] = "none"
  /\ status' = [status EXCEPT ![w] = "provisioning"]
  /\ ProvisionStep(w, "none", "inserting")
  /\ UNCHANGED <<deleted, named, addressed, machine, delVars, checkVars, crashes, faults>>

InsertProvisionJob(w) ==
  /\ \/ ProvisionStep(w, "inserting", "queued") /\ UNCHANGED faults
     \/ ProvisionStep(w, "inserting", "lost") /\ Fault
  /\ UNCHANGED <<rowVars, machine, delVars, checkVars, crashes>>

StartProvision(w) ==
  /\ FreeWorker
  /\ ProvisionStep(w, "queued", "create")
  /\ UNCHANGED <<rowVars, machine, delVars, checkVars, crashes, faults>>

\* updateResourceFailed: whatever the row is by now, and its error is ignored.
MarkFailed(w) == /\ \/ status' = [status EXCEPT ![w] = "failed"] /\ UNCHANGED faults
                    \/ UNCHANGED status /\ Fault
                 /\ UNCHANGED <<deleted, named, addressed>>

\* A missing secret, or an error of the cloud, which may have made the machine
\* all the same.
CreateFails(w) ==
  /\ ProvisionStep(w, "create", "failed")
  /\ \/ MarkFailed(w) /\ UNCHANGED machine
     \/ /\ Fault /\ machine' = [machine EXCEPT ![w] = "starting"]
        /\ status' = [status EXCEPT ![w] = "failed"] /\ UNCHANGED <<deleted, named, addressed>>
  /\ UNCHANGED <<delVars, checkVars, crashes>>

\* The cloud gives the address at once, or it is polled for.
CreateWorker(w) ==
  /\ \E to \in {"ip", "persist"} : ProvisionStep(w, "create", to)
  /\ machine' = [machine EXCEPT ![w] = "starting"]
  /\ UNCHANGED <<rowVars, delVars, checkVars, crashes, faults>>

IPAssigned(w) ==
  /\ ProvisionStep(w, "ip", "persist")
  /\ UNCHANGED <<rowVars, machine, delVars, checkVars, crashes, faults>>

\* Faulty variant: a timeout that only returns the error.
IPTimeoutSilent(w) ==
  /\ ProvisionStep(w, "ip", "failed")
  /\ UNCHANGED <<rowVars, machine, delVars, checkVars, crashes, faults>>

IPTimeout(w) ==
  /\ ProvisionStep(w, "ip", "failed")
  /\ MarkFailed(w)
  /\ UNCHANGED <<machine, delVars, checkVars, crashes>>

\* The early UPDATE of resource_id and ip_address; its error is ignored.
Persist(w) ==
  /\ ProvisionStep(w, "persist", "ssh")
  /\ \/ /\ named' = IF w \in deleted THEN named ELSE named \cup {w}
        /\ addressed' = IF w \in deleted THEN addressed ELSE addressed \cup {w}
        /\ UNCHANGED faults
     \/ UNCHANGED <<named, addressed>> /\ Fault
  /\ UNCHANGED <<status, deleted, machine, delVars, checkVars, crashes>>

\* Port 2222 answers from early in the boot on.
SSHReady(w) ==
  /\ machine[w] \in {"starting", "up"}
  /\ ProvisionStep(w, "ssh", "finish")
  /\ UNCHANGED <<rowVars, machine, delVars, checkVars, crashes, faults>>

\* Faulty variant: a wait for SSH without the job's deadline.
SSHTimeoutNever(w) == FALSE /\ SSHReady(w)

SSHTimeout(w) ==
  /\ ProvisionStep(w, "ssh", "failed")
  /\ MarkFailed(w)
  /\ UNCHANGED <<machine, delVars, checkVars, crashes>>

\* Faulty variant: the last UPDATE does not ask for the status.
FinishUnguarded(w) ==
  /\ prov[w] = "finish"
  /\ IF w \notin deleted
     THEN /\ status' = [status EXCEPT ![w] = "active"]
          /\ named' = named \cup {w} /\ addressed' = addressed \cup {w}
          /\ prov' = [prov EXCEPT ![w] = "done"]
     ELSE prov' = [prov EXCEPT ![w] = "cleanup"] /\ UNCHANGED <<status, named, addressed>>
  /\ UNCHANGED <<deleted, machine, delVars, checkVars, crashes, faults>>

\* The last UPDATE, WHERE status = 'provisioning' AND deleted_at IS NULL. When it
\* touches no row, the machine is destroyed.
Finish(w) ==
  /\ prov[w] = "finish"
  /\ \/ /\ status[w] = "provisioning" /\ w \notin deleted
        /\ status' = [status EXCEPT ![w] = "active"]
        /\ named' = named \cup {w} /\ addressed' = addressed \cup {w}
        /\ prov' = [prov EXCEPT ![w] = "done"]
        /\ UNCHANGED faults
     \/ /\ status[w] # "provisioning" \/ w \in deleted
        /\ prov' = [prov EXCEPT ![w] = "cleanup"]
        /\ UNCHANGED <<status, named, addressed, faults>>
     \/ /\ Fault
        /\ prov' = [prov EXCEPT ![w] = "failed"]
        /\ UNCHANGED <<status, named, addressed>>
  /\ UNCHANGED <<deleted, machine, delVars, checkVars, crashes>>

\* DeleteWorker, whose error is ignored.
CleanUp(w) ==
  /\ ProvisionStep(w, "cleanup", "done")
  /\ \/ machine' = [machine EXCEPT ![w] = "gone"] /\ UNCHANGED faults
     \/ UNCHANGED machine /\ Fault
  /\ UNCHANGED <<rowVars, delVars, checkVars, crashes>>

-----------------------------------------------------------------------------
(* DeleteWorkerHandler and WorkerDeleteWorker.Work.                        *)

DeletionStep(d, from, to) == dpc[d] = from /\ dpc' = [dpc EXCEPT ![d] = to]

GetResource(d, w) ==
  /\ status[w] # "none"
  /\ DeletionStep(d, "idle", "read")
  /\ drow' = [drow EXCEPT ![d] = w]
  /\ dnamed' = SetIn(dnamed, d, w \in named)
  /\ daddr' = SetIn(daddr, d, w \in addressed)
  /\ UNCHANGED <<rowVars, machine, prov, early, tries, checkVars, crashes, faults>>

\* The address is written back as it was read.
MarkDeleting(d) ==
  LET w == drow[d] IN
  /\ \/ /\ w \notin deleted
        /\ DeletionStep(d, "read", "marked")
        /\ status' = [status EXCEPT ![w] = "deleting"]
        /\ addressed' = SetIn(addressed, w, d \in daddr)
        /\ early' = SetIn(early, d, status[w] = "provisioning")
        /\ UNCHANGED faults
     \/ /\ DeletionStep(d, "read", "refused")
        /\ UNCHANGED <<status, addressed, early>>
        /\ \/ w \in deleted /\ UNCHANGED faults
           \/ Fault
  /\ daddr' = daddr \ {d}
  /\ UNCHANGED <<deleted, named, machine, prov, drow, dnamed, tries, checkVars, crashes>>

InsertDeleteJob(d) ==
  /\ \/ DeletionStep(d, "marked", "queued") /\ UNCHANGED faults
     \/ DeletionStep(d, "marked", "refused") /\ Fault
  /\ UNCHANGED <<rowVars, machine, prov, drow, dnamed, daddr, early, tries, checkVars, crashes>>

StartDeletion(d) ==
  /\ FreeWorker
  /\ DeletionStep(d, "queued", "cloud")
  /\ tries' = [tries EXCEPT ![d] = @ + 1]
  /\ UNCHANGED <<rowVars, machine, prov, drow, dnamed, daddr, early, checkVars, crashes, faults>>

\* What River does with a job whose Work failed.
Retry(d) == dpc' = [dpc EXCEPT ![d] = IF tries[d] < MaxAttempts THEN "queued" ELSE "discarded"]

\* Faulty variant: the row is deleted whatever became of the machine.
DestroyCarelessly(d) ==
  /\ DeletionStep(d, "cloud", "soft")
  /\ \/ d \notin dnamed /\ UNCHANGED <<machine, faults>>
     \/ d \in dnamed /\ machine' = [machine EXCEPT ![drow[d]] = "gone"] /\ UNCHANGED faults
     \/ d \in dnamed /\ UNCHANGED machine /\ Fault
  /\ UNCHANGED <<rowVars, prov, drow, dnamed, daddr, early, tries, checkVars, crashes>>

\* The cloud's DeleteWorker, or any call before it, may fail. A machine that is
\* gone already counts as destroyed.
Destroy(d) ==
  /\ \/ /\ DeletionStep(d, "cloud", "soft")
        /\ machine' = IF d \in dnamed THEN [machine EXCEPT ![drow[d]] = "gone"] ELSE machine
        /\ UNCHANGED faults
     \/ /\ dpc[d] = "cloud" /\ d \in dnamed /\ Retry(d)
        /\ UNCHANGED machine /\ Fault
  /\ UNCHANGED <<rowVars, prov, drow, dnamed, daddr, early, tries, checkVars, crashes>>

SoftDelete(d) ==
  LET w == drow[d] IN
  /\ \/ /\ DeletionStep(d, "soft", "done")
        /\ deleted' = deleted \cup {w}
        /\ status' = IF w \in deleted THEN status ELSE [status EXCEPT ![w] = "deleted"]
        /\ UNCHANGED faults
     \/ /\ dpc[d] = "soft" /\ Retry(d)
        /\ UNCHANGED <<deleted, status>> /\ Fault
  /\ UNCHANGED <<named, addressed, machine, prov, drow, dnamed, daddr, early, tries, checkVars, crashes>>

\* River's rescue of a job whose process went down.
Rescue(d) ==
  /\ dpc[d] = "stuck" /\ Retry(d)
  /\ UNCHANGED <<rowVars, machine, prov, drow, dnamed, daddr, early, tries, checkVars, crashes, faults>>

-----------------------------------------------------------------------------
(* WorkerHealthCheckWorker.Work.                                           *)

Eligible == {w \in addressed \ deleted : status[w] \notin {"none", "failed", "deleted", "deleting"}}

\* Of the rows that are active already only the metadata changes.
StartCheck ==
  /\ hpc = "idle" /\ FreeWorker
  /\ hpc' = "next"
  /\ todo' = {w \in Eligible : status[w] # "active"}
  /\ UNCHANGED <<rowVars, machine, prov, delVars, hrow, crashes, faults>>

Probe(w) ==
  /\ hpc = "next" /\ w \in todo
  /\ todo' = todo \ {w}
  /\ \/ machine[w] = "up" /\ hpc' = "write" /\ hrow' = w
     \/ UNCHANGED <<hpc, hrow>>
  /\ UNCHANGED <<rowVars, machine, prov, delVars, crashes, faults>>

\* The UPDATE names the row by its id and asks for nothing else; its error is logged.
Report ==
  /\ hpc = "write" /\ hpc' = "next" /\ hrow' = None
  /\ \/ status' = [status EXCEPT ![hrow] = "active"] /\ UNCHANGED faults
     \/ UNCHANGED status /\ Fault
  /\ UNCHANGED <<deleted, named, addressed, machine, prov, delVars, todo, crashes>>

EndCheck ==
  /\ hpc = "next" /\ todo = {}
  /\ hpc' = "idle"
  /\ UNCHANGED <<rowVars, machine, prov, delVars, todo, hrow, crashes, faults>>

-----------------------------------------------------------------------------
Boots(w) ==
  /\ machine[w] = "starting"
  /\ machine' = [machine EXCEPT ![w] = "up"]
  /\ UNCHANGED <<rowVars, prov, delVars, checkVars, crashes, faults>>

\* The process goes down with its handlers and its jobs. A provisioning is not
\* tried again; a deletion waits for its rescue.
Crash ==
  /\ crashes < MaxCrashes /\ crashes' = crashes + 1
  /\ prov' = [w \in Workers |-> IF prov[w] \in {"inserting"} \cup Provisioning THEN "lost" ELSE prov[w]]
  /\ dpc' = [d \in Deletions |-> IF dpc[d] \in {"read", "marked"} THEN "refused"
                                 ELSE IF dpc[d] \in Deleting THEN "stuck" ELSE dpc[d]]
  /\ hpc' = "idle" /\ todo' = {} /\ hrow' = None
  /\ UNCHANGED <<rowVars, machine, drow, dnamed, daddr, early, tries, faults>>

\* The steps of a provisioning that need nothing from the machine; those that wait
\* for it have a deadline.
ProvisionWork(w) ==
  \/ InsertProvisionJob(w) \/ CreateFails(w) \/ CreateWorker(w)
  \/ IPTimeout(w) \/ Persist(w) \/ SSHTimeout(w) \/ Finish(w) \/ CleanUp(w)
Provision(w) == CreateResource(w) \/ StartProvision(w) \/ IPAssigned(w) \/ SSHReady(w) \/ ProvisionWork(w)

DeleteWork(d) == MarkDeleting(d) \/ InsertDeleteJob(d) \/ Destroy(d) \/ SoftDelete(d) \/ Rescue(d)
Delete(d) == (\E w \in Workers : GetResource(d, w)) \/ StartDeletion(d) \/ DeleteWork(d)

CheckWork == (\E w \in Workers : Probe(w)) \/ Report \/ EndCheck
HealthCheck == StartCheck \/ CheckWork

Next == \/ \E w \in Workers : Provision(w) \/ Boots(w)
        \/ \E d \in Deletions : Delete(d)
        \/ HealthCheck \/ Crash

Spec == Init /\ [][Next]_vars

(* What is running goes on. River takes the jobs of a queue in the order they *)
(* came, so one that waits is started although health checks keep coming:     *)
(* strong fairness. Nothing is assumed of the machines.                       *)
Fairness ==
  /\ \A w \in Workers : WF_vars(ProvisionWork(w)) /\ SF_vars(StartProvision(w))
  /\ \A d \in Deletions : WF_vars(DeleteWork(d)) /\ SF_vars(StartDeletion(d))
  /\ WF_vars(CheckWork)
FairSpec == Spec /\ Fairness

-----------------------------------------------------------------------------
(* Properties.                                                             *)

\* A delete job that knew its machine and completed has destroyed it, whatever
\* failed, was tried again or was cut off on the way (worker_jobs.go:393-403).
DeletionDestroys ==
  \A d \in dnamed : dpc[d] = "done" => machine[drow[d]] = "gone"

\* The guard against deleting while provisioning (worker_jobs.go:251, 264): a row
\* marked before its provisioning was over leaves no machine, although the delete
\* job may not know of it, once the provisioning has come to its end.
RaceIsGuarded ==
  faults = 0 => \A d \in early : prov[drow[d]] = "done" => machine[drow[d]] = "gone"

\* A row is called active only if it names its machine, by the last update or by a
\* health check on its way in between: whatever the pages show as active can be
\* deleted (worker_jobs.go:209-216).
ActiveIsNamed ==
  \A w \in Workers : status[w] = "active" => w \in named /\ machine[w] # "none"

\* No row stays "provisioning" after its job: every way out says what became of it.
ProvisioningSettles ==
  faults = 0 => \A w \in Workers : prov[w] \in {"done", "failed"} => status[w] # "provisioning"

\* A delete job that is queued is completed, or given up after MaxAttempts: the two
\* workers of the queue are never held for good by machines that do not answer.
DeletionsSettle ==
  \A d \in Deletions : dpc[d] = "queued" ~> dpc[d] \in {"done", "discarded"}

\* Nothing runs in circles: a machine is made once, and one that is gone does not come
\* back, whoever asked for it; a provisioning only goes on; and every step of a
\* deletion, its retries and rescues included, uses up some of an effort that its
\* attempts bound (worker_jobs.go:347-350).
MachineStage == [none |-> 0, starting |-> 1, up |-> 2, gone |-> 3]
ProvisionStage ==
  [none |-> 0, inserting |-> 1, queued |-> 2, create |-> 3, ip |-> 4, persist |-> 5, ssh |-> 6,
   finish |-> 7, cleanup |-> 8, done |-> 9, failed |-> 9, lost |-> 9]
DeletionStage ==
  [idle |-> 0, read |-> 1, marked |-> 2, queued |-> 3, refused |-> 3,
   cloud |-> 0, soft |-> 1, stuck |-> 2, done |-> 3, discarded |-> 3]
DeletionEffort(d) == 4 * tries[d] + DeletionStage[dpc[d]]
EffortIsBounded == \A d \in Deletions : DeletionEffort(d) <= 4 * MaxAttempts + 3
Advances ==
  /\ \A w \in Workers :
       /\ MachineStage[machine'[w]] >= MachineStage[machine[w]]
       /\ prov'[w] # prov[w] => ProvisionStage[prov'[w]] > ProvisionStage[prov[w]]
  /\ \A d \in Deletions :
       /\ dpc'[d] # dpc[d] => DeletionEffort(d)' > DeletionEffort(d)
       /\ dpc[d] # "idle" => drow'[d] = drow[d]
FleetAdvances == [][Advances]_vars

\* The machine is destroyed at the end of a provisioning because the row was
\* deleted meanwhile (worker_jobs.go:264, "Resource was deleted while we were
\* provisioning").
CleanUpMeansDeleted ==
  \A w \in Workers : prov[w] = "cleanup" =>
    \E d \in Deletions : drow[d] = w /\ dpc[d] # "read"

\* A worker whose SSH wait times out is left to the health check
\* (worker_jobs.go:209-210, "so the health check can heal this worker if the SSH
\* wait below times out").
TimeoutIsHealable ==
  [][\A w \in Workers : prov[w] = "ssh" /\ prov'[w] = "failed" /\ w \in named => w \in Eligible']_vars
=============================================================================
