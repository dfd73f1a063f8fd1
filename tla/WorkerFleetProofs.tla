------------------------- MODULE WorkerFleetProofs -------------------------
(***************************************************************************)
(* Proofs about WorkerFleet, for any rows, deletions, attempts, workers of  *)
(* the queue, crashes and faults. The argument follows the resource id: who *)
(* reads a row with an id knows a machine that is already made and is not   *)
(* made again, so what it destroys stays destroyed.                         *)
(***************************************************************************)
EXTENDS WorkerFleet, TLAPS

\* A delete job that may still be started has an attempt left.
Retriable ==
  \A d \in Deletions : dpc[d] \in {"idle", "read", "marked", "queued"} => tries[d] < MaxAttempts

\* What a provisioning has made is there, or was.
Made ==
  \A w \in Workers :
    prov[w] \in {"ip", "persist", "ssh", "finish", "cleanup"} => machine[w] # "none"

\* Whoever has the address has the resource id: the row, a deletion, the health check.
AddressedIsNamed ==
  /\ addressed \subseteq named
  /\ \A d \in daddr : drow[d] \in named
  /\ todo \subseteq named
  /\ hpc = "write" => hrow \in named /\ machine[hrow] # "none"

\* A row that names its machine is past the making of it, so no second one is made.
NamedIsMade ==
  /\ \A w \in named : prov[w] \notin {"none", "inserting", "queued", "create"}
  /\ \A d \in dnamed : drow[d] \in named

\* From the cloud's answer on, the machine of a deletion that knew it is gone.
Destroyed ==
  \A d \in dnamed : dpc[d] \in {"soft", "done"} => machine[drow[d]] = "gone"

\* A row that a deletion has to do with was added, and one that was marked is not
\* "provisioning" again.
Marked ==
  /\ \A d \in Deletions : dpc[d] # "idle" => status[drow[d]] # "none"
  /\ \A w \in deleted : status[w] \notin {"none", "provisioning"}
  /\ \A d \in early : dpc[d] # "idle" /\ status[drow[d]] \notin {"none", "provisioning"}
  /\ \A w \in Workers : prov[w] = "cleanup" => status[w] # "provisioning"

\* The inductive invariant.
IInv ==
  /\ TypeOK /\ Retriable
  /\ Made /\ AddressedIsNamed /\ NamedIsMade /\ ActiveIsNamed
  /\ Destroyed /\ Marked /\ ProvisioningSettles /\ RaceIsGuarded

-----------------------------------------------------------------------------
\* RowType: the types of these variables are kept.
LEMMA RowTypeKept == ASSUME TypeOK, [Next]_vars PROVE RowType'
<1>1. ASSUME NEW w \in Workers, CreateResource(w) PROVE RowType'
  BY <1>1 DEF CreateResource, delVars, checkVars, ProvisionStep, ProvType, DelType, CheckType,
     TypeOK, RowType
<1>2. ASSUME NEW w \in Workers, InsertProvisionJob(w) PROVE RowType'
  BY <1>2 DEF InsertProvisionJob, rowVars, delVars, checkVars, ProvisionStep, Fault, ProvType,
     DelType, CheckType, TypeOK, RowType
<1>3. ASSUME NEW w \in Workers, StartProvision(w) PROVE RowType'
  BY <1>3 DEF StartProvision, rowVars, delVars, checkVars, ProvisionStep, ProvType, DelType,
     CheckType, TypeOK, RowType
<1>4. ASSUME NEW w \in Workers, CreateFails(w) PROVE RowType'
  BY <1>4 DEF CreateFails, delVars, checkVars, ProvisionStep, MarkFailed, Fault, ProvType,
     DelType, CheckType, TypeOK, RowType
<1>5. ASSUME NEW w \in Workers, CreateWorker(w) PROVE RowType'
  BY <1>5 DEF CreateWorker, rowVars, delVars, checkVars, ProvisionStep, ProvType, DelType,
     CheckType, TypeOK, RowType
<1>6. ASSUME NEW w \in Workers, IPAssigned(w) PROVE RowType'
  BY <1>6 DEF IPAssigned, rowVars, delVars, checkVars, ProvisionStep, ProvType, DelType,
     CheckType, TypeOK, RowType
<1>7. ASSUME NEW w \in Workers, IPTimeout(w) PROVE RowType'
  BY <1>7 DEF IPTimeout, delVars, checkVars, ProvisionStep, MarkFailed, Fault, ProvType,
     DelType, CheckType, TypeOK, RowType
<1>8. ASSUME NEW w \in Workers, Persist(w) PROVE RowType'
  BY <1>8 DEF Persist, delVars, checkVars, ProvisionStep, Fault, ProvType, DelType, CheckType,
     TypeOK, RowType
<1>9. ASSUME NEW w \in Workers, SSHReady(w) PROVE RowType'
  BY <1>9 DEF SSHReady, rowVars, delVars, checkVars, ProvisionStep, ProvType, DelType,
     CheckType, TypeOK, RowType
<1>10. ASSUME NEW w \in Workers, SSHTimeout(w) PROVE RowType'
  BY <1>10 DEF SSHTimeout, delVars, checkVars, ProvisionStep, MarkFailed, Fault, ProvType,
     DelType, CheckType, TypeOK, RowType
<1>11. ASSUME NEW w \in Workers, Finish(w) PROVE RowType'
  BY <1>11 DEF Finish, delVars, checkVars, Fault, ProvType, DelType, CheckType, TypeOK,
     RowType
<1>12. ASSUME NEW w \in Workers, CleanUp(w) PROVE RowType'
  BY <1>12 DEF CleanUp, rowVars, delVars, checkVars, ProvisionStep, Fault, ProvType, DelType,
     CheckType, TypeOK, RowType
<1>13. ASSUME NEW w \in Workers, Boots(w) PROVE RowType'
  BY <1>13 DEF Boots, rowVars, delVars, checkVars, ProvType, DelType, CheckType, TypeOK,
     RowType
<1>14. ASSUME NEW d \in Deletions, NEW w \in Workers, GetResource(d, w) PROVE RowType'
  BY <1>14 DEF GetResource, rowVars, checkVars, DeletionStep, SetIn, ProvType, DelType,
     CheckType, TypeOK, RowType
<1>15. ASSUME NEW d \in Deletions, MarkDeleting(d) PROVE RowType'
  BY <1>15 DEF MarkDeleting, checkVars, DeletionStep, SetIn, Fault, ProvType, DelType,
     CheckType, TypeOK, RowType
<1>16. ASSUME NEW d \in Deletions, InsertDeleteJob(d) PROVE RowType'
  BY <1>16 DEF InsertDeleteJob, rowVars, checkVars, DeletionStep, Fault, ProvType, DelType,
     CheckType, TypeOK, RowType
<1>17. ASSUME NEW d \in Deletions, StartDeletion(d) PROVE RowType'
  BY <1>17 DEF StartDeletion, rowVars, checkVars, DeletionStep, ProvType, DelType, CheckType,
     TypeOK, RowType
<1>18. ASSUME NEW d \in Deletions, Destroy(d) PROVE RowType'
  BY <1>18 DEF Destroy, rowVars, checkVars, DeletionStep, Retry, Fault, ProvType, DelType,
     CheckType, TypeOK, RowType
<1>19. ASSUME NEW d \in Deletions, SoftDelete(d) PROVE RowType'
  BY <1>19 DEF SoftDelete, checkVars, DeletionStep, Retry, Fault, ProvType, DelType,
     CheckType, TypeOK, RowType
<1>20. ASSUME NEW d \in Deletions, Rescue(d) PROVE RowType'
  BY <1>20 DEF Rescue, rowVars, checkVars, Retry, ProvType, DelType, CheckType, TypeOK,
     RowType
<1>21. CASE StartCheck
  BY <1>21 DEF StartCheck, rowVars, delVars, Eligible, ProvType, DelType, CheckType, TypeOK,
     RowType
<1>22. ASSUME NEW w \in Workers, Probe(w) PROVE RowType'
  BY <1>22 DEF Probe, rowVars, delVars, ProvType, DelType, CheckType, TypeOK, RowType
<1>23. CASE Report
  BY <1>23 DEF Report, delVars, Fault, ProvType, DelType, CheckType, TypeOK, RowType
<1>24. CASE EndCheck
  BY <1>24 DEF EndCheck, rowVars, delVars, ProvType, DelType, CheckType, TypeOK, RowType
<1>25. CASE Crash
  BY <1>25 DEF Crash, rowVars, Provisioning, Deleting, ProvType, DelType, CheckType, TypeOK,
     RowType
<1>26. CASE UNCHANGED vars
  BY <1>26 DEF vars, rowVars, delVars, checkVars, TypeOK, RowType
<1>. QED
  BY <1>1, <1>2, <1>3, <1>4, <1>5, <1>6, <1>7, <1>8, <1>9, <1>10, <1>11, <1>12, <1>13, <1>14,
     <1>15, <1>16, <1>17, <1>18, <1>19, <1>20, <1>21, <1>22, <1>23, <1>24, <1>25, <1>26
  DEF Next, Provision, ProvisionWork, Delete, DeleteWork, HealthCheck, CheckWork

\* CloudType: the types of these variables are kept.
LEMMA CloudTypeKept == ASSUME TypeOK, [Next]_vars PROVE CloudType'
<1>1. ASSUME NEW w \in Workers, CreateResource(w) PROVE CloudType'
  BY <1>1 DEF CreateResource, delVars, checkVars, ProvisionStep, ProvType, DelType, TypeOK,
     CloudType
<1>2. ASSUME NEW w \in Workers, InsertProvisionJob(w) PROVE CloudType'
  BY <1>2 DEF InsertProvisionJob, rowVars, delVars, checkVars, ProvisionStep, Fault, ProvType,
     DelType, TypeOK, CloudType
<1>3. ASSUME NEW w \in Workers, StartProvision(w) PROVE CloudType'
  BY <1>3 DEF StartProvision, rowVars, delVars, checkVars, ProvisionStep, ProvType, DelType,
     TypeOK, CloudType
<1>4. ASSUME NEW w \in Workers, CreateFails(w) PROVE CloudType'
  BY <1>4 DEF CreateFails, delVars, checkVars, ProvisionStep, MarkFailed, Fault, ProvType,
     DelType, TypeOK, CloudType
<1>5. ASSUME NEW w \in Workers, CreateWorker(w) PROVE CloudType'
  BY <1>5 DEF CreateWorker, rowVars, delVars, checkVars, ProvisionStep, ProvType, DelType,
     TypeOK, CloudType
<1>6. ASSUME NEW w \in Workers, IPAssigned(w) PROVE CloudType'
  BY <1>6 DEF IPAssigned, rowVars, delVars, checkVars, ProvisionStep, ProvType, DelType,
     TypeOK, CloudType
<1>7. ASSUME NEW w \in Workers, IPTimeout(w) PROVE CloudType'
  BY <1>7 DEF IPTimeout, delVars, checkVars, ProvisionStep, MarkFailed, Fault, ProvType,
     DelType, TypeOK, CloudType
<1>8. ASSUME NEW w \in Workers, Persist(w) PROVE CloudType'
  BY <1>8 DEF Persist, delVars, checkVars, ProvisionStep, Fault, ProvType, DelType, TypeOK,
     CloudType
<1>9. ASSUME NEW w \in Workers, SSHReady(w) PROVE CloudType'
  BY <1>9 DEF SSHReady, rowVars, delVars, checkVars, ProvisionStep, ProvType, DelType, TypeOK,
     CloudType
<1>10. ASSUME NEW w \in Workers, SSHTimeout(w) PROVE CloudType'
  BY <1>10 DEF SSHTimeout, delVars, checkVars, ProvisionStep, MarkFailed, Fault, ProvType,
     DelType, TypeOK, CloudType
<1>11. ASSUME NEW w \in Workers, Finish(w) PROVE CloudType'
  BY <1>11 DEF Finish, delVars, checkVars, Fault, ProvType, DelType, TypeOK, CloudType
<1>12. ASSUME NEW w \in Workers, CleanUp(w) PROVE CloudType'
  BY <1>12 DEF CleanUp, rowVars, delVars, checkVars, ProvisionStep, Fault, ProvType, DelType,
     TypeOK, CloudType
<1>13. ASSUME NEW w \in Workers, Boots(w) PROVE CloudType'
  BY <1>13 DEF Boots, rowVars, delVars, checkVars, ProvType, DelType, TypeOK, CloudType
<1>14. ASSUME NEW d \in Deletions, NEW w \in Workers, GetResource(d, w) PROVE CloudType'
  BY <1>14 DEF GetResource, rowVars, checkVars, DeletionStep, SetIn, ProvType, DelType,
     TypeOK, CloudType
<1>15. ASSUME NEW d \in Deletions, MarkDeleting(d) PROVE CloudType'
  BY <1>15 DEF MarkDeleting, checkVars, DeletionStep, SetIn, Fault, ProvType, DelType, TypeOK,
     CloudType
<1>16. ASSUME NEW d \in Deletions, InsertDeleteJob(d) PROVE CloudType'
  BY <1>16 DEF InsertDeleteJob, rowVars, checkVars, DeletionStep, Fault, ProvType, DelType,
     TypeOK, CloudType
<1>17. ASSUME NEW d \in Deletions, StartDeletion(d) PROVE CloudType'
  BY <1>17 DEF StartDeletion, rowVars, checkVars, DeletionStep, ProvType, DelType, TypeOK,
     CloudType
<1>18. ASSUME NEW d \in Deletions, Destroy(d) PROVE CloudType'
  BY <1>18 DEF Destroy, rowVars, checkVars, DeletionStep, Retry, Fault, ProvType, DelType,
     TypeOK, CloudType
<1>19. ASSUME NEW d \in Deletions, SoftDelete(d) PROVE CloudType'
  BY <1>19 DEF SoftDelete, checkVars, DeletionStep, Retry, Fault, ProvType, DelType, TypeOK,
     CloudType
<1>20. ASSUME NEW d \in Deletions, Rescue(d) PROVE CloudType'
  BY <1>20 DEF Rescue, rowVars, checkVars, Retry, ProvType, DelType, TypeOK, CloudType
<1>21. CASE StartCheck
  BY <1>21 DEF StartCheck, rowVars, delVars, Eligible, ProvType, DelType, TypeOK, CloudType
<1>22. ASSUME NEW w \in Workers, Probe(w) PROVE CloudType'
  BY <1>22 DEF Probe, rowVars, delVars, ProvType, DelType, TypeOK, CloudType
<1>23. CASE Report
  BY <1>23 DEF Report, delVars, Fault, ProvType, DelType, TypeOK, CloudType
<1>24. CASE EndCheck
  BY <1>24 DEF EndCheck, rowVars, delVars, ProvType, DelType, TypeOK, CloudType
<1>25. CASE Crash
  BY <1>25 DEF Crash, rowVars, Provisioning, Deleting, ProvType, DelType, TypeOK, CloudType
<1>26. CASE UNCHANGED vars
  BY <1>26 DEF vars, rowVars, delVars, checkVars, TypeOK, CloudType
<1>. QED
  BY <1>1, <1>2, <1>3, <1>4, <1>5, <1>6, <1>7, <1>8, <1>9, <1>10, <1>11, <1>12, <1>13, <1>14,
     <1>15, <1>16, <1>17, <1>18, <1>19, <1>20, <1>21, <1>22, <1>23, <1>24, <1>25, <1>26
  DEF Next, Provision, ProvisionWork, Delete, DeleteWork, HealthCheck, CheckWork

\* ProvType: the types of these variables are kept.
LEMMA ProvTypeKept == ASSUME TypeOK, [Next]_vars PROVE ProvType'
<1>1. ASSUME NEW w \in Workers, CreateResource(w) PROVE ProvType'
  BY <1>1 DEF CreateResource, delVars, checkVars, ProvisionStep, RowType, TypeOK, ProvType,
     Provisioning
<1>2. ASSUME NEW w \in Workers, InsertProvisionJob(w) PROVE ProvType'
  BY <1>2 DEF InsertProvisionJob, rowVars, delVars, checkVars, ProvisionStep, Fault, RowType,
     TypeOK, ProvType, Provisioning
<1>3. ASSUME NEW w \in Workers, StartProvision(w) PROVE ProvType'
  BY <1>3 DEF StartProvision, rowVars, delVars, checkVars, ProvisionStep, RowType, TypeOK,
     ProvType, Provisioning
<1>4. ASSUME NEW w \in Workers, CreateFails(w) PROVE ProvType'
  BY <1>4 DEF CreateFails, delVars, checkVars, ProvisionStep, MarkFailed, Fault, RowType,
     TypeOK, ProvType, Provisioning
<1>5. ASSUME NEW w \in Workers, CreateWorker(w) PROVE ProvType'
  BY <1>5 DEF CreateWorker, rowVars, delVars, checkVars, ProvisionStep, RowType, TypeOK,
     ProvType, Provisioning
<1>6. ASSUME NEW w \in Workers, IPAssigned(w) PROVE ProvType'
  BY <1>6 DEF IPAssigned, rowVars, delVars, checkVars, ProvisionStep, RowType, TypeOK,
     ProvType, Provisioning
<1>7. ASSUME NEW w \in Workers, IPTimeout(w) PROVE ProvType'
  BY <1>7 DEF IPTimeout, delVars, checkVars, ProvisionStep, MarkFailed, Fault, RowType,
     TypeOK, ProvType, Provisioning
<1>8. ASSUME NEW w \in Workers, Persist(w) PROVE ProvType'
  BY <1>8 DEF Persist, delVars, checkVars, ProvisionStep, Fault, RowType, TypeOK, ProvType,
     Provisioning
<1>9. ASSUME NEW w \in Workers, SSHReady(w) PROVE ProvType'
  BY <1>9 DEF SSHReady, rowVars, delVars, checkVars, ProvisionStep, RowType, TypeOK, ProvType,
     Provisioning
<1>10. ASSUME NEW w \in Workers, SSHTimeout(w) PROVE ProvType'
  BY <1>10 DEF SSHTimeout, delVars, checkVars, ProvisionStep, MarkFailed, Fault, RowType,
     TypeOK, ProvType, Provisioning
<1>11. ASSUME NEW w \in Workers, Finish(w) PROVE ProvType'
  BY <1>11 DEF Finish, delVars, checkVars, Fault, RowType, TypeOK, ProvType, Provisioning
<1>12. ASSUME NEW w \in Workers, CleanUp(w) PROVE ProvType'
  BY <1>12 DEF CleanUp, rowVars, delVars, checkVars, ProvisionStep, Fault, RowType, TypeOK,
     ProvType, Provisioning
<1>13. ASSUME NEW w \in Workers, Boots(w) PROVE ProvType'
  BY <1>13 DEF Boots, rowVars, delVars, checkVars, TypeOK, ProvType, Provisioning
<1>14. ASSUME NEW d \in Deletions, NEW w \in Workers, GetResource(d, w) PROVE ProvType'
  BY <1>14 DEF GetResource, rowVars, checkVars, DeletionStep, SetIn, RowType, TypeOK,
     ProvType, Provisioning
<1>15. ASSUME NEW d \in Deletions, MarkDeleting(d) PROVE ProvType'
  BY <1>15 DEF MarkDeleting, checkVars, DeletionStep, SetIn, Fault, RowType, TypeOK, ProvType,
     Provisioning
<1>16. ASSUME NEW d \in Deletions, InsertDeleteJob(d) PROVE ProvType'
  BY <1>16 DEF InsertDeleteJob, rowVars, checkVars, DeletionStep, Fault, RowType, TypeOK,
     ProvType, Provisioning
<1>17. ASSUME NEW d \in Deletions, StartDeletion(d) PROVE ProvType'
  BY <1>17 DEF StartDeletion, rowVars, checkVars, DeletionStep, RowType, TypeOK, ProvType,
     Provisioning
<1>18. ASSUME NEW d \in Deletions, Destroy(d) PROVE ProvType'
  BY <1>18 DEF Destroy, rowVars, checkVars, DeletionStep, Retry, Fault, RowType, TypeOK,
     ProvType, Provisioning
<1>19. ASSUME NEW d \in Deletions, SoftDelete(d) PROVE ProvType'
  BY <1>19 DEF SoftDelete, checkVars, DeletionStep, Retry, Fault, RowType, TypeOK, ProvType,
     Provisioning
<1>20. ASSUME NEW d \in Deletions, Rescue(d) PROVE ProvType'
  BY <1>20 DEF Rescue, rowVars, checkVars, Retry, RowType, TypeOK, ProvType, Provisioning
<1>21. CASE StartCheck
  BY <1>21 DEF StartCheck, rowVars, delVars, Eligible, RowType, TypeOK, ProvType, Provisioning
<1>22. ASSUME NEW w \in Workers, Probe(w) PROVE ProvType'
  BY <1>22 DEF Probe, rowVars, delVars, RowType, TypeOK, ProvType, Provisioning
<1>23. CASE Report
  BY <1>23 DEF Report, delVars, Fault, RowType, TypeOK, ProvType, Provisioning
<1>24. CASE EndCheck
  BY <1>24 DEF EndCheck, rowVars, delVars, RowType, TypeOK, ProvType, Provisioning
<1>25. CASE Crash
  BY <1>25 DEF Crash, rowVars, Provisioning, Deleting, RowType, TypeOK, ProvType
<1>26. CASE UNCHANGED vars
  BY <1>26 DEF vars, rowVars, delVars, checkVars, TypeOK, ProvType, Provisioning
<1>. QED
  BY <1>1, <1>2, <1>3, <1>4, <1>5, <1>6, <1>7, <1>8, <1>9, <1>10, <1>11, <1>12, <1>13, <1>14,
     <1>15, <1>16, <1>17, <1>18, <1>19, <1>20, <1>21, <1>22, <1>23, <1>24, <1>25, <1>26
  DEF Next, Provision, ProvisionWork, Delete, DeleteWork, HealthCheck, CheckWork

\* DelType: the types of these variables are kept.
LEMMA DelTypeKept == ASSUME TypeOK, [Next]_vars PROVE DelType'
<1>1. ASSUME NEW w \in Workers, CreateResource(w) PROVE DelType'
  BY <1>1 DEF CreateResource, delVars, checkVars, TypeOK, DelType, Deleting
<1>2. ASSUME NEW w \in Workers, InsertProvisionJob(w) PROVE DelType'
  BY <1>2 DEF InsertProvisionJob, rowVars, delVars, checkVars, ProvisionStep, Fault, RowType,
     TypeOK, DelType, Deleting
<1>3. ASSUME NEW w \in Workers, StartProvision(w) PROVE DelType'
  BY <1>3 DEF StartProvision, rowVars, delVars, checkVars, TypeOK, DelType, Deleting
<1>4. ASSUME NEW w \in Workers, CreateFails(w) PROVE DelType'
  BY <1>4 DEF CreateFails, delVars, checkVars, ProvisionStep, MarkFailed, Fault, RowType,
     TypeOK, DelType, Deleting
<1>5. ASSUME NEW w \in Workers, CreateWorker(w) PROVE DelType'
  BY <1>5 DEF CreateWorker, rowVars, delVars, checkVars, TypeOK, DelType, Deleting
<1>6. ASSUME NEW w \in Workers, IPAssigned(w) PROVE DelType'
  BY <1>6 DEF IPAssigned, rowVars, delVars, checkVars, TypeOK, DelType, Deleting
<1>7. ASSUME NEW w \in Workers, IPTimeout(w) PROVE DelType'
  BY <1>7 DEF IPTimeout, delVars, checkVars, ProvisionStep, MarkFailed, Fault, RowType,
     TypeOK, DelType, Deleting
<1>8. ASSUME NEW w \in Workers, Persist(w) PROVE DelType'
  BY <1>8 DEF Persist, delVars, checkVars, ProvisionStep, Fault, RowType, TypeOK, DelType,
     Deleting
<1>9. ASSUME NEW w \in Workers, SSHReady(w) PROVE DelType'
  BY <1>9 DEF SSHReady, rowVars, delVars, checkVars, TypeOK, DelType, Deleting
<1>10. ASSUME NEW w \in Workers, SSHTimeout(w) PROVE DelType'
  BY <1>10 DEF SSHTimeout, delVars, checkVars, ProvisionStep, MarkFailed, Fault, RowType,
     TypeOK, DelType, Deleting
<1>11. ASSUME NEW w \in Workers, Finish(w) PROVE DelType'
  BY <1>11 DEF Finish, delVars, checkVars, Fault, RowType, TypeOK, DelType, Deleting
<1>12. ASSUME NEW w \in Workers, CleanUp(w) PROVE DelType'
  BY <1>12 DEF CleanUp, rowVars, delVars, checkVars, ProvisionStep, Fault, RowType, TypeOK,
     DelType, Deleting
<1>13. ASSUME NEW w \in Workers, Boots(w) PROVE DelType'
  BY <1>13 DEF Boots, rowVars, delVars, checkVars, TypeOK, DelType, Deleting
<1>14. ASSUME NEW d \in Deletions, NEW w \in Workers, GetResource(d, w) PROVE DelType'
  BY <1>14 DEF GetResource, rowVars, checkVars, DeletionStep, SetIn, RowType, TypeOK, DelType,
     Deleting
<1>15. ASSUME NEW d \in Deletions, MarkDeleting(d) PROVE DelType'
  BY <1>15 DEF MarkDeleting, checkVars, DeletionStep, SetIn, Fault, RowType, TypeOK, DelType,
     Deleting
<1>16. ASSUME NEW d \in Deletions, InsertDeleteJob(d) PROVE DelType'
  BY <1>16 DEF InsertDeleteJob, rowVars, checkVars, DeletionStep, Fault, RowType, TypeOK,
     DelType, Deleting
<1>17. ASSUME NEW d \in Deletions, StartDeletion(d) PROVE DelType'
  BY <1>17 DEF StartDeletion, rowVars, checkVars, DeletionStep, RowType, TypeOK, DelType,
     Deleting
<1>18. ASSUME NEW d \in Deletions, Destroy(d) PROVE DelType'
  BY <1>18 DEF Destroy, rowVars, checkVars, DeletionStep, Retry, Fault, RowType, TypeOK,
     DelType, Deleting
<1>19. ASSUME NEW d \in Deletions, SoftDelete(d) PROVE DelType'
  BY <1>19 DEF SoftDelete, checkVars, DeletionStep, Retry, Fault, RowType, TypeOK, DelType,
     Deleting
<1>20. ASSUME NEW d \in Deletions, Rescue(d) PROVE DelType'
  BY <1>20 DEF Rescue, rowVars, checkVars, Retry, RowType, TypeOK, DelType, Deleting
<1>21. CASE StartCheck
  BY <1>21 DEF StartCheck, rowVars, delVars, Eligible, RowType, TypeOK, DelType, Deleting
<1>22. ASSUME NEW w \in Workers, Probe(w) PROVE DelType'
  BY <1>22 DEF Probe, rowVars, delVars, RowType, TypeOK, DelType, Deleting
<1>23. CASE Report
  BY <1>23 DEF Report, delVars, Fault, RowType, TypeOK, DelType, Deleting
<1>24. CASE EndCheck
  BY <1>24 DEF EndCheck, rowVars, delVars, RowType, TypeOK, DelType, Deleting
<1>25. CASE Crash
  BY <1>25 DEF Crash, rowVars, Provisioning, Deleting, RowType, TypeOK, DelType
<1>26. CASE UNCHANGED vars
  BY <1>26 DEF vars, rowVars, delVars, checkVars, TypeOK, DelType, Deleting
<1>. QED
  BY <1>1, <1>2, <1>3, <1>4, <1>5, <1>6, <1>7, <1>8, <1>9, <1>10, <1>11, <1>12, <1>13, <1>14,
     <1>15, <1>16, <1>17, <1>18, <1>19, <1>20, <1>21, <1>22, <1>23, <1>24, <1>25, <1>26
  DEF Next, Provision, ProvisionWork, Delete, DeleteWork, HealthCheck, CheckWork

\* CheckType: the types of these variables are kept.
LEMMA CheckTypeKept == ASSUME TypeOK, [Next]_vars PROVE CheckType'
<1>1. ASSUME NEW w \in Workers, CreateResource(w) PROVE CheckType'
  BY <1>1 DEF CreateResource, delVars, checkVars, TypeOK, CheckType
<1>2. ASSUME NEW w \in Workers, InsertProvisionJob(w) PROVE CheckType'
  BY <1>2, NoneIsNoWorker DEF InsertProvisionJob, rowVars, delVars, checkVars, ProvisionStep,
     Fault, RowType, TypeOK, CheckType
<1>3. ASSUME NEW w \in Workers, StartProvision(w) PROVE CheckType'
  BY <1>3 DEF StartProvision, rowVars, delVars, checkVars, TypeOK, CheckType
<1>4. ASSUME NEW w \in Workers, CreateFails(w) PROVE CheckType'
  BY <1>4, NoneIsNoWorker DEF CreateFails, delVars, checkVars, ProvisionStep, MarkFailed,
     Fault, RowType, TypeOK, CheckType
<1>5. ASSUME NEW w \in Workers, CreateWorker(w) PROVE CheckType'
  BY <1>5 DEF CreateWorker, rowVars, delVars, checkVars, TypeOK, CheckType
<1>6. ASSUME NEW w \in Workers, IPAssigned(w) PROVE CheckType'
  BY <1>6 DEF IPAssigned, rowVars, delVars, checkVars, TypeOK, CheckType
<1>7. ASSUME NEW w \in Workers, IPTimeout(w) PROVE CheckType'
  BY <1>7, NoneIsNoWorker DEF IPTimeout, delVars, checkVars, ProvisionStep, MarkFailed, Fault,
     RowType, TypeOK, CheckType
<1>8. ASSUME NEW w \in Workers, Persist(w) PROVE CheckType'
  BY <1>8, NoneIsNoWorker DEF Persist, delVars, checkVars, ProvisionStep, Fault, RowType,
     TypeOK, CheckType
<1>9. ASSUME NEW w \in Workers, SSHReady(w) PROVE CheckType'
  BY <1>9 DEF SSHReady, rowVars, delVars, checkVars, TypeOK, CheckType
<1>10. ASSUME NEW w \in Workers, SSHTimeout(w) PROVE CheckType'
  BY <1>10, NoneIsNoWorker DEF SSHTimeout, delVars, checkVars, ProvisionStep, MarkFailed,
     Fault, RowType, TypeOK, CheckType
<1>11. ASSUME NEW w \in Workers, Finish(w) PROVE CheckType'
  BY <1>11, NoneIsNoWorker DEF Finish, delVars, checkVars, Fault, RowType, TypeOK, CheckType
<1>12. ASSUME NEW w \in Workers, CleanUp(w) PROVE CheckType'
  BY <1>12, NoneIsNoWorker DEF CleanUp, rowVars, delVars, checkVars, ProvisionStep, Fault,
     RowType, TypeOK, CheckType
<1>13. ASSUME NEW w \in Workers, Boots(w) PROVE CheckType'
  BY <1>13 DEF Boots, rowVars, delVars, checkVars, TypeOK, CheckType
<1>14. ASSUME NEW d \in Deletions, NEW w \in Workers, GetResource(d, w) PROVE CheckType'
  BY <1>14 DEF GetResource, rowVars, checkVars, TypeOK, CheckType
<1>15. ASSUME NEW d \in Deletions, MarkDeleting(d) PROVE CheckType'
  BY <1>15, NoneIsNoWorker DEF MarkDeleting, checkVars, DeletionStep, SetIn, Fault, RowType,
     TypeOK, CheckType
<1>16. ASSUME NEW d \in Deletions, InsertDeleteJob(d) PROVE CheckType'
  BY <1>16, NoneIsNoWorker DEF InsertDeleteJob, rowVars, checkVars, DeletionStep, Fault,
     RowType, TypeOK, CheckType
<1>17. ASSUME NEW d \in Deletions, StartDeletion(d) PROVE CheckType'
  BY <1>17 DEF StartDeletion, rowVars, checkVars, TypeOK, CheckType
<1>18. ASSUME NEW d \in Deletions, Destroy(d) PROVE CheckType'
  BY <1>18, NoneIsNoWorker DEF Destroy, rowVars, checkVars, DeletionStep, Retry, Fault,
     RowType, TypeOK, CheckType
<1>19. ASSUME NEW d \in Deletions, SoftDelete(d) PROVE CheckType'
  BY <1>19, NoneIsNoWorker DEF SoftDelete, checkVars, DeletionStep, Retry, Fault, RowType,
     TypeOK, CheckType
<1>20. ASSUME NEW d \in Deletions, Rescue(d) PROVE CheckType'
  BY <1>20 DEF Rescue, rowVars, checkVars, TypeOK, CheckType
<1>21. CASE StartCheck
  BY <1>21, NoneIsNoWorker DEF StartCheck, rowVars, delVars, Eligible, RowType, TypeOK,
     CheckType
<1>22. ASSUME NEW w \in Workers, Probe(w) PROVE CheckType'
  BY <1>22, NoneIsNoWorker DEF Probe, rowVars, delVars, RowType, TypeOK, CheckType
<1>23. CASE Report
  BY <1>23, NoneIsNoWorker DEF Report, delVars, Fault, RowType, TypeOK, CheckType
<1>24. CASE EndCheck
  BY <1>24, NoneIsNoWorker DEF EndCheck, rowVars, delVars, RowType, TypeOK, CheckType
<1>25. CASE Crash
  BY <1>25, NoneIsNoWorker DEF Crash, rowVars, Provisioning, Deleting, RowType, TypeOK,
     CheckType
<1>26. CASE UNCHANGED vars
  BY <1>26 DEF vars, rowVars, delVars, checkVars, TypeOK, CheckType
<1>. QED
  BY <1>1, <1>2, <1>3, <1>4, <1>5, <1>6, <1>7, <1>8, <1>9, <1>10, <1>11, <1>12, <1>13, <1>14,
     <1>15, <1>16, <1>17, <1>18, <1>19, <1>20, <1>21, <1>22, <1>23, <1>24, <1>25, <1>26
  DEF Next, Provision, ProvisionWork, Delete, DeleteWork, HealthCheck, CheckWork

\* Nobody is tried more often than allowed.
LEMMA TriesKept == ASSUME TypeOK, Retriable, [Next]_vars PROVE (TriesType /\ Retriable)'
<1>1. ASSUME NEW w \in Workers, CreateResource(w) PROVE (TriesType /\ Retriable)'
  BY <1>1 DEF CreateResource, delVars, checkVars, TypeOK, TriesType, Retriable
<1>2. ASSUME NEW w \in Workers, InsertProvisionJob(w) PROVE (TriesType /\ Retriable)'
  BY <1>2, QueueBounds DEF InsertProvisionJob, rowVars, delVars, checkVars, ProvisionStep,
     Fault, TypeOK, DelType, TriesType, Retriable
<1>3. ASSUME NEW w \in Workers, StartProvision(w) PROVE (TriesType /\ Retriable)'
  BY <1>3 DEF StartProvision, rowVars, delVars, checkVars, TypeOK, TriesType, Retriable
<1>4. ASSUME NEW w \in Workers, CreateFails(w) PROVE (TriesType /\ Retriable)'
  BY <1>4, QueueBounds DEF CreateFails, delVars, checkVars, ProvisionStep, MarkFailed, Fault,
     TypeOK, DelType, TriesType, Retriable
<1>5. ASSUME NEW w \in Workers, CreateWorker(w) PROVE (TriesType /\ Retriable)'
  BY <1>5 DEF CreateWorker, rowVars, delVars, checkVars, TypeOK, TriesType, Retriable
<1>6. ASSUME NEW w \in Workers, IPAssigned(w) PROVE (TriesType /\ Retriable)'
  BY <1>6 DEF IPAssigned, rowVars, delVars, checkVars, TypeOK, TriesType, Retriable
<1>7. ASSUME NEW w \in Workers, IPTimeout(w) PROVE (TriesType /\ Retriable)'
  BY <1>7, QueueBounds DEF IPTimeout, delVars, checkVars, ProvisionStep, MarkFailed, Fault,
     TypeOK, DelType, TriesType, Retriable
<1>8. ASSUME NEW w \in Workers, Persist(w) PROVE (TriesType /\ Retriable)'
  BY <1>8, QueueBounds DEF Persist, delVars, checkVars, ProvisionStep, Fault, TypeOK, DelType,
     TriesType, Retriable
<1>9. ASSUME NEW w \in Workers, SSHReady(w) PROVE (TriesType /\ Retriable)'
  BY <1>9 DEF SSHReady, rowVars, delVars, checkVars, TypeOK, TriesType, Retriable
<1>10. ASSUME NEW w \in Workers, SSHTimeout(w) PROVE (TriesType /\ Retriable)'
  BY <1>10, QueueBounds DEF SSHTimeout, delVars, checkVars, ProvisionStep, MarkFailed, Fault,
     TypeOK, DelType, TriesType, Retriable
<1>11. ASSUME NEW w \in Workers, Finish(w) PROVE (TriesType /\ Retriable)'
  BY <1>11, QueueBounds DEF Finish, delVars, checkVars, Fault, TypeOK, DelType, TriesType,
     Retriable
<1>12. ASSUME NEW w \in Workers, CleanUp(w) PROVE (TriesType /\ Retriable)'
  BY <1>12, QueueBounds DEF CleanUp, rowVars, delVars, checkVars, ProvisionStep, Fault,
     TypeOK, DelType, TriesType, Retriable
<1>13. ASSUME NEW w \in Workers, Boots(w) PROVE (TriesType /\ Retriable)'
  BY <1>13 DEF Boots, rowVars, delVars, checkVars, TypeOK, TriesType, Retriable
<1>14. ASSUME NEW d \in Deletions, NEW w \in Workers, GetResource(d, w) PROVE (TriesType /\ Retriable)'
  BY <1>14, QueueBounds DEF GetResource, rowVars, checkVars, DeletionStep, SetIn, TypeOK,
     DelType, TriesType, Retriable
<1>15. ASSUME NEW d \in Deletions, MarkDeleting(d) PROVE (TriesType /\ Retriable)'
  BY <1>15, QueueBounds DEF MarkDeleting, checkVars, DeletionStep, SetIn, Fault, TypeOK,
     DelType, TriesType, Retriable
<1>16. ASSUME NEW d \in Deletions, InsertDeleteJob(d) PROVE (TriesType /\ Retriable)'
  BY <1>16, QueueBounds DEF InsertDeleteJob, rowVars, checkVars, DeletionStep, Fault, TypeOK,
     DelType, TriesType, Retriable
<1>17. ASSUME NEW d \in Deletions, StartDeletion(d) PROVE (TriesType /\ Retriable)'
  BY <1>17, QueueBounds DEF StartDeletion, rowVars, checkVars, DeletionStep, TypeOK, DelType,
     TriesType, Retriable
<1>18. ASSUME NEW d \in Deletions, Destroy(d) PROVE (TriesType /\ Retriable)'
  BY <1>18, QueueBounds DEF Destroy, rowVars, checkVars, DeletionStep, Retry, Fault, TypeOK,
     DelType, TriesType, Retriable
<1>19. ASSUME NEW d \in Deletions, SoftDelete(d) PROVE (TriesType /\ Retriable)'
  BY <1>19, QueueBounds DEF SoftDelete, checkVars, DeletionStep, Retry, Fault, TypeOK,
     DelType, TriesType, Retriable
<1>20. ASSUME NEW d \in Deletions, Rescue(d) PROVE (TriesType /\ Retriable)'
  BY <1>20, QueueBounds DEF Rescue, rowVars, checkVars, Retry, TypeOK, DelType, TriesType,
     Retriable
<1>21. CASE StartCheck
  BY <1>21, QueueBounds DEF StartCheck, rowVars, delVars, Eligible, TypeOK, DelType,
     TriesType, Retriable
<1>22. ASSUME NEW w \in Workers, Probe(w) PROVE (TriesType /\ Retriable)'
  BY <1>22, QueueBounds DEF Probe, rowVars, delVars, TypeOK, DelType, TriesType, Retriable
<1>23. CASE Report
  BY <1>23, QueueBounds DEF Report, delVars, Fault, TypeOK, DelType, TriesType, Retriable
<1>24. CASE EndCheck
  BY <1>24, QueueBounds DEF EndCheck, rowVars, delVars, TypeOK, DelType, TriesType, Retriable
<1>25. CASE Crash
  BY <1>25, QueueBounds DEF Crash, rowVars, Provisioning, Deleting, TypeOK, DelType,
     TriesType, Retriable
<1>26. CASE UNCHANGED vars
  BY <1>26 DEF vars, rowVars, delVars, checkVars, TypeOK, TriesType, Retriable
<1>. QED
  BY <1>1, <1>2, <1>3, <1>4, <1>5, <1>6, <1>7, <1>8, <1>9, <1>10, <1>11, <1>12, <1>13, <1>14,
     <1>15, <1>16, <1>17, <1>18, <1>19, <1>20, <1>21, <1>22, <1>23, <1>24, <1>25, <1>26
  DEF Next, Provision, ProvisionWork, Delete, DeleteWork, HealthCheck, CheckWork

\* The bounds on the environment.
LEMMA EnvTypeKept == ASSUME TypeOK, [Next]_vars PROVE EnvType'
<1>1. ASSUME NEW w \in Workers, CreateResource(w) PROVE EnvType'
  BY <1>1 DEF CreateResource, delVars, checkVars, TypeOK, EnvType
<1>2. ASSUME NEW w \in Workers, InsertProvisionJob(w) PROVE EnvType'
  BY <1>2, EnvironmentBounds DEF InsertProvisionJob, rowVars, delVars, checkVars,
     ProvisionStep, Fault, TypeOK, EnvType
<1>3. ASSUME NEW w \in Workers, StartProvision(w) PROVE EnvType'
  BY <1>3 DEF StartProvision, rowVars, delVars, checkVars, TypeOK, EnvType
<1>4. ASSUME NEW w \in Workers, CreateFails(w) PROVE EnvType'
  BY <1>4, EnvironmentBounds DEF CreateFails, delVars, checkVars, ProvisionStep, MarkFailed,
     Fault, TypeOK, EnvType
<1>5. ASSUME NEW w \in Workers, CreateWorker(w) PROVE EnvType'
  BY <1>5 DEF CreateWorker, rowVars, delVars, checkVars, TypeOK, EnvType
<1>6. ASSUME NEW w \in Workers, IPAssigned(w) PROVE EnvType'
  BY <1>6 DEF IPAssigned, rowVars, delVars, checkVars, TypeOK, EnvType
<1>7. ASSUME NEW w \in Workers, IPTimeout(w) PROVE EnvType'
  BY <1>7, EnvironmentBounds DEF IPTimeout, delVars, checkVars, ProvisionStep, MarkFailed,
     Fault, TypeOK, EnvType
<1>8. ASSUME NEW w \in Workers, Persist(w) PROVE EnvType'
  BY <1>8, EnvironmentBounds DEF Persist, delVars, checkVars, ProvisionStep, Fault, TypeOK,
     EnvType
<1>9. ASSUME NEW w \in Workers, SSHReady(w) PROVE EnvType'
  BY <1>9 DEF SSHReady, rowVars, delVars, checkVars, TypeOK, EnvType
<1>10. ASSUME NEW w \in Workers, SSHTimeout(w) PROVE EnvType'
  BY <1>10, EnvironmentBounds DEF SSHTimeout, delVars, checkVars, ProvisionStep, MarkFailed,
     Fault, TypeOK, EnvType
<1>11. ASSUME NEW w \in Workers, Finish(w) PROVE EnvType'
  BY <1>11, EnvironmentBounds DEF Finish, delVars, checkVars, Fault, TypeOK, EnvType
<1>12. ASSUME NEW w \in Workers, CleanUp(w) PROVE EnvType'
  BY <1>12, EnvironmentBounds DEF CleanUp, rowVars, delVars, checkVars, ProvisionStep, Fault,
     TypeOK, EnvType
<1>13. ASSUME NEW w \in Workers, Boots(w) PROVE EnvType'
  BY <1>13 DEF Boots, rowVars, delVars, checkVars, TypeOK, EnvType
<1>14. ASSUME NEW d \in Deletions, NEW w \in Workers, GetResource(d, w) PROVE EnvType'
  BY <1>14 DEF GetResource, rowVars, checkVars, TypeOK, EnvType
<1>15. ASSUME NEW d \in Deletions, MarkDeleting(d) PROVE EnvType'
  BY <1>15, EnvironmentBounds DEF MarkDeleting, checkVars, DeletionStep, SetIn, Fault, TypeOK,
     EnvType
<1>16. ASSUME NEW d \in Deletions, InsertDeleteJob(d) PROVE EnvType'
  BY <1>16, EnvironmentBounds DEF InsertDeleteJob, rowVars, checkVars, DeletionStep, Fault,
     TypeOK, EnvType
<1>17. ASSUME NEW d \in Deletions, StartDeletion(d) PROVE EnvType'
  BY <1>17 DEF StartDeletion, rowVars, checkVars, TypeOK, EnvType
<1>18. ASSUME NEW d \in Deletions, Destroy(d) PROVE EnvType'
  BY <1>18, EnvironmentBounds DEF Destroy, rowVars, checkVars, DeletionStep, Retry, Fault,
     TypeOK, EnvType
<1>19. ASSUME NEW d \in Deletions, SoftDelete(d) PROVE EnvType'
  BY <1>19, EnvironmentBounds DEF SoftDelete, checkVars, DeletionStep, Retry, Fault, TypeOK,
     EnvType
<1>20. ASSUME NEW d \in Deletions, Rescue(d) PROVE EnvType'
  BY <1>20 DEF Rescue, rowVars, checkVars, TypeOK, EnvType
<1>21. CASE StartCheck
  BY <1>21 DEF StartCheck, rowVars, delVars, TypeOK, EnvType
<1>22. ASSUME NEW w \in Workers, Probe(w) PROVE EnvType'
  BY <1>22 DEF Probe, rowVars, delVars, TypeOK, EnvType
<1>23. CASE Report
  BY <1>23, EnvironmentBounds DEF Report, delVars, Fault, TypeOK, EnvType
<1>24. CASE EndCheck
  BY <1>24 DEF EndCheck, rowVars, delVars, TypeOK, EnvType
<1>25. CASE Crash
  BY <1>25, EnvironmentBounds DEF Crash, rowVars, Provisioning, Deleting, TypeOK, EnvType
<1>26. CASE UNCHANGED vars
  BY <1>26 DEF vars, rowVars, delVars, checkVars, TypeOK, EnvType
<1>. QED
  BY <1>1, <1>2, <1>3, <1>4, <1>5, <1>6, <1>7, <1>8, <1>9, <1>10, <1>11, <1>12, <1>13, <1>14,
     <1>15, <1>16, <1>17, <1>18, <1>19, <1>20, <1>21, <1>22, <1>23, <1>24, <1>25, <1>26
  DEF Next, Provision, ProvisionWork, Delete, DeleteWork, HealthCheck, CheckWork

\* Steps of a provisioning and its machine.
LEMMA MadeKept == ASSUME TypeOK, Made, [Next]_vars PROVE Made'
<1>1. ASSUME NEW w \in Workers, CreateResource(w) PROVE Made'
  BY <1>1 DEF CreateResource, delVars, checkVars, ProvisionStep, TypeOK, CloudType, ProvType,
     DelType, Made
<1>2. ASSUME NEW w \in Workers, InsertProvisionJob(w) PROVE Made'
  BY <1>2 DEF InsertProvisionJob, rowVars, delVars, checkVars, ProvisionStep, Fault, TypeOK,
     CloudType, ProvType, DelType, Made
<1>3. ASSUME NEW w \in Workers, StartProvision(w) PROVE Made'
  BY <1>3 DEF StartProvision, rowVars, delVars, checkVars, ProvisionStep, TypeOK, CloudType,
     ProvType, DelType, Made
<1>4. ASSUME NEW w \in Workers, CreateFails(w) PROVE Made'
  BY <1>4 DEF CreateFails, delVars, checkVars, ProvisionStep, MarkFailed, Fault, TypeOK,
     CloudType, ProvType, DelType, Made
<1>5. ASSUME NEW w \in Workers, CreateWorker(w) PROVE Made'
  BY <1>5 DEF CreateWorker, rowVars, delVars, checkVars, ProvisionStep, TypeOK, CloudType,
     ProvType, DelType, Made
<1>6. ASSUME NEW w \in Workers, IPAssigned(w) PROVE Made'
  BY <1>6 DEF IPAssigned, rowVars, delVars, checkVars, ProvisionStep, TypeOK, CloudType,
     ProvType, DelType, Made
<1>7. ASSUME NEW w \in Workers, IPTimeout(w) PROVE Made'
  BY <1>7 DEF IPTimeout, delVars, checkVars, ProvisionStep, MarkFailed, Fault, TypeOK,
     CloudType, ProvType, DelType, Made
<1>8. ASSUME NEW w \in Workers, Persist(w) PROVE Made'
  BY <1>8 DEF Persist, delVars, checkVars, ProvisionStep, Fault, TypeOK, CloudType, ProvType,
     DelType, Made
<1>9. ASSUME NEW w \in Workers, SSHReady(w) PROVE Made'
  BY <1>9 DEF SSHReady, rowVars, delVars, checkVars, ProvisionStep, TypeOK, CloudType,
     ProvType, DelType, Made
<1>10. ASSUME NEW w \in Workers, SSHTimeout(w) PROVE Made'
  BY <1>10 DEF SSHTimeout, delVars, checkVars, ProvisionStep, MarkFailed, Fault, TypeOK,
     CloudType, ProvType, DelType, Made
<1>11. ASSUME NEW w \in Workers, Finish(w) PROVE Made'
  BY <1>11 DEF Finish, delVars, checkVars, Fault, TypeOK, CloudType, ProvType, DelType, Made
<1>12. ASSUME NEW w \in Workers, CleanUp(w) PROVE Made'
  BY <1>12 DEF CleanUp, rowVars, delVars, checkVars, ProvisionStep, Fault, TypeOK, CloudType,
     ProvType, DelType, Made
<1>13. ASSUME NEW w \in Workers, Boots(w) PROVE Made'
  BY <1>13 DEF Boots, rowVars, delVars, checkVars, TypeOK, CloudType, ProvType, DelType, Made
<1>14. ASSUME NEW d \in Deletions, NEW w \in Workers, GetResource(d, w) PROVE Made'
  BY <1>14 DEF GetResource, rowVars, checkVars, Made
<1>15. ASSUME NEW d \in Deletions, MarkDeleting(d) PROVE Made'
  BY <1>15 DEF MarkDeleting, checkVars, Made
<1>16. ASSUME NEW d \in Deletions, InsertDeleteJob(d) PROVE Made'
  BY <1>16 DEF InsertDeleteJob, rowVars, checkVars, Made
<1>17. ASSUME NEW d \in Deletions, StartDeletion(d) PROVE Made'
  BY <1>17 DEF StartDeletion, rowVars, checkVars, Made
<1>18. ASSUME NEW d \in Deletions, Destroy(d) PROVE Made'
  BY <1>18 DEF Destroy, rowVars, checkVars, DeletionStep, Retry, Fault, TypeOK, CloudType,
     ProvType, DelType, Made
<1>19. ASSUME NEW d \in Deletions, SoftDelete(d) PROVE Made'
  BY <1>19 DEF SoftDelete, checkVars, Made
<1>20. ASSUME NEW d \in Deletions, Rescue(d) PROVE Made'
  BY <1>20 DEF Rescue, rowVars, checkVars, Made
<1>21. CASE StartCheck
  BY <1>21 DEF StartCheck, rowVars, delVars, Made
<1>22. ASSUME NEW w \in Workers, Probe(w) PROVE Made'
  BY <1>22 DEF Probe, rowVars, delVars, Made
<1>23. CASE Report
  BY <1>23 DEF Report, delVars, Made
<1>24. CASE EndCheck
  BY <1>24 DEF EndCheck, rowVars, delVars, Made
<1>25. CASE Crash
  BY <1>25 DEF Crash, rowVars, Provisioning, Deleting, TypeOK, CloudType, ProvType, DelType,
     Made
<1>26. CASE UNCHANGED vars
  BY <1>26 DEF vars, rowVars, delVars, checkVars, Made
<1>. QED
  BY <1>1, <1>2, <1>3, <1>4, <1>5, <1>6, <1>7, <1>8, <1>9, <1>10, <1>11, <1>12, <1>13, <1>14,
     <1>15, <1>16, <1>17, <1>18, <1>19, <1>20, <1>21, <1>22, <1>23, <1>24, <1>25, <1>26
  DEF Next, Provision, ProvisionWork, Delete, DeleteWork, HealthCheck, CheckWork

\* The address is never known without the id.
LEMMA AddressedIsNamedKept == ASSUME TypeOK, Made, AddressedIsNamed, [Next]_vars PROVE
   AddressedIsNamed'
<1>1. ASSUME NEW w \in Workers, CreateResource(w) PROVE AddressedIsNamed'
  BY <1>1 DEF CreateResource, delVars, checkVars, AddressedIsNamed
<1>2. ASSUME NEW w \in Workers, InsertProvisionJob(w) PROVE AddressedIsNamed'
  BY <1>2 DEF InsertProvisionJob, rowVars, delVars, checkVars, AddressedIsNamed
<1>3. ASSUME NEW w \in Workers, StartProvision(w) PROVE AddressedIsNamed'
  BY <1>3 DEF StartProvision, rowVars, delVars, checkVars, AddressedIsNamed
<1>4. ASSUME NEW w \in Workers, CreateFails(w) PROVE AddressedIsNamed'
  BY <1>4 DEF CreateFails, delVars, checkVars, ProvisionStep, MarkFailed, Fault, TypeOK,
     RowType, CloudType, ProvType, DelType, CheckType, Made, AddressedIsNamed
<1>5. ASSUME NEW w \in Workers, CreateWorker(w) PROVE AddressedIsNamed'
  BY <1>5 DEF CreateWorker, rowVars, delVars, checkVars, ProvisionStep, TypeOK, RowType,
     CloudType, ProvType, DelType, CheckType, Made, AddressedIsNamed
<1>6. ASSUME NEW w \in Workers, IPAssigned(w) PROVE AddressedIsNamed'
  BY <1>6 DEF IPAssigned, rowVars, delVars, checkVars, AddressedIsNamed
<1>7. ASSUME NEW w \in Workers, IPTimeout(w) PROVE AddressedIsNamed'
  BY <1>7 DEF IPTimeout, delVars, checkVars, ProvisionStep, MarkFailed, Fault, TypeOK,
     RowType, CloudType, ProvType, DelType, CheckType, Made, AddressedIsNamed
<1>8. ASSUME NEW w \in Workers, Persist(w) PROVE AddressedIsNamed'
  BY <1>8 DEF Persist, delVars, checkVars, ProvisionStep, Fault, TypeOK, RowType, CloudType,
     ProvType, DelType, CheckType, Made, AddressedIsNamed
<1>9. ASSUME NEW w \in Workers, SSHReady(w) PROVE AddressedIsNamed'
  BY <1>9 DEF SSHReady, rowVars, delVars, checkVars, AddressedIsNamed
<1>10. ASSUME NEW w \in Workers, SSHTimeout(w) PROVE AddressedIsNamed'
  BY <1>10 DEF SSHTimeout, delVars, checkVars, ProvisionStep, MarkFailed, Fault, TypeOK,
     RowType, CloudType, ProvType, DelType, CheckType, Made, AddressedIsNamed
<1>11. ASSUME NEW w \in Workers, Finish(w) PROVE AddressedIsNamed'
  BY <1>11 DEF Finish, delVars, checkVars, Fault, TypeOK, RowType, CloudType, ProvType,
     DelType, CheckType, Made, AddressedIsNamed
<1>12. ASSUME NEW w \in Workers, CleanUp(w) PROVE AddressedIsNamed'
  BY <1>12 DEF CleanUp, rowVars, delVars, checkVars, ProvisionStep, Fault, TypeOK, RowType,
     CloudType, ProvType, DelType, CheckType, Made, AddressedIsNamed
<1>13. ASSUME NEW w \in Workers, Boots(w) PROVE AddressedIsNamed'
  BY <1>13 DEF Boots, rowVars, delVars, checkVars, TypeOK, RowType, CloudType, ProvType,
     DelType, CheckType, Made, AddressedIsNamed
<1>14. ASSUME NEW d \in Deletions, NEW w \in Workers, GetResource(d, w) PROVE AddressedIsNamed'
  BY <1>14 DEF GetResource, rowVars, checkVars, DeletionStep, SetIn, TypeOK, RowType,
     CloudType, ProvType, DelType, CheckType, Made, AddressedIsNamed
<1>15. ASSUME NEW d \in Deletions, MarkDeleting(d) PROVE AddressedIsNamed'
  BY <1>15 DEF MarkDeleting, checkVars, DeletionStep, SetIn, Fault, TypeOK, RowType,
     CloudType, ProvType, DelType, CheckType, Made, AddressedIsNamed
<1>16. ASSUME NEW d \in Deletions, InsertDeleteJob(d) PROVE AddressedIsNamed'
  BY <1>16 DEF InsertDeleteJob, rowVars, checkVars, AddressedIsNamed
<1>17. ASSUME NEW d \in Deletions, StartDeletion(d) PROVE AddressedIsNamed'
  BY <1>17 DEF StartDeletion, rowVars, checkVars, AddressedIsNamed
<1>18. ASSUME NEW d \in Deletions, Destroy(d) PROVE AddressedIsNamed'
  BY <1>18 DEF Destroy, rowVars, checkVars, DeletionStep, Retry, Fault, TypeOK, RowType,
     CloudType, ProvType, DelType, CheckType, Made, AddressedIsNamed
<1>19. ASSUME NEW d \in Deletions, SoftDelete(d) PROVE AddressedIsNamed'
  BY <1>19 DEF SoftDelete, checkVars, AddressedIsNamed
<1>20. ASSUME NEW d \in Deletions, Rescue(d) PROVE AddressedIsNamed'
  BY <1>20 DEF Rescue, rowVars, checkVars, AddressedIsNamed
<1>21. CASE StartCheck
  BY <1>21 DEF StartCheck, rowVars, delVars, Eligible, TypeOK, RowType, CloudType, ProvType,
     DelType, CheckType, Made, AddressedIsNamed
<1>22. ASSUME NEW w \in Workers, Probe(w) PROVE AddressedIsNamed'
  BY <1>22 DEF Probe, rowVars, delVars, TypeOK, RowType, CloudType, ProvType, DelType,
     CheckType, Made, AddressedIsNamed
<1>23. CASE Report
  BY <1>23 DEF Report, delVars, Fault, TypeOK, RowType, CloudType, ProvType, DelType,
     CheckType, Made, AddressedIsNamed
<1>24. CASE EndCheck
  BY <1>24 DEF EndCheck, rowVars, delVars, TypeOK, RowType, CloudType, ProvType, DelType,
     CheckType, Made, AddressedIsNamed
<1>25. CASE Crash
  BY <1>25 DEF Crash, rowVars, Provisioning, Deleting, TypeOK, RowType, CloudType, ProvType,
     DelType, CheckType, Made, AddressedIsNamed
<1>26. CASE UNCHANGED vars
  BY <1>26 DEF vars, rowVars, delVars, checkVars, AddressedIsNamed
<1>. QED
  BY <1>1, <1>2, <1>3, <1>4, <1>5, <1>6, <1>7, <1>8, <1>9, <1>10, <1>11, <1>12, <1>13, <1>14,
     <1>15, <1>16, <1>17, <1>18, <1>19, <1>20, <1>21, <1>22, <1>23, <1>24, <1>25, <1>26
  DEF Next, Provision, ProvisionWork, Delete, DeleteWork, HealthCheck, CheckWork

\* A named row is not made again.
LEMMA NamedIsMadeKept == ASSUME TypeOK, NamedIsMade, [Next]_vars PROVE NamedIsMade'
<1>1. ASSUME NEW w \in Workers, CreateResource(w) PROVE NamedIsMade'
  BY <1>1 DEF CreateResource, delVars, checkVars, ProvisionStep, TypeOK, RowType, ProvType,
     DelType, NamedIsMade
<1>2. ASSUME NEW w \in Workers, InsertProvisionJob(w) PROVE NamedIsMade'
  BY <1>2 DEF InsertProvisionJob, rowVars, delVars, checkVars, ProvisionStep, Fault, TypeOK,
     RowType, ProvType, DelType, NamedIsMade
<1>3. ASSUME NEW w \in Workers, StartProvision(w) PROVE NamedIsMade'
  BY <1>3 DEF StartProvision, rowVars, delVars, checkVars, ProvisionStep, TypeOK, RowType,
     ProvType, DelType, NamedIsMade
<1>4. ASSUME NEW w \in Workers, CreateFails(w) PROVE NamedIsMade'
  BY <1>4 DEF CreateFails, delVars, checkVars, ProvisionStep, MarkFailed, Fault, TypeOK,
     RowType, ProvType, DelType, NamedIsMade
<1>5. ASSUME NEW w \in Workers, CreateWorker(w) PROVE NamedIsMade'
  BY <1>5 DEF CreateWorker, rowVars, delVars, checkVars, ProvisionStep, TypeOK, RowType,
     ProvType, DelType, NamedIsMade
<1>6. ASSUME NEW w \in Workers, IPAssigned(w) PROVE NamedIsMade'
  BY <1>6 DEF IPAssigned, rowVars, delVars, checkVars, ProvisionStep, TypeOK, RowType,
     ProvType, DelType, NamedIsMade
<1>7. ASSUME NEW w \in Workers, IPTimeout(w) PROVE NamedIsMade'
  BY <1>7 DEF IPTimeout, delVars, checkVars, ProvisionStep, MarkFailed, Fault, TypeOK,
     RowType, ProvType, DelType, NamedIsMade
<1>8. ASSUME NEW w \in Workers, Persist(w) PROVE NamedIsMade'
  BY <1>8 DEF Persist, delVars, checkVars, ProvisionStep, Fault, TypeOK, RowType, ProvType,
     DelType, NamedIsMade
<1>9. ASSUME NEW w \in Workers, SSHReady(w) PROVE NamedIsMade'
  BY <1>9 DEF SSHReady, rowVars, delVars, checkVars, ProvisionStep, TypeOK, RowType, ProvType,
     DelType, NamedIsMade
<1>10. ASSUME NEW w \in Workers, SSHTimeout(w) PROVE NamedIsMade'
  BY <1>10 DEF SSHTimeout, delVars, checkVars, ProvisionStep, MarkFailed, Fault, TypeOK,
     RowType, ProvType, DelType, NamedIsMade
<1>11. ASSUME NEW w \in Workers, Finish(w) PROVE NamedIsMade'
  BY <1>11 DEF Finish, delVars, checkVars, Fault, TypeOK, RowType, ProvType, DelType,
     NamedIsMade
<1>12. ASSUME NEW w \in Workers, CleanUp(w) PROVE NamedIsMade'
  BY <1>12 DEF CleanUp, rowVars, delVars, checkVars, ProvisionStep, Fault, TypeOK, RowType,
     ProvType, DelType, NamedIsMade
<1>13. ASSUME NEW w \in Workers, Boots(w) PROVE NamedIsMade'
  BY <1>13 DEF Boots, rowVars, delVars, checkVars, NamedIsMade
<1>14. ASSUME NEW d \in Deletions, NEW w \in Workers, GetResource(d, w) PROVE NamedIsMade'
  BY <1>14 DEF GetResource, rowVars, checkVars, DeletionStep, SetIn, TypeOK, RowType,
     ProvType, DelType, NamedIsMade
<1>15. ASSUME NEW d \in Deletions, MarkDeleting(d) PROVE NamedIsMade'
  BY <1>15 DEF MarkDeleting, checkVars, NamedIsMade
<1>16. ASSUME NEW d \in Deletions, InsertDeleteJob(d) PROVE NamedIsMade'
  BY <1>16 DEF InsertDeleteJob, rowVars, checkVars, NamedIsMade
<1>17. ASSUME NEW d \in Deletions, StartDeletion(d) PROVE NamedIsMade'
  BY <1>17 DEF StartDeletion, rowVars, checkVars, NamedIsMade
<1>18. ASSUME NEW d \in Deletions, Destroy(d) PROVE NamedIsMade'
  BY <1>18 DEF Destroy, rowVars, checkVars, NamedIsMade
<1>19. ASSUME NEW d \in Deletions, SoftDelete(d) PROVE NamedIsMade'
  BY <1>19 DEF SoftDelete, checkVars, NamedIsMade
<1>20. ASSUME NEW d \in Deletions, Rescue(d) PROVE NamedIsMade'
  BY <1>20 DEF Rescue, rowVars, checkVars, NamedIsMade
<1>21. CASE StartCheck
  BY <1>21 DEF StartCheck, rowVars, delVars, NamedIsMade
<1>22. ASSUME NEW w \in Workers, Probe(w) PROVE NamedIsMade'
  BY <1>22 DEF Probe, rowVars, delVars, NamedIsMade
<1>23. CASE Report
  BY <1>23 DEF Report, delVars, NamedIsMade
<1>24. CASE EndCheck
  BY <1>24 DEF EndCheck, rowVars, delVars, NamedIsMade
<1>25. CASE Crash
  BY <1>25 DEF Crash, rowVars, Provisioning, Deleting, TypeOK, RowType, ProvType, DelType,
     NamedIsMade
<1>26. CASE UNCHANGED vars
  BY <1>26 DEF vars, rowVars, delVars, checkVars, NamedIsMade
<1>. QED
  BY <1>1, <1>2, <1>3, <1>4, <1>5, <1>6, <1>7, <1>8, <1>9, <1>10, <1>11, <1>12, <1>13, <1>14,
     <1>15, <1>16, <1>17, <1>18, <1>19, <1>20, <1>21, <1>22, <1>23, <1>24, <1>25, <1>26
  DEF Next, Provision, ProvisionWork, Delete, DeleteWork, HealthCheck, CheckWork

\* Active rows name a machine.
LEMMA ActiveIsNamedKept == ASSUME TypeOK, Made, AddressedIsNamed, ActiveIsNamed, [Next]_vars
   PROVE ActiveIsNamed'
<1>1. ASSUME NEW w \in Workers, CreateResource(w) PROVE ActiveIsNamed'
  BY <1>1 DEF CreateResource, delVars, checkVars, ProvisionStep, TypeOK, RowType, CloudType,
     ProvType, DelType, CheckType, Made, AddressedIsNamed, ActiveIsNamed
<1>2. ASSUME NEW w \in Workers, InsertProvisionJob(w) PROVE ActiveIsNamed'
  BY <1>2 DEF InsertProvisionJob, rowVars, delVars, checkVars, ActiveIsNamed
<1>3. ASSUME NEW w \in Workers, StartProvision(w) PROVE ActiveIsNamed'
  BY <1>3 DEF StartProvision, rowVars, delVars, checkVars, ActiveIsNamed
<1>4. ASSUME NEW w \in Workers, CreateFails(w) PROVE ActiveIsNamed'
  BY <1>4 DEF CreateFails, delVars, checkVars, ProvisionStep, MarkFailed, Fault, TypeOK,
     RowType, CloudType, ProvType, DelType, CheckType, Made, AddressedIsNamed, ActiveIsNamed
<1>5. ASSUME NEW w \in Workers, CreateWorker(w) PROVE ActiveIsNamed'
  BY <1>5 DEF CreateWorker, rowVars, delVars, checkVars, ProvisionStep, TypeOK, RowType,
     CloudType, ProvType, DelType, CheckType, Made, AddressedIsNamed, ActiveIsNamed
<1>6. ASSUME NEW w \in Workers, IPAssigned(w) PROVE ActiveIsNamed'
  BY <1>6 DEF IPAssigned, rowVars, delVars, checkVars, ActiveIsNamed
<1>7. ASSUME NEW w \in Workers, IPTimeout(w) PROVE ActiveIsNamed'
  BY <1>7 DEF IPTimeout, delVars, checkVars, ProvisionStep, MarkFailed, Fault, TypeOK,
     RowType, CloudType, ProvType, DelType, CheckType, Made, AddressedIsNamed, ActiveIsNamed
<1>8. ASSUME NEW w \in Workers, Persist(w) PROVE ActiveIsNamed'
  BY <1>8 DEF Persist, delVars, checkVars, ProvisionStep, Fault, TypeOK, RowType, CloudType,
     ProvType, DelType, CheckType, Made, AddressedIsNamed, ActiveIsNamed
<1>9. ASSUME NEW w \in Workers, SSHReady(w) PROVE ActiveIsNamed'
  BY <1>9 DEF SSHReady, rowVars, delVars, checkVars, ActiveIsNamed
<1>10. ASSUME NEW w \in Workers, SSHTimeout(w) PROVE ActiveIsNamed'
  BY <1>10 DEF SSHTimeout, delVars, checkVars, ProvisionStep, MarkFailed, Fault, TypeOK,
     RowType, CloudType, ProvType, DelType, CheckType, Made, AddressedIsNamed, ActiveIsNamed
<1>11. ASSUME NEW w \in Workers, Finish(w) PROVE ActiveIsNamed'
  BY <1>11 DEF Finish, delVars, checkVars, Fault, TypeOK, RowType, CloudType, ProvType,
     DelType, CheckType, Made, AddressedIsNamed, ActiveIsNamed
<1>12. ASSUME NEW w \in Workers, CleanUp(w) PROVE ActiveIsNamed'
  BY <1>12 DEF CleanUp, rowVars, delVars, checkVars, ProvisionStep, Fault, TypeOK, RowType,
     CloudType, ProvType, DelType, CheckType, Made, AddressedIsNamed, ActiveIsNamed
<1>13. ASSUME NEW w \in Workers, Boots(w) PROVE ActiveIsNamed'
  BY <1>13 DEF Boots, rowVars, delVars, checkVars, TypeOK, RowType, CloudType, ProvType,
     DelType, CheckType, Made, AddressedIsNamed, ActiveIsNamed
<1>14. ASSUME NEW d \in Deletions, NEW w \in Workers, GetResource(d, w) PROVE ActiveIsNamed'
  BY <1>14 DEF GetResource, rowVars, checkVars, ActiveIsNamed
<1>15. ASSUME NEW d \in Deletions, MarkDeleting(d) PROVE ActiveIsNamed'
  BY <1>15 DEF MarkDeleting, checkVars, DeletionStep, SetIn, Fault, TypeOK, RowType,
     CloudType, ProvType, DelType, CheckType, Made, AddressedIsNamed, ActiveIsNamed
<1>16. ASSUME NEW d \in Deletions, InsertDeleteJob(d) PROVE ActiveIsNamed'
  BY <1>16 DEF InsertDeleteJob, rowVars, checkVars, ActiveIsNamed
<1>17. ASSUME NEW d \in Deletions, StartDeletion(d) PROVE ActiveIsNamed'
  BY <1>17 DEF StartDeletion, rowVars, checkVars, ActiveIsNamed
<1>18. ASSUME NEW d \in Deletions, Destroy(d) PROVE ActiveIsNamed'
  BY <1>18 DEF Destroy, rowVars, checkVars, DeletionStep, Retry, Fault, TypeOK, RowType,
     CloudType, ProvType, DelType, CheckType, Made, AddressedIsNamed, ActiveIsNamed
<1>19. ASSUME NEW d \in Deletions, SoftDelete(d) PROVE ActiveIsNamed'
  BY <1>19 DEF SoftDelete, checkVars, DeletionStep, Retry, Fault, TypeOK, RowType, CloudType,
     ProvType, DelType, CheckType, Made, AddressedIsNamed, ActiveIsNamed
<1>20. ASSUME NEW d \in Deletions, Rescue(d) PROVE ActiveIsNamed'
  BY <1>20 DEF Rescue, rowVars, checkVars, ActiveIsNamed
<1>21. CASE StartCheck
  BY <1>21 DEF StartCheck, rowVars, delVars, ActiveIsNamed
<1>22. ASSUME NEW w \in Workers, Probe(w) PROVE ActiveIsNamed'
  BY <1>22 DEF Probe, rowVars, delVars, ActiveIsNamed
<1>23. CASE Report
  BY <1>23 DEF Report, delVars, Fault, TypeOK, RowType, CloudType, ProvType, DelType,
     CheckType, Made, AddressedIsNamed, ActiveIsNamed
<1>24. CASE EndCheck
  BY <1>24 DEF EndCheck, rowVars, delVars, ActiveIsNamed
<1>25. CASE Crash
  BY <1>25 DEF Crash, rowVars, ActiveIsNamed
<1>26. CASE UNCHANGED vars
  BY <1>26 DEF vars, rowVars, delVars, checkVars, ActiveIsNamed
<1>. QED
  BY <1>1, <1>2, <1>3, <1>4, <1>5, <1>6, <1>7, <1>8, <1>9, <1>10, <1>11, <1>12, <1>13, <1>14,
     <1>15, <1>16, <1>17, <1>18, <1>19, <1>20, <1>21, <1>22, <1>23, <1>24, <1>25, <1>26
  DEF Next, Provision, ProvisionWork, Delete, DeleteWork, HealthCheck, CheckWork

\* What a deletion destroyed stays destroyed.
LEMMA DestroyedKept == ASSUME TypeOK, NamedIsMade, Destroyed, [Next]_vars PROVE Destroyed'
<1>1. ASSUME NEW w \in Workers, CreateResource(w) PROVE Destroyed'
  BY <1>1 DEF CreateResource, delVars, checkVars, Destroyed
<1>2. ASSUME NEW w \in Workers, InsertProvisionJob(w) PROVE Destroyed'
  BY <1>2 DEF InsertProvisionJob, rowVars, delVars, checkVars, Destroyed
<1>3. ASSUME NEW w \in Workers, StartProvision(w) PROVE Destroyed'
  BY <1>3 DEF StartProvision, rowVars, delVars, checkVars, Destroyed
<1>4. ASSUME NEW w \in Workers, CreateFails(w) PROVE Destroyed'
  BY <1>4 DEF CreateFails, delVars, checkVars, ProvisionStep, MarkFailed, Fault, TypeOK,
     RowType, CloudType, ProvType, DelType, NamedIsMade, Destroyed
<1>5. ASSUME NEW w \in Workers, CreateWorker(w) PROVE Destroyed'
  BY <1>5 DEF CreateWorker, rowVars, delVars, checkVars, ProvisionStep, TypeOK, RowType,
     CloudType, ProvType, DelType, NamedIsMade, Destroyed
<1>6. ASSUME NEW w \in Workers, IPAssigned(w) PROVE Destroyed'
  BY <1>6 DEF IPAssigned, rowVars, delVars, checkVars, Destroyed
<1>7. ASSUME NEW w \in Workers, IPTimeout(w) PROVE Destroyed'
  BY <1>7 DEF IPTimeout, delVars, checkVars, MarkFailed, Destroyed
<1>8. ASSUME NEW w \in Workers, Persist(w) PROVE Destroyed'
  BY <1>8 DEF Persist, delVars, checkVars, Destroyed
<1>9. ASSUME NEW w \in Workers, SSHReady(w) PROVE Destroyed'
  BY <1>9 DEF SSHReady, rowVars, delVars, checkVars, Destroyed
<1>10. ASSUME NEW w \in Workers, SSHTimeout(w) PROVE Destroyed'
  BY <1>10 DEF SSHTimeout, delVars, checkVars, MarkFailed, Destroyed
<1>11. ASSUME NEW w \in Workers, Finish(w) PROVE Destroyed'
  BY <1>11 DEF Finish, delVars, checkVars, Destroyed
<1>12. ASSUME NEW w \in Workers, CleanUp(w) PROVE Destroyed'
  BY <1>12 DEF CleanUp, rowVars, delVars, checkVars, ProvisionStep, Fault, TypeOK, RowType,
     CloudType, ProvType, DelType, NamedIsMade, Destroyed
<1>13. ASSUME NEW w \in Workers, Boots(w) PROVE Destroyed'
  BY <1>13 DEF Boots, rowVars, delVars, checkVars, TypeOK, RowType, CloudType, ProvType,
     DelType, NamedIsMade, Destroyed
<1>14. ASSUME NEW d \in Deletions, NEW w \in Workers, GetResource(d, w) PROVE Destroyed'
  BY <1>14 DEF GetResource, rowVars, checkVars, DeletionStep, SetIn, TypeOK, RowType,
     CloudType, ProvType, DelType, NamedIsMade, Destroyed
<1>15. ASSUME NEW d \in Deletions, MarkDeleting(d) PROVE Destroyed'
  BY <1>15 DEF MarkDeleting, checkVars, DeletionStep, SetIn, Fault, TypeOK, RowType,
     CloudType, ProvType, DelType, NamedIsMade, Destroyed
<1>16. ASSUME NEW d \in Deletions, InsertDeleteJob(d) PROVE Destroyed'
  BY <1>16 DEF InsertDeleteJob, rowVars, checkVars, DeletionStep, Fault, TypeOK, RowType,
     CloudType, ProvType, DelType, NamedIsMade, Destroyed
<1>17. ASSUME NEW d \in Deletions, StartDeletion(d) PROVE Destroyed'
  BY <1>17 DEF StartDeletion, rowVars, checkVars, DeletionStep, TypeOK, RowType, CloudType,
     ProvType, DelType, NamedIsMade, Destroyed
<1>18. ASSUME NEW d \in Deletions, Destroy(d) PROVE Destroyed'
  BY <1>18 DEF Destroy, rowVars, checkVars, DeletionStep, Retry, Fault, TypeOK, RowType,
     CloudType, ProvType, DelType, NamedIsMade, Destroyed
<1>19. ASSUME NEW d \in Deletions, SoftDelete(d) PROVE Destroyed'
  BY <1>19 DEF SoftDelete, checkVars, DeletionStep, Retry, Fault, TypeOK, RowType, CloudType,
     ProvType, DelType, NamedIsMade, Destroyed
<1>20. ASSUME NEW d \in Deletions, Rescue(d) PROVE Destroyed'
  BY <1>20 DEF Rescue, rowVars, checkVars, Retry, TypeOK, RowType, CloudType, ProvType,
     DelType, NamedIsMade, Destroyed
<1>21. CASE StartCheck
  BY <1>21 DEF StartCheck, rowVars, delVars, Destroyed
<1>22. ASSUME NEW w \in Workers, Probe(w) PROVE Destroyed'
  BY <1>22 DEF Probe, rowVars, delVars, Destroyed
<1>23. CASE Report
  BY <1>23 DEF Report, delVars, Destroyed
<1>24. CASE EndCheck
  BY <1>24 DEF EndCheck, rowVars, delVars, Destroyed
<1>25. CASE Crash
  BY <1>25 DEF Crash, rowVars, Provisioning, Deleting, TypeOK, RowType, CloudType, ProvType,
     DelType, NamedIsMade, Destroyed
<1>26. CASE UNCHANGED vars
  BY <1>26 DEF vars, rowVars, delVars, checkVars, Destroyed
<1>. QED
  BY <1>1, <1>2, <1>3, <1>4, <1>5, <1>6, <1>7, <1>8, <1>9, <1>10, <1>11, <1>12, <1>13, <1>14,
     <1>15, <1>16, <1>17, <1>18, <1>19, <1>20, <1>21, <1>22, <1>23, <1>24, <1>25, <1>26
  DEF Next, Provision, ProvisionWork, Delete, DeleteWork, HealthCheck, CheckWork

\* No row goes back to provisioning.
LEMMA MarkedKept == ASSUME TypeOK, Marked, [Next]_vars PROVE Marked'
<1>1. ASSUME NEW w \in Workers, CreateResource(w) PROVE Marked'
  BY <1>1 DEF CreateResource, delVars, checkVars, ProvisionStep, TypeOK, RowType, ProvType,
     DelType, CheckType, Marked
<1>2. ASSUME NEW w \in Workers, InsertProvisionJob(w) PROVE Marked'
  BY <1>2 DEF InsertProvisionJob, rowVars, delVars, checkVars, ProvisionStep, Fault, TypeOK,
     RowType, ProvType, DelType, CheckType, Marked
<1>3. ASSUME NEW w \in Workers, StartProvision(w) PROVE Marked'
  BY <1>3 DEF StartProvision, rowVars, delVars, checkVars, ProvisionStep, TypeOK, RowType,
     ProvType, DelType, CheckType, Marked
<1>4. ASSUME NEW w \in Workers, CreateFails(w) PROVE Marked'
  BY <1>4 DEF CreateFails, delVars, checkVars, ProvisionStep, MarkFailed, Fault, TypeOK,
     RowType, ProvType, DelType, CheckType, Marked
<1>5. ASSUME NEW w \in Workers, CreateWorker(w) PROVE Marked'
  BY <1>5 DEF CreateWorker, rowVars, delVars, checkVars, ProvisionStep, TypeOK, RowType,
     ProvType, DelType, CheckType, Marked
<1>6. ASSUME NEW w \in Workers, IPAssigned(w) PROVE Marked'
  BY <1>6 DEF IPAssigned, rowVars, delVars, checkVars, ProvisionStep, TypeOK, RowType,
     ProvType, DelType, CheckType, Marked
<1>7. ASSUME NEW w \in Workers, IPTimeout(w) PROVE Marked'
  BY <1>7 DEF IPTimeout, delVars, checkVars, ProvisionStep, MarkFailed, Fault, TypeOK,
     RowType, ProvType, DelType, CheckType, Marked
<1>8. ASSUME NEW w \in Workers, Persist(w) PROVE Marked'
  BY <1>8 DEF Persist, delVars, checkVars, ProvisionStep, Fault, TypeOK, RowType, ProvType,
     DelType, CheckType, Marked
<1>9. ASSUME NEW w \in Workers, SSHReady(w) PROVE Marked'
  BY <1>9 DEF SSHReady, rowVars, delVars, checkVars, ProvisionStep, TypeOK, RowType, ProvType,
     DelType, CheckType, Marked
<1>10. ASSUME NEW w \in Workers, SSHTimeout(w) PROVE Marked'
  BY <1>10 DEF SSHTimeout, delVars, checkVars, ProvisionStep, MarkFailed, Fault, TypeOK,
     RowType, ProvType, DelType, CheckType, Marked
<1>11. ASSUME NEW w \in Workers, Finish(w) PROVE Marked'
  BY <1>11 DEF Finish, delVars, checkVars, Fault, TypeOK, RowType, ProvType, DelType,
     CheckType, Marked
<1>12. ASSUME NEW w \in Workers, CleanUp(w) PROVE Marked'
  BY <1>12 DEF CleanUp, rowVars, delVars, checkVars, ProvisionStep, Fault, TypeOK, RowType,
     ProvType, DelType, CheckType, Marked
<1>13. ASSUME NEW w \in Workers, Boots(w) PROVE Marked'
  BY <1>13 DEF Boots, rowVars, delVars, checkVars, Marked
<1>14. ASSUME NEW d \in Deletions, NEW w \in Workers, GetResource(d, w) PROVE Marked'
  BY <1>14 DEF GetResource, rowVars, checkVars, DeletionStep, SetIn, TypeOK, RowType,
     ProvType, DelType, CheckType, Marked
<1>15. ASSUME NEW d \in Deletions, MarkDeleting(d) PROVE Marked'
  BY <1>15 DEF MarkDeleting, checkVars, DeletionStep, SetIn, Fault, TypeOK, RowType, ProvType,
     DelType, CheckType, Marked
<1>16. ASSUME NEW d \in Deletions, InsertDeleteJob(d) PROVE Marked'
  BY <1>16 DEF InsertDeleteJob, rowVars, checkVars, DeletionStep, Fault, TypeOK, RowType,
     ProvType, DelType, CheckType, Marked
<1>17. ASSUME NEW d \in Deletions, StartDeletion(d) PROVE Marked'
  BY <1>17 DEF StartDeletion, rowVars, checkVars, DeletionStep, TypeOK, RowType, ProvType,
     DelType, CheckType, Marked
<1>18. ASSUME NEW d \in Deletions, Destroy(d) PROVE Marked'
  BY <1>18 DEF Destroy, rowVars, checkVars, DeletionStep, Retry, Fault, TypeOK, RowType,
     ProvType, DelType, CheckType, Marked
<1>19. ASSUME NEW d \in Deletions, SoftDelete(d) PROVE Marked'
  BY <1>19 DEF SoftDelete, checkVars, DeletionStep, Retry, Fault, TypeOK, RowType, ProvType,
     DelType, CheckType, Marked
<1>20. ASSUME NEW d \in Deletions, Rescue(d) PROVE Marked'
  BY <1>20 DEF Rescue, rowVars, checkVars, Retry, TypeOK, RowType, ProvType, DelType,
     CheckType, Marked
<1>21. CASE StartCheck
  BY <1>21 DEF StartCheck, rowVars, delVars, Marked
<1>22. ASSUME NEW w \in Workers, Probe(w) PROVE Marked'
  BY <1>22 DEF Probe, rowVars, delVars, Marked
<1>23. CASE Report
  BY <1>23 DEF Report, delVars, Fault, TypeOK, RowType, ProvType, DelType, CheckType, Marked
<1>24. CASE EndCheck
  BY <1>24 DEF EndCheck, rowVars, delVars, Marked
<1>25. CASE Crash
  BY <1>25 DEF Crash, rowVars, Provisioning, Deleting, TypeOK, RowType, ProvType, DelType,
     CheckType, Marked
<1>26. CASE UNCHANGED vars
  BY <1>26 DEF vars, rowVars, delVars, checkVars, Marked
<1>. QED
  BY <1>1, <1>2, <1>3, <1>4, <1>5, <1>6, <1>7, <1>8, <1>9, <1>10, <1>11, <1>12, <1>13, <1>14,
     <1>15, <1>16, <1>17, <1>18, <1>19, <1>20, <1>21, <1>22, <1>23, <1>24, <1>25, <1>26
  DEF Next, Provision, ProvisionWork, Delete, DeleteWork, HealthCheck, CheckWork

\* Every way out of a provisioning says what became of the row.
LEMMA ProvisioningSettlesKept == ASSUME TypeOK, Marked, ProvisioningSettles, [Next]_vars PROVE
   ProvisioningSettles'
<1>1. ASSUME NEW w \in Workers, CreateResource(w) PROVE ProvisioningSettles'
  BY <1>1 DEF CreateResource, delVars, checkVars, ProvisionStep, TypeOK, RowType, ProvType,
     DelType, CheckType, EnvType, Marked, ProvisioningSettles
<1>2. ASSUME NEW w \in Workers, InsertProvisionJob(w) PROVE ProvisioningSettles'
  BY <1>2 DEF InsertProvisionJob, rowVars, delVars, checkVars, ProvisionStep, Fault, TypeOK,
     RowType, ProvType, DelType, CheckType, EnvType, Marked, ProvisioningSettles
<1>3. ASSUME NEW w \in Workers, StartProvision(w) PROVE ProvisioningSettles'
  BY <1>3 DEF StartProvision, rowVars, delVars, checkVars, ProvisionStep, TypeOK, RowType,
     ProvType, DelType, CheckType, EnvType, Marked, ProvisioningSettles
<1>4. ASSUME NEW w \in Workers, CreateFails(w) PROVE ProvisioningSettles'
  BY <1>4 DEF CreateFails, delVars, checkVars, ProvisionStep, MarkFailed, Fault, TypeOK,
     RowType, ProvType, DelType, CheckType, EnvType, Marked, ProvisioningSettles
<1>5. ASSUME NEW w \in Workers, CreateWorker(w) PROVE ProvisioningSettles'
  BY <1>5 DEF CreateWorker, rowVars, delVars, checkVars, ProvisionStep, TypeOK, RowType,
     ProvType, DelType, CheckType, EnvType, Marked, ProvisioningSettles
<1>6. ASSUME NEW w \in Workers, IPAssigned(w) PROVE ProvisioningSettles'
  BY <1>6 DEF IPAssigned, rowVars, delVars, checkVars, ProvisionStep, TypeOK, RowType,
     ProvType, DelType, CheckType, EnvType, Marked, ProvisioningSettles
<1>7. ASSUME NEW w \in Workers, IPTimeout(w) PROVE ProvisioningSettles'
  BY <1>7 DEF IPTimeout, delVars, checkVars, ProvisionStep, MarkFailed, Fault, TypeOK,
     RowType, ProvType, DelType, CheckType, EnvType, Marked, ProvisioningSettles
<1>8. ASSUME NEW w \in Workers, Persist(w) PROVE ProvisioningSettles'
  BY <1>8 DEF Persist, delVars, checkVars, ProvisionStep, Fault, TypeOK, RowType, ProvType,
     DelType, CheckType, EnvType, Marked, ProvisioningSettles
<1>9. ASSUME NEW w \in Workers, SSHReady(w) PROVE ProvisioningSettles'
  BY <1>9 DEF SSHReady, rowVars, delVars, checkVars, ProvisionStep, TypeOK, RowType, ProvType,
     DelType, CheckType, EnvType, Marked, ProvisioningSettles
<1>10. ASSUME NEW w \in Workers, SSHTimeout(w) PROVE ProvisioningSettles'
  BY <1>10 DEF SSHTimeout, delVars, checkVars, ProvisionStep, MarkFailed, Fault, TypeOK,
     RowType, ProvType, DelType, CheckType, EnvType, Marked, ProvisioningSettles
<1>11. ASSUME NEW w \in Workers, Finish(w) PROVE ProvisioningSettles'
  BY <1>11 DEF Finish, delVars, checkVars, Fault, TypeOK, RowType, ProvType, DelType,
     CheckType, EnvType, Marked, ProvisioningSettles
<1>12. ASSUME NEW w \in Workers, CleanUp(w) PROVE ProvisioningSettles'
  BY <1>12 DEF CleanUp, rowVars, delVars, checkVars, ProvisionStep, Fault, TypeOK, RowType,
     ProvType, DelType, CheckType, EnvType, Marked, ProvisioningSettles
<1>13. ASSUME NEW w \in Workers, Boots(w) PROVE ProvisioningSettles'
  BY <1>13 DEF Boots, rowVars, delVars, checkVars, ProvisioningSettles
<1>14. ASSUME NEW d \in Deletions, NEW w \in Workers, GetResource(d, w) PROVE ProvisioningSettles'
  BY <1>14 DEF GetResource, rowVars, checkVars, ProvisioningSettles
<1>15. ASSUME NEW d \in Deletions, MarkDeleting(d) PROVE ProvisioningSettles'
  BY <1>15 DEF MarkDeleting, checkVars, DeletionStep, SetIn, Fault, TypeOK, RowType, ProvType,
     DelType, CheckType, EnvType, Marked, ProvisioningSettles
<1>16. ASSUME NEW d \in Deletions, InsertDeleteJob(d) PROVE ProvisioningSettles'
  BY <1>16 DEF InsertDeleteJob, rowVars, checkVars, DeletionStep, Fault, TypeOK, RowType,
     ProvType, DelType, CheckType, EnvType, Marked, ProvisioningSettles
<1>17. ASSUME NEW d \in Deletions, StartDeletion(d) PROVE ProvisioningSettles'
  BY <1>17 DEF StartDeletion, rowVars, checkVars, ProvisioningSettles
<1>18. ASSUME NEW d \in Deletions, Destroy(d) PROVE ProvisioningSettles'
  BY <1>18 DEF Destroy, rowVars, checkVars, DeletionStep, Retry, Fault, TypeOK, RowType,
     ProvType, DelType, CheckType, EnvType, Marked, ProvisioningSettles
<1>19. ASSUME NEW d \in Deletions, SoftDelete(d) PROVE ProvisioningSettles'
  BY <1>19 DEF SoftDelete, checkVars, DeletionStep, Retry, Fault, TypeOK, RowType, ProvType,
     DelType, CheckType, EnvType, Marked, ProvisioningSettles
<1>20. ASSUME NEW d \in Deletions, Rescue(d) PROVE ProvisioningSettles'
  BY <1>20 DEF Rescue, rowVars, checkVars, ProvisioningSettles
<1>21. CASE StartCheck
  BY <1>21 DEF StartCheck, rowVars, delVars, ProvisioningSettles
<1>22. ASSUME NEW w \in Workers, Probe(w) PROVE ProvisioningSettles'
  BY <1>22 DEF Probe, rowVars, delVars, ProvisioningSettles
<1>23. CASE Report
  BY <1>23 DEF Report, delVars, Fault, TypeOK, RowType, ProvType, DelType, CheckType, EnvType,
     Marked, ProvisioningSettles
<1>24. CASE EndCheck
  BY <1>24 DEF EndCheck, rowVars, delVars, ProvisioningSettles
<1>25. CASE Crash
  BY <1>25 DEF Crash, rowVars, Provisioning, Deleting, TypeOK, RowType, ProvType, DelType,
     CheckType, EnvType, Marked, ProvisioningSettles
<1>26. CASE UNCHANGED vars
  BY <1>26 DEF vars, rowVars, delVars, checkVars, ProvisioningSettles
<1>. QED
  BY <1>1, <1>2, <1>3, <1>4, <1>5, <1>6, <1>7, <1>8, <1>9, <1>10, <1>11, <1>12, <1>13, <1>14,
     <1>15, <1>16, <1>17, <1>18, <1>19, <1>20, <1>21, <1>22, <1>23, <1>24, <1>25, <1>26
  DEF Next, Provision, ProvisionWork, Delete, DeleteWork, HealthCheck, CheckWork

\* A marked row's provisioning destroys what it made.
LEMMA RaceIsGuardedKept == ASSUME TypeOK, Marked, ProvisioningSettles, RaceIsGuarded,
   [Next]_vars PROVE RaceIsGuarded'
<1>1. ASSUME NEW w \in Workers, CreateResource(w) PROVE RaceIsGuarded'
  BY <1>1 DEF CreateResource, delVars, checkVars, ProvisionStep, TypeOK, RowType, CloudType,
     ProvType, DelType, EnvType, Marked, ProvisioningSettles, RaceIsGuarded
<1>2. ASSUME NEW w \in Workers, InsertProvisionJob(w) PROVE RaceIsGuarded'
  BY <1>2 DEF InsertProvisionJob, rowVars, delVars, checkVars, ProvisionStep, Fault, TypeOK,
     RowType, CloudType, ProvType, DelType, EnvType, Marked, ProvisioningSettles,
     RaceIsGuarded
<1>3. ASSUME NEW w \in Workers, StartProvision(w) PROVE RaceIsGuarded'
  BY <1>3 DEF StartProvision, rowVars, delVars, checkVars, ProvisionStep, TypeOK, RowType,
     CloudType, ProvType, DelType, EnvType, Marked, ProvisioningSettles, RaceIsGuarded
<1>4. ASSUME NEW w \in Workers, CreateFails(w) PROVE RaceIsGuarded'
  BY <1>4 DEF CreateFails, delVars, checkVars, ProvisionStep, MarkFailed, Fault, TypeOK,
     RowType, CloudType, ProvType, DelType, EnvType, Marked, ProvisioningSettles,
     RaceIsGuarded
<1>5. ASSUME NEW w \in Workers, CreateWorker(w) PROVE RaceIsGuarded'
  BY <1>5 DEF CreateWorker, rowVars, delVars, checkVars, ProvisionStep, TypeOK, RowType,
     CloudType, ProvType, DelType, EnvType, Marked, ProvisioningSettles, RaceIsGuarded
<1>6. ASSUME NEW w \in Workers, IPAssigned(w) PROVE RaceIsGuarded'
  BY <1>6 DEF IPAssigned, rowVars, delVars, checkVars, ProvisionStep, TypeOK, RowType,
     CloudType, ProvType, DelType, EnvType, Marked, ProvisioningSettles, RaceIsGuarded
<1>7. ASSUME NEW w \in Workers, IPTimeout(w) PROVE RaceIsGuarded'
  BY <1>7 DEF IPTimeout, delVars, checkVars, ProvisionStep, MarkFailed, Fault, TypeOK,
     RowType, CloudType, ProvType, DelType, EnvType, Marked, ProvisioningSettles,
     RaceIsGuarded
<1>8. ASSUME NEW w \in Workers, Persist(w) PROVE RaceIsGuarded'
  BY <1>8 DEF Persist, delVars, checkVars, ProvisionStep, Fault, TypeOK, RowType, CloudType,
     ProvType, DelType, EnvType, Marked, ProvisioningSettles, RaceIsGuarded
<1>9. ASSUME NEW w \in Workers, SSHReady(w) PROVE RaceIsGuarded'
  BY <1>9 DEF SSHReady, rowVars, delVars, checkVars, ProvisionStep, TypeOK, RowType,
     CloudType, ProvType, DelType, EnvType, Marked, ProvisioningSettles, RaceIsGuarded
<1>10. ASSUME NEW w \in Workers, SSHTimeout(w) PROVE RaceIsGuarded'
  BY <1>10 DEF SSHTimeout, delVars, checkVars, ProvisionStep, MarkFailed, Fault, TypeOK,
     RowType, CloudType, ProvType, DelType, EnvType, Marked, ProvisioningSettles,
     RaceIsGuarded
<1>11. ASSUME NEW w \in Workers, Finish(w) PROVE RaceIsGuarded'
  BY <1>11 DEF Finish, delVars, checkVars, Fault, TypeOK, RowType, CloudType, ProvType,
     DelType, EnvType, Marked, ProvisioningSettles, RaceIsGuarded
<1>12. ASSUME NEW w \in Workers, CleanUp(w) PROVE RaceIsGuarded'
  BY <1>12 DEF CleanUp, rowVars, delVars, checkVars, ProvisionStep, Fault, TypeOK, RowType,
     CloudType, ProvType, DelType, EnvType, Marked, ProvisioningSettles, RaceIsGuarded
<1>13. ASSUME NEW w \in Workers, Boots(w) PROVE RaceIsGuarded'
  BY <1>13 DEF Boots, rowVars, delVars, checkVars, TypeOK, RowType, CloudType, ProvType,
     DelType, EnvType, Marked, ProvisioningSettles, RaceIsGuarded
<1>14. ASSUME NEW d \in Deletions, NEW w \in Workers, GetResource(d, w) PROVE RaceIsGuarded'
  BY <1>14 DEF GetResource, rowVars, checkVars, DeletionStep, SetIn, TypeOK, RowType,
     CloudType, ProvType, DelType, EnvType, Marked, ProvisioningSettles, RaceIsGuarded
<1>15. ASSUME NEW d \in Deletions, MarkDeleting(d) PROVE RaceIsGuarded'
  BY <1>15 DEF MarkDeleting, checkVars, DeletionStep, SetIn, Fault, TypeOK, RowType,
     CloudType, ProvType, DelType, EnvType, Marked, ProvisioningSettles, RaceIsGuarded
<1>16. ASSUME NEW d \in Deletions, InsertDeleteJob(d) PROVE RaceIsGuarded'
  BY <1>16 DEF InsertDeleteJob, rowVars, checkVars, DeletionStep, Fault, TypeOK, RowType,
     CloudType, ProvType, DelType, EnvType, Marked, ProvisioningSettles, RaceIsGuarded
<1>17. ASSUME NEW d \in Deletions, StartDeletion(d) PROVE RaceIsGuarded'
  BY <1>17 DEF StartDeletion, rowVars, checkVars, RaceIsGuarded
<1>18. ASSUME NEW d \in Deletions, Destroy(d) PROVE RaceIsGuarded'
  BY <1>18 DEF Destroy, rowVars, checkVars, DeletionStep, Retry, Fault, TypeOK, RowType,
     CloudType, ProvType, DelType, EnvType, Marked, ProvisioningSettles, RaceIsGuarded
<1>19. ASSUME NEW d \in Deletions, SoftDelete(d) PROVE RaceIsGuarded'
  BY <1>19 DEF SoftDelete, checkVars, DeletionStep, Retry, Fault, TypeOK, RowType, CloudType,
     ProvType, DelType, EnvType, Marked, ProvisioningSettles, RaceIsGuarded
<1>20. ASSUME NEW d \in Deletions, Rescue(d) PROVE RaceIsGuarded'
  BY <1>20 DEF Rescue, rowVars, checkVars, RaceIsGuarded
<1>21. CASE StartCheck
  BY <1>21 DEF StartCheck, rowVars, delVars, RaceIsGuarded
<1>22. ASSUME NEW w \in Workers, Probe(w) PROVE RaceIsGuarded'
  BY <1>22 DEF Probe, rowVars, delVars, RaceIsGuarded
<1>23. CASE Report
  BY <1>23 DEF Report, delVars, Fault, TypeOK, RowType, CloudType, ProvType, DelType, EnvType,
     Marked, ProvisioningSettles, RaceIsGuarded
<1>24. CASE EndCheck
  BY <1>24 DEF EndCheck, rowVars, delVars, RaceIsGuarded
<1>25. CASE Crash
  BY <1>25 DEF Crash, rowVars, Provisioning, Deleting, TypeOK, RowType, CloudType, ProvType,
     DelType, EnvType, Marked, ProvisioningSettles, RaceIsGuarded
<1>26. CASE UNCHANGED vars
  BY <1>26 DEF vars, rowVars, delVars, checkVars, RaceIsGuarded
<1>. QED
  BY <1>1, <1>2, <1>3, <1>4, <1>5, <1>6, <1>7, <1>8, <1>9, <1>10, <1>11, <1>12, <1>13, <1>14,
     <1>15, <1>16, <1>17, <1>18, <1>19, <1>20, <1>21, <1>22, <1>23, <1>24, <1>25, <1>26
  DEF Next, Provision, ProvisionWork, Delete, DeleteWork, HealthCheck, CheckWork

-----------------------------------------------------------------------------
\* The invariant holds at first: nothing was added.
LEMMA InitIInv == Init => IInv
<1>. SUFFICES ASSUME Init PROVE IInv
  OBVIOUS
<1>1. TypeOK /\ Retriable
  BY QueueBounds, EnvironmentBounds
  DEF Init, TypeOK, RowType, CloudType, ProvType, DelType, TriesType, CheckType, EnvType, Retriable
<1>2. Made /\ AddressedIsNamed /\ NamedIsMade /\ ActiveIsNamed
  BY DEF Init, Made, AddressedIsNamed, NamedIsMade, ActiveIsNamed
<1>3. Destroyed /\ Marked /\ ProvisioningSettles /\ RaceIsGuarded
  BY DEF Init, Destroyed, Marked, ProvisioningSettles, RaceIsGuarded
<1>. QED
  BY <1>1, <1>2, <1>3 DEF IInv

\* Every step keeps it.
LEMMA NextIInv == IInv /\ [Next]_vars => IInv'
<1>. SUFFICES ASSUME IInv, [Next]_vars PROVE IInv'
  OBVIOUS
<1>0. /\ TypeOK /\ Retriable
      /\ Made /\ AddressedIsNamed /\ NamedIsMade /\ ActiveIsNamed
      /\ Destroyed /\ Marked /\ ProvisioningSettles /\ RaceIsGuarded
  BY DEF IInv
<1>1. TypeOK'
  <2>1. RowType' /\ CloudType' /\ ProvType' /\ DelType'
    BY <1>0, RowTypeKept, CloudTypeKept, ProvTypeKept, DelTypeKept
  <2>2. TriesType' /\ CheckType' /\ EnvType'
    BY <1>0, TriesKept, CheckTypeKept, EnvTypeKept
  <2>. QED
    BY <2>1, <2>2 DEF TypeOK
<1>2. Retriable'
  BY <1>0, TriesKept
<1>3. Made' /\ AddressedIsNamed' /\ NamedIsMade' /\ ActiveIsNamed'
  BY <1>0, MadeKept, AddressedIsNamedKept, NamedIsMadeKept, ActiveIsNamedKept
<1>4. Destroyed' /\ Marked' /\ ProvisioningSettles' /\ RaceIsGuarded'
  BY <1>0, DestroyedKept, MarkedKept, ProvisioningSettlesKept, RaceIsGuardedKept
<1>. QED
  BY <1>1, <1>2, <1>3, <1>4 DEF IInv

\* So it always holds.
LEMMA Invariance == Spec => []IInv
<1>. QED
  BY InitIInv, NextIInv, PTL DEF Spec

-----------------------------------------------------------------------------
\* Every variable keeps its type, and a delete job is tried MaxAttempts times at most,
\* whatever is retried and rescued (WorkerDeleteArgs.InsertOpts).
THEOREM TypeCorrect == Spec => []TypeOK
<1>. QED
  BY Invariance, PTL DEF IInv

\* What the pages show as active can be deleted: the row has its machine's id, although
\* the health check writes rows a provisioning still works on (worker_jobs.go:209-216).
THEOREM ActiveCanBeDeleted == Spec => []ActiveIsNamed
<1>. QED
  BY Invariance, PTL DEF IInv

\* A completed deletion that knew its machine left none, through failures, retries and
\* crashes, and whatever else was done to its row (worker_jobs.go:393-403).
THEOREM DeletionsDestroy == Spec => []DeletionDestroys
<1>1. IInv => DeletionDestroys
  BY DEF IInv, Destroyed, DeletionDestroys
<1>. QED
  BY Invariance, <1>1, PTL

\* A machine whose row was marked before its provisioning was over is destroyed by that
\* provisioning if the deletion could not (worker_jobs.go:251-267).
THEOREM RaceGuarded == Spec => []RaceIsGuarded
<1>. QED
  BY Invariance, PTL DEF IInv

\* A provisioning that is over has not left its row "provisioning".
THEOREM ProvisioningsSettle == Spec => []ProvisioningSettles
<1>. QED
  BY Invariance, PTL DEF IInv

-----------------------------------------------------------------------------
(* Nothing runs in circles.                                                *)

\* No machine is there before it is made.
Unmade ==
  \A w \in Workers : prov[w] \in {"none", "inserting", "queued", "create"} => machine[w] = "none"

LEMMA UnmadeKept == ASSUME IInv, Unmade, [Next]_vars PROVE Unmade'
<1>0. CloudType /\ ProvType /\ DelType /\ NamedIsMade
  BY DEF IInv, TypeOK
<1>1. ASSUME NEW w \in Workers, CreateResource(w) PROVE Unmade'
  BY <1>1, <1>0 DEF CreateResource, delVars, checkVars, ProvisionStep, CloudType, ProvType,
     Unmade
<1>2. ASSUME NEW w \in Workers, InsertProvisionJob(w) PROVE Unmade'
  BY <1>2, <1>0 DEF InsertProvisionJob, rowVars, delVars, checkVars, ProvisionStep,
     CloudType, ProvType, Unmade
<1>3. ASSUME NEW w \in Workers, StartProvision(w) PROVE Unmade'
  BY <1>3, <1>0 DEF StartProvision, rowVars, delVars, checkVars, ProvisionStep, CloudType,
     ProvType, Unmade
<1>4. ASSUME NEW w \in Workers, CreateFails(w) PROVE Unmade'
  BY <1>4, <1>0 DEF CreateFails, delVars, checkVars, ProvisionStep, MarkFailed, CloudType,
     ProvType, Unmade
<1>5. ASSUME NEW w \in Workers, CreateWorker(w) PROVE Unmade'
  BY <1>5, <1>0 DEF CreateWorker, rowVars, delVars, checkVars, ProvisionStep, CloudType,
     ProvType, Unmade
<1>6. ASSUME NEW w \in Workers, IPAssigned(w) PROVE Unmade'
  BY <1>6, <1>0 DEF IPAssigned, rowVars, delVars, checkVars, ProvisionStep, CloudType,
     ProvType, Unmade
<1>7. ASSUME NEW w \in Workers, IPTimeout(w) PROVE Unmade'
  BY <1>7, <1>0 DEF IPTimeout, delVars, checkVars, ProvisionStep, MarkFailed, CloudType,
     ProvType, Unmade
<1>8. ASSUME NEW w \in Workers, Persist(w) PROVE Unmade'
  BY <1>8, <1>0 DEF Persist, delVars, checkVars, ProvisionStep, CloudType, ProvType, Unmade
<1>9. ASSUME NEW w \in Workers, SSHReady(w) PROVE Unmade'
  BY <1>9, <1>0 DEF SSHReady, rowVars, delVars, checkVars, ProvisionStep, CloudType,
     ProvType, Unmade
<1>10. ASSUME NEW w \in Workers, SSHTimeout(w) PROVE Unmade'
  BY <1>10, <1>0 DEF SSHTimeout, delVars, checkVars, ProvisionStep, MarkFailed, CloudType,
     ProvType, Unmade
<1>11. ASSUME NEW w \in Workers, Finish(w) PROVE Unmade'
  BY <1>11, <1>0 DEF Finish, delVars, checkVars, CloudType, ProvType, Unmade
<1>12. ASSUME NEW w \in Workers, CleanUp(w) PROVE Unmade'
  BY <1>12, <1>0 DEF CleanUp, rowVars, delVars, checkVars, ProvisionStep, CloudType,
     ProvType, Unmade
<1>13. ASSUME NEW w \in Workers, Boots(w) PROVE Unmade'
  BY <1>13, <1>0 DEF Boots, rowVars, delVars, checkVars, CloudType, ProvType, Unmade
<1>14. ASSUME NEW d \in Deletions, NEW w \in Workers, GetResource(d, w) PROVE Unmade'
  BY <1>14, <1>0 DEF GetResource, rowVars, checkVars, DeletionStep, CloudType, ProvType,
     Unmade
<1>15. ASSUME NEW d \in Deletions, MarkDeleting(d) PROVE Unmade'
  BY <1>15, <1>0 DEF MarkDeleting, checkVars, DeletionStep, CloudType, ProvType, Unmade
<1>16. ASSUME NEW d \in Deletions, InsertDeleteJob(d) PROVE Unmade'
  BY <1>16, <1>0 DEF InsertDeleteJob, rowVars, checkVars, DeletionStep, CloudType, ProvType,
     Unmade
<1>17. ASSUME NEW d \in Deletions, StartDeletion(d) PROVE Unmade'
  BY <1>17, <1>0 DEF StartDeletion, rowVars, checkVars, DeletionStep, CloudType, ProvType,
     Unmade
<1>18. ASSUME NEW d \in Deletions, Destroy(d) PROVE Unmade'
  <2>1. d \in dnamed => prov[drow[d]] \notin {"none", "inserting", "queued", "create"}
    BY <1>0 DEF NamedIsMade
  <2>2. \A w \in Workers : machine'[w] # machine[w] => d \in dnamed /\ w = drow[d]
    BY <1>18, <1>0 DEF Destroy, CloudType
  <2>. QED BY <1>18, <2>1, <2>2 DEF Destroy, Unmade
<1>19. ASSUME NEW d \in Deletions, SoftDelete(d) PROVE Unmade'
  BY <1>19, <1>0 DEF SoftDelete, checkVars, DeletionStep, Retry, CloudType, ProvType, Unmade
<1>20. ASSUME NEW d \in Deletions, Rescue(d) PROVE Unmade'
  BY <1>20, <1>0 DEF Rescue, rowVars, checkVars, Retry, CloudType, ProvType, Unmade
<1>21. CASE StartCheck
  BY <1>21, <1>0 DEF StartCheck, rowVars, delVars, CloudType, ProvType, Unmade
<1>22. ASSUME NEW w \in Workers, Probe(w) PROVE Unmade'
  BY <1>22, <1>0 DEF Probe, rowVars, delVars, CloudType, ProvType, Unmade
<1>23. CASE Report
  BY <1>23, <1>0 DEF Report, delVars, CloudType, ProvType, Unmade
<1>24. CASE EndCheck
  BY <1>24, <1>0 DEF EndCheck, rowVars, delVars, CloudType, ProvType, Unmade
<1>25. CASE Crash
  BY <1>25, <1>0 DEF Crash, rowVars, Provisioning, CloudType, ProvType, Unmade
<1>26. CASE UNCHANGED vars
  BY <1>26, <1>0 DEF vars, rowVars, delVars, checkVars, CloudType, ProvType, Unmade
<1>. QED
  BY <1>1, <1>2, <1>3, <1>4, <1>5, <1>6, <1>7, <1>8, <1>9, <1>10, <1>11, <1>12, <1>13,
     <1>14, <1>15, <1>16, <1>17, <1>18, <1>19, <1>20, <1>21, <1>22, <1>23, <1>24, <1>25,
     <1>26
  DEF Next, Provision, ProvisionWork, Delete, DeleteWork, HealthCheck, CheckWork

LEMMA FleetStages ==
  /\ \A x \in {"none", "starting", "up", "gone"} : MachineStage[x] \in 0..3
  /\ MachineStage["none"] = 0 /\ MachineStage["starting"] = 1
  /\ MachineStage["up"] = 2 /\ MachineStage["gone"] = 3
BY DEF MachineStage

\* How far machines, provisionings and deletions have come: the parts of Advances.
MachinesGoOn == \A w \in Workers : MachineStage[machine'[w]] >= MachineStage[machine[w]]
ProvisioningsGoOn ==
  \A w \in Workers : prov'[w] # prov[w] => ProvisionStage[prov'[w]] > ProvisionStage[prov[w]]
DeletionsGoOn ==
  \A d \in Deletions :
    /\ dpc'[d] # dpc[d] => DeletionEffort(d)' > DeletionEffort(d)
    /\ dpc[d] # "idle" => drow'[d] = drow[d]

LEMMA MachinesAdvance == ASSUME IInv, Unmade, [Next]_vars PROVE MachinesGoOn
<1>0. CloudType /\ ProvType /\ DelType
  BY DEF IInv, TypeOK
<1>a. \A w \in Workers : MachineStage[machine[w]] \in 0..3
  BY <1>0, FleetStages DEF CloudType
<1>b. machine' = machine => MachinesGoOn
  BY <1>a DEF MachinesGoOn
<1>1. ASSUME NEW w \in Workers, CreateResource(w) PROVE MachinesGoOn
  BY <1>1, <1>b DEF CreateResource, delVars, checkVars, ProvisionStep
<1>2. ASSUME NEW w \in Workers, InsertProvisionJob(w) PROVE MachinesGoOn
  BY <1>2, <1>b DEF InsertProvisionJob, rowVars, delVars, checkVars, ProvisionStep
<1>3. ASSUME NEW w \in Workers, StartProvision(w) PROVE MachinesGoOn
  BY <1>3, <1>b DEF StartProvision, rowVars, delVars, checkVars, ProvisionStep
<1>4. ASSUME NEW w \in Workers, CreateFails(w) PROVE MachinesGoOn
  <2>1. machine[w] = "none"
    BY <1>4 DEF CreateFails, ProvisionStep, Unmade
  <2>2. \A v \in Workers : machine'[v] = machine[v] \/ machine[v] = "none"
    BY <1>4, <1>0, <2>1 DEF CreateFails, CloudType
  <2>3. \A v \in Workers : machine'[v] \in {machine[v], "starting"}
    BY <1>4, <1>0 DEF CreateFails, CloudType
  <2>. QED BY <1>a, <2>2, <2>3, FleetStages DEF MachinesGoOn
<1>5. ASSUME NEW w \in Workers, CreateWorker(w) PROVE MachinesGoOn
  <2>1. machine[w] = "none"
    BY <1>5 DEF CreateWorker, ProvisionStep, Unmade
  <2>2. \A v \in Workers : machine'[v] = machine[v] \/ machine[v] = "none"
    BY <1>5, <1>0, <2>1 DEF CreateWorker, CloudType
  <2>3. \A v \in Workers : machine'[v] \in {machine[v], "starting"}
    BY <1>5, <1>0 DEF CreateWorker, CloudType
  <2>. QED BY <1>a, <2>2, <2>3, FleetStages DEF MachinesGoOn
<1>6. ASSUME NEW w \in Workers, IPAssigned(w) PROVE MachinesGoOn
  BY <1>6, <1>b DEF IPAssigned, rowVars, delVars, checkVars, ProvisionStep
<1>7. ASSUME NEW w \in Workers, IPTimeout(w) PROVE MachinesGoOn
  BY <1>7, <1>b DEF IPTimeout, delVars, checkVars, ProvisionStep, MarkFailed
<1>8. ASSUME NEW w \in Workers, Persist(w) PROVE MachinesGoOn
  BY <1>8, <1>b DEF Persist, delVars, checkVars, ProvisionStep
<1>9. ASSUME NEW w \in Workers, SSHReady(w) PROVE MachinesGoOn
  BY <1>9, <1>b DEF SSHReady, rowVars, delVars, checkVars, ProvisionStep
<1>10. ASSUME NEW w \in Workers, SSHTimeout(w) PROVE MachinesGoOn
  BY <1>10, <1>b DEF SSHTimeout, delVars, checkVars, ProvisionStep, MarkFailed
<1>11. ASSUME NEW w \in Workers, Finish(w) PROVE MachinesGoOn
  BY <1>11, <1>b DEF Finish, delVars, checkVars
<1>12. ASSUME NEW w \in Workers, CleanUp(w) PROVE MachinesGoOn
  <2>1. \A v \in Workers : machine'[v] \in {machine[v], "gone"}
    BY <1>12, <1>0 DEF CleanUp, CloudType
  <2>. QED BY <1>a, <2>1, FleetStages DEF MachinesGoOn
<1>13. ASSUME NEW w \in Workers, Boots(w) PROVE MachinesGoOn
  <2>1. \A v \in Workers : machine'[v] = machine[v] \/ (machine[v] = "starting" /\ machine'[v] = "up")
    BY <1>13, <1>0 DEF Boots, CloudType
  <2>. QED BY <1>a, <2>1, FleetStages DEF MachinesGoOn
<1>14. ASSUME NEW d \in Deletions, NEW w \in Workers, GetResource(d, w) PROVE MachinesGoOn
  BY <1>14, <1>b DEF GetResource, rowVars, checkVars, DeletionStep
<1>15. ASSUME NEW d \in Deletions, MarkDeleting(d) PROVE MachinesGoOn
  BY <1>15, <1>b DEF MarkDeleting, checkVars, DeletionStep
<1>16. ASSUME NEW d \in Deletions, InsertDeleteJob(d) PROVE MachinesGoOn
  BY <1>16, <1>b DEF InsertDeleteJob, rowVars, checkVars, DeletionStep
<1>17. ASSUME NEW d \in Deletions, StartDeletion(d) PROVE MachinesGoOn
  BY <1>17, <1>b DEF StartDeletion, rowVars, checkVars, DeletionStep
<1>18. ASSUME NEW d \in Deletions, Destroy(d) PROVE MachinesGoOn
  <2>1. \A v \in Workers : machine'[v] \in {machine[v], "gone"}
    BY <1>18, <1>0 DEF Destroy, CloudType
  <2>. QED BY <1>a, <2>1, FleetStages DEF MachinesGoOn
<1>19. ASSUME NEW d \in Deletions, SoftDelete(d) PROVE MachinesGoOn
  BY <1>19, <1>b DEF SoftDelete, checkVars, DeletionStep, Retry
<1>20. ASSUME NEW d \in Deletions, Rescue(d) PROVE MachinesGoOn
  BY <1>20, <1>b DEF Rescue, rowVars, checkVars, Retry
<1>21. CASE StartCheck
  BY <1>21, <1>b DEF StartCheck, rowVars, delVars
<1>22. ASSUME NEW w \in Workers, Probe(w) PROVE MachinesGoOn
  BY <1>22, <1>b DEF Probe, rowVars, delVars
<1>23. CASE Report
  BY <1>23, <1>b DEF Report, delVars
<1>24. CASE EndCheck
  BY <1>24, <1>b DEF EndCheck, rowVars, delVars
<1>25. CASE Crash
  BY <1>25, <1>b DEF Crash, rowVars
<1>26. CASE UNCHANGED vars
  BY <1>26, <1>b DEF vars, rowVars, delVars, checkVars
<1>. QED
  BY <1>1, <1>2, <1>3, <1>4, <1>5, <1>6, <1>7, <1>8, <1>9, <1>10, <1>11, <1>12, <1>13,
     <1>14, <1>15, <1>16, <1>17, <1>18, <1>19, <1>20, <1>21, <1>22, <1>23, <1>24, <1>25,
     <1>26
  DEF Next, Provision, ProvisionWork, Delete, DeleteWork, HealthCheck, CheckWork

LEMMA ProvisionStages ==
  /\ ProvisionStage["none"] = 0 /\ ProvisionStage["inserting"] = 1 /\ ProvisionStage["queued"] = 2
  /\ ProvisionStage["create"] = 3 /\ ProvisionStage["ip"] = 4 /\ ProvisionStage["persist"] = 5
  /\ ProvisionStage["ssh"] = 6 /\ ProvisionStage["finish"] = 7 /\ ProvisionStage["cleanup"] = 8
  /\ ProvisionStage["done"] = 9 /\ ProvisionStage["failed"] = 9 /\ ProvisionStage["lost"] = 9
BY DEF ProvisionStage

LEMMA ProvisioningsAdvance == ASSUME IInv, [Next]_vars PROVE ProvisioningsGoOn
<1>0. ProvType
  BY DEF IInv, TypeOK
<1>1. ASSUME NEW w \in Workers, CreateResource(w) PROVE ProvisioningsGoOn
  BY <1>1, <1>0, ProvisionStages DEF CreateResource, ProvisionStep, ProvType,
     ProvisioningsGoOn
<1>2. ASSUME NEW w \in Workers, InsertProvisionJob(w) PROVE ProvisioningsGoOn
  BY <1>2, <1>0, ProvisionStages DEF InsertProvisionJob, ProvisionStep, ProvType,
     ProvisioningsGoOn
<1>3. ASSUME NEW w \in Workers, StartProvision(w) PROVE ProvisioningsGoOn
  BY <1>3, <1>0, ProvisionStages DEF StartProvision, ProvisionStep, ProvType,
     ProvisioningsGoOn
<1>4. ASSUME NEW w \in Workers, CreateFails(w) PROVE ProvisioningsGoOn
  BY <1>4, <1>0, ProvisionStages DEF CreateFails, ProvisionStep, ProvType, ProvisioningsGoOn
<1>5. ASSUME NEW w \in Workers, CreateWorker(w) PROVE ProvisioningsGoOn
  BY <1>5, <1>0, ProvisionStages DEF CreateWorker, ProvisionStep, ProvType, ProvisioningsGoOn
<1>6. ASSUME NEW w \in Workers, IPAssigned(w) PROVE ProvisioningsGoOn
  BY <1>6, <1>0, ProvisionStages DEF IPAssigned, ProvisionStep, ProvType, ProvisioningsGoOn
<1>7. ASSUME NEW w \in Workers, IPTimeout(w) PROVE ProvisioningsGoOn
  BY <1>7, <1>0, ProvisionStages DEF IPTimeout, ProvisionStep, ProvType, ProvisioningsGoOn
<1>8. ASSUME NEW w \in Workers, Persist(w) PROVE ProvisioningsGoOn
  BY <1>8, <1>0, ProvisionStages DEF Persist, ProvisionStep, ProvType, ProvisioningsGoOn
<1>9. ASSUME NEW w \in Workers, SSHReady(w) PROVE ProvisioningsGoOn
  BY <1>9, <1>0, ProvisionStages DEF SSHReady, ProvisionStep, ProvType, ProvisioningsGoOn
<1>10. ASSUME NEW w \in Workers, SSHTimeout(w) PROVE ProvisioningsGoOn
  BY <1>10, <1>0, ProvisionStages DEF SSHTimeout, ProvisionStep, ProvType, ProvisioningsGoOn
<1>11. ASSUME NEW w \in Workers, Finish(w) PROVE ProvisioningsGoOn
  BY <1>11, <1>0, ProvisionStages DEF Finish, ProvType, ProvisioningsGoOn
<1>12. ASSUME NEW w \in Workers, CleanUp(w) PROVE ProvisioningsGoOn
  BY <1>12, <1>0, ProvisionStages DEF CleanUp, ProvisionStep, ProvType, ProvisioningsGoOn
<1>13. ASSUME NEW w \in Workers, Boots(w) PROVE ProvisioningsGoOn
  BY <1>13, <1>0 DEF Boots, rowVars, delVars, checkVars, ProvisioningsGoOn
<1>14. ASSUME NEW d \in Deletions, NEW w \in Workers, GetResource(d, w) PROVE ProvisioningsGoOn
  BY <1>14, <1>0 DEF GetResource, rowVars, checkVars, DeletionStep, ProvisioningsGoOn
<1>15. ASSUME NEW d \in Deletions, MarkDeleting(d) PROVE ProvisioningsGoOn
  BY <1>15, <1>0 DEF MarkDeleting, checkVars, DeletionStep, ProvisioningsGoOn
<1>16. ASSUME NEW d \in Deletions, InsertDeleteJob(d) PROVE ProvisioningsGoOn
  BY <1>16, <1>0 DEF InsertDeleteJob, rowVars, checkVars, DeletionStep, ProvisioningsGoOn
<1>17. ASSUME NEW d \in Deletions, StartDeletion(d) PROVE ProvisioningsGoOn
  BY <1>17, <1>0 DEF StartDeletion, rowVars, checkVars, DeletionStep, ProvisioningsGoOn
<1>18. ASSUME NEW d \in Deletions, Destroy(d) PROVE ProvisioningsGoOn
  BY <1>18, <1>0 DEF Destroy, rowVars, checkVars, DeletionStep, Retry, ProvisioningsGoOn
<1>19. ASSUME NEW d \in Deletions, SoftDelete(d) PROVE ProvisioningsGoOn
  BY <1>19, <1>0 DEF SoftDelete, checkVars, DeletionStep, Retry, ProvisioningsGoOn
<1>20. ASSUME NEW d \in Deletions, Rescue(d) PROVE ProvisioningsGoOn
  BY <1>20, <1>0 DEF Rescue, rowVars, checkVars, Retry, ProvisioningsGoOn
<1>21. CASE StartCheck
  BY <1>21, <1>0 DEF StartCheck, rowVars, delVars, ProvisioningsGoOn
<1>22. ASSUME NEW w \in Workers, Probe(w) PROVE ProvisioningsGoOn
  BY <1>22, <1>0 DEF Probe, rowVars, delVars, ProvisioningsGoOn
<1>23. CASE Report
  BY <1>23, <1>0 DEF Report, delVars, ProvisioningsGoOn
<1>24. CASE EndCheck
  BY <1>24, <1>0 DEF EndCheck, rowVars, delVars, ProvisioningsGoOn
<1>25. CASE Crash
  BY <1>25, <1>0, ProvisionStages DEF Crash, Provisioning, ProvType, ProvisioningsGoOn
<1>26. CASE UNCHANGED vars
  BY <1>26, <1>0 DEF vars, rowVars, delVars, checkVars, ProvisioningsGoOn
<1>. QED
  BY <1>1, <1>2, <1>3, <1>4, <1>5, <1>6, <1>7, <1>8, <1>9, <1>10, <1>11, <1>12, <1>13,
     <1>14, <1>15, <1>16, <1>17, <1>18, <1>19, <1>20, <1>21, <1>22, <1>23, <1>24, <1>25,
     <1>26
  DEF Next, Provision, ProvisionWork, Delete, DeleteWork, HealthCheck, CheckWork

LEMMA DeletionStages ==
  /\ DeletionStage["idle"] = 0 /\ DeletionStage["read"] = 1 /\ DeletionStage["marked"] = 2
  /\ DeletionStage["queued"] = 3 /\ DeletionStage["refused"] = 3 /\ DeletionStage["cloud"] = 0
  /\ DeletionStage["soft"] = 1 /\ DeletionStage["stuck"] = 2 /\ DeletionStage["done"] = 3
  /\ DeletionStage["discarded"] = 3
BY DEF DeletionStage

\* A step of one deletion: a later stage of the same attempt, or the next attempt.
LEMMA DeletionForward ==
  ASSUME TypeOK, NEW d \in Deletions, NEW x, dpc' = [dpc EXCEPT ![d] = x],
         \/ tries' = tries /\ DeletionStage[x] > DeletionStage[dpc[d]]
         \/ /\ tries' = [tries EXCEPT ![d] = @ + 1]
            /\ DeletionStage[x] + 4 > DeletionStage[dpc[d]],
         DeletionStage[x] \in Nat, DeletionStage[dpc[d]] \in Nat,
         \A e \in Deletions : dpc[e] # "idle" => drow'[e] = drow[e]
  PROVE  DeletionsGoOn
<1>0. tries \in [Deletions -> 0..MaxAttempts] /\ DOMAIN dpc = Deletions /\ tries[d] \in Nat
  BY QueueBounds DEF TypeOK, TriesType, DelType
<1>1. dpc'[d] = x /\ \A e \in Deletions : e # d => dpc'[e] = dpc[e]
  BY <1>0
<1>2. 4 * tries'[d] + DeletionStage[x] > 4 * tries[d] + DeletionStage[dpc[d]]
  <2>1. CASE tries' = tries /\ DeletionStage[x] > DeletionStage[dpc[d]]
    BY <1>0, <2>1
  <2>2. CASE tries' = [tries EXCEPT ![d] = @ + 1] /\ DeletionStage[x] + 4 > DeletionStage[dpc[d]]
    <3>1. tries'[d] = tries[d] + 1
      BY <1>0, <2>2
    <3>. QED BY <1>0, <2>2, <3>1
  <2>. QED BY <2>1, <2>2
<1>. QED BY <1>1, <1>2 DEF DeletionsGoOn, DeletionEffort

LEMMA DeletionsAdvance == ASSUME IInv, [Next]_vars PROVE DeletionsGoOn
<1>0. TypeOK /\ DelType
  BY DEF IInv, TypeOK
<1>a. dpc' = dpc /\ drow' = drow => DeletionsGoOn
  BY DEF DeletionsGoOn
<1>1. ASSUME NEW w \in Workers, CreateResource(w) PROVE DeletionsGoOn
  BY <1>1, <1>a DEF CreateResource, delVars, checkVars, ProvisionStep
<1>2. ASSUME NEW w \in Workers, InsertProvisionJob(w) PROVE DeletionsGoOn
  BY <1>2, <1>a DEF InsertProvisionJob, rowVars, delVars, checkVars, ProvisionStep
<1>3. ASSUME NEW w \in Workers, StartProvision(w) PROVE DeletionsGoOn
  BY <1>3, <1>a DEF StartProvision, rowVars, delVars, checkVars, ProvisionStep
<1>4. ASSUME NEW w \in Workers, CreateFails(w) PROVE DeletionsGoOn
  BY <1>4, <1>a DEF CreateFails, delVars, checkVars, ProvisionStep, MarkFailed
<1>5. ASSUME NEW w \in Workers, CreateWorker(w) PROVE DeletionsGoOn
  BY <1>5, <1>a DEF CreateWorker, rowVars, delVars, checkVars, ProvisionStep
<1>6. ASSUME NEW w \in Workers, IPAssigned(w) PROVE DeletionsGoOn
  BY <1>6, <1>a DEF IPAssigned, rowVars, delVars, checkVars, ProvisionStep
<1>7. ASSUME NEW w \in Workers, IPTimeout(w) PROVE DeletionsGoOn
  BY <1>7, <1>a DEF IPTimeout, delVars, checkVars, ProvisionStep, MarkFailed
<1>8. ASSUME NEW w \in Workers, Persist(w) PROVE DeletionsGoOn
  BY <1>8, <1>a DEF Persist, delVars, checkVars, ProvisionStep
<1>9. ASSUME NEW w \in Workers, SSHReady(w) PROVE DeletionsGoOn
  BY <1>9, <1>a DEF SSHReady, rowVars, delVars, checkVars, ProvisionStep
<1>10. ASSUME NEW w \in Workers, SSHTimeout(w) PROVE DeletionsGoOn
  BY <1>10, <1>a DEF SSHTimeout, delVars, checkVars, ProvisionStep, MarkFailed
<1>11. ASSUME NEW w \in Workers, Finish(w) PROVE DeletionsGoOn
  BY <1>11, <1>a DEF Finish, delVars, checkVars
<1>12. ASSUME NEW w \in Workers, CleanUp(w) PROVE DeletionsGoOn
  BY <1>12, <1>a DEF CleanUp, rowVars, delVars, checkVars, ProvisionStep
<1>13. ASSUME NEW w \in Workers, Boots(w) PROVE DeletionsGoOn
  BY <1>13, <1>a DEF Boots, rowVars, delVars, checkVars
<1>14. ASSUME NEW d \in Deletions, NEW w \in Workers, GetResource(d, w) PROVE DeletionsGoOn
  <2>1. dpc' = [dpc EXCEPT ![d] = "read"] /\ dpc[d] = "idle" /\ tries' = tries
    BY <1>14 DEF GetResource, DeletionStep
  <2>2. \A e \in Deletions : dpc[e] # "idle" => drow'[e] = drow[e]
    BY <1>14, <1>0, <2>1 DEF GetResource, DelType
  <2>3. /\ DeletionStage["read"] > DeletionStage[dpc[d]]
        /\ DeletionStage["read"] \in Nat /\ DeletionStage[dpc[d]] \in Nat
    BY <2>1, DeletionStages
  <2>. QED BY <1>0, <2>1, <2>2, <2>3, DeletionForward
<1>15. ASSUME NEW d \in Deletions, MarkDeleting(d) PROVE DeletionsGoOn
  <2>1. PICK x \in {"marked", "refused"} : dpc' = [dpc EXCEPT ![d] = x]
    BY <1>15 DEF MarkDeleting, DeletionStep
  <2>2. dpc[d] \in {"read"} /\ drow' = drow /\ tries' = tries
    BY <1>15 DEF MarkDeleting, DeletionStep
  <2>3. /\ DeletionStage[x] > DeletionStage[dpc[d]]
        /\ DeletionStage[x] \in Nat /\ DeletionStage[dpc[d]] \in Nat
    BY <2>2, DeletionStages
  <2>. QED BY <1>0, <2>1, <2>2, <2>3, DeletionForward
<1>16. ASSUME NEW d \in Deletions, InsertDeleteJob(d) PROVE DeletionsGoOn
  <2>1. PICK x \in {"queued", "refused"} : dpc' = [dpc EXCEPT ![d] = x]
    BY <1>16 DEF InsertDeleteJob, DeletionStep
  <2>2. dpc[d] \in {"marked"} /\ drow' = drow /\ tries' = tries
    BY <1>16 DEF InsertDeleteJob, DeletionStep
  <2>3. /\ DeletionStage[x] > DeletionStage[dpc[d]]
        /\ DeletionStage[x] \in Nat /\ DeletionStage[dpc[d]] \in Nat
    BY <2>2, DeletionStages
  <2>. QED BY <1>0, <2>1, <2>2, <2>3, DeletionForward
<1>17. ASSUME NEW d \in Deletions, StartDeletion(d) PROVE DeletionsGoOn
  <2>1. /\ dpc' = [dpc EXCEPT ![d] = "cloud"] /\ dpc[d] = "queued"
        /\ tries' = [tries EXCEPT ![d] = @ + 1] /\ drow' = drow
    BY <1>17 DEF StartDeletion, DeletionStep
  <2>2. /\ DeletionStage["cloud"] + 4 > DeletionStage[dpc[d]]
        /\ DeletionStage["cloud"] \in Nat /\ DeletionStage[dpc[d]] \in Nat
    BY <2>1, DeletionStages
  <2>. QED BY <1>0, <2>1, <2>2, DeletionForward
<1>18. ASSUME NEW d \in Deletions, Destroy(d) PROVE DeletionsGoOn
  <2>1. PICK x \in {"soft", "queued", "discarded"} : dpc' = [dpc EXCEPT ![d] = x]
    BY <1>18 DEF Destroy, DeletionStep, Retry
  <2>2. dpc[d] \in {"cloud"} /\ drow' = drow /\ tries' = tries
    BY <1>18 DEF Destroy, DeletionStep, Retry
  <2>3. /\ DeletionStage[x] > DeletionStage[dpc[d]]
        /\ DeletionStage[x] \in Nat /\ DeletionStage[dpc[d]] \in Nat
    BY <2>2, DeletionStages
  <2>. QED BY <1>0, <2>1, <2>2, <2>3, DeletionForward
<1>19. ASSUME NEW d \in Deletions, SoftDelete(d) PROVE DeletionsGoOn
  <2>1. PICK x \in {"done", "queued", "discarded"} : dpc' = [dpc EXCEPT ![d] = x]
    BY <1>19 DEF SoftDelete, DeletionStep, Retry
  <2>2. dpc[d] \in {"soft"} /\ drow' = drow /\ tries' = tries
    BY <1>19 DEF SoftDelete, DeletionStep, Retry
  <2>3. /\ DeletionStage[x] > DeletionStage[dpc[d]]
        /\ DeletionStage[x] \in Nat /\ DeletionStage[dpc[d]] \in Nat
    BY <2>2, DeletionStages
  <2>. QED BY <1>0, <2>1, <2>2, <2>3, DeletionForward
<1>20. ASSUME NEW d \in Deletions, Rescue(d) PROVE DeletionsGoOn
  <2>1. PICK x \in {"queued", "discarded"} : dpc' = [dpc EXCEPT ![d] = x]
    BY <1>20 DEF Rescue, Retry
  <2>2. dpc[d] \in {"stuck"} /\ drow' = drow /\ tries' = tries
    BY <1>20 DEF Rescue, Retry
  <2>3. /\ DeletionStage[x] > DeletionStage[dpc[d]]
        /\ DeletionStage[x] \in Nat /\ DeletionStage[dpc[d]] \in Nat
    BY <2>2, DeletionStages
  <2>. QED BY <1>0, <2>1, <2>2, <2>3, DeletionForward
<1>21. CASE StartCheck
  BY <1>21, <1>a DEF StartCheck, rowVars, delVars
<1>22. ASSUME NEW w \in Workers, Probe(w) PROVE DeletionsGoOn
  BY <1>22, <1>a DEF Probe, rowVars, delVars
<1>23. CASE Report
  BY <1>23, <1>a DEF Report, delVars
<1>24. CASE EndCheck
  BY <1>24, <1>a DEF EndCheck, rowVars, delVars
<1>25. CASE Crash
  <2>1. \A d \in Deletions :
          \/ dpc'[d] = dpc[d]
          \/ dpc[d] \in {"read", "marked"} /\ dpc'[d] = "refused"
          \/ dpc[d] \in {"cloud", "soft"} /\ dpc'[d] = "stuck"
    BY <1>25 DEF Crash, Deleting
  <2>2. drow' = drow /\ tries' = tries
    BY <1>25 DEF Crash
  <2>3. \A d \in Deletions : 4 * tries[d] \in Nat
    BY <1>0, QueueBounds DEF TypeOK, TriesType
  <2>4. ASSUME NEW d \in Deletions, dpc'[d] # dpc[d]
        PROVE  DeletionEffort(d)' > DeletionEffort(d)
    <3>1. DeletionStage[dpc'[d]] > DeletionStage[dpc[d]]
          /\ DeletionStage[dpc'[d]] \in Nat /\ DeletionStage[dpc[d]] \in Nat
      BY <2>1, <2>4, DeletionStages
    <3>. QED BY <2>2, <2>3, <3>1 DEF DeletionEffort
  <2>. QED BY <2>2, <2>4 DEF DeletionsGoOn
<1>26. CASE UNCHANGED vars
  BY <1>26, <1>a DEF vars, rowVars, delVars, checkVars
<1>. QED
  BY <1>1, <1>2, <1>3, <1>4, <1>5, <1>6, <1>7, <1>8, <1>9, <1>10, <1>11, <1>12, <1>13,
     <1>14, <1>15, <1>16, <1>17, <1>18, <1>19, <1>20, <1>21, <1>22, <1>23, <1>24, <1>25,
     <1>26
  DEF Next, Provision, ProvisionWork, Delete, DeleteWork, HealthCheck, CheckWork

\* Machines are made once and stay destroyed, provisionings only go on, and deletions
\* use up their effort, through failures, retries, rescues and crashes.
THEOREM FleetGoesOn == Spec => FleetAdvances
<1>1. IInv /\ Unmade /\ [Next]_vars => Advances
  BY MachinesAdvance, ProvisioningsAdvance, DeletionsAdvance
  DEF Advances, MachinesGoOn, ProvisioningsGoOn, DeletionsGoOn
<1>2. Init => Unmade
  BY DEF Init, Unmade
<1>3. IInv /\ Unmade /\ [Next]_vars => (IInv /\ Unmade)'
  BY NextIInv, UnmadeKept
<1>. QED BY <1>1, <1>2, <1>3, InitIInv, PTL DEF Spec, FleetAdvances

\* The effort of a deletion is finite, so with what is fair it comes to an end (the
\* part of DeletionsSettle that does not need fairness).
THEOREM DeletionsAreBounded == Spec => []EffortIsBounded
<1>1. IInv => EffortIsBounded
  <2> SUFFICES ASSUME IInv, NEW d \in Deletions
               PROVE  DeletionEffort(d) <= 4 * MaxAttempts + 3
    BY DEF EffortIsBounded
  <2>1. tries[d] \in 0..MaxAttempts /\ MaxAttempts \in Nat
    BY QueueBounds DEF IInv, TypeOK, TriesType
  <2>2. DeletionStage[dpc[d]] \in 0..3
    BY DeletionStages DEF IInv, TypeOK, DelType, Deleting
  <2>. QED BY <2>1, <2>2 DEF DeletionEffort
<1>. QED BY <1>1, Invariance, PTL
=============================================================================
