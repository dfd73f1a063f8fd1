--------------------------- MODULE WebRunnerProofs ---------------------------
(***************************************************************************)
(* Machine-checked proofs about the dashboard's job runner, for any set of *)
(* jobs and listings and any bounds.                                       *)
(***************************************************************************)
EXTENDS WebRunner, FiniteSetTheorems, TLAPS

(* Every CSV holds finitely many rows, so the watchdog's count is a number. *)
LEMMA CountIsNat ==
  ASSUME TypeOK, NEW j \in Job
  PROVE  CountRows(j) \in Nat
<1>1. Rows(j) \subseteq Place
  BY DEF TypeOK, DataType, Rows
<1>2. IsFiniteSet(Rows(j))
  BY <1>1, FS_Subset, RunnerAssumption DEF RunnerAssumption
<1>. QED
  BY <1>2, FS_CardinalityType DEF CountRows

(* The bounds are numbers. *)
LEMMA BoundsAreNat ==
  /\ MaxStallRetries \in Nat /\ StallAfter \in Nat
  /\ MaxRestarts \in Nat /\ MaxWindows \in Nat /\ MaxReruns \in Nat
  /\ MaxDeletes \in Nat /\ MaxFaults \in Nat
BY RunnerAssumption DEF RunnerAssumption

(* A step that leaves a group of variables alone keeps the group's types. *)
LEMMA TypeFrames ==
  /\ TableType /\ UNCHANGED tableVars => TableType'
  /\ DataType /\ UNCHANGED dataVars => DataType'
  /\ WorkType /\ UNCHANGED workVars => WorkType'
  /\ RunType /\ UNCHANGED runVars => RunType'
  /\ MarkType /\ UNCHANGED markVars => MarkType'
  /\ DogType /\ UNCHANGED dogVars => DogType'
  /\ DogTimeType /\ UNCHANGED dogVars => DogTimeType'
  /\ PauseType /\ UNCHANGED pauseVars => PauseType'
  /\ ReqType /\ UNCHANGED req => ReqType'
  /\ WindowType /\ UNCHANGED envVars => WindowType'
  /\ EnvType /\ UNCHANGED envVars => EnvType'
  /\ FaultType /\ UNCHANGED faults => FaultType'
BY DEF TableType, DataType, WorkType, RunType, MarkType, DogType, DogTimeType, PauseType, ReqType, WindowType, EnvType,
       FaultType, tableVars, dataVars, workVars, runVars, markVars, dogVars, pauseVars, envVars

(* Taking a CSV into the lead list keeps the types of both. *)
LEMMA IngestType == ASSUME DataType, NEW j \in Job, Ingest(j) PROVE DataType'
<1>1. CASE csv[j] # NoFile /\ leads' = [leads EXCEPT ![j] = @ \cup csv[j]] /\ ingested' = ingested \cup {j}
           /\ UNCHANGED <<csv, faults>>
  <2>1. csv[j] \subseteq Place BY <1>1 DEF DataType
  <2>2. leads[j] \subseteq Place BY DEF DataType
  <2>3. leads' \in [Job -> SUBSET Place] BY <1>1, <2>1, <2>2 DEF DataType
  <2>. QED BY <1>1, <2>3 DEF DataType
<1>2. CASE UNCHANGED dataVars
  BY <1>2 DEF DataType, dataVars
<1>. QED BY <1>1, <1>2 DEF Ingest

LEMMA TypeWorker == ASSUME TypeOK, Worker PROVE TypeOK'
<1> USE BoundsAreNat DEF TypeOK
<1>1. CASE Boot
  <2>1. WorkType' BY <1>1 DEF Boot, Snapshot, WorkerStep, WorkType, Status
  <2>2. FaultType' BY <1>1 DEF Boot, Snapshot, Fault, FaultType
  <2>. QED BY <1>1, <2>1, <2>2, TypeFrames DEF Boot
<1>2. CASE RequeueSave
  <2>1. TableType' BY <1>2 DEF RequeueSave, Update, Stored, Fault, WorkerStep, TableType, WorkType, Status
  <2>2. WorkType' BY <1>2 DEF RequeueSave, Update, Stored, Fault, WorkerStep, WorkType, Status
  <2>3. FaultType' BY <1>2 DEF RequeueSave, Update, Stored, Fault, WorkerStep, FaultType, WorkType, Status
  <2>. QED BY <1>2, <2>1, <2>2, <2>3, TypeFrames DEF RequeueSave
<1>3. CASE BackfillScan
  <2>1. WorkType' BY <1>3 DEF BackfillScan, Snapshot, WorkerStep, Finished, WorkType, Status
  <2>2. FaultType' BY <1>3 DEF BackfillScan, Snapshot, Fault, FaultType
  <2>. QED BY <1>3, <2>1, <2>2, TypeFrames DEF BackfillScan
<1>4. CASE Ready
  <2>1. WorkType' BY <1>4 DEF Ready, WorkerStep, WorkType, Status
  <2>. QED BY <1>4, <2>1, TypeFrames DEF Ready
<1>5. CASE HoldForPause
  <2>1. WorkType' BY <1>5 DEF HoldForPause, WorkerStep, WorkType, Status
  <2>. QED BY <1>5, <2>1, TypeFrames DEF HoldForPause
<1>6. CASE Begin
  <2>1. TableType' BY <1>6 DEF Begin, Update, Stored, Fault, TableType, WorkType, Status
  <2>2. WorkType' BY <1>6 DEF Begin, Update, Stored, Fault, WorkType, Status
  <2>3. FaultType' BY <1>6 DEF Begin, Update, Stored, Fault, FaultType, WorkType, Status
  <2>. QED BY <1>6, <2>1, <2>2, <2>3, TypeFrames DEF Begin
<1>7. CASE CreateCSV
  <2>1. DataType' BY <1>7 DEF CreateCSV, Fault, DataType, WorkType, Status
  <2>2. WorkType' BY <1>7 DEF CreateCSV, Fault, WorkType, Status
  <2>3. RunType' BY <1>7 DEF CreateCSV, Fault, RunType, WorkType, Status
  <2>4. FaultType' BY <1>7 DEF CreateCSV, Fault, FaultType, WorkType, Status
  <2>. QED BY <1>7, <2>1, <2>2, <2>3, <2>4, TypeFrames DEF CreateCSV
<1>8. CASE SetupFails
  <2>1. TableType' BY <1>8 DEF SetupFails, Update, Stored, Fault, WorkerStep, TableType, WorkType, Status
  <2>2. WorkType' BY <1>8 DEF SetupFails, Update, Stored, Fault, WorkerStep, WorkType, Status
  <2>3. FaultType' BY <1>8 DEF SetupFails, Update, Stored, Fault, WorkerStep, FaultType, WorkType, Status
  <2>. QED BY <1>8, <2>1, <2>2, <2>3, TypeFrames DEF SetupFails
<1>9. CASE NoSeeds
  <2>1. WorkType' BY <1>9 DEF NoSeeds, WorkerStep, WorkType, Status
  <2>. QED BY <1>9, <2>1, TypeFrames DEF NoSeeds
<1>10. CASE StartRun
  <2>1. WorkType' BY <1>10 DEF StartRun, WorkerStep, WorkType, Status
  <2>2. RunType' BY <1>10 DEF StartRun, WorkerStep, RunType, WorkType, Status
  <2>. QED BY <1>10, <2>1, <2>2, TypeFrames DEF StartRun
<1>11. CASE SaveOutcome
  <2>1. TableType' BY <1>11 DEF SaveOutcome, Update, Stored, Fault, WorkerStep, TableType, WorkType, Status
  <2>2. WorkType' BY <1>11 DEF SaveOutcome, Update, Stored, Fault, WorkerStep, WorkType, Status
  <2>3. FaultType' BY <1>11 DEF SaveOutcome, Update, Stored, Fault, WorkerStep, FaultType, WorkType, Status
  <2>. QED BY <1>11, <2>1, <2>2, <2>3, TypeFrames DEF SaveOutcome
<1>12. CASE ClearCurrent
  <2>1. WorkType' BY <1>12 DEF ClearCurrent, WorkerStep, WorkType, Status
  <2>2. RunType' BY <1>12 DEF ClearCurrent, WorkerStep, RunType, WorkType, Status
  <2>. QED BY <1>12, <2>1, <2>2, TypeFrames DEF ClearCurrent
<1>13. CASE IngestRun
  <2>1. DataType' BY <1>13, IngestType, TypeFrames DEF IngestRun, WorkerStep, WorkType
  <2>2. WorkType' BY <1>13 DEF IngestRun, Ingest, Fault, WorkerStep, WorkType, Status
  <2>3. FaultType' BY <1>13 DEF IngestRun, Ingest, Fault, WorkerStep, FaultType, WorkType, Status
  <2>. QED BY <1>13, <2>1, <2>2, <2>3, TypeFrames DEF IngestRun
<1>14. CASE TakePauseMark
  <2>1. WorkType' BY <1>14 DEF TakePauseMark, WorkType, Status
  <2>2. MarkType' BY <1>14 DEF TakePauseMark, MarkType, WorkType, Status
  <2>. QED BY <1>14, <2>1, <2>2, TypeFrames DEF TakePauseMark
<1>15. CASE TakeStallMark
  <2>1. WorkType' BY <1>15 DEF TakeStallMark, Bump, StallVerdict, MayRetry, WorkType, Status
  <2>2. RunType' BY <1>15 DEF TakeStallMark, Bump, StallVerdict, MayRetry, RunType, WorkType, Status
  <2>3. MarkType' BY <1>15 DEF TakeStallMark, Bump, StallVerdict, MayRetry, MarkType, WorkType, Status, RunType
  <2>. QED BY <1>15, <2>1, <2>2, <2>3, TypeFrames DEF TakeStallMark
<1>16. CASE SaveRequeue
  <2>1. TableType' BY <1>16 DEF SaveRequeue, Update, Stored, Fault, WorkerStep, TableType, WorkType, Status
  <2>2. WorkType' BY <1>16 DEF SaveRequeue, Update, Stored, Fault, WorkerStep, WorkType, Status
  <2>3. FaultType' BY <1>16 DEF SaveRequeue, Update, Stored, Fault, WorkerStep, FaultType, WorkType, Status
  <2>. QED BY <1>16, <2>1, <2>2, <2>3, TypeFrames DEF SaveRequeue
<1>17. CASE NoRetry
  <2>1. WorkType' BY <1>17 DEF NoRetry, WorkerStep, WorkType, Status
  <2>. QED BY <1>17, <2>1, TypeFrames DEF NoRetry
<1>18. CASE NextJob
  <2>1. WorkType' BY <1>18 DEF NextJob, WorkerStep, WorkType, Status
  <2>2. RunType' BY <1>18 DEF NextJob, WorkerStep, RunType, WorkType, Status
  <2>. QED BY <1>18, <2>1, <2>2, TypeFrames DEF NextJob
<1>19. ASSUME NEW j \in Job, RequeueIngest(j) PROVE TypeOK'
  <2>1. DataType' BY <1>19, IngestType, TypeFrames DEF RequeueIngest, WorkType
  <2>2. WorkType' BY <1>19 DEF RequeueIngest, Ingest, Fault, WorkerStep, WorkType, Status
  <2>3. FaultType' BY <1>19 DEF RequeueIngest, Ingest, Fault, WorkerStep, FaultType, WorkType, Status
  <2>. QED BY <1>19, <2>1, <2>2, <2>3, TypeFrames DEF RequeueIngest
<1>20. ASSUME NEW j \in Job, BackfillOne(j) PROVE TypeOK'
  <2>1. DataType' BY <1>20, IngestType, TypeFrames DEF BackfillOne, WorkType
  <2>2. WorkType' BY <1>20 DEF BackfillOne, Ingest, Fault, WorkType, Status
  <2>3. FaultType' BY <1>20 DEF BackfillOne, Ingest, Fault, FaultType, WorkType, Status
  <2>. QED BY <1>20, <2>1, <2>2, <2>3, TypeFrames DEF BackfillOne
<1>21. ASSUME NEW j \in Job, Select(j) PROVE TypeOK'
  <2>1. WorkType' BY <1>21 DEF Select, WorkerStep, WorkType, Status
  <2>. QED BY <1>21, <2>1, TypeFrames DEF Select
<1>22. ASSUME NEW j \in Job, RetryEmpty(j) PROVE TypeOK'
  <2>1. TableType' BY <1>22 DEF RetryEmpty, Create, WorkerStep, Rows, TableType, WorkType, Status
  <2>2. WorkType' BY <1>22 DEF RetryEmpty, Create, WorkerStep, Rows, WorkType, Status
  <2>. QED BY <1>22, <2>1, <2>2, TypeFrames DEF RetryEmpty
<1>. QED BY <1>1, <1>2, <1>3, <1>4, <1>5, <1>6, <1>7, <1>8, <1>9, <1>10, <1>11, <1>12, <1>13, <1>14, <1>15, <1>16, <1>17, <1>18, <1>19, <1>20, <1>21, <1>22 DEF Worker

LEMMA TypeWatchdog == ASSUME TypeOK, Watchdog PROVE TypeOK'
<1> USE BoundsAreNat DEF TypeOK
<1>1. CASE WatchRead
  <2>1. DogType' BY <1>1 DEF WatchRead, Unwatch, DogType, RunType
  <2>2. DogTimeType' BY <1>1 DEF WatchRead, Unwatch, DogTimeType, DogType
  <2>. QED BY <1>1, <2>1, <2>2, TypeFrames DEF WatchRead
<1>2. CASE WatchCompare
  <2>1. DogType' BY <1>2 DEF WatchCompare, DogType
  <2>2. DogTimeType' BY <1>2, CountIsNat DEF WatchCompare, DogTimeType, DogType
  <2>. QED BY <1>2, <2>1, <2>2, TypeFrames DEF WatchCompare
<1>3. CASE WatchMark
  <2>1. MarkType' BY <1>3 DEF WatchMark, MarkType, DogType
  <2>2. DogType' BY <1>3 DEF WatchMark, DogType
  <2>3. DogTimeType' BY <1>3 DEF WatchMark, DogTimeType, DogType
  <2>. QED BY <1>3, <2>1, <2>2, <2>3, TypeFrames DEF WatchMark
<1>4. CASE WatchCancel
  <2>1. RunType' BY <1>4 DEF WatchCancel, Unwatch, RunType, DogType
  <2>2. DogType' BY <1>4 DEF WatchCancel, Unwatch, DogType, RunType
  <2>3. DogTimeType' BY <1>4 DEF WatchCancel, Unwatch, DogTimeType, DogType
  <2>. QED BY <1>4, <2>1, <2>2, <2>3, TypeFrames DEF WatchCancel
<1>. QED BY <1>1, <1>2, <1>3, <1>4 DEF Watchdog

LEMMA TypePauseWatch == ASSUME TypeOK, PauseWatch PROVE TypeOK'
<1> USE BoundsAreNat DEF TypeOK
<1>1. CASE PauseMark
  <2>1. MarkType' BY <1>1 DEF PauseMark, MarkType, RunType
  <2>2. PauseType' BY <1>1 DEF PauseMark, PauseType
  <2>. QED BY <1>1, <2>1, <2>2, TypeFrames DEF PauseMark
<1>2. CASE PauseCancel
  <2>1. RunType' BY <1>2 DEF PauseCancel, RunType
  <2>2. PauseType' BY <1>2 DEF PauseCancel, PauseType
  <2>. QED BY <1>2, <2>1, <2>2, TypeFrames DEF PauseCancel
<1>. QED BY <1>1, <1>2 DEF PauseWatch

LEMMA TypeRest == ASSUME TypeOK, ExitBrowsersHung \/ Listing \/ RunOver \/ Handlers \/ Users \/ Tick \/ OpenWindow \/ CloseWindow \/ Restart PROVE TypeOK'
<1> USE BoundsAreNat DEF TypeOK
<1>1. CASE ExitBrowsersHung
  <2>1. WorkType' BY <1>1 DEF ExitBrowsersHung, ProcessDies, WorkType, Status
  <2>2. RunType' BY <1>1 DEF ExitBrowsersHung, ProcessDies, RunType
  <2>3. MarkType' BY <1>1 DEF ExitBrowsersHung, ProcessDies, MarkType
  <2>4. DogType' BY <1>1 DEF ExitBrowsersHung, ProcessDies, DogType
  <2>5. DogTimeType' BY <1>1 DEF ExitBrowsersHung, ProcessDies, DogTimeType
  <2>6. PauseType' BY <1>1 DEF ExitBrowsersHung, ProcessDies, PauseType
  <2>7. ReqType' BY <1>1 DEF ExitBrowsersHung, ProcessDies, ReqType, Request
  <2>8. WindowType' BY <1>1 DEF ExitBrowsersHung, ProcessDies, WindowType
  <2>9. EnvType' BY <1>1 DEF ExitBrowsersHung, ProcessDies, EnvType
  <2>. QED BY <1>1, <2>1, <2>2, <2>3, <2>4, <2>5, <2>6, <2>7, <2>8, <2>9, TypeFrames DEF ExitBrowsersHung, ProcessDies
<1>2. CASE Tick
  <2>1. DogType' BY <1>2 DEF Tick, DogType, RunType
  <2>2. DogTimeType' BY <1>2 DEF Tick, DogTimeType, DogType
  <2>. QED BY <1>2, <2>1, <2>2, TypeFrames DEF Tick
<1>3. CASE OpenWindow
  <2>1. WindowType' BY <1>3 DEF OpenWindow, WindowType
  <2>2. EnvType' BY <1>3 DEF OpenWindow, EnvType
  <2>. QED BY <1>3, <2>1, <2>2, TypeFrames DEF OpenWindow
<1>4. CASE CloseWindow
  <2>1. WindowType' BY <1>4 DEF CloseWindow, WindowType
  <2>2. EnvType' BY <1>4 DEF CloseWindow, EnvType
  <2>. QED BY <1>4, <2>1, <2>2, TypeFrames DEF CloseWindow
<1>5. CASE Restart
  <2>1. WorkType' BY <1>5 DEF Restart, ProcessDies, WorkType, Status
  <2>2. RunType' BY <1>5 DEF Restart, ProcessDies, RunType
  <2>3. MarkType' BY <1>5 DEF Restart, ProcessDies, MarkType
  <2>4. DogType' BY <1>5 DEF Restart, ProcessDies, DogType
  <2>5. DogTimeType' BY <1>5 DEF Restart, ProcessDies, DogTimeType
  <2>6. PauseType' BY <1>5 DEF Restart, ProcessDies, PauseType
  <2>7. ReqType' BY <1>5 DEF Restart, ProcessDies, ReqType, Request
  <2>8. WindowType' BY <1>5 DEF Restart, ProcessDies, WindowType
  <2>9. EnvType' BY <1>5 DEF Restart, ProcessDies, EnvType
  <2>. QED BY <1>5, <2>1, <2>2, <2>3, <2>4, <2>5, <2>6, <2>7, <2>8, <2>9, TypeFrames DEF Restart, ProcessDies
<1>6. ASSUME NEW p \in Place, WriteRow(p) PROVE TypeOK'
  <2>1. DataType' BY <1>6 DEF WriteRow, DataType, WorkType, Status
  <2>. QED BY <1>6, <2>1, TypeFrames DEF WriteRow
<1>7. ASSUME NEW s \in Status, NEW hangs \in BOOLEAN, RunEnds(s, hangs) PROVE TypeOK'
  <2>1. WorkType' BY <1>7 DEF RunEnds, WorkerStep, WorkType, DogType, Status
  <2>2. RunType' BY <1>7 DEF RunEnds, WorkerStep, RunType, WorkType, Status, DogType
  <2>3. DogType' BY <1>7 DEF RunEnds, WorkerStep, DogType, WorkType, Status, RunType
  <2>4. DogTimeType' BY <1>7 DEF RunEnds, WorkerStep, DogTimeType, WorkType, Status, DogType
  <2>5. PauseType' BY <1>7 DEF RunEnds, WorkerStep, PauseType, WorkType, Status, DogType
  <2>. QED BY <1>7, <2>1, <2>2, <2>3, <2>4, <2>5, TypeFrames DEF RunEnds
<1>8. ASSUME NEW j \in Job, Submit(j) PROVE TypeOK'
  <2>1. TableType' BY <1>8 DEF Submit, Create, TableType, Status
  <2>. QED BY <1>8, <2>1, TypeFrames DEF Submit
<1>9. ASSUME NEW h \in Handler, RerunUpdate(h) PROVE TypeOK'
  <2>1. TableType' BY <1>9 DEF RerunUpdate, Update, Stored, Fault, TableType, Status
  <2>2. ReqType' BY <1>9 DEF RerunUpdate, Update, Stored, Fault, ReqType, Request
  <2>3. FaultType' BY <1>9 DEF RerunUpdate, Update, Stored, Fault, FaultType
  <2>. QED BY <1>9, <2>1, <2>2, <2>3, TypeFrames DEF RerunUpdate
<1>10. ASSUME NEW h \in Handler, DeleteRow(h) PROVE TypeOK'
  <2>1. TableType' BY <1>10 DEF DeleteRow, TableType, Status
  <2>2. ReqType' BY <1>10 DEF DeleteRow, ReqType, Request
  <2>3. FaultType' BY <1>10 DEF DeleteRow, Fault, FaultType
  <2>. QED BY <1>10, <2>1, <2>2, <2>3, TypeFrames DEF DeleteRow
<1>11. ASSUME NEW h \in Handler, NEW j \in Job, RerunGet(h, j) PROVE TypeOK'
  <2>1. ReqType' BY <1>11 DEF RerunGet, Finished, ReqType, Request
  <2>2. WindowType' BY <1>11 DEF RerunGet, Finished, WindowType
  <2>3. EnvType' BY <1>11 DEF RerunGet, Finished, EnvType
  <2>. QED BY <1>11, <2>1, <2>2, <2>3, TypeFrames DEF RerunGet
<1>12. ASSUME NEW h \in Handler, NEW j \in Job, DeleteCSV(h, j) PROVE TypeOK'
  <2>1. DataType' BY <1>12 DEF DeleteCSV, DataType
  <2>2. ReqType' BY <1>12 DEF DeleteCSV, ReqType, Request
  <2>3. WindowType' BY <1>12 DEF DeleteCSV, WindowType
  <2>4. EnvType' BY <1>12 DEF DeleteCSV, EnvType
  <2>. QED BY <1>12, <2>1, <2>2, <2>3, <2>4, TypeFrames DEF DeleteCSV
<1>. QED BY <1>1, <1>2, <1>3, <1>4, <1>5, <1>6, <1>7, <1>8, <1>9, <1>10, <1>11, <1>12 DEF Listing, RunOver, Handlers, Users, Finished, Status

(* The program's variables stay in the ranges the code gives them. *)
THEOREM TypeInvariant == Spec => []TypeOK
<1>1. Init => TypeOK
  <2> SUFFICES ASSUME Init PROVE TypeOK
    OBVIOUS
  <2>1. TableType
    BY DEF Init, TableType, Status
  <2>4. WorkType
    BY DEF Init, WorkType, Status
  <2>5. DogType
    BY DEF Init, DogType
  <2>6. PauseType /\ ReqType /\ WindowType
    BY DEF Init, PauseType, ReqType, WindowType
  <2>2. DataType
    BY DEF Init, DataType
  <2>3. RunType /\ MarkType /\ DogTimeType /\ EnvType /\ FaultType
    BY BoundsAreNat DEF Init, RunType, MarkType, DogTimeType, EnvType, FaultType
  <2>. QED BY <2>1, <2>2, <2>3, <2>4, <2>5, <2>6 DEF TypeOK
<1>2. TypeOK /\ [Next]_vars => TypeOK'
  <2>1. CASE Next
    BY <2>1, TypeWorker, TypeWatchdog, TypePauseWatch, TypeRest DEF Next
  <2>2. CASE UNCHANGED vars
    BY <2>2, TypeFrames DEF vars, TypeOK
  <2>. QED BY <2>1, <2>2
<1>. QED
  BY <1>1, <1>2, PTL DEF Spec
-----------------------------------------------------------------------------
(* currentID is set from the start of a run to the deferred setCurrent, and  *)
(* names the job the worker has in hand.                                     *)
CurIsInHand == cur # None => cur = wjob /\ pc \in {"running", "save", "clear"}

PauseInv == TypeOK /\ CurIsInHand /\ PauseMarkIsOfTheRun

(* The worker keeps it: only afterJob's pause branch leaves the positions a  *)
(* mark may be held at, and it takes the mark of the job in hand.            *)
LEMMA PauseInvWorker ==
  ASSUME PauseInv, Worker
  PROVE  (CurIsInHand /\ PauseMarkIsOfTheRun)'
<1> USE DEF PauseInv, CurIsInHand, PauseMarkIsOfTheRun, WorkerStep
<1>1. CASE Boot \/ RequeueSave \/ BackfillScan \/ Ready \/ HoldForPause
  BY <1>1 DEF Boot, RequeueSave, BackfillScan, Ready, HoldForPause, runVars, markVars
<1>2. CASE Begin \/ CreateCSV \/ SetupFails \/ NoSeeds
  BY <1>2 DEF Begin, CreateCSV, SetupFails, NoSeeds, runVars, markVars
<1>3. CASE StartRun
  BY <1>3 DEF StartRun, markVars
<1>4. CASE SaveOutcome \/ ClearCurrent \/ IngestRun
  BY <1>4 DEF SaveOutcome, ClearCurrent, IngestRun, runVars, markVars
<1>5. CASE TakePauseMark
  BY <1>5 DEF TakePauseMark, runVars
<1>6. CASE TakeStallMark
  BY <1>6 DEF TakeStallMark
<1>7. CASE SaveRequeue \/ NoRetry \/ NextJob
  BY <1>7 DEF SaveRequeue, NoRetry, NextJob, runVars, markVars
<1>8. ASSUME NEW j \in Job, RequeueIngest(j) \/ BackfillOne(j) \/ Select(j) \/ RetryEmpty(j)
      PROVE  (CurIsInHand /\ PauseMarkIsOfTheRun)'
  BY <1>8 DEF RequeueIngest, BackfillOne, Select, RetryEmpty, runVars, markVars
<1>. QED
  BY <1>1, <1>2, <1>3, <1>4, <1>5, <1>6, <1>7, <1>8 DEF Worker

(* So do all the others: a mark is only made of currentID. *)
LEMMA PauseInvRest ==
  ASSUME PauseInv, Next, ~Worker
  PROVE  (CurIsInHand /\ PauseMarkIsOfTheRun)'
<1> USE DEF PauseInv, CurIsInHand, PauseMarkIsOfTheRun
<1>1. CASE Restart \/ ExitBrowsersHung
  BY <1>1 DEF Restart, ExitBrowsersHung, ProcessDies
<1>2. CASE Listing
  BY <1>2 DEF Listing, WriteRow, workVars, runVars, markVars
<1>3. CASE RunOver
  BY <1>3 DEF RunOver, RunEnds, WorkerStep, markVars
<1>4. CASE Watchdog
  BY <1>4 DEF Watchdog, WatchRead, WatchCompare, WatchMark, WatchCancel, workVars, runVars, markVars
<1>5. CASE PauseWatch
  BY <1>5 DEF PauseWatch, PauseMark, PauseCancel, workVars, runVars, markVars
<1>6. CASE Handlers
  BY <1>6 DEF Handlers, RerunGet, RerunUpdate, DeleteCSV, DeleteRow, workVars, runVars, markVars
<1>7. CASE Users \/ Tick \/ OpenWindow \/ CloseWindow
  BY <1>7 DEF Users, Submit, Tick, OpenWindow, CloseWindow, workVars, runVars, markVars
<1>. QED
  BY <1>1, <1>2, <1>3, <1>4, <1>5, <1>6, <1>7 DEF Next

(* No pause mark outlives the run it was made for, whatever fails or crashes. *)
THEOREM PauseMarkInvariant == Spec => []PauseMarkIsOfTheRun
<1>1. Init => CurIsInHand /\ PauseMarkIsOfTheRun
  BY DEF Init, CurIsInHand, PauseMarkIsOfTheRun
<1>2. TypeOK /\ CurIsInHand /\ PauseMarkIsOfTheRun /\ [Next]_vars => (CurIsInHand /\ PauseMarkIsOfTheRun)'
  <2>1. CASE UNCHANGED vars
    BY <2>1 DEF vars, workVars, runVars, markVars, CurIsInHand, PauseMarkIsOfTheRun
  <2>. QED
    BY <2>1, PauseInvWorker, PauseInvRest DEF PauseInv
<1>. QED
  BY <1>1, <1>2, TypeInvariant, PTL DEF Spec
-----------------------------------------------------------------------------
(* Unless its write fails, an update of the table takes effect. *)
LEMMA UpdateStores ==
  ASSUME TypeOK, ~Fault, NEW j \in Job, NEW s \in Status, Update(j, s)
  PROVE  /\ row' = Stored(j, s) /\ faults' = faults
         /\ row'[j] \in {s, "none", "deleted"}
         /\ \A k \in Job \ {j} : row'[k] = row[k]
<1>1. row' = Stored(j, s) /\ faults' = faults
  BY DEF Update
<1>. QED
  BY <1>1 DEF Stored, TypeOK, TableType

(* Faults and restarts are only ever added to: a history without one has had *)
(* none at any earlier step.                                                 *)
LEMMA WorkerCounts ==
  ASSUME TypeOK, Worker PROVE (faults' = faults \/ Fault) /\ restarts' = restarts
<1>1. CASE Boot \/ RequeueSave \/ BackfillScan \/ Ready \/ HoldForPause
  BY <1>1 DEF Boot, Snapshot, RequeueSave, Update, BackfillScan, Ready, HoldForPause, envVars
<1>2. CASE Begin \/ CreateCSV \/ SetupFails \/ NoSeeds \/ StartRun
  BY <1>2 DEF Begin, Update, CreateCSV, SetupFails, NoSeeds, StartRun, envVars
<1>3. CASE SaveOutcome \/ ClearCurrent \/ IngestRun \/ TakePauseMark \/ TakeStallMark
  BY <1>3 DEF SaveOutcome, Update, ClearCurrent, IngestRun, Ingest, TakePauseMark, TakeStallMark, envVars
<1>4. CASE SaveRequeue \/ NoRetry \/ NextJob
  BY <1>4 DEF SaveRequeue, Update, NoRetry, NextJob, envVars
<1>5. ASSUME NEW j \in Job, RequeueIngest(j) \/ BackfillOne(j) \/ Select(j) \/ RetryEmpty(j)
      PROVE  (faults' = faults \/ Fault) /\ restarts' = restarts
  BY <1>5 DEF RequeueIngest, Ingest, BackfillOne, Select, RetryEmpty, envVars
<1>. QED
  BY <1>1, <1>2, <1>3, <1>4, <1>5 DEF Worker

LEMMA OnlyCountedUp ==
  ASSUME TypeOK, [Next]_vars
  PROVE  /\ faults' = 0 => faults = 0 /\ ~Fault
         /\ restarts' = 0 => restarts = 0 /\ ~Restart /\ ~ExitBrowsersHung
<1> USE DEF TypeOK, EnvType, FaultType
<1>1. faults \in Nat /\ restarts \in Nat
  BY BoundsAreNat
<1>2. CASE UNCHANGED vars
  BY <1>1, <1>2 DEF vars, envVars, Fault, Restart, ExitBrowsersHung
<1>3. CASE Worker
  BY <1>1, <1>3, WorkerCounts DEF Fault, Restart, ExitBrowsersHung
<1>4. CASE ExitBrowsersHung \/ Restart
  BY <1>1, <1>4 DEF Restart, ExitBrowsersHung, ProcessDies, Fault
<1>5. CASE Listing \/ RunOver \/ Watchdog \/ PauseWatch
  BY <1>1, <1>5 DEF Listing, WriteRow, RunOver, RunEnds, Watchdog, WatchRead, WatchCompare, WatchMark,
     WatchCancel, PauseWatch, PauseMark, PauseCancel, envVars, Fault, Restart, ExitBrowsersHung
<1>6. CASE Users \/ Tick \/ OpenWindow \/ CloseWindow
  BY <1>1, <1>6 DEF Users, Submit, Tick, OpenWindow, CloseWindow, envVars, Fault, Restart, ExitBrowsersHung
<1>7. CASE Handlers
  BY <1>1, <1>7 DEF Handlers, RerunGet, RerunUpdate, DeleteCSV, DeleteRow, Update, envVars, Fault, Restart,
     ExitBrowsersHung
<1>. QED
  BY <1>2, <1>3, <1>4, <1>5, <1>6, <1>7 DEF Next

(* The outcome the worker is about to save: a finished state after a run, and *)
(* never "ok" when afterJob puts a job back or gives it up.                   *)
VerdictInHand == /\ pc = "save" => wstat \in Finished
                 /\ pc = "afterSave" => wstat \in {"pending", "failed"}

LEMMA VerdictStep == ASSUME TypeOK, VerdictInHand, [Next]_vars PROVE VerdictInHand'
<1> USE DEF VerdictInHand, WorkerStep, Finished
<1>1. CASE UNCHANGED vars
  BY <1>1 DEF vars, workVars
<1>2. CASE Worker
  <2>1. CASE Boot \/ RequeueSave \/ BackfillScan \/ Ready \/ HoldForPause
    BY <2>1 DEF Boot, RequeueSave, BackfillScan, Ready, HoldForPause
  <2>2. CASE Begin \/ CreateCSV \/ SetupFails \/ NoSeeds \/ StartRun
    BY <2>2 DEF Begin, CreateCSV, SetupFails, NoSeeds, StartRun
  <2>3. CASE SaveOutcome \/ ClearCurrent \/ IngestRun
    BY <2>3 DEF SaveOutcome, ClearCurrent, IngestRun
  <2>4. CASE TakePauseMark \/ TakeStallMark
    BY <2>4 DEF TakePauseMark, TakeStallMark, StallVerdict
  <2>5. CASE SaveRequeue \/ NoRetry \/ NextJob
    BY <2>5 DEF SaveRequeue, NoRetry, NextJob
  <2>6. ASSUME NEW j \in Job, RequeueIngest(j) \/ BackfillOne(j) \/ Select(j) \/ RetryEmpty(j)
        PROVE  VerdictInHand'
    BY <2>6 DEF RequeueIngest, BackfillOne, Select, RetryEmpty
  <2>. QED
    BY <1>2, <2>1, <2>2, <2>3, <2>4, <2>5, <2>6 DEF Worker
<1>3. CASE RunOver
  BY <1>3 DEF RunOver, RunEnds
<1>4. CASE Restart \/ ExitBrowsersHung
  BY <1>4 DEF Restart, ExitBrowsersHung, ProcessDies
<1>5. CASE Listing \/ Watchdog \/ PauseWatch \/ Handlers \/ Users \/ Tick \/ OpenWindow \/ CloseWindow
  BY <1>5 DEF Listing, WriteRow, Watchdog, WatchRead, WatchCompare, WatchMark, WatchCancel, PauseWatch,
     PauseMark, PauseCancel, Handlers, RerunGet, RerunUpdate, DeleteCSV, DeleteRow, Users, Submit, Tick,
     OpenWindow, CloseWindow, workVars
<1>. QED
  BY <1>1, <1>2, <1>3, <1>4, <1>5 DEF Next

LEMMA OwnerStep ==
  ASSUME TypeOK, VerdictInHand, WorkingHasOwner, [Next]_vars
  PROVE  WorkingHasOwner'
<1> USE DEF WorkingHasOwner
<1> SUFFICES ASSUME faults' = 0 PROVE WorkingHasOwner'
  OBVIOUS
<1> faults = 0 /\ ~Fault
  BY OnlyCountedUp
<1> wjob \in Job \/ pc \in {"down", "requeue", "backfill", "idle"}
  BY DEF TypeOK, WorkType
<1> wstat \in Status
  BY DEF TypeOK, WorkType
<1>1. CASE UNCHANGED vars
  BY <1>1 DEF vars, tableVars, workVars
<1>2. CASE Worker
  <2>1. CASE Boot
    BY <2>1 DEF Boot, Snapshot, WorkerStep, tableVars
  <2>2. CASE RequeueSave
    BY <2>2, UpdateStores DEF RequeueSave, WorkerStep, Status
  <2>3. CASE BackfillScan \/ Ready \/ HoldForPause
    BY <2>3 DEF BackfillScan, Ready, HoldForPause, WorkerStep, tableVars
  <2>4. CASE Begin
    BY <2>4, UpdateStores DEF Begin, Status
  <2>5. CASE SetupFails
    BY <2>5, UpdateStores DEF SetupFails, WorkerStep, Status
  <2>6. CASE CreateCSV \/ NoSeeds \/ StartRun
    BY <2>6 DEF CreateCSV, NoSeeds, StartRun, WorkerStep, tableVars
  <2>7. CASE SaveOutcome
    BY <2>7, UpdateStores DEF SaveOutcome, WorkerStep, VerdictInHand, Finished
  <2>8. CASE ClearCurrent \/ IngestRun \/ TakePauseMark \/ TakeStallMark \/ NoRetry \/ NextJob
    BY <2>8 DEF ClearCurrent, IngestRun, TakePauseMark, TakeStallMark, NoRetry, NextJob, WorkerStep, tableVars
  <2>9. CASE SaveRequeue
    BY <2>9, UpdateStores DEF SaveRequeue, WorkerStep, VerdictInHand
  <2>10. ASSUME NEW j \in Job, RequeueIngest(j) \/ BackfillOne(j) \/ Select(j)
         PROVE  WorkingHasOwner'
    BY <2>10 DEF RequeueIngest, BackfillOne, Select, WorkerStep, tableVars
  <2>11. ASSUME NEW j \in Job, RetryEmpty(j)
         PROVE  WorkingHasOwner'
    BY <2>11 DEF RetryEmpty, Create, WorkerStep, TypeOK, TableType
  <2>. QED
    BY <1>2, <2>1, <2>2, <2>3, <2>4, <2>5, <2>6, <2>7, <2>8, <2>9, <2>10, <2>11 DEF Worker
<1>3. CASE RunOver
  BY <1>3 DEF RunOver, RunEnds, WorkerStep, tableVars
<1>4. CASE Restart \/ ExitBrowsersHung
  BY <1>4 DEF Restart, ExitBrowsersHung, ProcessDies
<1>5. CASE Listing \/ Watchdog \/ PauseWatch \/ Tick \/ OpenWindow \/ CloseWindow
  BY <1>5 DEF Listing, WriteRow, Watchdog, WatchRead, WatchCompare, WatchMark, WatchCancel, PauseWatch,
     PauseMark, PauseCancel, Tick, OpenWindow, CloseWindow, workVars, tableVars
<1>6. CASE Users
  BY <1>6 DEF Users, Submit, Create, workVars, TypeOK, TableType
<1>7. CASE Handlers
  <2>1. ASSUME NEW h \in Handler, RerunUpdate(h)
        PROVE  WorkingHasOwner'
    <3>1. req[h].job \in Job
      BY <2>1 DEF RerunUpdate, TypeOK, ReqType, Request
    <3>. QED
      BY <2>1, <3>1, UpdateStores DEF RerunUpdate, workVars, Status
  <2>2. ASSUME NEW h \in Handler, DeleteRow(h)
        PROVE  WorkingHasOwner'
    BY <2>2 DEF DeleteRow, workVars, TypeOK, TableType
  <2>3. ASSUME NEW h \in Handler, NEW j \in Job, RerunGet(h, j) \/ DeleteCSV(h, j)
        PROVE  WorkingHasOwner'
    BY <2>3 DEF RerunGet, DeleteCSV, workVars, tableVars
  <2>. QED
    BY <1>7, <2>1, <2>2, <2>3 DEF Handlers
<1>. QED
  BY <1>1, <1>2, <1>3, <1>4, <1>5, <1>6, <1>7 DEF Next

(* As long as no write fails, no job is left "working" with nobody running   *)
(* it, however often the process dies.                                       *)
THEOREM WorkingOwned == Spec => []WorkingHasOwner
<1>1. Init => VerdictInHand /\ WorkingHasOwner
  BY DEF Init, VerdictInHand, WorkingHasOwner
<1>2. TypeOK /\ VerdictInHand /\ [Next]_vars => VerdictInHand'
  BY VerdictStep
<1>3. TypeOK /\ VerdictInHand /\ WorkingHasOwner /\ [Next]_vars => WorkingHasOwner'
  BY OwnerStep
<1>. QED
  BY <1>1, <1>2, <1>3, TypeInvariant, PTL DEF Spec
-----------------------------------------------------------------------------
(* While the process stays up and no write fails, what a CSV holds is in the *)
(* lead list, but for the rows of the run in hand, up to its own ingest.     *)
CSVInLeads == \A j \in Job : \/ Rows(j) \subseteq leads[j]
                             \/ j = wjob /\ pc \in {"running", "save", "clear", "ingest"}

LEMMA CSVSame ==
  ASSUME UNCHANGED dataVars, NEW j \in Job
  PROVE  Rows(j)' = Rows(j) /\ leads'[j] = leads[j]
BY DEF dataVars, Rows

(* After a successful ingest the lead list holds what the job's CSV holds,   *)
(* and nothing changes for the other jobs.                                   *)
LEMMA IngestCatchesUp ==
  ASSUME TypeOK, ~Fault, NEW j \in Job, Ingest(j)
  PROVE  /\ Rows(j)' \subseteq leads'[j]
         /\ \A k \in Job : csv'[k] = csv[k] /\ (k # j => leads'[k] = leads[k])
<1>1. CASE csv[j] # NoFile /\ leads' = [leads EXCEPT ![j] = @ \cup csv[j]] /\ UNCHANGED csv
  BY <1>1 DEF Rows, TypeOK, DataType
<1>2. CASE csv[j] = NoFile /\ UNCHANGED dataVars
  BY <1>2 DEF Rows, dataVars
<1>. QED
  BY <1>1, <1>2 DEF Ingest

LEMMA CSVStep ==
  ASSUME TypeOK, CSVInLeads, [Next]_vars, Undisturbed'
  PROVE  CSVInLeads'
<1> USE DEF CSVInLeads
<1> ~Fault /\ ~Restart /\ ~ExitBrowsersHung
  BY OnlyCountedUp DEF Undisturbed
<1> wjob \in Job \/ pc \in {"down", "requeue", "backfill", "idle"}
  BY DEF TypeOK, WorkType
<1>1. CASE UNCHANGED vars
  BY <1>1, CSVSame DEF vars, workVars
<1>2. CASE Worker
  <2>1. CASE Boot \/ RequeueSave \/ BackfillScan \/ Ready \/ HoldForPause \/ NoSeeds
    BY <2>1, CSVSame DEF Boot, RequeueSave, BackfillScan, Ready, HoldForPause, NoSeeds, WorkerStep
  <2>2. CASE Begin \/ SetupFails \/ StartRun \/ SaveOutcome \/ ClearCurrent
    BY <2>2, CSVSame DEF Begin, SetupFails, StartRun, SaveOutcome, ClearCurrent, WorkerStep
  <2>3. CASE CreateCSV
    BY <2>3 DEF CreateCSV, Rows, TypeOK, DataType
  <2>4. CASE IngestRun
    BY <2>4, IngestCatchesUp DEF IngestRun, WorkerStep, Rows
  <2>5. CASE TakePauseMark \/ TakeStallMark \/ SaveRequeue \/ NoRetry \/ NextJob
    BY <2>5, CSVSame DEF TakePauseMark, TakeStallMark, SaveRequeue, NoRetry, NextJob, WorkerStep
  <2>6. ASSUME NEW j \in Job, RequeueIngest(j)
        PROVE  CSVInLeads'
    BY <2>6, IngestCatchesUp DEF RequeueIngest, WorkerStep, Rows
  <2>7. ASSUME NEW j \in Job, BackfillOne(j)
        PROVE  CSVInLeads'
    <3>1. CASE j \in ingested
      BY <2>7, <3>1, CSVSame DEF BackfillOne
    <3>2. CASE Ingest(j)
      BY <2>7, <3>2, IngestCatchesUp DEF BackfillOne, Rows
    <3>. QED
      BY <2>7, <3>1, <3>2 DEF BackfillOne
  <2>8. ASSUME NEW j \in Job, Select(j) \/ RetryEmpty(j)
        PROVE  CSVInLeads'
    BY <2>8, CSVSame DEF Select, RetryEmpty, WorkerStep
  <2>. QED
    BY <1>2, <2>1, <2>2, <2>3, <2>4, <2>5, <2>6, <2>7, <2>8 DEF Worker
<1>3. CASE RunOver
  BY <1>3, CSVSame DEF RunOver, RunEnds, WorkerStep
<1>4. CASE Restart \/ ExitBrowsersHung
  BY <1>4
<1>5. CASE Listing
  BY <1>5 DEF Listing, WriteRow, workVars, Rows, TypeOK, DataType
<1>6. CASE Watchdog \/ PauseWatch \/ Users \/ Tick \/ OpenWindow \/ CloseWindow
  BY <1>6, CSVSame DEF Watchdog, WatchRead, WatchCompare, WatchMark, WatchCancel, PauseWatch,
     PauseMark, PauseCancel, Users, Submit, Tick, OpenWindow, CloseWindow, workVars
<1>7. CASE Handlers
  <2>1. ASSUME NEW h \in Handler, NEW j \in Job, DeleteCSV(h, j)
        PROVE  CSVInLeads'
    BY <2>1 DEF DeleteCSV, Rows, workVars, TypeOK, DataType
  <2>2. ASSUME NEW h \in Handler, NEW j \in Job, RerunUpdate(h) \/ DeleteRow(h) \/ RerunGet(h, j)
        PROVE  CSVInLeads'
    BY <2>2, CSVSame DEF RerunUpdate, DeleteRow, RerunGet, workVars
  <2>3. ASSUME NEW h \in Handler, RerunUpdate(h) \/ DeleteRow(h)
        PROVE  CSVInLeads'
    BY <2>3, CSVSame DEF RerunUpdate, DeleteRow, workVars
  <2>. QED
    BY <1>7, <2>1, <2>2, <2>3 DEF Handlers
<1>. QED
  BY <1>1, <1>2, <1>3, <1>4, <1>5, <1>6, <1>7 DEF Next

(* The only step that leaves a job an empty CSV is os.Create at the start of *)
(* its run, or one that finds the CSV empty already.                         *)
LEMMA EmptiedAtCreate ==
  ASSUME TypeOK, [Next]_vars, NEW j \in Job, csv'[j] = {}
  PROVE  csv[j] = {} \/ pc = "create"
<1>1. CASE UNCHANGED csv
  BY <1>1
<1>2. CASE CreateCSV
  BY <1>2 DEF CreateCSV
<1>3. ASSUME NEW p \in Place, WriteRow(p)
      PROVE  csv[j] = {}
  BY <1>3 DEF WriteRow, TypeOK, DataType
<1>4. ASSUME NEW h \in Handler, NEW k \in Job, DeleteCSV(h, k)
      PROVE  csv[j] = {}
  BY <1>4, RunnerAssumption DEF DeleteCSV, TypeOK, DataType, RunnerAssumption
<1>5. CASE Worker
  BY <1>1, <1>2, <1>5 DEF Worker, Boot, RequeueIngest, RequeueSave, BackfillScan, BackfillOne, Ready, Select,
     HoldForPause, Begin, SetupFails, NoSeeds, StartRun, SaveOutcome, ClearCurrent, IngestRun, Ingest,
     TakePauseMark, TakeStallMark, SaveRequeue, RetryEmpty, NoRetry, NextJob, dataVars
<1>6. CASE RunOver \/ Restart \/ ExitBrowsersHung \/ Watchdog \/ PauseWatch \/ Users \/ Tick \/ OpenWindow \/ CloseWindow
  BY <1>1, <1>6 DEF RunOver, RunEnds, Restart, ExitBrowsersHung, ProcessDies, Watchdog, WatchRead, WatchCompare,
     WatchMark, WatchCancel, PauseWatch, PauseMark, PauseCancel, Users, Submit, Tick, OpenWindow, CloseWindow,
     dataVars
<1>7. CASE Handlers
  BY <1>1, <1>4, <1>7 DEF Handlers, RerunGet, RerunUpdate, DeleteRow, dataVars
<1>8. CASE UNCHANGED vars
  BY <1>1, <1>8 DEF vars, dataVars
<1>. QED
  BY <1>3, <1>5, <1>6, <1>7, <1>8 DEF Next, Listing

LEMMA CSVInvariant == Spec => [](Undisturbed => CSVInLeads)
<1> DEFINE CSVInv == Undisturbed => CSVInLeads
<1>1. Init => CSVInv
  BY DEF Init, CSVInLeads, Rows
<1>2. TypeOK /\ CSVInv /\ [Next]_vars => CSVInv'
  <2> SUFFICES ASSUME TypeOK, CSVInv, [Next]_vars, Undisturbed'
               PROVE  CSVInLeads'
    OBVIOUS
  <2>1. Undisturbed
    BY OnlyCountedUp DEF Undisturbed
  <2>. QED
    BY <2>1, CSVStep
<1>. QED
  BY <1>1, <1>2, TypeInvariant, PTL DEF Spec

(* As long as the process has stayed up and no write has failed, the lead     *)
(* list has every finished job's rows whenever the worker is between jobs.    *)
THEOREM LeadsComplete == Spec => []LeadsCaughtUp
<1>1. (Undisturbed => CSVInLeads) => LeadsCaughtUp
  BY DEF CSVInLeads, LeadsCaughtUp
<1>. QED
  BY <1>1, CSVInvariant, PTL

(* Until then, too, emptying a CSV for a new run never loses a row. *)
THEOREM TruncationSafe == Spec => TruncationLosesNothing
<1>1. TypeOK /\ (Undisturbed => CSVInLeads) /\ [Next]_vars
        => [Undisturbed => \A j \in Job : csv'[j] = {} => Rows(j) \subseteq leads[j]]_vars
  BY EmptiedAtCreate DEF CSVInLeads, Rows
<1>. QED
  BY <1>1, CSVInvariant, TypeInvariant, PTL DEF Spec, TruncationLosesNothing
-----------------------------------------------------------------------------
(* Why a run that was cut is always put back: the cancel functions the        *)
(* watchers hold are those of the run in hand, whose mark was made first; a   *)
(* run that was cut carries a mark until afterJob takes it; and its row is    *)
(* not "ok" before its outcome is saved.                                      *)
Ran == {"running", "save", "clear", "ingest", "afterPause"}

CancelsInHand ==
  /\ dLive => dpc # "idle" /\ pc = "running" /\ dId = wjob
  /\ dLive /\ dpc = "cancel" => wjob \in stalled
  /\ pLive => ppc = "cancel" /\ pc = "running" /\ wjob \in paused

CutIsMarked ==
  /\ cut # {} => pc \in Ran \cup {"afterStall", "afterEmpty", "afterSave", "done"}
  /\ cut # {} /\ pc \in Ran => wjob \in paused \cup stalled
  /\ wjob \in cutShort =>
       /\ pc \notin {"setup", "running", "afterEmpty"}
       /\ pc \in Ran => wjob \in paused \cup stalled
       /\ pc = "afterStall" => wjob \in stalled

RowInHand == pc \in {"selected", "create", "setup", "running", "save"} => row[wjob] # "ok"

LEMMA CancelsStep ==
  ASSUME TypeOK, CurIsInHand, CancelsInHand, [Next]_vars
  PROVE  CancelsInHand'
<1> USE DEF CancelsInHand
<1>1. CASE UNCHANGED vars
  BY <1>1 DEF vars, workVars, markVars, dogVars, pauseVars
<1>2. CASE Worker
  <2>1. CASE Boot \/ RequeueSave \/ BackfillScan \/ Ready \/ HoldForPause \/ Begin \/ CreateCSV
    BY <2>1 DEF Boot, RequeueSave, BackfillScan, Ready, HoldForPause, Begin, CreateCSV, WorkerStep, dogVars, pauseVars
  <2>2. CASE SetupFails \/ NoSeeds \/ StartRun \/ SaveOutcome \/ ClearCurrent \/ IngestRun
    BY <2>2 DEF SetupFails, NoSeeds, StartRun, SaveOutcome, ClearCurrent, IngestRun, WorkerStep, dogVars, pauseVars
  <2>3. CASE TakePauseMark \/ TakeStallMark \/ SaveRequeue \/ NoRetry \/ NextJob
    BY <2>3 DEF TakePauseMark, TakeStallMark, SaveRequeue, NoRetry, NextJob, WorkerStep, dogVars, pauseVars
  <2>4. ASSUME NEW j \in Job, RequeueIngest(j) \/ BackfillOne(j)
        PROVE  CancelsInHand'
    BY <2>4 DEF RequeueIngest, BackfillOne, WorkerStep, dogVars, pauseVars
  <2>5. ASSUME NEW j \in Job, Select(j) \/ RetryEmpty(j)
        PROVE  CancelsInHand'
    BY <2>5 DEF Select, RetryEmpty, Create, WorkerStep, dogVars, pauseVars
  <2>. QED
    BY <1>2, <2>1, <2>2, <2>3, <2>4, <2>5 DEF Worker
<1>3. CASE RunOver
  BY <1>3 DEF RunOver, RunEnds
<1>4. CASE Restart \/ ExitBrowsersHung
  BY <1>4 DEF Restart, ExitBrowsersHung, ProcessDies
<1>5. CASE Watchdog
  <2>1. CASE WatchRead
    BY <2>1 DEF WatchRead, CurIsInHand, workVars, markVars, pauseVars
  <2>2. CASE WatchCompare \/ WatchMark \/ WatchCancel
    BY <2>2 DEF WatchCompare, WatchMark, WatchCancel, workVars, markVars, pauseVars
  <2>. QED
    BY <1>5, <2>1, <2>2 DEF Watchdog
<1>6. CASE PauseWatch
  <2>1. CASE PauseMark
    BY <2>1 DEF PauseMark, CurIsInHand, workVars, dogVars
  <2>2. CASE PauseCancel
    BY <2>2 DEF PauseCancel, workVars, markVars, dogVars
  <2>. QED
    BY <1>6, <2>1, <2>2 DEF PauseWatch
<1>7. CASE Listing \/ Handlers \/ Users \/ Tick \/ OpenWindow \/ CloseWindow
  BY <1>7 DEF Listing, WriteRow, Handlers, RerunGet, RerunUpdate, DeleteCSV, DeleteRow, Users, Submit, Tick,
     OpenWindow, CloseWindow, workVars, markVars, dogVars, pauseVars
<1>. QED
  BY <1>1, <1>2, <1>3, <1>4, <1>5, <1>6, <1>7 DEF Next

LEMMA CutStep ==
  ASSUME TypeOK, CurIsInHand, CancelsInHand, CutIsMarked, [Next]_vars, Undisturbed'
  PROVE  CutIsMarked'
<1> USE DEF CutIsMarked, Ran
<1> ~Fault /\ ~Restart /\ ~ExitBrowsersHung
  BY OnlyCountedUp DEF Undisturbed
<1>1. CASE UNCHANGED vars
  BY <1>1 DEF vars, workVars, runVars, markVars
<1>2. CASE Worker
  <2>1. CASE Boot \/ RequeueSave \/ BackfillScan \/ Ready \/ HoldForPause
    BY <2>1 DEF Boot, RequeueSave, BackfillScan, Ready, HoldForPause, WorkerStep, runVars, markVars, TypeOK, WorkType, RunType,
       RunnerAssumption
  <2>2. CASE Begin
    BY <2>2, UpdateStores DEF Begin, Status, TypeOK, WorkType, runVars, markVars
  <2>3. CASE CreateCSV
    BY <2>3 DEF CreateCSV, markVars
  <2>4. CASE SetupFails \/ NoSeeds \/ StartRun
    BY <2>4 DEF SetupFails, NoSeeds, StartRun, WorkerStep, runVars, markVars
  <2>5. CASE SaveOutcome \/ ClearCurrent \/ IngestRun
    BY <2>5 DEF SaveOutcome, ClearCurrent, IngestRun, WorkerStep, runVars, markVars
  <2>6. CASE TakePauseMark
    BY <2>6 DEF TakePauseMark, runVars
  <2>7. CASE TakeStallMark
    BY <2>7 DEF TakeStallMark
  <2>8. CASE SaveRequeue \/ NoRetry \/ NextJob
    BY <2>8, RunnerAssumption DEF SaveRequeue, NoRetry, NextJob, WorkerStep, runVars, markVars, TypeOK, RunType, RunnerAssumption
  <2>9. ASSUME NEW j \in Job, RequeueIngest(j) \/ BackfillOne(j) \/ Select(j) \/ RetryEmpty(j)
        PROVE  CutIsMarked'
    BY <2>9 DEF RequeueIngest, BackfillOne, Select, RetryEmpty, WorkerStep, runVars, markVars
  <2>. QED
    BY <1>2, <2>1, <2>2, <2>3, <2>4, <2>5, <2>6, <2>7, <2>8, <2>9 DEF Worker
<1>3. CASE RunOver
  BY <1>3 DEF RunOver, RunEnds, WorkerStep, markVars
<1>4. CASE Restart \/ ExitBrowsersHung
  BY <1>4
<1>5. CASE Watchdog
  <2>1. CASE WatchRead \/ WatchCompare \/ WatchMark
    BY <2>1 DEF WatchRead, WatchCompare, WatchMark, workVars, runVars, markVars
  <2>2. CASE WatchCancel
    BY <2>2 DEF WatchCancel, CancelsInHand, workVars, markVars
  <2>. QED
    BY <1>5, <2>1, <2>2 DEF Watchdog
<1>6. CASE PauseWatch
  <2>1. CASE PauseMark
    BY <2>1 DEF PauseMark, workVars, runVars
  <2>2. CASE PauseCancel
    BY <2>2 DEF PauseCancel, CancelsInHand, workVars, markVars
  <2>. QED
    BY <1>6, <2>1, <2>2 DEF PauseWatch
<1>7. CASE Listing \/ Handlers \/ Users \/ Tick \/ OpenWindow \/ CloseWindow
  BY <1>7 DEF Listing, WriteRow, Handlers, RerunGet, RerunUpdate, DeleteCSV, DeleteRow, Users, Submit, Tick,
     OpenWindow, CloseWindow, workVars, runVars, markVars
<1>. QED
  BY <1>1, <1>2, <1>3, <1>4, <1>5, <1>6, <1>7 DEF Next

LEMMA RowStep ==
  ASSUME TypeOK, VerdictInHand, CutIsMarked, RowInHand, StoppedRunIsRequeued, [Next]_vars,
         Undisturbed, Undisturbed'
  PROVE  RowInHand' /\ StoppedRunIsRequeued'
<1> USE DEF RowInHand, StoppedRunIsRequeued
<1> ~Fault /\ ~Restart /\ ~ExitBrowsersHung
  BY OnlyCountedUp DEF Undisturbed
<1> wjob \in Job \/ pc \in {"down", "requeue", "backfill", "idle"}
  BY DEF TypeOK, WorkType
<1> wstat \in Status
  BY DEF TypeOK, WorkType
<1>1. CASE UNCHANGED vars
  BY <1>1 DEF vars, tableVars, workVars, runVars
<1>2. CASE Worker
  <2>1. CASE Boot \/ BackfillScan \/ Ready \/ HoldForPause
    BY <2>1 DEF Boot, BackfillScan, Ready, HoldForPause, WorkerStep, tableVars, runVars
  <2>2. CASE RequeueSave
    BY <2>2, UpdateStores DEF RequeueSave, WorkerStep, Status, runVars, TypeOK, RunType
  <2>3. CASE Begin
    BY <2>3, UpdateStores DEF Begin, Status, runVars, TypeOK, RunType
  <2>4. CASE CreateCSV
    BY <2>4 DEF CreateCSV, tableVars
  <2>5. CASE SetupFails
    BY <2>5, UpdateStores DEF SetupFails, WorkerStep, Status, runVars, TypeOK, RunType
  <2>6. CASE NoSeeds \/ StartRun
    BY <2>6 DEF NoSeeds, StartRun, WorkerStep, tableVars, runVars
  <2>7. CASE SaveOutcome
    BY <2>7, UpdateStores DEF SaveOutcome, WorkerStep, runVars, TypeOK, RunType
  <2>8. CASE ClearCurrent \/ IngestRun
    BY <2>8 DEF ClearCurrent, IngestRun, WorkerStep, tableVars, runVars
  <2>9. CASE TakePauseMark \/ TakeStallMark
    BY <2>9 DEF TakePauseMark, TakeStallMark, tableVars, runVars, CutIsMarked
  <2>10. CASE SaveRequeue
    BY <2>10, UpdateStores DEF SaveRequeue, WorkerStep, VerdictInHand, runVars, TypeOK, RunType
  <2>11. CASE NoRetry \/ NextJob
    BY <2>11 DEF NoRetry, NextJob, WorkerStep, tableVars, runVars
  <2>12. ASSUME NEW j \in Job, RequeueIngest(j) \/ BackfillOne(j)
         PROVE  RowInHand' /\ StoppedRunIsRequeued'
    BY <2>12 DEF RequeueIngest, BackfillOne, WorkerStep, tableVars, runVars
  <2>13. ASSUME NEW j \in Job, Select(j)
         PROVE  RowInHand' /\ StoppedRunIsRequeued'
    BY <2>13 DEF Select, OldestPending, WorkerStep, tableVars, runVars
  <2>14. ASSUME NEW j \in Job, RetryEmpty(j)
         PROVE  RowInHand' /\ StoppedRunIsRequeued'
    BY <2>14 DEF RetryEmpty, Create, WorkerStep, runVars, TypeOK, TableType, RunType
  <2>. QED
    BY <1>2, <2>1, <2>2, <2>3, <2>4, <2>5, <2>6, <2>7, <2>8, <2>9, <2>10, <2>11, <2>12, <2>13, <2>14 DEF Worker
<1>3. CASE RunOver
  BY <1>3 DEF RunOver, RunEnds, WorkerStep, tableVars
<1>4. CASE Restart \/ ExitBrowsersHung
  BY <1>4
<1>5. CASE Listing \/ Watchdog \/ PauseWatch \/ Tick \/ OpenWindow \/ CloseWindow
  BY <1>5 DEF Listing, WriteRow, Watchdog, WatchRead, WatchCompare, WatchMark, WatchCancel, PauseWatch,
     PauseMark, PauseCancel, Tick, OpenWindow, CloseWindow, workVars, tableVars, runVars
<1>6. CASE Users
  BY <1>6 DEF Users, Submit, Create, workVars, runVars, TypeOK, TableType, RunType
<1>7. CASE Handlers
  <2>1. ASSUME NEW h \in Handler, RerunUpdate(h)
        PROVE  RowInHand' /\ StoppedRunIsRequeued'
    <3>1. req[h].job \in Job
      BY <2>1 DEF RerunUpdate, TypeOK, ReqType, Request
    <3>. QED
      BY <2>1, <3>1, UpdateStores DEF RerunUpdate, workVars, runVars, Status, TypeOK, RunType
  <2>2. ASSUME NEW h \in Handler, DeleteRow(h)
        PROVE  RowInHand' /\ StoppedRunIsRequeued'
    BY <2>2 DEF DeleteRow, workVars, runVars, TypeOK, TableType, RunType
  <2>3. ASSUME NEW h \in Handler, NEW j \in Job, RerunGet(h, j) \/ DeleteCSV(h, j)
        PROVE  RowInHand' /\ StoppedRunIsRequeued'
    BY <2>3 DEF RerunGet, DeleteCSV, workVars, tableVars, runVars
  <2>. QED
    BY <1>7, <2>1, <2>2, <2>3 DEF Handlers
<1>. QED
  BY <1>1, <1>2, <1>3, <1>4, <1>5, <1>6, <1>7 DEF Next

(* As long as the process stays up and no write fails, a run that was cut     *)
(* short is not left "ok": it goes back in the queue, or is failed for good.  *)
THEOREM StoppedRunsRequeued == Spec => []StoppedRunIsRequeued
<1> DEFINE CutInv == Undisturbed => CutIsMarked /\ RowInHand
<1>1. Init => CancelsInHand /\ CutInv /\ StoppedRunIsRequeued /\ VerdictInHand /\ CurIsInHand
  BY DEF Init, CancelsInHand, CutIsMarked, RowInHand, StoppedRunIsRequeued, VerdictInHand, CurIsInHand
<1>2. TypeOK /\ CurIsInHand /\ PauseMarkIsOfTheRun /\ [Next]_vars => CurIsInHand'
  <2>1. CASE UNCHANGED vars
    BY <2>1 DEF vars, workVars, runVars, CurIsInHand
  <2>. QED
    BY <2>1, PauseInvWorker, PauseInvRest DEF PauseInv
<1>3. TypeOK /\ CurIsInHand /\ CancelsInHand /\ [Next]_vars => CancelsInHand'
  BY CancelsStep
<1>4. TypeOK /\ VerdictInHand /\ [Next]_vars => VerdictInHand'
  BY VerdictStep
<1>5. TypeOK /\ VerdictInHand /\ CurIsInHand /\ CancelsInHand /\ CutInv /\ StoppedRunIsRequeued /\ [Next]_vars
        => CutInv' /\ StoppedRunIsRequeued'
  <2> SUFFICES ASSUME TypeOK, VerdictInHand, CurIsInHand, CancelsInHand, CutInv, StoppedRunIsRequeued, [Next]_vars
               PROVE  CutInv' /\ StoppedRunIsRequeued'
    OBVIOUS
  <2>1. CASE ~Undisturbed'
    BY <2>1 DEF StoppedRunIsRequeued
  <2>2. CASE Undisturbed'
    <3>1. Undisturbed
      BY <2>2, OnlyCountedUp DEF Undisturbed
    <3>. QED
      BY <2>2, <3>1, CutStep, RowStep
  <2>. QED
    BY <2>1, <2>2
<1>. QED
  BY <1>1, <1>2, <1>3, <1>4, <1>5, TypeInvariant, PauseMarkInvariant, PTL DEF Spec
-----------------------------------------------------------------------------
(* Each requeue of a stalled job was counted in attempts when it was decided,  *)
(* and the count only grows while the process lives.                           *)
RetriesCounted(j) == requeued[j] <= attempts[j] /\ requeued[j] <= MaxStallRetries

LEMMA StallStep ==
  ASSUME TypeOK, \A j \in Job : RetriesCounted(j), TakeStallMark
  PROVE  \A j \in Job : RetriesCounted(j)'
<1>1. /\ attempts \in [Job -> 0..MaxStallRetries + 1] /\ requeued \in [Job -> 0..MaxStallRetries + 1]
      /\ MaxStallRetries \in Nat
  BY BoundsAreNat DEF TypeOK, MarkType, RunType
<1>2. wjob \in Job
  BY DEF TakeStallMark, TypeOK, WorkType
<1>3. CASE wjob \notin stalled
  BY <1>3 DEF TakeStallMark, RetriesCounted
<1>4. CASE wjob \in stalled
  <2>1. attempts' = Bump(attempts, wjob)
    BY <1>4 DEF TakeStallMark
  <2>2. CASE MayRetry(attempts'[wjob])
    <3>1. wstat' = "pending" /\ requeued' = Bump(requeued, wjob)
      BY <1>4, <2>2 DEF TakeStallMark, StallVerdict
    <3>2. attempts'[wjob] = attempts[wjob] + 1 /\ attempts[wjob] < MaxStallRetries
      BY <1>1, <1>2, <2>1, <2>2 DEF Bump, MayRetry
    <3>3. requeued'[wjob] = requeued[wjob] + 1
      BY <1>1, <1>2, <3>1 DEF Bump, RetriesCounted
    <3>4. ASSUME NEW j \in Job, j = wjob PROVE RetriesCounted(j)'
      BY <1>1, <3>2, <3>3, <3>4 DEF RetriesCounted
    <3>5. ASSUME NEW j \in Job, j # wjob PROVE RetriesCounted(j)'
      BY <1>1, <1>2, <2>1, <3>1, <3>5 DEF RetriesCounted, Bump
    <3>. QED
      BY <3>4, <3>5
  <2>3. CASE ~MayRetry(attempts'[wjob])
    <3>1. requeued' = requeued
      BY <1>4, <2>3 DEF TakeStallMark, StallVerdict
    <3>. QED
      BY <1>1, <1>2, <2>1, <3>1 DEF RetriesCounted, Bump
  <2>. QED
    BY <2>2, <2>3
<1>. QED
  BY <1>3, <1>4

(* While the process lives, only afterJob's stall branch writes either count.  *)
LEMMA CountsKept ==
  ASSUME MaxRestarts = 0, TypeOK, [Next]_vars
  PROVE  TakeStallMark \/ UNCHANGED <<attempts, requeued>>
<1>0. ~Restart /\ ~ExitBrowsersHung
  BY DEF Restart, ExitBrowsersHung, TypeOK, EnvType
<1>1. CASE UNCHANGED vars
  BY <1>1 DEF vars, runVars, markVars
<1>2. CASE Worker
  <2>1. CASE Boot \/ RequeueSave \/ BackfillScan \/ Ready \/ HoldForPause \/ Begin
    BY <2>1 DEF Boot, RequeueSave, BackfillScan, Ready, HoldForPause, Begin, runVars, markVars
  <2>2. CASE CreateCSV \/ SetupFails \/ NoSeeds \/ StartRun \/ SaveOutcome \/ ClearCurrent
    BY <2>2 DEF CreateCSV, SetupFails, NoSeeds, StartRun, SaveOutcome, ClearCurrent, runVars, markVars
  <2>3. CASE IngestRun \/ TakePauseMark \/ SaveRequeue \/ NoRetry \/ NextJob
    BY <2>3 DEF IngestRun, TakePauseMark, SaveRequeue, NoRetry, NextJob, runVars, markVars
  <2>4. ASSUME NEW j \in Job, RequeueIngest(j) \/ BackfillOne(j) \/ Select(j) \/ RetryEmpty(j)
        PROVE  UNCHANGED <<attempts, requeued>>
    BY <2>4 DEF RequeueIngest, BackfillOne, Select, RetryEmpty, runVars, markVars
  <2>. QED
    BY <1>2, <2>1, <2>2, <2>3, <2>4 DEF Worker
<1>3. CASE Listing \/ RunOver \/ Watchdog \/ PauseWatch
  BY <1>3 DEF Listing, WriteRow, RunOver, RunEnds, Watchdog, WatchRead, WatchCompare, WatchMark,
     WatchCancel, PauseWatch, PauseMark, PauseCancel, runVars, markVars
<1>4. CASE Users \/ Tick \/ OpenWindow \/ CloseWindow \/ Handlers
  BY <1>4 DEF Users, Submit, Tick, OpenWindow, CloseWindow, Handlers, RerunGet, RerunUpdate, DeleteCSV,
     DeleteRow, runVars, markVars
<1>. QED
  BY <1>0, <1>1, <1>2, <1>3, <1>4 DEF Next

(* In one life of the process, a stalled job is queued again at most           *)
(* maxStallRetries times (webrunner.go:65), however its marks fall.            *)
THEOREM StallRetriesBounded == ASSUME MaxRestarts = 0 PROVE Spec => []StallRetriesAreBounded
<1> DEFINE Counted == \A j \in Job : RetriesCounted(j)
<1>1. Init => Counted
  BY BoundsAreNat DEF Init, RetriesCounted
<1>2. TypeOK /\ Counted /\ [Next]_vars => Counted'
  BY StallStep, CountsKept DEF RetriesCounted
<1>3. Counted => StallRetriesAreBounded
  BY DEF RetriesCounted, StallRetriesAreBounded
<1>. QED
  BY <1>1, <1>2, <1>3, TypeInvariant, PTL DEF Spec
=============================================================================
