------------------------- MODULE ScrapeJobsProofs -------------------------
(***************************************************************************)
(* Proofs about ScrapeJobs, for any jobs, listings, number of attempts and *)
(* cycle length. The heart of the argument is where a registration is:     *)
(* exactly one of tracked by the writer, taken by Work's flush, taken by   *)
(* one monitor's flush, or answered; and it is always the one in hand.     *)
(***************************************************************************)
EXTENDS ScrapeJobs, TLAPS

\* A job waiting for a worker has an attempt left.
Retriable == \A j \in Jobs : state[j] = "available" => attempt[j] < MaxAttempts

\* Work is idle exactly when it has no attempt in hand.
Hand ==
  /\ wpc = "idle" => wjob = NoAttempt
  /\ wjob = NoAttempt => wpc = "idle"

\* Only an attempt that was submitted has a monitor.
Fresh ==
  \A a \in Attempts : mon[a] # "off" =>
    a[2] <= attempt[a[1]] /\ (a = wjob => wpc \notin {"register", "submit"})

\* Whatever the writer or a flush holds, or an answer, belongs to the attempt in hand.
Held ==
  /\ TrackedIsInHand
  /\ wTaken.reg # NoAttempt => wTaken.reg = wjob /\ wpc = "save"
  /\ wpc = "save" => wTaken.reg = wjob
  /\ \A a \in Attempts : mTaken[a].reg # NoAttempt =>
       /\ mTaken[a].reg = wjob /\ mon[a] = "saving"
       /\ wpc \in {"submit", "wait", "flush", "answer"}
  /\ \A a \in Attempts : mon[a] = "saving" => mTaken[a].reg = wjob /\ wjob # NoAttempt
  /\ \A a \in Attempts : answer[a] # "none" =>
       a = wjob /\ wpc \in {"submit", "wait", "flush", "answer"}

\* It is in one place only.
Alone ==
  /\ current.reg # NoAttempt => \A a \in Attempts : mTaken[a].reg = NoAttempt /\ answer[a] = "none"
  /\ \A a \in Attempts : mTaken[a].reg # NoAttempt =>
       \A b \in Attempts : answer[b] = "none" /\ (mTaken[b].reg # NoAttempt => a = b)

\* From registration to answer it is in some place.
Coming ==
  /\ wpc \in {"submit", "wait", "flush"} =>
       current.reg = wjob \/ answer[wjob] # "none" \/ \E a \in Attempts : mTaken[a].reg = wjob
  /\ wpc = "answer" => answer[wjob] # "none" \/ \E a \in Attempts : mTaken[a].reg = wjob

\* The rows held under a registration were found for its job.
Own(t) == t.reg # NoAttempt => \A r \in t.rows : r[1][1] = t.reg[1]
Rows ==
  /\ Own(current)
  /\ Own(wTaken)
  /\ \A a \in Attempts : Own(mTaken[a])
  /\ RowsStayWithTheirJob

\* The attempt in hand is the job's latest; a good answer or verdict means its rows are saved.
Latest == wjob # NoAttempt => attempt[wjob[1]] = wjob[2] /\ state[wjob[1]] \in {"running", "deleted"}
SavedBy(a) == deletion[a[1]] = "none" => saved[a[1]].by = a
GoodIsSaved ==
  /\ \A a \in Attempts : answer[a] \in {"rows", "empty"} => SavedBy(a)
  /\ verdict = "ok" => wpc \in {"return", "settle"} /\ SavedBy(wjob)
  /\ CompletedIsSaved
  /\ \A j \in Jobs : state[j] = "deleted" => deletion[j] = "done"

IInv == TypeOK /\ Retriable /\ Hand /\ Fresh /\ Held /\ Alone /\ Coming
             /\ Rows /\ Latest /\ GoodIsSaved

USE AttemptBound, CycleBound, EnvironmentBounds, NoAttemptIsNone
-----------------------------------------------------------------------------
LEMMA RiverTypeKept == ASSUME TypeOK, Hand, Retriable, [Next]_vars PROVE RiverType'
<1>1. ASSUME NEW j \in Jobs, Fetch(j) PROVE RiverType'
  BY <1>1 DEF Fetch, writer, crawls, manager, env, WorkType, Attempts, Retriable, Hand, TypeOK,
     RiverType
<1>2. CASE RegisterJob
  BY <1>2 DEF RegisterJob, river, crawls, manager, env, TypeOK, RiverType
<1>3. CASE SubmitJob
  BY <1>3 DEF SubmitJob, river, writer, manager, env, TypeOK, RiverType
<1>4. CASE SubmitFails
  BY <1>4 DEF SubmitFails, river, writer, crawls, manager, env, TypeOK, RiverType
<1>5. CASE Completion
  BY <1>5 DEF Completion, river, crawls, manager, env, TypeOK, RiverType
<1>6. ASSUME NEW reason \in {"timeout", "cancelled"}, GiveUp(reason) PROVE RiverType'
  BY <1>6 DEF GiveUp, river, writer, crawls, manager, env, TypeOK, RiverType
<1>7. CASE ForceFlush
  BY <1>7 DEF ForceFlush, river, crawls, manager, env, TypeOK, RiverType
<1>8. CASE ForceFlushSave
  BY <1>8 DEF ForceFlushSave, river, crawls, manager, env, TypeOK, RiverType
<1>9. CASE WaitForFlushResult
  BY <1>9 DEF WaitForFlushResult, river, crawls, manager, env, TypeOK, RiverType
<1>10. CASE JobDone
  BY <1>10 DEF JobDone, river, writer, crawls, env, TypeOK, RiverType
<1>11. CASE Settle
  BY <1>11 DEF Settle, writer, crawls, manager, env, NextState, WorkType, Attempts, Retriable,
     Hand, TypeOK, RiverType
<1>12. ASSUME NEW a \in Attempts, MonitorFires(a) PROVE RiverType'
  BY <1>12 DEF MonitorFires, river, work, writer, crawls, manager, env, TypeOK, RiverType
<1>13. ASSUME NEW a \in Attempts, MonitorQuits(a) PROVE RiverType'
  BY <1>13 DEF MonitorQuits, river, work, writer, crawls, manager, env, TypeOK, RiverType
<1>14. ASSUME NEW a \in Attempts, MarkDone(a) PROVE RiverType'
  BY <1>14 DEF MarkDone, river, work, crawls, manager, env, TypeOK, RiverType
<1>15. ASSUME NEW a \in Attempts, MarkDoneSave(a) PROVE RiverType'
  BY <1>15 DEF MarkDoneSave, river, work, crawls, manager, env, TypeOK, RiverType
<1>16. ASSUME NEW a \in Attempts, StartCrawl(a) PROVE RiverType'
  BY <1>16 DEF StartCrawl, river, work, writer, manager, env, TypeOK, RiverType
<1>17. ASSUME NEW a \in Attempts, NEW l \in Listings, AddResult(a, l) PROVE RiverType'
  BY <1>17 DEF AddResult, river, work, manager, env, TypeOK, RiverType
<1>18. ASSUME NEW a \in Attempts, CrawlEnds(a) PROVE RiverType'
  BY <1>18 DEF CrawlEnds, river, work, writer, manager, env, TypeOK, RiverType
<1>19. CASE StartCycle
  BY <1>19 DEF StartCycle, river, work, writer, env, TypeOK, RiverType
<1>20. CASE TakeRestart
  BY <1>20 DEF TakeRestart, river, work, writer, crawls, env, TypeOK, RiverType
<1>21. CASE Terminate
  BY <1>21 DEF Terminate, river, work, writer, crawls, manager, TypeOK, RiverType
<1>22. CASE ProcessEnds
  BY <1>22 DEF ProcessEnds, river, TypeOK, RiverType
<1>23. ASSUME NEW j \in Jobs, Rescue(j) PROVE RiverType'
  BY <1>23 DEF Rescue, work, writer, crawls, manager, env, AttemptsOf, NextState, WorkType,
     Attempts, Retriable, Hand, TypeOK, RiverType
<1>24. ASSUME NEW j \in Jobs, DeleteJob(j) PROVE RiverType'
  BY <1>24 DEF DeleteJob, work, writer, crawls, manager, env, WorkType, Attempts, Retriable,
     Hand, TypeOK, RiverType
<1>25. ASSUME NEW j \in Jobs, DeleteResults(j) PROVE RiverType'
  BY <1>25 DEF DeleteResults, work, writer, crawls, manager, env, Nothing, WorkType, Attempts,
     Retriable, Hand, TypeOK, RiverType
<1>26. ASSUME NEW j \in Jobs, DeleteRow(j) PROVE RiverType'
  BY <1>26 DEF DeleteRow, work, writer, crawls, manager, env, WorkType, Attempts, Retriable,
     Hand, TypeOK, RiverType
<1>27. CASE UNCHANGED vars
  BY <1>27 DEF vars, river, work, writer, crawls, manager, env, TypeOK, RiverType
<1>. QED
  BY <1>1, <1>2, <1>3, <1>4, <1>5, <1>6, <1>7, <1>8, <1>9, <1>10, <1>11, <1>12, <1>13, <1>14,
     <1>15, <1>16, <1>17, <1>18, <1>19, <1>20, <1>21, <1>22, <1>23, <1>24, <1>25, <1>26, <1>27
  DEF Next, Work, Monitor, Scraper, Manager, Deletion, Environment

LEMMA SavedTypeKept == ASSUME TypeOK, Hand, Held, [Next]_vars PROVE SavedType'
<1>1. ASSUME NEW j \in Jobs, Fetch(j) PROVE SavedType'
  BY <1>1 DEF Fetch, writer, crawls, manager, env, TypeOK, SavedType
<1>2. CASE RegisterJob
  BY <1>2 DEF RegisterJob, river, crawls, manager, env, TypeOK, SavedType
<1>3. CASE SubmitJob
  BY <1>3 DEF SubmitJob, river, writer, manager, env, TypeOK, SavedType
<1>4. CASE SubmitFails
  BY <1>4 DEF SubmitFails, river, writer, crawls, manager, env, TypeOK, SavedType
<1>5. CASE Completion
  BY <1>5 DEF Completion, river, crawls, manager, env, TypeOK, SavedType
<1>6. ASSUME NEW reason \in {"timeout", "cancelled"}, GiveUp(reason) PROVE SavedType'
  BY <1>6 DEF GiveUp, river, writer, crawls, manager, env, TypeOK, SavedType
<1>7. CASE ForceFlush
  BY <1>7 DEF ForceFlush, river, crawls, manager, env, TypeOK, SavedType
<1>8. CASE ForceFlushSave
  BY <1>8 DEF ForceFlushSave, river, crawls, manager, env, Save, NotTracked, WriterType,
     WorkType, Tracked, Attempts, Held, Hand, TrackedIsInHand, TypeOK, SavedType
<1>9. CASE WaitForFlushResult
  BY <1>9 DEF WaitForFlushResult, river, crawls, manager, env, TypeOK, SavedType
<1>10. CASE JobDone
  BY <1>10 DEF JobDone, river, writer, crawls, env, TypeOK, SavedType
<1>11. CASE Settle
  BY <1>11 DEF Settle, writer, crawls, manager, env, TypeOK, SavedType
<1>12. ASSUME NEW a \in Attempts, MonitorFires(a) PROVE SavedType'
  BY <1>12 DEF MonitorFires, river, work, writer, crawls, manager, env, TypeOK, SavedType
<1>13. ASSUME NEW a \in Attempts, MonitorQuits(a) PROVE SavedType'
  BY <1>13 DEF MonitorQuits, river, work, writer, crawls, manager, env, TypeOK, SavedType
<1>14. ASSUME NEW a \in Attempts, MarkDone(a) PROVE SavedType'
  BY <1>14 DEF MarkDone, river, work, crawls, manager, env, TypeOK, SavedType
<1>15. ASSUME NEW a \in Attempts, MarkDoneSave(a) PROVE SavedType'
  BY <1>15 DEF MarkDoneSave, river, work, crawls, manager, env, Save, NotTracked, WriterType,
     WorkType, Tracked, Attempts, Held, Hand, TrackedIsInHand, TypeOK, SavedType
<1>16. ASSUME NEW a \in Attempts, StartCrawl(a) PROVE SavedType'
  BY <1>16 DEF StartCrawl, river, work, writer, manager, env, TypeOK, SavedType
<1>17. ASSUME NEW a \in Attempts, NEW l \in Listings, AddResult(a, l) PROVE SavedType'
  BY <1>17 DEF AddResult, river, work, manager, env, TypeOK, SavedType
<1>18. ASSUME NEW a \in Attempts, CrawlEnds(a) PROVE SavedType'
  BY <1>18 DEF CrawlEnds, river, work, writer, manager, env, TypeOK, SavedType
<1>19. CASE StartCycle
  BY <1>19 DEF StartCycle, river, work, writer, env, TypeOK, SavedType
<1>20. CASE TakeRestart
  BY <1>20 DEF TakeRestart, river, work, writer, crawls, env, TypeOK, SavedType
<1>21. CASE Terminate
  BY <1>21 DEF Terminate, river, work, writer, crawls, manager, TypeOK, SavedType
<1>22. CASE ProcessEnds
  BY <1>22 DEF ProcessEnds, river, TypeOK, SavedType
<1>23. ASSUME NEW j \in Jobs, Rescue(j) PROVE SavedType'
  BY <1>23 DEF Rescue, work, writer, crawls, manager, env, TypeOK, SavedType
<1>24. ASSUME NEW j \in Jobs, DeleteJob(j) PROVE SavedType'
  BY <1>24 DEF DeleteJob, work, writer, crawls, manager, env, TypeOK, SavedType
<1>25. ASSUME NEW j \in Jobs, DeleteResults(j) PROVE SavedType'
  BY <1>25 DEF DeleteResults, work, writer, crawls, manager, env, Nothing, WriterType, WorkType,
     Tracked, NotTracked, Attempts, Held, Hand, TrackedIsInHand, TypeOK, SavedType
<1>26. ASSUME NEW j \in Jobs, DeleteRow(j) PROVE SavedType'
  BY <1>26 DEF DeleteRow, work, writer, crawls, manager, env, TypeOK, SavedType
<1>27. CASE UNCHANGED vars
  BY <1>27 DEF vars, river, work, writer, crawls, manager, env, TypeOK, SavedType
<1>. QED
  BY <1>1, <1>2, <1>3, <1>4, <1>5, <1>6, <1>7, <1>8, <1>9, <1>10, <1>11, <1>12, <1>13, <1>14,
     <1>15, <1>16, <1>17, <1>18, <1>19, <1>20, <1>21, <1>22, <1>23, <1>24, <1>25, <1>26, <1>27
  DEF Next, Work, Monitor, Scraper, Manager, Deletion, Environment

LEMMA WorkTypeKept == ASSUME TypeOK, Retriable, [Next]_vars PROVE WorkType'
<1>1. ASSUME NEW j \in Jobs, Fetch(j) PROVE WorkType'
  BY <1>1 DEF Fetch, writer, crawls, manager, env, RiverType, Retriable, Attempts, TypeOK,
     WorkType, WorkStep
<1>2. CASE RegisterJob
  BY <1>2 DEF RegisterJob, river, crawls, manager, env, RiverType, Retriable, Attempts, TypeOK,
     WorkType, WorkStep
<1>3. CASE SubmitJob
  BY <1>3 DEF SubmitJob, river, writer, manager, env, RiverType, Retriable, Attempts, TypeOK,
     WorkType, WorkStep
<1>4. CASE SubmitFails
  BY <1>4 DEF SubmitFails, river, writer, crawls, manager, env, RiverType, Retriable, Attempts,
     TypeOK, WorkType, WorkStep
<1>5. CASE Completion
  BY <1>5 DEF Completion, river, crawls, manager, env, RiverType, Retriable, Attempts, TypeOK,
     WorkType, WorkStep
<1>6. ASSUME NEW reason \in {"timeout", "cancelled"}, GiveUp(reason) PROVE WorkType'
  BY <1>6 DEF GiveUp, river, writer, crawls, manager, env, Told, RiverType, Retriable, Attempts,
     TypeOK, WorkType, WorkStep
<1>7. CASE ForceFlush
  BY <1>7 DEF ForceFlush, river, crawls, manager, env, Tracks, AttemptsOf, NotTracked,
     RiverType, Retriable, Attempts, TypeOK, WorkType, WorkStep
<1>8. CASE ForceFlushSave
  BY <1>8 DEF ForceFlushSave, river, crawls, manager, env, Save, NotTracked, RiverType,
     Retriable, Attempts, TypeOK, WorkType, WorkStep
<1>9. CASE WaitForFlushResult
  BY <1>9 DEF WaitForFlushResult, river, crawls, manager, env, Outcome, RiverType, Retriable,
     Attempts, TypeOK, WorkType, WorkStep
<1>10. CASE JobDone
  BY <1>10 DEF JobDone, river, writer, crawls, env, Told, RiverType, Retriable, Attempts,
     TypeOK, WorkType, WorkStep
<1>11. CASE Settle
  BY <1>11 DEF Settle, writer, crawls, manager, env, NextState, RiverType, Retriable, Attempts,
     TypeOK, WorkType, WorkStep
<1>12. ASSUME NEW a \in Attempts, MonitorFires(a) PROVE WorkType'
  BY <1>12 DEF MonitorFires, river, work, writer, crawls, manager, env, TypeOK, WorkType, WorkStep
<1>13. ASSUME NEW a \in Attempts, MonitorQuits(a) PROVE WorkType'
  BY <1>13 DEF MonitorQuits, river, work, writer, crawls, manager, env, TypeOK, WorkType, WorkStep
<1>14. ASSUME NEW a \in Attempts, MarkDone(a) PROVE WorkType'
  BY <1>14 DEF MarkDone, river, work, crawls, manager, env, TypeOK, WorkType, WorkStep
<1>15. ASSUME NEW a \in Attempts, MarkDoneSave(a) PROVE WorkType'
  BY <1>15 DEF MarkDoneSave, river, work, crawls, manager, env, TypeOK, WorkType, WorkStep
<1>16. ASSUME NEW a \in Attempts, StartCrawl(a) PROVE WorkType'
  BY <1>16 DEF StartCrawl, river, work, writer, manager, env, TypeOK, WorkType, WorkStep
<1>17. ASSUME NEW a \in Attempts, NEW l \in Listings, AddResult(a, l) PROVE WorkType'
  BY <1>17 DEF AddResult, river, work, manager, env, TypeOK, WorkType, WorkStep
<1>18. ASSUME NEW a \in Attempts, CrawlEnds(a) PROVE WorkType'
  BY <1>18 DEF CrawlEnds, river, work, writer, manager, env, TypeOK, WorkType, WorkStep
<1>19. CASE StartCycle
  BY <1>19 DEF StartCycle, river, work, writer, env, TypeOK, WorkType, WorkStep
<1>20. CASE TakeRestart
  BY <1>20 DEF TakeRestart, river, work, writer, crawls, env, TypeOK, WorkType, WorkStep
<1>21. CASE Terminate
  BY <1>21 DEF Terminate, river, work, writer, crawls, manager, TypeOK, WorkType, WorkStep
<1>22. CASE ProcessEnds
  BY <1>22 DEF ProcessEnds, river, NotTracked, RiverType, Retriable, Attempts, TypeOK, WorkType,
     WorkStep
<1>23. ASSUME NEW j \in Jobs, Rescue(j) PROVE WorkType'
  BY <1>23 DEF Rescue, work, writer, crawls, manager, env, TypeOK, WorkType, WorkStep
<1>24. ASSUME NEW j \in Jobs, DeleteJob(j) PROVE WorkType'
  BY <1>24 DEF DeleteJob, work, writer, crawls, manager, env, TypeOK, WorkType, WorkStep
<1>25. ASSUME NEW j \in Jobs, DeleteResults(j) PROVE WorkType'
  BY <1>25 DEF DeleteResults, work, writer, crawls, manager, env, TypeOK, WorkType, WorkStep
<1>26. ASSUME NEW j \in Jobs, DeleteRow(j) PROVE WorkType'
  BY <1>26 DEF DeleteRow, work, writer, crawls, manager, env, TypeOK, WorkType, WorkStep
<1>27. CASE UNCHANGED vars
  BY <1>27 DEF vars, river, work, writer, crawls, manager, env, TypeOK, WorkType, WorkStep
<1>. QED
  BY <1>1, <1>2, <1>3, <1>4, <1>5, <1>6, <1>7, <1>8, <1>9, <1>10, <1>11, <1>12, <1>13, <1>14,
     <1>15, <1>16, <1>17, <1>18, <1>19, <1>20, <1>21, <1>22, <1>23, <1>24, <1>25, <1>26, <1>27
  DEF Next, Work, Monitor, Scraper, Manager, Deletion, Environment

LEMMA WriterTypeKept == ASSUME TypeOK, Hand, Held, [Next]_vars PROVE WriterType'
<1>1. ASSUME NEW j \in Jobs, Fetch(j) PROVE WriterType'
  BY <1>1 DEF Fetch, writer, crawls, manager, env, TypeOK, WriterType
<1>2. CASE RegisterJob
  BY <1>2 DEF RegisterJob, river, crawls, manager, env, WorkType, Tracked, NotTracked, Attempts,
     Row, Held, Hand, TrackedIsInHand, TypeOK, WriterType
<1>3. CASE SubmitJob
  BY <1>3 DEF SubmitJob, river, writer, manager, env, TypeOK, WriterType
<1>4. CASE SubmitFails
  BY <1>4 DEF SubmitFails, river, writer, crawls, manager, env, TypeOK, WriterType
<1>5. CASE Completion
  BY <1>5 DEF Completion, river, crawls, manager, env, WorkType, Tracked, NotTracked, Attempts,
     Row, Held, Hand, TrackedIsInHand, TypeOK, WriterType
<1>6. ASSUME NEW reason \in {"timeout", "cancelled"}, GiveUp(reason) PROVE WriterType'
  BY <1>6 DEF GiveUp, river, writer, crawls, manager, env, TypeOK, WriterType
<1>7. CASE ForceFlush
  BY <1>7 DEF ForceFlush, river, crawls, manager, env, Tracks, AttemptsOf, NotTracked, WorkType,
     Tracked, Attempts, Row, Held, Hand, TrackedIsInHand, TypeOK, WriterType
<1>8. CASE ForceFlushSave
  BY <1>8 DEF ForceFlushSave, river, crawls, manager, env, Save, NotTracked, WorkType, Tracked,
     Attempts, Row, Held, Hand, TrackedIsInHand, TypeOK, WriterType
<1>9. CASE WaitForFlushResult
  BY <1>9 DEF WaitForFlushResult, river, crawls, manager, env, Outcome, WorkType, Tracked,
     NotTracked, Attempts, Row, Held, Hand, TrackedIsInHand, TypeOK, WriterType
<1>10. CASE JobDone
  BY <1>10 DEF JobDone, river, writer, crawls, env, TypeOK, WriterType
<1>11. CASE Settle
  BY <1>11 DEF Settle, writer, crawls, manager, env, TypeOK, WriterType
<1>12. ASSUME NEW a \in Attempts, MonitorFires(a) PROVE WriterType'
  BY <1>12 DEF MonitorFires, river, work, writer, crawls, manager, env, TypeOK, WriterType
<1>13. ASSUME NEW a \in Attempts, MonitorQuits(a) PROVE WriterType'
  BY <1>13 DEF MonitorQuits, river, work, writer, crawls, manager, env, TypeOK, WriterType
<1>14. ASSUME NEW a \in Attempts, MarkDone(a) PROVE WriterType'
  BY <1>14 DEF MarkDone, river, work, crawls, manager, env, Tracks, AttemptsOf, NotTracked,
     WorkType, Tracked, Attempts, Row, Held, Hand, TrackedIsInHand, TypeOK, WriterType
<1>15. ASSUME NEW a \in Attempts, MarkDoneSave(a) PROVE WriterType'
  BY <1>15 DEF MarkDoneSave, river, work, crawls, manager, env, Save, NotTracked, WorkType,
     Tracked, Attempts, Row, Held, Hand, TrackedIsInHand, TypeOK, WriterType
<1>16. ASSUME NEW a \in Attempts, StartCrawl(a) PROVE WriterType'
  BY <1>16 DEF StartCrawl, river, work, writer, manager, env, TypeOK, WriterType
<1>17. ASSUME NEW a \in Attempts, NEW l \in Listings, AddResult(a, l) PROVE WriterType'
  BY <1>17 DEF AddResult, river, work, manager, env, Tracks, AttemptsOf, WorkType, Tracked,
     NotTracked, Attempts, Row, Held, Hand, TrackedIsInHand, TypeOK, WriterType
<1>18. ASSUME NEW a \in Attempts, CrawlEnds(a) PROVE WriterType'
  BY <1>18 DEF CrawlEnds, river, work, writer, manager, env, TypeOK, WriterType
<1>19. CASE StartCycle
  BY <1>19 DEF StartCycle, river, work, writer, env, TypeOK, WriterType
<1>20. CASE TakeRestart
  BY <1>20 DEF TakeRestart, river, work, writer, crawls, env, TypeOK, WriterType
<1>21. CASE Terminate
  BY <1>21 DEF Terminate, river, work, writer, crawls, manager, TypeOK, WriterType
<1>22. CASE ProcessEnds
  BY <1>22 DEF ProcessEnds, river, NotTracked, WorkType, Tracked, Attempts, Row, Held, Hand,
     TrackedIsInHand, TypeOK, WriterType
<1>23. ASSUME NEW j \in Jobs, Rescue(j) PROVE WriterType'
  BY <1>23 DEF Rescue, work, writer, crawls, manager, env, TypeOK, WriterType
<1>24. ASSUME NEW j \in Jobs, DeleteJob(j) PROVE WriterType'
  BY <1>24 DEF DeleteJob, work, writer, crawls, manager, env, TypeOK, WriterType
<1>25. ASSUME NEW j \in Jobs, DeleteResults(j) PROVE WriterType'
  BY <1>25 DEF DeleteResults, work, writer, crawls, manager, env, TypeOK, WriterType
<1>26. ASSUME NEW j \in Jobs, DeleteRow(j) PROVE WriterType'
  BY <1>26 DEF DeleteRow, work, writer, crawls, manager, env, TypeOK, WriterType
<1>27. CASE UNCHANGED vars
  BY <1>27 DEF vars, river, work, writer, crawls, manager, env, TypeOK, WriterType
<1>. QED
  BY <1>1, <1>2, <1>3, <1>4, <1>5, <1>6, <1>7, <1>8, <1>9, <1>10, <1>11, <1>12, <1>13, <1>14,
     <1>15, <1>16, <1>17, <1>18, <1>19, <1>20, <1>21, <1>22, <1>23, <1>24, <1>25, <1>26, <1>27
  DEF Next, Work, Monitor, Scraper, Manager, Deletion, Environment

LEMMA CrawlTypeKept == ASSUME TypeOK, Hand, [Next]_vars PROVE CrawlType'
<1>1. ASSUME NEW j \in Jobs, Fetch(j) PROVE CrawlType'
  BY <1>1 DEF Fetch, writer, crawls, manager, env, TypeOK, CrawlType
<1>2. CASE RegisterJob
  BY <1>2 DEF RegisterJob, river, crawls, manager, env, TypeOK, CrawlType
<1>3. CASE SubmitJob
  BY <1>3 DEF SubmitJob, river, writer, manager, env, WorkType, Attempts, Hand, TypeOK, CrawlType
<1>4. CASE SubmitFails
  BY <1>4 DEF SubmitFails, river, writer, crawls, manager, env, TypeOK, CrawlType
<1>5. CASE Completion
  BY <1>5 DEF Completion, river, crawls, manager, env, TypeOK, CrawlType
<1>6. ASSUME NEW reason \in {"timeout", "cancelled"}, GiveUp(reason) PROVE CrawlType'
  BY <1>6 DEF GiveUp, river, writer, crawls, manager, env, Told, WorkType, Attempts, Hand,
     TypeOK, CrawlType
<1>7. CASE ForceFlush
  BY <1>7 DEF ForceFlush, river, crawls, manager, env, TypeOK, CrawlType
<1>8. CASE ForceFlushSave
  BY <1>8 DEF ForceFlushSave, river, crawls, manager, env, TypeOK, CrawlType
<1>9. CASE WaitForFlushResult
  BY <1>9 DEF WaitForFlushResult, river, crawls, manager, env, TypeOK, CrawlType
<1>10. CASE JobDone
  BY <1>10 DEF JobDone, river, writer, crawls, env, Told, WorkType, Attempts, Hand, TypeOK,
     CrawlType
<1>11. CASE Settle
  BY <1>11 DEF Settle, writer, crawls, manager, env, TypeOK, CrawlType
<1>12. ASSUME NEW a \in Attempts, MonitorFires(a) PROVE CrawlType'
  BY <1>12 DEF MonitorFires, river, work, writer, crawls, manager, env, WorkType, Attempts,
     Hand, TypeOK, CrawlType
<1>13. ASSUME NEW a \in Attempts, MonitorQuits(a) PROVE CrawlType'
  BY <1>13 DEF MonitorQuits, river, work, writer, crawls, manager, env, WorkType, Attempts,
     Hand, TypeOK, CrawlType
<1>14. ASSUME NEW a \in Attempts, MarkDone(a) PROVE CrawlType'
  BY <1>14 DEF MarkDone, river, work, crawls, manager, env, Tracks, AttemptsOf, NotTracked,
     WorkType, Attempts, Hand, TypeOK, CrawlType
<1>15. ASSUME NEW a \in Attempts, MarkDoneSave(a) PROVE CrawlType'
  BY <1>15 DEF MarkDoneSave, river, work, crawls, manager, env, Save, NotTracked, WorkType,
     Attempts, Hand, TypeOK, CrawlType
<1>16. ASSUME NEW a \in Attempts, StartCrawl(a) PROVE CrawlType'
  BY <1>16 DEF StartCrawl, river, work, writer, manager, env, WorkType, Attempts, Hand, TypeOK,
     CrawlType
<1>17. ASSUME NEW a \in Attempts, NEW l \in Listings, AddResult(a, l) PROVE CrawlType'
  BY <1>17 DEF AddResult, river, work, manager, env, Tracks, AttemptsOf, WorkType, Attempts,
     Hand, TypeOK, CrawlType
<1>18. ASSUME NEW a \in Attempts, CrawlEnds(a) PROVE CrawlType'
  BY <1>18 DEF CrawlEnds, river, work, writer, manager, env, WorkType, Attempts, Hand, TypeOK,
     CrawlType
<1>19. CASE StartCycle
  BY <1>19 DEF StartCycle, river, work, writer, env, Dropped, WorkType, Attempts, Hand, TypeOK,
     CrawlType
<1>20. CASE TakeRestart
  BY <1>20 DEF TakeRestart, river, work, writer, crawls, env, TypeOK, CrawlType
<1>21. CASE Terminate
  BY <1>21 DEF Terminate, river, work, writer, crawls, manager, TypeOK, CrawlType
<1>22. CASE ProcessEnds
  BY <1>22 DEF ProcessEnds, river, NotTracked, WorkType, Attempts, Hand, TypeOK, CrawlType
<1>23. ASSUME NEW j \in Jobs, Rescue(j) PROVE CrawlType'
  BY <1>23 DEF Rescue, work, writer, crawls, manager, env, TypeOK, CrawlType
<1>24. ASSUME NEW j \in Jobs, DeleteJob(j) PROVE CrawlType'
  BY <1>24 DEF DeleteJob, work, writer, crawls, manager, env, TypeOK, CrawlType
<1>25. ASSUME NEW j \in Jobs, DeleteResults(j) PROVE CrawlType'
  BY <1>25 DEF DeleteResults, work, writer, crawls, manager, env, TypeOK, CrawlType
<1>26. ASSUME NEW j \in Jobs, DeleteRow(j) PROVE CrawlType'
  BY <1>26 DEF DeleteRow, work, writer, crawls, manager, env, TypeOK, CrawlType
<1>27. CASE UNCHANGED vars
  BY <1>27 DEF vars, river, work, writer, crawls, manager, env, TypeOK, CrawlType
<1>. QED
  BY <1>1, <1>2, <1>3, <1>4, <1>5, <1>6, <1>7, <1>8, <1>9, <1>10, <1>11, <1>12, <1>13, <1>14,
     <1>15, <1>16, <1>17, <1>18, <1>19, <1>20, <1>21, <1>22, <1>23, <1>24, <1>25, <1>26, <1>27
  DEF Next, Work, Monitor, Scraper, Manager, Deletion, Environment

LEMMA ManagerTypeKept == ASSUME TypeOK, [Next]_vars PROVE ManagerType'
<1>1. ASSUME NEW j \in Jobs, Fetch(j) PROVE ManagerType'
  BY <1>1 DEF Fetch, writer, crawls, manager, env, TypeOK, ManagerType
<1>2. CASE RegisterJob
  BY <1>2 DEF RegisterJob, river, crawls, manager, env, TypeOK, ManagerType
<1>3. CASE SubmitJob
  BY <1>3 DEF SubmitJob, river, writer, manager, env, TypeOK, ManagerType
<1>4. CASE SubmitFails
  BY <1>4 DEF SubmitFails, river, writer, crawls, manager, env, TypeOK, ManagerType
<1>5. CASE Completion
  BY <1>5 DEF Completion, river, crawls, manager, env, TypeOK, ManagerType
<1>6. ASSUME NEW reason \in {"timeout", "cancelled"}, GiveUp(reason) PROVE ManagerType'
  BY <1>6 DEF GiveUp, river, writer, crawls, manager, env, TypeOK, ManagerType
<1>7. CASE ForceFlush
  BY <1>7 DEF ForceFlush, river, crawls, manager, env, TypeOK, ManagerType
<1>8. CASE ForceFlushSave
  BY <1>8 DEF ForceFlushSave, river, crawls, manager, env, TypeOK, ManagerType
<1>9. CASE WaitForFlushResult
  BY <1>9 DEF WaitForFlushResult, river, crawls, manager, env, TypeOK, ManagerType
<1>10. CASE JobDone
  BY <1>10 DEF JobDone, river, writer, crawls, env, Told, TypeOK, ManagerType
<1>11. CASE Settle
  BY <1>11 DEF Settle, writer, crawls, manager, env, TypeOK, ManagerType
<1>12. ASSUME NEW a \in Attempts, MonitorFires(a) PROVE ManagerType'
  BY <1>12 DEF MonitorFires, river, work, writer, crawls, manager, env, TypeOK, ManagerType
<1>13. ASSUME NEW a \in Attempts, MonitorQuits(a) PROVE ManagerType'
  BY <1>13 DEF MonitorQuits, river, work, writer, crawls, manager, env, TypeOK, ManagerType
<1>14. ASSUME NEW a \in Attempts, MarkDone(a) PROVE ManagerType'
  BY <1>14 DEF MarkDone, river, work, crawls, manager, env, TypeOK, ManagerType
<1>15. ASSUME NEW a \in Attempts, MarkDoneSave(a) PROVE ManagerType'
  BY <1>15 DEF MarkDoneSave, river, work, crawls, manager, env, TypeOK, ManagerType
<1>16. ASSUME NEW a \in Attempts, StartCrawl(a) PROVE ManagerType'
  BY <1>16 DEF StartCrawl, river, work, writer, manager, env, TypeOK, ManagerType
<1>17. ASSUME NEW a \in Attempts, NEW l \in Listings, AddResult(a, l) PROVE ManagerType'
  BY <1>17 DEF AddResult, river, work, manager, env, TypeOK, ManagerType
<1>18. ASSUME NEW a \in Attempts, CrawlEnds(a) PROVE ManagerType'
  BY <1>18 DEF CrawlEnds, river, work, writer, manager, env, TypeOK, ManagerType
<1>19. CASE StartCycle
  BY <1>19 DEF StartCycle, river, work, writer, env, Dropped, TypeOK, ManagerType
<1>20. CASE TakeRestart
  BY <1>20 DEF TakeRestart, river, work, writer, crawls, env, TypeOK, ManagerType
<1>21. CASE Terminate
  BY <1>21 DEF Terminate, river, work, writer, crawls, manager, TypeOK, ManagerType
<1>22. CASE ProcessEnds
  BY <1>22 DEF ProcessEnds, river, NotTracked, TypeOK, ManagerType
<1>23. ASSUME NEW j \in Jobs, Rescue(j) PROVE ManagerType'
  BY <1>23 DEF Rescue, work, writer, crawls, manager, env, TypeOK, ManagerType
<1>24. ASSUME NEW j \in Jobs, DeleteJob(j) PROVE ManagerType'
  BY <1>24 DEF DeleteJob, work, writer, crawls, manager, env, TypeOK, ManagerType
<1>25. ASSUME NEW j \in Jobs, DeleteResults(j) PROVE ManagerType'
  BY <1>25 DEF DeleteResults, work, writer, crawls, manager, env, TypeOK, ManagerType
<1>26. ASSUME NEW j \in Jobs, DeleteRow(j) PROVE ManagerType'
  BY <1>26 DEF DeleteRow, work, writer, crawls, manager, env, TypeOK, ManagerType
<1>27. CASE UNCHANGED vars
  BY <1>27 DEF vars, river, work, writer, crawls, manager, env, TypeOK, ManagerType
<1>. QED
  BY <1>1, <1>2, <1>3, <1>4, <1>5, <1>6, <1>7, <1>8, <1>9, <1>10, <1>11, <1>12, <1>13, <1>14,
     <1>15, <1>16, <1>17, <1>18, <1>19, <1>20, <1>21, <1>22, <1>23, <1>24, <1>25, <1>26, <1>27
  DEF Next, Work, Monitor, Scraper, Manager, Deletion, Environment

LEMMA EnvTypeKept == ASSUME TypeOK, [Next]_vars PROVE EnvType'
<1>1. ASSUME NEW j \in Jobs, Fetch(j) PROVE EnvType'
  BY <1>1 DEF Fetch, writer, crawls, manager, env, TypeOK, EnvType
<1>2. CASE RegisterJob
  BY <1>2 DEF RegisterJob, river, crawls, manager, env, TypeOK, EnvType
<1>3. CASE SubmitJob
  BY <1>3 DEF SubmitJob, river, writer, manager, env, TypeOK, EnvType
<1>4. CASE SubmitFails
  BY <1>4 DEF SubmitFails, river, writer, crawls, manager, env, TypeOK, EnvType
<1>5. CASE Completion
  BY <1>5 DEF Completion, river, crawls, manager, env, TypeOK, EnvType
<1>6. ASSUME NEW reason \in {"timeout", "cancelled"}, GiveUp(reason) PROVE EnvType'
  BY <1>6 DEF GiveUp, river, writer, crawls, manager, env, TypeOK, EnvType
<1>7. CASE ForceFlush
  BY <1>7 DEF ForceFlush, river, crawls, manager, env, TypeOK, EnvType
<1>8. CASE ForceFlushSave
  BY <1>8 DEF ForceFlushSave, river, crawls, manager, env, Save, NotTracked, TypeOK, EnvType
<1>9. CASE WaitForFlushResult
  BY <1>9 DEF WaitForFlushResult, river, crawls, manager, env, TypeOK, EnvType
<1>10. CASE JobDone
  BY <1>10 DEF JobDone, river, writer, crawls, env, TypeOK, EnvType
<1>11. CASE Settle
  BY <1>11 DEF Settle, writer, crawls, manager, env, TypeOK, EnvType
<1>12. ASSUME NEW a \in Attempts, MonitorFires(a) PROVE EnvType'
  BY <1>12 DEF MonitorFires, river, work, writer, crawls, manager, env, TypeOK, EnvType
<1>13. ASSUME NEW a \in Attempts, MonitorQuits(a) PROVE EnvType'
  BY <1>13 DEF MonitorQuits, river, work, writer, crawls, manager, env, TypeOK, EnvType
<1>14. ASSUME NEW a \in Attempts, MarkDone(a) PROVE EnvType'
  BY <1>14 DEF MarkDone, river, work, crawls, manager, env, TypeOK, EnvType
<1>15. ASSUME NEW a \in Attempts, MarkDoneSave(a) PROVE EnvType'
  BY <1>15 DEF MarkDoneSave, river, work, crawls, manager, env, Save, NotTracked, TypeOK, EnvType
<1>16. ASSUME NEW a \in Attempts, StartCrawl(a) PROVE EnvType'
  BY <1>16 DEF StartCrawl, river, work, writer, manager, env, TypeOK, EnvType
<1>17. ASSUME NEW a \in Attempts, NEW l \in Listings, AddResult(a, l) PROVE EnvType'
  BY <1>17 DEF AddResult, river, work, manager, env, TypeOK, EnvType
<1>18. ASSUME NEW a \in Attempts, CrawlEnds(a) PROVE EnvType'
  BY <1>18 DEF CrawlEnds, river, work, writer, manager, env, TypeOK, EnvType
<1>19. CASE StartCycle
  BY <1>19 DEF StartCycle, river, work, writer, env, TypeOK, EnvType
<1>20. CASE TakeRestart
  BY <1>20 DEF TakeRestart, river, work, writer, crawls, env, TypeOK, EnvType
<1>21. CASE Terminate
  BY <1>21 DEF Terminate, river, work, writer, crawls, manager, TypeOK, EnvType
<1>22. CASE ProcessEnds
  <2>1. stops' = IF shut THEN stops ELSE stops + 1
    BY <1>22 DEF ProcessEnds
  <2>2. shut \/ stops < MaxStops
    BY <1>22 DEF ProcessEnds
  <2>3. faults' = faults /\ shut' = FALSE
    BY <1>22 DEF ProcessEnds
  <2>4. CASE shut
    BY <2>1, <2>3, <2>4 DEF TypeOK, EnvType
  <2>5. CASE ~ shut
    <3>1. stops' = stops + 1 /\ stops < MaxStops
      BY <2>1, <2>2, <2>5
    <3>2. stops \in 0..MaxStops /\ MaxStops \in Nat
      BY DEF TypeOK, EnvType, EnvironmentBounds
    <3>3. stops' \in 0..MaxStops
      BY <3>1, <3>2
    <3>. QED BY <3>3, <2>3 DEF TypeOK, EnvType
  <2>. QED BY <2>4, <2>5
<1>23. ASSUME NEW j \in Jobs, Rescue(j) PROVE EnvType'
  BY <1>23 DEF Rescue, work, writer, crawls, manager, env, TypeOK, EnvType
<1>24. ASSUME NEW j \in Jobs, DeleteJob(j) PROVE EnvType'
  BY <1>24 DEF DeleteJob, work, writer, crawls, manager, env, TypeOK, EnvType
<1>25. ASSUME NEW j \in Jobs, DeleteResults(j) PROVE EnvType'
  BY <1>25 DEF DeleteResults, work, writer, crawls, manager, env, TypeOK, EnvType
<1>26. ASSUME NEW j \in Jobs, DeleteRow(j) PROVE EnvType'
  BY <1>26 DEF DeleteRow, work, writer, crawls, manager, env, TypeOK, EnvType
<1>27. CASE UNCHANGED vars
  BY <1>27 DEF vars, river, work, writer, crawls, manager, env, TypeOK, EnvType
<1>. QED
  BY <1>1, <1>2, <1>3, <1>4, <1>5, <1>6, <1>7, <1>8, <1>9, <1>10, <1>11, <1>12, <1>13, <1>14,
     <1>15, <1>16, <1>17, <1>18, <1>19, <1>20, <1>21, <1>22, <1>23, <1>24, <1>25, <1>26, <1>27
  DEF Next, Work, Monitor, Scraper, Manager, Deletion, Environment

LEMMA RetriableKept == ASSUME TypeOK, Hand, Retriable, [Next]_vars PROVE Retriable'
<1>1. ASSUME NEW j \in Jobs, Fetch(j) PROVE Retriable'
  BY <1>1 DEF Fetch, writer, crawls, manager, env, TypeOK, RiverType, WorkType, Attempts, Hand,
     Retriable
<1>2. CASE RegisterJob
  BY <1>2 DEF RegisterJob, river, crawls, manager, env, Retriable
<1>3. CASE SubmitJob
  BY <1>3 DEF SubmitJob, river, writer, manager, env, Retriable
<1>4. CASE SubmitFails
  BY <1>4 DEF SubmitFails, river, writer, crawls, manager, env, Retriable
<1>5. CASE Completion
  BY <1>5 DEF Completion, river, crawls, manager, env, Retriable
<1>6. ASSUME NEW reason \in {"timeout", "cancelled"}, GiveUp(reason) PROVE Retriable'
  BY <1>6 DEF GiveUp, river, writer, crawls, manager, env, Retriable
<1>7. CASE ForceFlush
  BY <1>7 DEF ForceFlush, river, crawls, manager, env, Retriable
<1>8. CASE ForceFlushSave
  BY <1>8 DEF ForceFlushSave, river, crawls, manager, env, Retriable
<1>9. CASE WaitForFlushResult
  BY <1>9 DEF WaitForFlushResult, river, crawls, manager, env, Retriable
<1>10. CASE JobDone
  BY <1>10 DEF JobDone, river, writer, crawls, env, Retriable
<1>11. CASE Settle
  BY <1>11 DEF Settle, writer, crawls, manager, env, NextState, TypeOK, RiverType, WorkType,
     Attempts, Hand, Retriable
<1>12. ASSUME NEW a \in Attempts, MonitorFires(a) PROVE Retriable'
  BY <1>12 DEF MonitorFires, river, work, writer, crawls, manager, env, Retriable
<1>13. ASSUME NEW a \in Attempts, MonitorQuits(a) PROVE Retriable'
  BY <1>13 DEF MonitorQuits, river, work, writer, crawls, manager, env, Retriable
<1>14. ASSUME NEW a \in Attempts, MarkDone(a) PROVE Retriable'
  BY <1>14 DEF MarkDone, river, work, crawls, manager, env, Retriable
<1>15. ASSUME NEW a \in Attempts, MarkDoneSave(a) PROVE Retriable'
  BY <1>15 DEF MarkDoneSave, river, work, crawls, manager, env, Retriable
<1>16. ASSUME NEW a \in Attempts, StartCrawl(a) PROVE Retriable'
  BY <1>16 DEF StartCrawl, river, work, writer, manager, env, Retriable
<1>17. ASSUME NEW a \in Attempts, NEW l \in Listings, AddResult(a, l) PROVE Retriable'
  BY <1>17 DEF AddResult, river, work, manager, env, Retriable
<1>18. ASSUME NEW a \in Attempts, CrawlEnds(a) PROVE Retriable'
  BY <1>18 DEF CrawlEnds, river, work, writer, manager, env, Retriable
<1>19. CASE StartCycle
  BY <1>19 DEF StartCycle, river, work, writer, env, Retriable
<1>20. CASE TakeRestart
  BY <1>20 DEF TakeRestart, river, work, writer, crawls, env, Retriable
<1>21. CASE Terminate
  BY <1>21 DEF Terminate, river, work, writer, crawls, manager, Retriable
<1>22. CASE ProcessEnds
  BY <1>22 DEF ProcessEnds, river, Retriable
<1>23. ASSUME NEW j \in Jobs, Rescue(j) PROVE Retriable'
  BY <1>23 DEF Rescue, work, writer, crawls, manager, env, AttemptsOf, NextState, TypeOK,
     RiverType, WorkType, Attempts, Hand, Retriable
<1>24. ASSUME NEW j \in Jobs, DeleteJob(j) PROVE Retriable'
  BY <1>24 DEF DeleteJob, work, writer, crawls, manager, env, Retriable
<1>25. ASSUME NEW j \in Jobs, DeleteResults(j) PROVE Retriable'
  BY <1>25 DEF DeleteResults, work, writer, crawls, manager, env, Retriable
<1>26. ASSUME NEW j \in Jobs, DeleteRow(j) PROVE Retriable'
  BY <1>26 DEF DeleteRow, work, writer, crawls, manager, env, TypeOK, RiverType, WorkType,
     Attempts, Hand, Retriable
<1>27. CASE UNCHANGED vars
  BY <1>27 DEF vars, river, work, writer, crawls, manager, env, Retriable
<1>. QED
  BY <1>1, <1>2, <1>3, <1>4, <1>5, <1>6, <1>7, <1>8, <1>9, <1>10, <1>11, <1>12, <1>13, <1>14,
     <1>15, <1>16, <1>17, <1>18, <1>19, <1>20, <1>21, <1>22, <1>23, <1>24, <1>25, <1>26, <1>27
  DEF Next, Work, Monitor, Scraper, Manager, Deletion, Environment

LEMMA HandKept == ASSUME TypeOK, Hand, Retriable, [Next]_vars PROVE Hand'
<1>1. ASSUME NEW j \in Jobs, Fetch(j) PROVE Hand'
  BY <1>1 DEF Fetch, writer, crawls, manager, env, TypeOK, RiverType, WorkType, Attempts,
     Retriable, Hand
<1>2. CASE RegisterJob
  BY <1>2 DEF RegisterJob, river, crawls, manager, env, TypeOK, RiverType, WorkType, Attempts,
     Retriable, Hand
<1>3. CASE SubmitJob
  BY <1>3 DEF SubmitJob, river, writer, manager, env, TypeOK, RiverType, WorkType, Attempts,
     Retriable, Hand
<1>4. CASE SubmitFails
  BY <1>4 DEF SubmitFails, river, writer, crawls, manager, env, TypeOK, RiverType, WorkType,
     Attempts, Retriable, Hand
<1>5. CASE Completion
  BY <1>5 DEF Completion, river, crawls, manager, env, TypeOK, RiverType, WorkType, Attempts,
     Retriable, Hand
<1>6. ASSUME NEW reason \in {"timeout", "cancelled"}, GiveUp(reason) PROVE Hand'
  BY <1>6 DEF GiveUp, river, writer, crawls, manager, env, Told, TypeOK, RiverType, WorkType,
     Attempts, Retriable, Hand
<1>7. CASE ForceFlush
  BY <1>7 DEF ForceFlush, river, crawls, manager, env, Tracks, AttemptsOf, NotTracked, TypeOK,
     RiverType, WorkType, Attempts, Retriable, Hand
<1>8. CASE ForceFlushSave
  BY <1>8 DEF ForceFlushSave, river, crawls, manager, env, Save, NotTracked, TypeOK, RiverType,
     WorkType, Attempts, Retriable, Hand
<1>9. CASE WaitForFlushResult
  BY <1>9 DEF WaitForFlushResult, river, crawls, manager, env, Outcome, TypeOK, RiverType,
     WorkType, Attempts, Retriable, Hand
<1>10. CASE JobDone
  BY <1>10 DEF JobDone, river, writer, crawls, env, Told, TypeOK, RiverType, WorkType, Attempts,
     Retriable, Hand
<1>11. CASE Settle
  BY <1>11 DEF Settle, writer, crawls, manager, env, NextState, TypeOK, RiverType, WorkType,
     Attempts, Retriable, Hand
<1>12. ASSUME NEW a \in Attempts, MonitorFires(a) PROVE Hand'
  BY <1>12 DEF MonitorFires, river, work, writer, crawls, manager, env, Hand
<1>13. ASSUME NEW a \in Attempts, MonitorQuits(a) PROVE Hand'
  BY <1>13 DEF MonitorQuits, river, work, writer, crawls, manager, env, Hand
<1>14. ASSUME NEW a \in Attempts, MarkDone(a) PROVE Hand'
  BY <1>14 DEF MarkDone, river, work, crawls, manager, env, Hand
<1>15. ASSUME NEW a \in Attempts, MarkDoneSave(a) PROVE Hand'
  BY <1>15 DEF MarkDoneSave, river, work, crawls, manager, env, Hand
<1>16. ASSUME NEW a \in Attempts, StartCrawl(a) PROVE Hand'
  BY <1>16 DEF StartCrawl, river, work, writer, manager, env, Hand
<1>17. ASSUME NEW a \in Attempts, NEW l \in Listings, AddResult(a, l) PROVE Hand'
  BY <1>17 DEF AddResult, river, work, manager, env, Hand
<1>18. ASSUME NEW a \in Attempts, CrawlEnds(a) PROVE Hand'
  BY <1>18 DEF CrawlEnds, river, work, writer, manager, env, Hand
<1>19. CASE StartCycle
  BY <1>19 DEF StartCycle, river, work, writer, env, Hand
<1>20. CASE TakeRestart
  BY <1>20 DEF TakeRestart, river, work, writer, crawls, env, Hand
<1>21. CASE Terminate
  BY <1>21 DEF Terminate, river, work, writer, crawls, manager, Hand
<1>22. CASE ProcessEnds
  BY <1>22 DEF ProcessEnds, river, NotTracked, TypeOK, RiverType, WorkType, Attempts, Retriable,
     Hand
<1>23. ASSUME NEW j \in Jobs, Rescue(j) PROVE Hand'
  BY <1>23 DEF Rescue, work, writer, crawls, manager, env, Hand
<1>24. ASSUME NEW j \in Jobs, DeleteJob(j) PROVE Hand'
  BY <1>24 DEF DeleteJob, work, writer, crawls, manager, env, Hand
<1>25. ASSUME NEW j \in Jobs, DeleteResults(j) PROVE Hand'
  BY <1>25 DEF DeleteResults, work, writer, crawls, manager, env, Hand
<1>26. ASSUME NEW j \in Jobs, DeleteRow(j) PROVE Hand'
  BY <1>26 DEF DeleteRow, work, writer, crawls, manager, env, Hand
<1>27. CASE UNCHANGED vars
  BY <1>27 DEF vars, river, work, writer, crawls, manager, env, Hand
<1>. QED
  BY <1>1, <1>2, <1>3, <1>4, <1>5, <1>6, <1>7, <1>8, <1>9, <1>10, <1>11, <1>12, <1>13, <1>14,
     <1>15, <1>16, <1>17, <1>18, <1>19, <1>20, <1>21, <1>22, <1>23, <1>24, <1>25, <1>26, <1>27
  DEF Next, Work, Monitor, Scraper, Manager, Deletion, Environment

LEMMA FreshKept == ASSUME TypeOK, Hand, Fresh, Latest, [Next]_vars PROVE Fresh'
<1>1. ASSUME NEW j \in Jobs, Fetch(j) PROVE Fresh'
  <2>1. mon' = mon /\ wjob' = <<j, attempt[j] + 1>> /\ attempt' = [attempt EXCEPT ![j] = attempt[j] + 1]
    BY <1>1 DEF Fetch
  <2>2. \A b \in Jobs : attempt[b] \in Nat /\ attempt'[b] \in Nat /\ attempt'[b] >= attempt[b]
    BY <2>1 DEF TypeOK, RiverType
  <2>3. ASSUME NEW a \in Attempts, mon[a] # "off"
        PROVE  a[2] <= attempt'[a[1]] /\ a # wjob'
    <3>1. a[1] \in Jobs /\ a[2] \in Nat /\ a[2] <= attempt[a[1]]
      BY <2>3 DEF Fresh, Attempts
    <3>. QED BY <3>1, <2>1, <2>2
  <2>4. mon' = mon
    BY <2>1
  <2>5. \A a \in Attempts : mon'[a] # "off" => a[2] <= attempt'[a[1]] /\ a # wjob'
    BY <2>3, <2>4
  <2>. QED BY <2>5 DEF Fresh
<1>2. CASE RegisterJob
  BY <1>2 DEF RegisterJob, river, crawls, manager, env, Latest, TypeOK, WorkType, CrawlType,
     RiverType, Attempts, Hand, Fresh
<1>3. CASE SubmitJob
  BY <1>3 DEF SubmitJob, river, writer, manager, env, Latest, TypeOK, WorkType, CrawlType,
     RiverType, Attempts, Hand, Fresh
<1>4. CASE SubmitFails
  BY <1>4 DEF SubmitFails, river, writer, crawls, manager, env, Latest, TypeOK, WorkType,
     CrawlType, RiverType, Attempts, Hand, Fresh
<1>5. CASE Completion
  BY <1>5 DEF Completion, river, crawls, manager, env, Latest, TypeOK, WorkType, CrawlType,
     RiverType, Attempts, Hand, Fresh
<1>6. ASSUME NEW reason \in {"timeout", "cancelled"}, GiveUp(reason) PROVE Fresh'
  BY <1>6 DEF GiveUp, river, writer, crawls, manager, env, Told, Latest, TypeOK, WorkType,
     CrawlType, RiverType, Attempts, Hand, Fresh
<1>7. CASE ForceFlush
  BY <1>7 DEF ForceFlush, river, crawls, manager, env, Tracks, AttemptsOf, NotTracked, Latest,
     TypeOK, WorkType, CrawlType, RiverType, Attempts, Hand, Fresh
<1>8. CASE ForceFlushSave
  BY <1>8 DEF ForceFlushSave, river, crawls, manager, env, Save, NotTracked, Latest, TypeOK,
     WorkType, CrawlType, RiverType, Attempts, Hand, Fresh
<1>9. CASE WaitForFlushResult
  BY <1>9 DEF WaitForFlushResult, river, crawls, manager, env, Outcome, Latest, TypeOK,
     WorkType, CrawlType, RiverType, Attempts, Hand, Fresh
<1>10. CASE JobDone
  BY <1>10 DEF JobDone, river, writer, crawls, env, Told, Latest, TypeOK, WorkType, CrawlType,
     RiverType, Attempts, Hand, Fresh
<1>11. CASE Settle
  BY <1>11 DEF Settle, writer, crawls, manager, env, NextState, Latest, TypeOK, WorkType,
     CrawlType, RiverType, Attempts, Hand, Fresh
<1>12. ASSUME NEW a \in Attempts, MonitorFires(a) PROVE Fresh'
  BY <1>12 DEF MonitorFires, river, work, writer, crawls, manager, env, Latest, TypeOK,
     WorkType, CrawlType, RiverType, Attempts, Hand, Fresh
<1>13. ASSUME NEW a \in Attempts, MonitorQuits(a) PROVE Fresh'
  BY <1>13 DEF MonitorQuits, river, work, writer, crawls, manager, env, Latest, TypeOK,
     WorkType, CrawlType, RiverType, Attempts, Hand, Fresh
<1>14. ASSUME NEW a \in Attempts, MarkDone(a) PROVE Fresh'
  BY <1>14 DEF MarkDone, river, work, crawls, manager, env, Tracks, AttemptsOf, NotTracked,
     Latest, TypeOK, WorkType, CrawlType, RiverType, Attempts, Hand, Fresh
<1>15. ASSUME NEW a \in Attempts, MarkDoneSave(a) PROVE Fresh'
  BY <1>15 DEF MarkDoneSave, river, work, crawls, manager, env, Save, NotTracked, Latest,
     TypeOK, WorkType, CrawlType, RiverType, Attempts, Hand, Fresh
<1>16. ASSUME NEW a \in Attempts, StartCrawl(a) PROVE Fresh'
  BY <1>16 DEF StartCrawl, river, work, writer, manager, env, Fresh
<1>17. ASSUME NEW a \in Attempts, NEW l \in Listings, AddResult(a, l) PROVE Fresh'
  BY <1>17 DEF AddResult, river, work, manager, env, Fresh
<1>18. ASSUME NEW a \in Attempts, CrawlEnds(a) PROVE Fresh'
  BY <1>18 DEF CrawlEnds, river, work, writer, manager, env, Fresh
<1>19. CASE StartCycle
  BY <1>19 DEF StartCycle, river, work, writer, env, Fresh
<1>20. CASE TakeRestart
  BY <1>20 DEF TakeRestart, river, work, writer, crawls, env, Fresh
<1>21. CASE Terminate
  BY <1>21 DEF Terminate, river, work, writer, crawls, manager, Fresh
<1>22. CASE ProcessEnds
  BY <1>22 DEF ProcessEnds, river, NotTracked, Latest, TypeOK, WorkType, CrawlType, RiverType,
     Attempts, Hand, Fresh
<1>23. ASSUME NEW j \in Jobs, Rescue(j) PROVE Fresh'
  BY <1>23 DEF Rescue, work, writer, crawls, manager, env, Fresh
<1>24. ASSUME NEW j \in Jobs, DeleteJob(j) PROVE Fresh'
  BY <1>24 DEF DeleteJob, work, writer, crawls, manager, env, Fresh
<1>25. ASSUME NEW j \in Jobs, DeleteResults(j) PROVE Fresh'
  BY <1>25 DEF DeleteResults, work, writer, crawls, manager, env, Fresh
<1>26. ASSUME NEW j \in Jobs, DeleteRow(j) PROVE Fresh'
  BY <1>26 DEF DeleteRow, work, writer, crawls, manager, env, Fresh
<1>27. CASE UNCHANGED vars
  BY <1>27 DEF vars, river, work, writer, crawls, manager, env, Fresh
<1>. QED
  BY <1>1, <1>2, <1>3, <1>4, <1>5, <1>6, <1>7, <1>8, <1>9, <1>10, <1>11, <1>12, <1>13, <1>14,
     <1>15, <1>16, <1>17, <1>18, <1>19, <1>20, <1>21, <1>22, <1>23, <1>24, <1>25, <1>26, <1>27
  DEF Next, Work, Monitor, Scraper, Manager, Deletion, Environment

LEMMA HeldKept == ASSUME TypeOK, Hand, Fresh, Held, Alone, [Next]_vars PROVE Held'
<1>1. ASSUME NEW j \in Jobs, Fetch(j) PROVE Held'
  BY <1>1 DEF Fetch, writer, crawls, manager, env, TypeOK, WorkType, WriterType, CrawlType,
     RiverType, Attempts, AttemptsOf, Tracked, NotTracked, Hand, Alone, Fresh, Held,
     TrackedIsInHand
<1>2. CASE RegisterJob
  BY <1>2 DEF RegisterJob, river, crawls, manager, env, TypeOK, WorkType, WriterType, CrawlType,
     RiverType, Attempts, AttemptsOf, Tracked, NotTracked, Hand, Alone, Fresh, Held,
     TrackedIsInHand
<1>3. CASE SubmitJob
  BY <1>3 DEF SubmitJob, river, writer, manager, env, TypeOK, WorkType, WriterType, CrawlType,
     RiverType, Attempts, AttemptsOf, Tracked, NotTracked, Hand, Alone, Fresh, Held,
     TrackedIsInHand
<1>4. CASE SubmitFails
  BY <1>4 DEF SubmitFails, river, writer, crawls, manager, env, TypeOK, WorkType, WriterType,
     CrawlType, RiverType, Attempts, AttemptsOf, Tracked, NotTracked, Hand, Alone, Fresh, Held,
     TrackedIsInHand
<1>5. CASE Completion
  BY <1>5 DEF Completion, river, crawls, manager, env, TypeOK, WorkType, WriterType, CrawlType,
     RiverType, Attempts, AttemptsOf, Tracked, NotTracked, Hand, Alone, Fresh, Held,
     TrackedIsInHand
<1>6. ASSUME NEW reason \in {"timeout", "cancelled"}, GiveUp(reason) PROVE Held'
  BY <1>6 DEF GiveUp, river, writer, crawls, manager, env, Told, TypeOK, WorkType, WriterType,
     CrawlType, RiverType, Attempts, AttemptsOf, Tracked, NotTracked, Hand, Alone, Fresh, Held,
     TrackedIsInHand
<1>7. CASE ForceFlush
  BY <1>7 DEF ForceFlush, river, crawls, manager, env, Tracks, AttemptsOf, NotTracked, TypeOK,
     WorkType, WriterType, CrawlType, RiverType, Attempts, Tracked, Hand, Alone, Fresh, Held,
     TrackedIsInHand
<1>8. CASE ForceFlushSave
  BY <1>8 DEF ForceFlushSave, river, crawls, manager, env, Save, NotTracked, TypeOK, WorkType,
     WriterType, CrawlType, RiverType, Attempts, AttemptsOf, Tracked, Hand, Alone, Fresh, Held,
     TrackedIsInHand
<1>9. CASE WaitForFlushResult
  BY <1>9 DEF WaitForFlushResult, river, crawls, manager, env, Outcome, TypeOK, WorkType,
     WriterType, CrawlType, RiverType, Attempts, AttemptsOf, Tracked, NotTracked, Hand, Alone,
     Fresh, Held, TrackedIsInHand
<1>10. CASE JobDone
  BY <1>10 DEF JobDone, river, writer, crawls, env, Told, TypeOK, WorkType, WriterType,
     CrawlType, RiverType, Attempts, AttemptsOf, Tracked, NotTracked, Hand, Alone, Fresh, Held,
     TrackedIsInHand
<1>11. CASE Settle
  BY <1>11 DEF Settle, writer, crawls, manager, env, NextState, TypeOK, WorkType, WriterType,
     CrawlType, RiverType, Attempts, AttemptsOf, Tracked, NotTracked, Hand, Alone, Fresh, Held,
     TrackedIsInHand
<1>12. ASSUME NEW a \in Attempts, MonitorFires(a) PROVE Held'
  BY <1>12 DEF MonitorFires, river, work, writer, crawls, manager, env, TypeOK, WorkType,
     WriterType, CrawlType, RiverType, Attempts, AttemptsOf, Tracked, NotTracked, Hand, Alone,
     Fresh, Held, TrackedIsInHand
<1>13. ASSUME NEW a \in Attempts, MonitorQuits(a) PROVE Held'
  BY <1>13 DEF MonitorQuits, river, work, writer, crawls, manager, env, TypeOK, WorkType,
     WriterType, CrawlType, RiverType, Attempts, AttemptsOf, Tracked, NotTracked, Hand, Alone,
     Fresh, Held, TrackedIsInHand
<1>14. ASSUME NEW a \in Attempts, MarkDone(a) PROVE Held'
  <2>1. CASE Tracks(a)
    <3>1. current.reg = wjob /\ wjob # NoAttempt /\ wpc \in {"submit", "wait", "flush"}
      BY <2>1 DEF Tracks, AttemptsOf, Attempts, Held, TrackedIsInHand
    <3>2. mTaken' = [mTaken EXCEPT ![a] = current] /\ mon' = [mon EXCEPT ![a] = "saving"]
          /\ current' = NotTracked
      BY <1>14, <2>1 DEF MarkDone
    <3>3. UNCHANGED <<wpc, wjob, wTaken, answer>>
      BY <1>14 DEF MarkDone, work
    <3>. QED BY <3>1, <3>2, <3>3 DEF Held, TrackedIsInHand, TypeOK, WriterType, CrawlType,
       NotTracked
  <2>2. CASE ~ Tracks(a)
    BY <1>14, <2>2 DEF MarkDone, work, Held, TrackedIsInHand, TypeOK, CrawlType
  <2>. QED BY <2>1, <2>2
<1>15. ASSUME NEW a \in Attempts, MarkDoneSave(a) PROVE Held'
  BY <1>15 DEF MarkDoneSave, river, work, crawls, manager, env, Save, NotTracked, TypeOK,
     WorkType, WriterType, CrawlType, RiverType, Attempts, AttemptsOf, Tracked, Hand, Alone,
     Fresh, Held, TrackedIsInHand
<1>16. ASSUME NEW a \in Attempts, StartCrawl(a) PROVE Held'
  BY <1>16 DEF StartCrawl, river, work, writer, manager, env, Held, TrackedIsInHand
<1>17. ASSUME NEW a \in Attempts, NEW l \in Listings, AddResult(a, l) PROVE Held'
  BY <1>17 DEF AddResult, river, work, manager, env, Tracks, AttemptsOf, TypeOK, WorkType,
     WriterType, CrawlType, RiverType, Attempts, Tracked, NotTracked, Hand, Alone, Fresh, Held,
     TrackedIsInHand
<1>18. ASSUME NEW a \in Attempts, CrawlEnds(a) PROVE Held'
  BY <1>18 DEF CrawlEnds, river, work, writer, manager, env, Held, TrackedIsInHand
<1>19. CASE StartCycle
  BY <1>19 DEF StartCycle, river, work, writer, env, Held, TrackedIsInHand
<1>20. CASE TakeRestart
  BY <1>20 DEF TakeRestart, river, work, writer, crawls, env, Held, TrackedIsInHand
<1>21. CASE Terminate
  BY <1>21 DEF Terminate, river, work, writer, crawls, manager, Held, TrackedIsInHand
<1>22. CASE ProcessEnds
  BY <1>22 DEF ProcessEnds, river, NotTracked, TypeOK, WorkType, WriterType, CrawlType,
     RiverType, Attempts, AttemptsOf, Tracked, Hand, Alone, Fresh, Held, TrackedIsInHand
<1>23. ASSUME NEW j \in Jobs, Rescue(j) PROVE Held'
  BY <1>23 DEF Rescue, work, writer, crawls, manager, env, Held, TrackedIsInHand
<1>24. ASSUME NEW j \in Jobs, DeleteJob(j) PROVE Held'
  BY <1>24 DEF DeleteJob, work, writer, crawls, manager, env, Held, TrackedIsInHand
<1>25. ASSUME NEW j \in Jobs, DeleteResults(j) PROVE Held'
  BY <1>25 DEF DeleteResults, work, writer, crawls, manager, env, Held, TrackedIsInHand
<1>26. ASSUME NEW j \in Jobs, DeleteRow(j) PROVE Held'
  BY <1>26 DEF DeleteRow, work, writer, crawls, manager, env, Held, TrackedIsInHand
<1>27. CASE UNCHANGED vars
  BY <1>27 DEF vars, river, work, writer, crawls, manager, env, Held, TrackedIsInHand
<1>. QED
  BY <1>1, <1>2, <1>3, <1>4, <1>5, <1>6, <1>7, <1>8, <1>9, <1>10, <1>11, <1>12, <1>13, <1>14,
     <1>15, <1>16, <1>17, <1>18, <1>19, <1>20, <1>21, <1>22, <1>23, <1>24, <1>25, <1>26, <1>27
  DEF Next, Work, Monitor, Scraper, Manager, Deletion, Environment

LEMMA AloneKept == ASSUME TypeOK, Hand, Held, Alone, [Next]_vars PROVE Alone'
<1>1. ASSUME NEW j \in Jobs, Fetch(j) PROVE Alone'
  BY <1>1 DEF Fetch, writer, crawls, manager, env, Alone
<1>2. CASE RegisterJob
  BY <1>2 DEF RegisterJob, river, crawls, manager, env, TypeOK, WorkType, WriterType, CrawlType,
     Attempts, AttemptsOf, Tracked, NotTracked, Hand, Held, TrackedIsInHand, Alone
<1>3. CASE SubmitJob
  BY <1>3 DEF SubmitJob, river, writer, manager, env, Alone
<1>4. CASE SubmitFails
  BY <1>4 DEF SubmitFails, river, writer, crawls, manager, env, Alone
<1>5. CASE Completion
  BY <1>5 DEF Completion, river, crawls, manager, env, TypeOK, WorkType, WriterType, CrawlType,
     Attempts, AttemptsOf, Tracked, NotTracked, Hand, Held, TrackedIsInHand, Alone
<1>6. ASSUME NEW reason \in {"timeout", "cancelled"}, GiveUp(reason) PROVE Alone'
  BY <1>6 DEF GiveUp, river, writer, crawls, manager, env, Alone
<1>7. CASE ForceFlush
  BY <1>7 DEF ForceFlush, river, crawls, manager, env, Tracks, AttemptsOf, NotTracked, TypeOK,
     WorkType, WriterType, CrawlType, Attempts, Tracked, Hand, Held, TrackedIsInHand, Alone
<1>8. CASE ForceFlushSave
  BY <1>8 DEF ForceFlushSave, river, crawls, manager, env, Save, NotTracked, TypeOK, WorkType,
     WriterType, CrawlType, Attempts, AttemptsOf, Tracked, Hand, Held, TrackedIsInHand, Alone
<1>9. CASE WaitForFlushResult
  BY <1>9 DEF WaitForFlushResult, river, crawls, manager, env, Outcome, TypeOK, WorkType,
     WriterType, CrawlType, Attempts, AttemptsOf, Tracked, NotTracked, Hand, Held,
     TrackedIsInHand, Alone
<1>10. CASE JobDone
  BY <1>10 DEF JobDone, river, writer, crawls, env, Alone
<1>11. CASE Settle
  BY <1>11 DEF Settle, writer, crawls, manager, env, Alone
<1>12. ASSUME NEW a \in Attempts, MonitorFires(a) PROVE Alone'
  BY <1>12 DEF MonitorFires, river, work, writer, crawls, manager, env, Alone
<1>13. ASSUME NEW a \in Attempts, MonitorQuits(a) PROVE Alone'
  BY <1>13 DEF MonitorQuits, river, work, writer, crawls, manager, env, Alone
<1>14. ASSUME NEW a \in Attempts, MarkDone(a) PROVE Alone'
  <2>1. CASE Tracks(a)
    <3>1. /\ current.reg # NoAttempt
          /\ current' = NotTracked /\ answer' = answer
          /\ mTaken' = [mTaken EXCEPT ![a] = current]
      BY <1>14, <2>1, NoAttemptIsNone DEF MarkDone, Tracks, AttemptsOf, TypeOK, WriterType, Attempts
    <3>2. \A b \in Attempts : mTaken[b].reg = NoAttempt /\ answer[b] = "none"
      BY <3>1 DEF Alone
    <3>3. \A b \in Attempts : mTaken'[b].reg # NoAttempt => b = a
      BY <3>1, <3>2 DEF TypeOK, WriterType
    <3>4. \A b \in Attempts : answer'[b] = "none"
      BY <3>1, <3>2
    <3>5. current'.reg = NoAttempt
      BY <3>1 DEF NotTracked
    <3>. QED
      BY <3>3, <3>4, <3>5 DEF Alone
  <2>2. CASE ~Tracks(a)
    BY <1>14, <2>2 DEF MarkDone, Alone
  <2>. QED
    BY <2>1, <2>2
<1>15. ASSUME NEW a \in Attempts, MarkDoneSave(a) PROVE Alone'
  BY <1>15 DEF MarkDoneSave, river, work, crawls, manager, env, Save, NotTracked, TypeOK,
     WorkType, WriterType, CrawlType, Attempts, AttemptsOf, Tracked, Hand, Held,
     TrackedIsInHand, Alone
<1>16. ASSUME NEW a \in Attempts, StartCrawl(a) PROVE Alone'
  BY <1>16 DEF StartCrawl, river, work, writer, manager, env, Alone
<1>17. ASSUME NEW a \in Attempts, NEW l \in Listings, AddResult(a, l) PROVE Alone'
  BY <1>17 DEF AddResult, river, work, manager, env, Tracks, AttemptsOf, TypeOK, WorkType,
     WriterType, CrawlType, Attempts, Tracked, NotTracked, Hand, Held, TrackedIsInHand, Alone
<1>18. ASSUME NEW a \in Attempts, CrawlEnds(a) PROVE Alone'
  BY <1>18 DEF CrawlEnds, river, work, writer, manager, env, Alone
<1>19. CASE StartCycle
  BY <1>19 DEF StartCycle, river, work, writer, env, Alone
<1>20. CASE TakeRestart
  BY <1>20 DEF TakeRestart, river, work, writer, crawls, env, Alone
<1>21. CASE Terminate
  BY <1>21 DEF Terminate, river, work, writer, crawls, manager, Alone
<1>22. CASE ProcessEnds
  BY <1>22 DEF ProcessEnds, river, NotTracked, TypeOK, WorkType, WriterType, CrawlType,
     Attempts, AttemptsOf, Tracked, Hand, Held, TrackedIsInHand, Alone
<1>23. ASSUME NEW j \in Jobs, Rescue(j) PROVE Alone'
  BY <1>23 DEF Rescue, work, writer, crawls, manager, env, Alone
<1>24. ASSUME NEW j \in Jobs, DeleteJob(j) PROVE Alone'
  BY <1>24 DEF DeleteJob, work, writer, crawls, manager, env, Alone
<1>25. ASSUME NEW j \in Jobs, DeleteResults(j) PROVE Alone'
  BY <1>25 DEF DeleteResults, work, writer, crawls, manager, env, Alone
<1>26. ASSUME NEW j \in Jobs, DeleteRow(j) PROVE Alone'
  BY <1>26 DEF DeleteRow, work, writer, crawls, manager, env, Alone
<1>27. CASE UNCHANGED vars
  BY <1>27 DEF vars, river, work, writer, crawls, manager, env, Alone
<1>. QED
  BY <1>1, <1>2, <1>3, <1>4, <1>5, <1>6, <1>7, <1>8, <1>9, <1>10, <1>11, <1>12, <1>13, <1>14,
     <1>15, <1>16, <1>17, <1>18, <1>19, <1>20, <1>21, <1>22, <1>23, <1>24, <1>25, <1>26, <1>27
  DEF Next, Work, Monitor, Scraper, Manager, Deletion, Environment

LEMMA ComingKept == ASSUME TypeOK, Hand, Held, Alone, Coming, [Next]_vars PROVE Coming'
<1>1. ASSUME NEW j \in Jobs, Fetch(j) PROVE Coming'
  BY <1>1 DEF Fetch, writer, crawls, manager, env, TypeOK, WorkType, WriterType, CrawlType,
     Attempts, AttemptsOf, Tracked, NotTracked, Hand, Held, TrackedIsInHand, Alone, Coming
<1>2. CASE RegisterJob
  BY <1>2 DEF RegisterJob, river, crawls, manager, env, TypeOK, WorkType, WriterType, CrawlType,
     Attempts, AttemptsOf, Tracked, NotTracked, Hand, Held, TrackedIsInHand, Alone, Coming
<1>3. CASE SubmitJob
  BY <1>3 DEF SubmitJob, river, writer, manager, env, TypeOK, WorkType, WriterType, CrawlType,
     Attempts, AttemptsOf, Tracked, NotTracked, Hand, Held, TrackedIsInHand, Alone, Coming
<1>4. CASE SubmitFails
  BY <1>4 DEF SubmitFails, river, writer, crawls, manager, env, TypeOK, WorkType, WriterType,
     CrawlType, Attempts, AttemptsOf, Tracked, NotTracked, Hand, Held, TrackedIsInHand, Alone,
     Coming
<1>5. CASE Completion
  BY <1>5 DEF Completion, river, crawls, manager, env, TypeOK, WorkType, WriterType, CrawlType,
     Attempts, AttemptsOf, Tracked, NotTracked, Hand, Held, TrackedIsInHand, Alone, Coming
<1>6. ASSUME NEW reason \in {"timeout", "cancelled"}, GiveUp(reason) PROVE Coming'
  BY <1>6 DEF GiveUp, river, writer, crawls, manager, env, Told, TypeOK, WorkType, WriterType,
     CrawlType, Attempts, AttemptsOf, Tracked, NotTracked, Hand, Held, TrackedIsInHand, Alone,
     Coming
<1>7. CASE ForceFlush
  BY <1>7 DEF ForceFlush, river, crawls, manager, env, Tracks, AttemptsOf, NotTracked, TypeOK,
     WorkType, WriterType, CrawlType, Attempts, Tracked, Hand, Held, TrackedIsInHand, Alone,
     Coming
<1>8. CASE ForceFlushSave
  BY <1>8 DEF ForceFlushSave, river, crawls, manager, env, Save, NotTracked, TypeOK, WorkType,
     WriterType, CrawlType, Attempts, AttemptsOf, Tracked, Hand, Held, TrackedIsInHand, Alone,
     Coming
<1>9. CASE WaitForFlushResult
  BY <1>9 DEF WaitForFlushResult, river, crawls, manager, env, Outcome, TypeOK, WorkType,
     WriterType, CrawlType, Attempts, AttemptsOf, Tracked, NotTracked, Hand, Held,
     TrackedIsInHand, Alone, Coming
<1>10. CASE JobDone
  BY <1>10 DEF JobDone, river, writer, crawls, env, Told, TypeOK, WorkType, WriterType,
     CrawlType, Attempts, AttemptsOf, Tracked, NotTracked, Hand, Held, TrackedIsInHand, Alone,
     Coming
<1>11. CASE Settle
  BY <1>11 DEF Settle, writer, crawls, manager, env, NextState, TypeOK, WorkType, WriterType,
     CrawlType, Attempts, AttemptsOf, Tracked, NotTracked, Hand, Held, TrackedIsInHand, Alone,
     Coming
<1>12. ASSUME NEW a \in Attempts, MonitorFires(a) PROVE Coming'
  BY <1>12 DEF MonitorFires, river, work, writer, crawls, manager, env, Coming
<1>13. ASSUME NEW a \in Attempts, MonitorQuits(a) PROVE Coming'
  BY <1>13 DEF MonitorQuits, river, work, writer, crawls, manager, env, Coming
<1>14. ASSUME NEW a \in Attempts, MarkDone(a) PROVE Coming'
  BY <1>14 DEF MarkDone, river, work, crawls, manager, env, Tracks, AttemptsOf, NotTracked,
     TypeOK, WorkType, WriterType, CrawlType, Attempts, Tracked, Hand, Held, TrackedIsInHand,
     Alone, Coming
<1>15. ASSUME NEW a \in Attempts, MarkDoneSave(a) PROVE Coming'
  BY <1>15 DEF MarkDoneSave, river, work, crawls, manager, env, Save, NotTracked, TypeOK,
     WorkType, WriterType, CrawlType, Attempts, AttemptsOf, Tracked, Hand, Held,
     TrackedIsInHand, Alone, Coming
<1>16. ASSUME NEW a \in Attempts, StartCrawl(a) PROVE Coming'
  BY <1>16 DEF StartCrawl, river, work, writer, manager, env, Coming
<1>17. ASSUME NEW a \in Attempts, NEW l \in Listings, AddResult(a, l) PROVE Coming'
  BY <1>17 DEF AddResult, river, work, manager, env, Tracks, AttemptsOf, TypeOK, WorkType,
     WriterType, CrawlType, Attempts, Tracked, NotTracked, Hand, Held, TrackedIsInHand, Alone,
     Coming
<1>18. ASSUME NEW a \in Attempts, CrawlEnds(a) PROVE Coming'
  BY <1>18 DEF CrawlEnds, river, work, writer, manager, env, Coming
<1>19. CASE StartCycle
  BY <1>19 DEF StartCycle, river, work, writer, env, Coming
<1>20. CASE TakeRestart
  BY <1>20 DEF TakeRestart, river, work, writer, crawls, env, Coming
<1>21. CASE Terminate
  BY <1>21 DEF Terminate, river, work, writer, crawls, manager, Coming
<1>22. CASE ProcessEnds
  BY <1>22 DEF ProcessEnds, river, NotTracked, TypeOK, WorkType, WriterType, CrawlType,
     Attempts, AttemptsOf, Tracked, Hand, Held, TrackedIsInHand, Alone, Coming
<1>23. ASSUME NEW j \in Jobs, Rescue(j) PROVE Coming'
  BY <1>23 DEF Rescue, work, writer, crawls, manager, env, Coming
<1>24. ASSUME NEW j \in Jobs, DeleteJob(j) PROVE Coming'
  BY <1>24 DEF DeleteJob, work, writer, crawls, manager, env, Coming
<1>25. ASSUME NEW j \in Jobs, DeleteResults(j) PROVE Coming'
  BY <1>25 DEF DeleteResults, work, writer, crawls, manager, env, Coming
<1>26. ASSUME NEW j \in Jobs, DeleteRow(j) PROVE Coming'
  BY <1>26 DEF DeleteRow, work, writer, crawls, manager, env, Coming
<1>27. CASE UNCHANGED vars
  BY <1>27 DEF vars, river, work, writer, crawls, manager, env, Coming
<1>. QED
  BY <1>1, <1>2, <1>3, <1>4, <1>5, <1>6, <1>7, <1>8, <1>9, <1>10, <1>11, <1>12, <1>13, <1>14,
     <1>15, <1>16, <1>17, <1>18, <1>19, <1>20, <1>21, <1>22, <1>23, <1>24, <1>25, <1>26, <1>27
  DEF Next, Work, Monitor, Scraper, Manager, Deletion, Environment

LEMMA RowsKept == ASSUME TypeOK, Hand, Held, Rows, [Next]_vars PROVE Rows'
<1>1. ASSUME NEW j \in Jobs, Fetch(j) PROVE Rows'
  BY <1>1 DEF Fetch, writer, crawls, manager, env, TypeOK, WorkType, WriterType, CrawlType,
     SavedType, Attempts, AttemptsOf, Tracked, NotTracked, Hand, Held, TrackedIsInHand, Row,
     Rows, Own, RowsStayWithTheirJob
<1>2. CASE RegisterJob
  BY <1>2 DEF RegisterJob, river, crawls, manager, env, TypeOK, WorkType, WriterType, CrawlType,
     SavedType, Attempts, AttemptsOf, Tracked, NotTracked, Hand, Held, TrackedIsInHand, Row,
     Rows, Own, RowsStayWithTheirJob
<1>3. CASE SubmitJob
  BY <1>3 DEF SubmitJob, river, writer, manager, env, Rows, Own, RowsStayWithTheirJob
<1>4. CASE SubmitFails
  BY <1>4 DEF SubmitFails, river, writer, crawls, manager, env, Rows, Own, RowsStayWithTheirJob
<1>5. CASE Completion
  BY <1>5 DEF Completion, river, crawls, manager, env, Rows, Own, RowsStayWithTheirJob
<1>6. ASSUME NEW reason \in {"timeout", "cancelled"}, GiveUp(reason) PROVE Rows'
  BY <1>6 DEF GiveUp, river, writer, crawls, manager, env, Rows, Own, RowsStayWithTheirJob
<1>7. CASE ForceFlush
  BY <1>7 DEF ForceFlush, river, crawls, manager, env, Tracks, AttemptsOf, NotTracked, TypeOK,
     WorkType, WriterType, CrawlType, SavedType, Attempts, Tracked, Hand, Held, TrackedIsInHand,
     Row, Rows, Own, RowsStayWithTheirJob
<1>8. CASE ForceFlushSave
  BY <1>8 DEF ForceFlushSave, river, crawls, manager, env, Save, NotTracked, TypeOK, WorkType,
     WriterType, CrawlType, SavedType, Attempts, AttemptsOf, Tracked, Hand, Held,
     TrackedIsInHand, Row, Rows, Own, RowsStayWithTheirJob
<1>9. CASE WaitForFlushResult
  BY <1>9 DEF WaitForFlushResult, river, crawls, manager, env, Rows, Own, RowsStayWithTheirJob
<1>10. CASE JobDone
  BY <1>10 DEF JobDone, river, writer, crawls, env, Rows, Own, RowsStayWithTheirJob
<1>11. CASE Settle
  BY <1>11 DEF Settle, writer, crawls, manager, env, NextState, TypeOK, WorkType, WriterType,
     CrawlType, SavedType, Attempts, AttemptsOf, Tracked, NotTracked, Hand, Held,
     TrackedIsInHand, Row, Rows, Own, RowsStayWithTheirJob
<1>12. ASSUME NEW a \in Attempts, MonitorFires(a) PROVE Rows'
  BY <1>12 DEF MonitorFires, river, work, writer, crawls, manager, env, Rows, Own,
     RowsStayWithTheirJob
<1>13. ASSUME NEW a \in Attempts, MonitorQuits(a) PROVE Rows'
  BY <1>13 DEF MonitorQuits, river, work, writer, crawls, manager, env, Rows, Own,
     RowsStayWithTheirJob
<1>14. ASSUME NEW a \in Attempts, MarkDone(a) PROVE Rows'
  BY <1>14 DEF MarkDone, river, work, crawls, manager, env, Tracks, AttemptsOf, NotTracked,
     TypeOK, WorkType, WriterType, CrawlType, SavedType, Attempts, Tracked, Hand, Held,
     TrackedIsInHand, Row, Rows, Own, RowsStayWithTheirJob
<1>15. ASSUME NEW a \in Attempts, MarkDoneSave(a) PROVE Rows'
  <2>1. mTaken[a].reg = wjob /\ wjob \in Attempts
    BY <1>15 DEF MarkDoneSave, Held, TypeOK, WorkType
  <2>2. UNCHANGED <<current, wTaken, wjob>> /\ mTaken' = [mTaken EXCEPT ![a] = NotTracked]
    BY <1>15 DEF MarkDoneSave, work
  <2>3. Own(current)' /\ Own(wTaken)' /\ \A b \in Attempts : Own(mTaken[b])'
    BY <2>2 DEF Rows, Own, TypeOK, WriterType, NotTracked
  <2>4. \/ saved' = saved
        \/ saved' = [saved EXCEPT ![wjob[1]] = [by |-> wjob, rows |-> mTaken[a].rows]]
    BY <1>15, <2>1 DEF MarkDoneSave, Save
  <2>5. \A r \in mTaken[a].rows : r[1][1] = wjob[1]
    BY <2>1 DEF Rows, Own, Attempts
  <2>6. RowsStayWithTheirJob'
    BY <2>1, <2>4, <2>5 DEF Rows, RowsStayWithTheirJob, TypeOK, SavedType, Attempts
  <2>. QED BY <2>3, <2>6 DEF Rows
<1>16. ASSUME NEW a \in Attempts, StartCrawl(a) PROVE Rows'
  BY <1>16 DEF StartCrawl, river, work, writer, manager, env, Rows, Own, RowsStayWithTheirJob
<1>17. ASSUME NEW a \in Attempts, NEW l \in Listings, AddResult(a, l) PROVE Rows'
  BY <1>17 DEF AddResult, river, work, manager, env, Tracks, AttemptsOf, TypeOK, WorkType,
     WriterType, CrawlType, SavedType, Attempts, Tracked, NotTracked, Hand, Held,
     TrackedIsInHand, Row, Rows, Own, RowsStayWithTheirJob
<1>18. ASSUME NEW a \in Attempts, CrawlEnds(a) PROVE Rows'
  BY <1>18 DEF CrawlEnds, river, work, writer, manager, env, Rows, Own, RowsStayWithTheirJob
<1>19. CASE StartCycle
  BY <1>19 DEF StartCycle, river, work, writer, env, Rows, Own, RowsStayWithTheirJob
<1>20. CASE TakeRestart
  BY <1>20 DEF TakeRestart, river, work, writer, crawls, env, Rows, Own, RowsStayWithTheirJob
<1>21. CASE Terminate
  BY <1>21 DEF Terminate, river, work, writer, crawls, manager, Rows, Own, RowsStayWithTheirJob
<1>22. CASE ProcessEnds
  BY <1>22 DEF ProcessEnds, river, NotTracked, TypeOK, WorkType, WriterType, CrawlType,
     SavedType, Attempts, AttemptsOf, Tracked, Hand, Held, TrackedIsInHand, Row, Rows, Own,
     RowsStayWithTheirJob
<1>23. ASSUME NEW j \in Jobs, Rescue(j) PROVE Rows'
  BY <1>23 DEF Rescue, work, writer, crawls, manager, env, Rows, Own, RowsStayWithTheirJob
<1>24. ASSUME NEW j \in Jobs, DeleteJob(j) PROVE Rows'
  BY <1>24 DEF DeleteJob, work, writer, crawls, manager, env, Rows, Own, RowsStayWithTheirJob
<1>25. ASSUME NEW j \in Jobs, DeleteResults(j) PROVE Rows'
  BY <1>25 DEF DeleteResults, work, writer, crawls, manager, env, Nothing, TypeOK, WorkType,
     WriterType, CrawlType, SavedType, Attempts, AttemptsOf, Tracked, NotTracked, Hand, Held,
     TrackedIsInHand, Row, Rows, Own, RowsStayWithTheirJob
<1>26. ASSUME NEW j \in Jobs, DeleteRow(j) PROVE Rows'
  BY <1>26 DEF DeleteRow, work, writer, crawls, manager, env, Rows, Own, RowsStayWithTheirJob
<1>27. CASE UNCHANGED vars
  BY <1>27 DEF vars, river, work, writer, crawls, manager, env, Rows, Own, RowsStayWithTheirJob
<1>. QED
  BY <1>1, <1>2, <1>3, <1>4, <1>5, <1>6, <1>7, <1>8, <1>9, <1>10, <1>11, <1>12, <1>13, <1>14,
     <1>15, <1>16, <1>17, <1>18, <1>19, <1>20, <1>21, <1>22, <1>23, <1>24, <1>25, <1>26, <1>27
  DEF Next, Work, Monitor, Scraper, Manager, Deletion, Environment

LEMMA LatestKept == ASSUME TypeOK, Hand, Latest, [Next]_vars PROVE Latest'
<1>1. ASSUME NEW j \in Jobs, Fetch(j) PROVE Latest'
  BY <1>1 DEF Fetch, writer, crawls, manager, env, TypeOK, WorkType, RiverType, Attempts, Hand,
     AttemptsOf, Latest
<1>2. CASE RegisterJob
  BY <1>2 DEF RegisterJob, river, crawls, manager, env, Latest
<1>3. CASE SubmitJob
  BY <1>3 DEF SubmitJob, river, writer, manager, env, Latest
<1>4. CASE SubmitFails
  BY <1>4 DEF SubmitFails, river, writer, crawls, manager, env, Latest
<1>5. CASE Completion
  BY <1>5 DEF Completion, river, crawls, manager, env, Latest
<1>6. ASSUME NEW reason \in {"timeout", "cancelled"}, GiveUp(reason) PROVE Latest'
  BY <1>6 DEF GiveUp, river, writer, crawls, manager, env, Latest
<1>7. CASE ForceFlush
  BY <1>7 DEF ForceFlush, river, crawls, manager, env, Latest
<1>8. CASE ForceFlushSave
  BY <1>8 DEF ForceFlushSave, river, crawls, manager, env, Latest
<1>9. CASE WaitForFlushResult
  BY <1>9 DEF WaitForFlushResult, river, crawls, manager, env, Latest
<1>10. CASE JobDone
  BY <1>10 DEF JobDone, river, writer, crawls, env, Latest
<1>11. CASE Settle
  BY <1>11 DEF Settle, writer, crawls, manager, env, NextState, TypeOK, WorkType, RiverType,
     Attempts, Hand, AttemptsOf, Latest
<1>12. ASSUME NEW a \in Attempts, MonitorFires(a) PROVE Latest'
  BY <1>12 DEF MonitorFires, river, work, writer, crawls, manager, env, Latest
<1>13. ASSUME NEW a \in Attempts, MonitorQuits(a) PROVE Latest'
  BY <1>13 DEF MonitorQuits, river, work, writer, crawls, manager, env, Latest
<1>14. ASSUME NEW a \in Attempts, MarkDone(a) PROVE Latest'
  BY <1>14 DEF MarkDone, river, work, crawls, manager, env, Latest
<1>15. ASSUME NEW a \in Attempts, MarkDoneSave(a) PROVE Latest'
  BY <1>15 DEF MarkDoneSave, river, work, crawls, manager, env, Latest
<1>16. ASSUME NEW a \in Attempts, StartCrawl(a) PROVE Latest'
  BY <1>16 DEF StartCrawl, river, work, writer, manager, env, Latest
<1>17. ASSUME NEW a \in Attempts, NEW l \in Listings, AddResult(a, l) PROVE Latest'
  BY <1>17 DEF AddResult, river, work, manager, env, Latest
<1>18. ASSUME NEW a \in Attempts, CrawlEnds(a) PROVE Latest'
  BY <1>18 DEF CrawlEnds, river, work, writer, manager, env, Latest
<1>19. CASE StartCycle
  BY <1>19 DEF StartCycle, river, work, writer, env, Latest
<1>20. CASE TakeRestart
  BY <1>20 DEF TakeRestart, river, work, writer, crawls, env, Latest
<1>21. CASE Terminate
  BY <1>21 DEF Terminate, river, work, writer, crawls, manager, Latest
<1>22. CASE ProcessEnds
  BY <1>22 DEF ProcessEnds, river, NotTracked, TypeOK, WorkType, RiverType, Attempts, Hand,
     AttemptsOf, Latest
<1>23. ASSUME NEW j \in Jobs, Rescue(j) PROVE Latest'
  BY <1>23 DEF Rescue, work, writer, crawls, manager, env, AttemptsOf, NextState, TypeOK,
     WorkType, RiverType, Attempts, Hand, Latest
<1>24. ASSUME NEW j \in Jobs, DeleteJob(j) PROVE Latest'
  BY <1>24 DEF DeleteJob, work, writer, crawls, manager, env, Latest
<1>25. ASSUME NEW j \in Jobs, DeleteResults(j) PROVE Latest'
  BY <1>25 DEF DeleteResults, work, writer, crawls, manager, env, Latest
<1>26. ASSUME NEW j \in Jobs, DeleteRow(j) PROVE Latest'
  BY <1>26 DEF DeleteRow, work, writer, crawls, manager, env, TypeOK, WorkType, RiverType,
     Attempts, Hand, AttemptsOf, Latest
<1>27. CASE UNCHANGED vars
  BY <1>27 DEF vars, river, work, writer, crawls, manager, env, Latest
<1>. QED
  BY <1>1, <1>2, <1>3, <1>4, <1>5, <1>6, <1>7, <1>8, <1>9, <1>10, <1>11, <1>12, <1>13, <1>14,
     <1>15, <1>16, <1>17, <1>18, <1>19, <1>20, <1>21, <1>22, <1>23, <1>24, <1>25, <1>26, <1>27
  DEF Next, Work, Monitor, Scraper, Manager, Deletion, Environment

\* A save of the attempt in hand: it is answered as saved, and no job that is
\* completed is touched, the one in hand being still at work.
LEMMA SaveIsGood ==
  ASSUME TypeOK, Held, Latest, GoodIsSaved, wjob \in Attempts, NEW t \in Tracked, t.reg = wjob, Save(t),
         UNCHANGED <<state, attempt, deletion>>
  PROVE  /\ \A a \in Attempts : answer'[a] \in {"rows", "empty"} => SavedBy(a)'
         /\ CompletedIsSaved'
<1> /\ answer \in [Attempts -> {"none", "rows", "empty", "error"}]
    /\ DOMAIN saved = Jobs
  BY DEF TypeOK, WriterType, SavedType
<1> wjob[1] \in Jobs /\ state[wjob[1]] # "completed"
  BY DEF Attempts, Latest
<1>1. \A a \in Attempts : a # wjob => answer[a] = "none"
  BY DEF Held
<1>2. CASE /\ saved' = [saved EXCEPT ![t.reg[1]] = [by |-> t.reg, rows |-> t.rows]]
           /\ answer' = [answer EXCEPT ![t.reg] = IF t.rows = {} THEN "empty" ELSE "rows"]
  <2>1. \A a \in Attempts : answer'[a] \in {"rows", "empty"} => a = wjob
    BY <1>1, <1>2
  <2>2. saved'[wjob[1]].by = wjob
    BY <1>2
  <2>3. \A j \in Jobs : state'[j] = "completed" => saved'[j] = saved[j]
    BY <1>2
  <2>. QED
    BY <2>1, <2>2, <2>3 DEF SavedBy, GoodIsSaved, CompletedIsSaved
<1>3. CASE answer' = [answer EXCEPT ![t.reg] = "error"] /\ UNCHANGED saved
  BY <1>3 DEF SavedBy, GoodIsSaved, CompletedIsSaved
<1>. QED
  BY <1>2, <1>3 DEF Save

LEMMA GoodIsSavedKept == ASSUME TypeOK, Hand, Held, Latest, GoodIsSaved, [Next]_vars PROVE GoodIsSaved'
<1>1. ASSUME NEW j \in Jobs, Fetch(j) PROVE GoodIsSaved'
  BY <1>1 DEF Fetch, writer, crawls, manager, env, TypeOK, WorkType, RiverType, WriterType,
     SavedType, Attempts, Hand, Held, TrackedIsInHand, Latest, AttemptsOf, Tracked, NotTracked,
     Nothing, GoodIsSaved, SavedBy, CompletedIsSaved
<1>2. CASE RegisterJob
  BY <1>2 DEF RegisterJob, river, crawls, manager, env, TypeOK, WorkType, RiverType, WriterType,
     SavedType, Attempts, Hand, Held, TrackedIsInHand, Latest, AttemptsOf, Tracked, NotTracked,
     Nothing, GoodIsSaved, SavedBy, CompletedIsSaved
<1>3. CASE SubmitJob
  BY <1>3 DEF SubmitJob, river, writer, manager, env, TypeOK, WorkType, RiverType, WriterType,
     SavedType, Attempts, Hand, Held, TrackedIsInHand, Latest, AttemptsOf, Tracked, NotTracked,
     Nothing, GoodIsSaved, SavedBy, CompletedIsSaved
<1>4. CASE SubmitFails
  BY <1>4 DEF SubmitFails, river, writer, crawls, manager, env, TypeOK, WorkType, RiverType,
     WriterType, SavedType, Attempts, Hand, Held, TrackedIsInHand, Latest, AttemptsOf, Tracked,
     NotTracked, Nothing, GoodIsSaved, SavedBy, CompletedIsSaved
<1>5. CASE Completion
  BY <1>5 DEF Completion, river, crawls, manager, env, TypeOK, WorkType, RiverType, WriterType,
     SavedType, Attempts, Hand, Held, TrackedIsInHand, Latest, AttemptsOf, Tracked, NotTracked,
     Nothing, GoodIsSaved, SavedBy, CompletedIsSaved
<1>6. ASSUME NEW reason \in {"timeout", "cancelled"}, GiveUp(reason) PROVE GoodIsSaved'
  BY <1>6 DEF GiveUp, river, writer, crawls, manager, env, Told, TypeOK, WorkType, RiverType,
     WriterType, SavedType, Attempts, Hand, Held, TrackedIsInHand, Latest, AttemptsOf, Tracked,
     NotTracked, Nothing, GoodIsSaved, SavedBy, CompletedIsSaved
<1>7. CASE ForceFlush
  BY <1>7 DEF ForceFlush, river, crawls, manager, env, Tracks, AttemptsOf, NotTracked, TypeOK,
     WorkType, RiverType, WriterType, SavedType, Attempts, Hand, Held, TrackedIsInHand, Latest,
     Tracked, Nothing, GoodIsSaved, SavedBy, CompletedIsSaved
<1>8. CASE ForceFlushSave
  <2>1. wTaken \in Tracked /\ wTaken.reg = wjob /\ wjob \in Attempts
    BY <1>8 DEF ForceFlushSave, TypeOK, WorkType, WriterType, Held, Hand, NotTracked
  <2>2. /\ \A a \in Attempts : answer'[a] \in {"rows", "empty"} => SavedBy(a)'
        /\ CompletedIsSaved'
    BY <1>8, <2>1, SaveIsGood DEF ForceFlushSave, river
  <2>. QED
    BY <1>8, <2>2 DEF ForceFlushSave, river, GoodIsSaved
<1>9. CASE WaitForFlushResult
  BY <1>9 DEF WaitForFlushResult, river, crawls, manager, env, Outcome, TypeOK, WorkType,
     RiverType, WriterType, SavedType, Attempts, Hand, Held, TrackedIsInHand, Latest,
     AttemptsOf, Tracked, NotTracked, Nothing, GoodIsSaved, SavedBy, CompletedIsSaved
<1>10. CASE JobDone
  BY <1>10 DEF JobDone, river, writer, crawls, env, Told, TypeOK, WorkType, RiverType,
     WriterType, SavedType, Attempts, Hand, Held, TrackedIsInHand, Latest, AttemptsOf, Tracked,
     NotTracked, Nothing, GoodIsSaved, SavedBy, CompletedIsSaved
<1>11. CASE Settle
  BY <1>11 DEF Settle, writer, crawls, manager, env, NextState, TypeOK, WorkType, RiverType,
     WriterType, SavedType, Attempts, Hand, Held, TrackedIsInHand, Latest, AttemptsOf, Tracked,
     NotTracked, Nothing, GoodIsSaved, SavedBy, CompletedIsSaved
<1>12. ASSUME NEW a \in Attempts, MonitorFires(a) PROVE GoodIsSaved'
  BY <1>12 DEF MonitorFires, river, work, writer, crawls, manager, env, GoodIsSaved, SavedBy,
     CompletedIsSaved
<1>13. ASSUME NEW a \in Attempts, MonitorQuits(a) PROVE GoodIsSaved'
  BY <1>13 DEF MonitorQuits, river, work, writer, crawls, manager, env, GoodIsSaved, SavedBy,
     CompletedIsSaved
<1>14. ASSUME NEW a \in Attempts, MarkDone(a) PROVE GoodIsSaved'
  BY <1>14 DEF MarkDone, river, work, crawls, manager, env, GoodIsSaved, SavedBy, CompletedIsSaved
<1>15. ASSUME NEW a \in Attempts, MarkDoneSave(a) PROVE GoodIsSaved'
  <2>1. /\ mTaken[a] \in Tracked /\ mTaken[a].reg = wjob /\ wjob \in Attempts
        /\ wpc \in {"submit", "wait", "flush", "answer"}
    BY <1>15 DEF MarkDoneSave, TypeOK, WorkType, WriterType, Held, NotTracked
  <2>2. /\ \A b \in Attempts : answer'[b] \in {"rows", "empty"} => SavedBy(b)'
        /\ CompletedIsSaved'
    BY <1>15, <2>1, SaveIsGood DEF MarkDoneSave, river
  <2>. QED
    BY <1>15, <2>1, <2>2 DEF MarkDoneSave, river, work, GoodIsSaved
<1>16. ASSUME NEW a \in Attempts, StartCrawl(a) PROVE GoodIsSaved'
  BY <1>16 DEF StartCrawl, river, work, writer, manager, env, GoodIsSaved, SavedBy,
     CompletedIsSaved
<1>17. ASSUME NEW a \in Attempts, NEW l \in Listings, AddResult(a, l) PROVE GoodIsSaved'
  BY <1>17 DEF AddResult, river, work, manager, env, GoodIsSaved, SavedBy, CompletedIsSaved
<1>18. ASSUME NEW a \in Attempts, CrawlEnds(a) PROVE GoodIsSaved'
  BY <1>18 DEF CrawlEnds, river, work, writer, manager, env, GoodIsSaved, SavedBy,
     CompletedIsSaved
<1>19. CASE StartCycle
  BY <1>19 DEF StartCycle, river, work, writer, env, GoodIsSaved, SavedBy, CompletedIsSaved
<1>20. CASE TakeRestart
  BY <1>20 DEF TakeRestart, river, work, writer, crawls, env, GoodIsSaved, SavedBy,
     CompletedIsSaved
<1>21. CASE Terminate
  BY <1>21 DEF Terminate, river, work, writer, crawls, manager, GoodIsSaved, SavedBy,
     CompletedIsSaved
<1>22. CASE ProcessEnds
  BY <1>22 DEF ProcessEnds, river, NotTracked, TypeOK, WorkType, RiverType, WriterType,
     SavedType, Attempts, Hand, Held, TrackedIsInHand, Latest, AttemptsOf, Tracked, Nothing,
     GoodIsSaved, SavedBy, CompletedIsSaved
<1>23. ASSUME NEW j \in Jobs, Rescue(j) PROVE GoodIsSaved'
  BY <1>23 DEF Rescue, work, writer, crawls, manager, env, AttemptsOf, NextState, TypeOK,
     WorkType, RiverType, WriterType, SavedType, Attempts, Hand, Held, TrackedIsInHand, Latest,
     Tracked, NotTracked, Nothing, GoodIsSaved, SavedBy, CompletedIsSaved
<1>24. ASSUME NEW j \in Jobs, DeleteJob(j) PROVE GoodIsSaved'
  BY <1>24 DEF DeleteJob, work, writer, crawls, manager, env, TypeOK, WorkType, RiverType,
     WriterType, SavedType, Attempts, Hand, Held, TrackedIsInHand, Latest, AttemptsOf, Tracked,
     NotTracked, Nothing, GoodIsSaved, SavedBy, CompletedIsSaved
<1>25. ASSUME NEW j \in Jobs, DeleteResults(j) PROVE GoodIsSaved'
  BY <1>25 DEF DeleteResults, work, writer, crawls, manager, env, Nothing, TypeOK, WorkType,
     RiverType, WriterType, SavedType, Attempts, Hand, Held, TrackedIsInHand, Latest,
     AttemptsOf, Tracked, NotTracked, GoodIsSaved, SavedBy, CompletedIsSaved
<1>26. ASSUME NEW j \in Jobs, DeleteRow(j) PROVE GoodIsSaved'
  BY <1>26 DEF DeleteRow, work, writer, crawls, manager, env, TypeOK, WorkType, RiverType,
     WriterType, SavedType, Attempts, Hand, Held, TrackedIsInHand, Latest, AttemptsOf, Tracked,
     NotTracked, Nothing, GoodIsSaved, SavedBy, CompletedIsSaved
<1>27. CASE UNCHANGED vars
  BY <1>27 DEF vars, river, work, writer, crawls, manager, env, GoodIsSaved, SavedBy,
     CompletedIsSaved
<1>. QED
  BY <1>1, <1>2, <1>3, <1>4, <1>5, <1>6, <1>7, <1>8, <1>9, <1>10, <1>11, <1>12, <1>13, <1>14,
     <1>15, <1>16, <1>17, <1>18, <1>19, <1>20, <1>21, <1>22, <1>23, <1>24, <1>25, <1>26, <1>27
  DEF Next, Work, Monitor, Scraper, Manager, Deletion, Environment

-----------------------------------------------------------------------------
LEMMA InitInv == Init => IInv
<1> SUFFICES ASSUME Init PROVE IInv
  OBVIOUS
<1> USE DEF Init, MemoryInit
<1>1. RiverType BY DEF RiverType
<1>2. SavedType BY DEF SavedType, Nothing
<1>3. WorkType BY DEF WorkType, WorkStep
<1>4. WriterType BY DEF WriterType, Tracked
<1>5. CrawlType BY DEF CrawlType
<1>6. ManagerType BY DEF ManagerType
<1>7. EnvType
  <2>1. stops = 0 /\ faults = 0 /\ MaxStops \in Nat /\ MaxFaults \in Nat
    BY DEF EnvironmentBounds
  <2>2. shut \in BOOLEAN OBVIOUS
  <2>. QED BY <2>1, <2>2 DEF EnvType
<1>8. TypeOK BY <1>1, <1>2, <1>3, <1>4, <1>5, <1>6, <1>7 DEF TypeOK
<1>9. Retriable /\ Hand BY DEF Retriable, Hand
<1>10. Fresh BY DEF Fresh
<1>11. Held BY DEF Held, TrackedIsInHand, NotTracked
<1>12. Alone /\ Coming BY DEF Alone, Coming, NotTracked
<1>13. Rows BY DEF Rows, Own, NotTracked, RowsStayWithTheirJob, Nothing
<1>14. Latest /\ GoodIsSaved BY DEF Latest, GoodIsSaved, CompletedIsSaved
<1>. QED BY <1>8, <1>9, <1>10, <1>11, <1>12, <1>13, <1>14 DEF IInv

LEMMA StepInv == IInv /\ [Next]_vars => IInv'
<1> SUFFICES ASSUME IInv, [Next]_vars PROVE IInv'
  OBVIOUS
<1>1. TypeOK /\ Retriable /\ Hand /\ Fresh /\ Held /\ Alone /\ Coming /\ Rows /\ Latest /\ GoodIsSaved
  BY DEF IInv
<1>2. TypeOK'
  BY <1>1, RiverTypeKept, SavedTypeKept, WorkTypeKept, WriterTypeKept, CrawlTypeKept,
     ManagerTypeKept,
     EnvTypeKept DEF TypeOK
<1>3. Retriable' /\ Hand' /\ Fresh' /\ Held' /\ Alone'
  BY <1>1, RetriableKept, HandKept, FreshKept, HeldKept, AloneKept
<1>4. Coming' /\ Rows' /\ Latest' /\ GoodIsSaved'
  BY <1>1, ComingKept, RowsKept, LatestKept, GoodIsSavedKept
<1>. QED BY <1>2, <1>3, <1>4 DEF IInv

LEMMA Inductive == Spec => []IInv
BY InitInv, StepInv, PTL DEF Spec

(* Every variable keeps its type, and no job is tried more often than its attempts. *)
THEOREM TypeCorrect == Spec => []TypeOK
<1>1. IInv => TypeOK BY DEF IInv
<1>. QED BY <1>1, Inductive, PTL

(* The writer tracks nothing but the attempt in hand (Work, rqueue.go; RegisterJob, Flush,    *)
(* centralwriter.go).                                                                       *)
THEOREM NothingLeftBehind == Spec => []TrackedIsInHand
<1>1. IInv => TrackedIsInHand BY DEF IInv, Held
<1>. QED BY <1>1, Inductive, PTL

(* A Work that waits for the flush it forced has its answer, or somebody is saving its rows   *)
(* (waitForFlushResult, rqueue.go).                                                         *)
THEOREM NoWaitInVain == Spec => []AnswerIsComing
<1>1. ASSUME IInv PROVE AnswerIsComing
  <2>1. SUFFICES ASSUME wpc = "answer", answer[wjob] = "none"
                 PROVE  \E a \in Attempts : mon[a] = "saving" /\ mTaken[a].reg = wjob
    BY DEF AnswerIsComing
  <2>2. PICK a \in Attempts : mTaken[a].reg = wjob
    BY <2>1, <1>1 DEF IInv, Coming
  <2>3. wjob # NoAttempt
    BY <2>1, <1>1 DEF IInv, Hand
  <2>. QED BY <2>2, <2>3, <1>1 DEF IInv, Held
<1>. QED BY <1>1, Inductive, PTL

(* A registration is in one place only, so each is answered once and no flush blocks on its   *)
(* channel (Flush, centralwriter.go).                                                       *)
THEOREM AnsweredOnce == Spec => []OneAnswer
<1>1. ASSUME IInv PROVE OneAnswer
  <2>1. SUFFICES ASSUME NEW r \in Attempts, NEW p \in Holders(r), NEW q \in Holders(r)
                 PROVE  p = q
    BY DEF OneAnswer
  <2>2. r # NoAttempt
    BY NoAttemptIsNone DEF Attempts
  <2>3. ASSUME NEW h \in Holders(r)
        PROVE  \/ h = <<"tracked", r>> /\ current.reg = r
               \/ h = <<"work", r>> /\ wTaken.reg = r
               \/ \E a \in Attempts : h = <<"monitor", a>> /\ mTaken[a].reg = r
               \/ h = <<"answered", r>> /\ answer[r] # "none"
    BY <2>3 DEF Holders
  <2>4. current.reg = r => /\ wTaken.reg # r /\ answer[r] = "none"
                           /\ \A a \in Attempts : mTaken[a].reg # r
    BY <2>2, <1>1 DEF IInv, Held, TrackedIsInHand, Alone
  <2>5. wTaken.reg = r => /\ current.reg # r /\ answer[r] = "none"
                          /\ \A a \in Attempts : mTaken[a].reg # r
    BY <2>2, <1>1 DEF IInv, Held, TrackedIsInHand
  <2>6. \A a \in Attempts : mTaken[a].reg = r =>
          answer[r] = "none" /\ \A b \in Attempts : mTaken[b].reg = r => a = b
    BY <2>2, <1>1 DEF IInv, Alone
  <2>7. CASE current.reg = r
    BY <2>3, <2>4, <2>7
  <2>8. CASE wTaken.reg = r
    BY <2>3, <2>5, <2>8
  <2>9. CASE current.reg # r /\ wTaken.reg # r
    BY <2>3, <2>6, <2>9
  <2>. QED BY <2>7, <2>8, <2>9
<1>. QED BY <1>1, Inductive, PTL

(* No row is ever saved under another job (AddResult, centralwriter.go).                      *)
THEOREM RowsAreTheJobs == Spec => []RowsStayWithTheirJob
<1>1. IInv => RowsStayWithTheirJob BY DEF IInv, Rows
<1>. QED BY <1>1, Inductive, PTL

(* A completed job has its rows in the table, saved by the attempt that completed it (Work,   *)
(* rqueue.go).                                                                              *)
THEOREM CompletedMeansSaved == Spec => []CompletedIsSaved
<1>1. IInv => CompletedIsSaved BY DEF IInv, GoodIsSaved
<1>. QED BY <1>1, Inductive, PTL

-----------------------------------------------------------------------------
(* The order of the saves. A registration waits to be saved from when its  *)
(* attempt begins; whatever waits is the attempt in hand, which is later   *)
(* than all that have saved.                                               *)

Pending ==
  \/ wpc = "register"
  \/ current.reg # NoAttempt
  \/ wTaken.reg # NoAttempt
  \/ \E a \in Attempts : mTaken[a].reg # NoAttempt

SavedInTime ==
  \A j \in Jobs : saved[j].by # NoAttempt =>
    saved[j].by \in AttemptsOf(j) /\ saved[j].by[2] <= attempt[j]
Unwritten == wjob # NoAttempt /\ Pending => saved[wjob[1]].by # wjob
OrderInv == SavedInTime /\ Unwritten

\* What a step can be to the rows: nothing, the start of an attempt, a save of the
\* attempt in hand after which it has none to come, or a deletion.
Quiet ==
  /\ saved' = saved /\ attempt' = attempt
  /\ wjob' \in {wjob, NoAttempt}
  /\ Pending' => Pending
Saving ==
  /\ wjob \in Attempts /\ Pending /\ ~ Pending'
  /\ UNCHANGED <<wjob, state, attempt>>
  /\ \E rows \in SUBSET Row : saved' = [saved EXCEPT ![wjob[1]] = [by |-> wjob, rows |-> rows]]
Clearing(j) ==
  /\ saved' = [saved EXCEPT ![j] = Nothing]
  /\ attempt' = attempt /\ wjob' = wjob
  /\ Pending' => Pending
Kind == Quiet \/ Saving \/ (\E j \in Jobs : Fetch(j) \/ Clearing(j))

LEMMA SaveKind ==
  ASSUME NEW t \in Tracked, t.reg = wjob, wjob \in Attempts, Pending, ~ Pending', Save(t),
         UNCHANGED <<wjob, state, attempt>>
  PROVE  Kind
<1>1. t.rows \in SUBSET Row
  BY DEF Tracked
<1>2. CASE saved' = [saved EXCEPT ![t.reg[1]] = [by |-> t.reg, rows |-> t.rows]]
  <2>1. saved' = [saved EXCEPT ![wjob[1]] = [by |-> wjob, rows |-> t.rows]]
    BY <1>2
  <2>. QED BY <1>1, <2>1 DEF Kind, Saving
<1>3. CASE saved' = saved
  BY <1>3 DEF Kind, Quiet
<1>. QED BY <1>2, <1>3 DEF Save

LEMMA StepKinds == ASSUME IInv, [Next]_vars PROVE Kind
<1>0. /\ WorkType /\ WriterType /\ CrawlType /\ Hand /\ Held /\ Alone
      /\ NotTracked.reg = NoAttempt
  BY DEF IInv, TypeOK, NotTracked
<1>1. ASSUME NEW j \in Jobs, Fetch(j) PROVE Kind
  BY <1>1 DEF Kind
<1>2. CASE RegisterJob
  BY <1>2 DEF RegisterJob, river, Pending, Quiet, Kind
<1>3. CASE SubmitJob
  BY <1>3 DEF SubmitJob, river, writer, Pending, Quiet, Kind
<1>4. CASE SubmitFails
  BY <1>4 DEF SubmitFails, river, writer, Pending, Quiet, Kind
<1>5. CASE Completion
  BY <1>5 DEF Completion, river, Pending, Quiet, Kind
<1>6. ASSUME NEW reason \in {"timeout", "cancelled"}, GiveUp(reason) PROVE Kind
  BY <1>6 DEF GiveUp, river, writer, Pending, Quiet, Kind
<1>7. CASE ForceFlush
  <2>1. Pending' => Pending
    BY <1>0, <1>7 DEF ForceFlush, Pending
  <2>. QED BY <1>7, <2>1 DEF ForceFlush, river, Quiet, Kind
<1>8. CASE ForceFlushSave
  <2>1. wTaken.reg = wjob /\ wjob \in Attempts /\ wTaken \in Tracked
    BY <1>0, <1>8 DEF ForceFlushSave, Held, Hand, WorkType, WriterType
  <2>2. Pending
    BY <2>1 DEF Pending, Attempts
  <2>3. ~ Pending'
    BY <1>0, <1>8 DEF ForceFlushSave, Pending, Held, TrackedIsInHand
  <2>. QED BY <1>8, <2>1, <2>2, <2>3, SaveKind DEF ForceFlushSave, river
<1>9. CASE WaitForFlushResult
  BY <1>9 DEF WaitForFlushResult, river, Pending, Quiet, Kind
<1>10. CASE JobDone
  BY <1>10 DEF JobDone, river, writer, Pending, Quiet, Kind
<1>11. CASE Settle
  BY <1>11 DEF Settle, writer, Pending, Quiet, Kind
<1>12. ASSUME NEW a \in Attempts, MonitorFires(a) PROVE Kind
  BY <1>12 DEF MonitorFires, river, work, writer, Pending, Quiet, Kind
<1>13. ASSUME NEW a \in Attempts, MonitorQuits(a) PROVE Kind
  BY <1>13 DEF MonitorQuits, river, work, writer, Pending, Quiet, Kind
<1>14. ASSUME NEW a \in Attempts, MarkDone(a) PROVE Kind
  <2>1. CASE Tracks(a)
    <3>1. current.reg # NoAttempt
      BY <2>1 DEF Tracks, AttemptsOf, Attempts
    <3>2. Pending
      BY <3>1 DEF Pending
    <3>. QED BY <1>14, <3>2 DEF MarkDone, river, work, Quiet, Kind
  <2>2. CASE ~ Tracks(a)
    BY <1>14, <2>2 DEF MarkDone, river, work, Pending, Quiet, Kind
  <2>. QED BY <2>1, <2>2
<1>15. ASSUME NEW a \in Attempts, MarkDoneSave(a) PROVE Kind
  <2>1. mTaken[a].reg = wjob /\ wjob \in Attempts /\ mTaken[a] \in Tracked
    BY <1>0, <1>15 DEF MarkDoneSave, Held, WorkType, WriterType
  <2>2. Pending /\ mTaken[a].reg # NoAttempt
    BY <2>1 DEF Pending, Attempts
  <2>3. /\ current.reg = NoAttempt /\ wTaken.reg = NoAttempt /\ wpc # "register"
        /\ \A b \in Attempts : b # a => mTaken[b].reg = NoAttempt
    BY <1>0, <2>2 DEF Held, Alone
  <2>4. ~ Pending'
    BY <1>0, <1>15, <2>3 DEF MarkDoneSave, Pending, WriterType, work
  <2>. QED BY <1>15, <2>1, <2>2, <2>4, SaveKind DEF MarkDoneSave, river, work
<1>16. ASSUME NEW a \in Attempts, StartCrawl(a) PROVE Kind
  BY <1>16 DEF StartCrawl, river, work, writer, Pending, Quiet, Kind
<1>17. ASSUME NEW a \in Attempts, NEW l \in Listings, AddResult(a, l) PROVE Kind
  <2>1. current'.reg = current.reg
    BY <1>0, <1>17 DEF AddResult, WriterType, Tracked, NotTracked
  <2>. QED BY <1>17, <2>1 DEF AddResult, river, work, Pending, Quiet, Kind
<1>18. ASSUME NEW a \in Attempts, CrawlEnds(a) PROVE Kind
  BY <1>18 DEF CrawlEnds, river, work, writer, Pending, Quiet, Kind
<1>19. CASE StartCycle
  BY <1>19 DEF StartCycle, river, work, writer, Pending, Quiet, Kind
<1>20. CASE TakeRestart
  BY <1>20 DEF TakeRestart, river, work, writer, Pending, Quiet, Kind
<1>21. CASE Terminate
  BY <1>21 DEF Terminate, river, work, writer, Pending, Quiet, Kind
<1>22. CASE ProcessEnds
  BY <1>0, <1>22 DEF ProcessEnds, river, Pending, Quiet, Kind
<1>23. ASSUME NEW j \in Jobs, Rescue(j) PROVE Kind
  BY <1>23 DEF Rescue, work, writer, Pending, Quiet, Kind
<1>24. ASSUME NEW j \in Jobs, DeleteJob(j) PROVE Kind
  BY <1>24 DEF DeleteJob, work, writer, Pending, Quiet, Kind
<1>25. ASSUME NEW j \in Jobs, DeleteResults(j) PROVE Kind
  BY <1>25 DEF DeleteResults, work, writer, Pending, Clearing, Kind
<1>26. ASSUME NEW j \in Jobs, DeleteRow(j) PROVE Kind
  BY <1>26 DEF DeleteRow, work, writer, Pending, Quiet, Kind
<1>27. CASE UNCHANGED vars
  BY <1>27 DEF vars, river, work, writer, Pending, Quiet, Kind
<1>. QED
  BY <1>1, <1>2, <1>3, <1>4, <1>5, <1>6, <1>7, <1>8, <1>9, <1>10, <1>11, <1>12, <1>13, <1>14,
     <1>15, <1>16, <1>17, <1>18, <1>19, <1>20, <1>21, <1>22, <1>23, <1>24, <1>25, <1>26, <1>27
  DEF Next, Work, Monitor, Scraper, Manager, Deletion, Environment

LEMMA OrderStep == IInv /\ OrderInv /\ [Next]_vars => OrderInv'
<1> SUFFICES ASSUME IInv, OrderInv, [Next]_vars PROVE OrderInv'
  OBVIOUS
<1>0. /\ saved \in [Jobs -> [by : Attempts \cup {NoAttempt}, rows : SUBSET Row]]
      /\ attempt \in [Jobs -> 0..MaxAttempts] /\ wjob \in Attempts \cup {NoAttempt}
      /\ SavedInTime /\ Unwritten
  BY DEF IInv, TypeOK, SavedType, RiverType, WorkType, OrderInv
<1>1. CASE Quiet
  BY <1>0, <1>1 DEF Quiet, OrderInv, SavedInTime, Unwritten
<1>2. CASE Saving
  <2>1. wjob \in Attempts /\ attempt' = attempt
    BY <1>2 DEF Saving
  <2>2. /\ wjob[1] \in Jobs /\ wjob \in AttemptsOf(wjob[1])
        /\ attempt[wjob[1]] = wjob[2] /\ wjob[2] \in Nat
    BY <2>1 DEF IInv, Latest, Attempts, AttemptsOf
  <2>3. saved'[wjob[1]].by = wjob /\ \A j \in Jobs : j # wjob[1] => saved'[j] = saved[j]
    BY <1>0, <1>2, <2>2 DEF Saving
  <2>4. SavedInTime'
    BY <1>0, <2>1, <2>2, <2>3 DEF SavedInTime
  <2>5. Unwritten'
    BY <1>2 DEF Saving, Unwritten
  <2>. QED BY <2>4, <2>5 DEF OrderInv
<1>3. ASSUME NEW j \in Jobs, Fetch(j) PROVE OrderInv'
  <2>1. /\ saved' = saved /\ wjob' = <<j, attempt[j] + 1>>
        /\ attempt' = [attempt EXCEPT ![j] = @ + 1]
    BY <1>3 DEF Fetch
  <2>2. \A k \in Jobs : attempt[k] \in Nat /\ attempt'[k] \in Nat /\ attempt[k] <= attempt'[k]
    BY <1>0, <2>1
  <2>3. \A k \in Jobs : saved[k].by \in AttemptsOf(k) => saved[k].by[2] \in Nat
    BY DEF AttemptsOf
  <2>4. SavedInTime'
    BY <1>0, <2>1, <2>2, <2>3 DEF SavedInTime
  <2>5. saved[j].by # wjob'
    <3>1. attempt[j] + 1 \in 1..MaxAttempts
      BY <1>0, <1>3, <2>2 DEF Fetch, IInv, Retriable
    <3>2. wjob' \in Attempts /\ wjob'[2] = attempt[j] + 1
      BY <2>1, <3>1 DEF Attempts
    <3>3. saved[j].by # NoAttempt => saved[j].by[2] < attempt[j] + 1
      BY <1>0, <2>2, <2>3 DEF SavedInTime
    <3>. QED BY <2>2, <3>2, <3>3 DEF Attempts
  <2>6. Unwritten'
    BY <2>1, <2>5 DEF Unwritten
  <2>. QED BY <2>4, <2>6 DEF OrderInv
<1>4. ASSUME NEW j \in Jobs, Clearing(j) PROVE OrderInv'
  <2>1. \A k \in Jobs : saved'[k] = saved[k] \/ saved'[k].by = NoAttempt
    BY <1>0, <1>4 DEF Clearing, Nothing
  <2>2. SavedInTime'
    BY <1>0, <1>4, <2>1 DEF Clearing, SavedInTime
  <2>3. Unwritten'
    BY <1>0, <1>4, <2>1 DEF Clearing, Unwritten, Attempts
  <2>. QED BY <2>2, <2>3 DEF OrderInv
<1>. QED BY <1>1, <1>2, <1>3, <1>4, StepKinds DEF Kind

LEMMA OrderInit == Init => OrderInv
BY DEF Init, MemoryInit, OrderInv, SavedInTime, Unwritten, Nothing, Pending

\* Attempts save in order, each once, and only while their job runs or after its
\* deletion, with however many retries, late flushes, cancellations and restarts.
THEOREM SavesAreInOrder == Spec => SavesInOrder
<1> DEFINE InOrder ==
      \A j \in Jobs :
        saved'[j] # saved[j] /\ saved'[j] # Nothing =>
          /\ state[j] \in {"running", "deleted"}
          /\ saved'[j].by = <<j, attempt[j]>>
          /\ saved[j].by # NoAttempt => saved[j].by[2] < attempt[j]
<1>1. IInv /\ OrderInv /\ [Next]_vars => InOrder
  <2> SUFFICES ASSUME IInv, OrderInv, [Next]_vars,
                      NEW j \in Jobs, saved'[j] # saved[j], saved'[j] # Nothing
               PROVE  /\ state[j] \in {"running", "deleted"}
                      /\ saved'[j].by = <<j, attempt[j]>>
                      /\ saved[j].by # NoAttempt => saved[j].by[2] < attempt[j]
    OBVIOUS
  <2>0. /\ saved \in [Jobs -> [by : Attempts \cup {NoAttempt}, rows : SUBSET Row]]
        /\ attempt \in [Jobs -> 0..MaxAttempts] /\ SavedInTime /\ Unwritten
    BY DEF IInv, TypeOK, SavedType, RiverType, OrderInv
  <2>1. Saving
    BY <2>0, StepKinds DEF Kind, Quiet, Clearing, Fetch
  <2>2. wjob[1] = j /\ saved'[j].by = wjob /\ wjob \in Attempts /\ Pending
    BY <2>0, <2>1 DEF Saving, Attempts
  <2>3. wjob = <<j, attempt[j]>> /\ state[j] \in {"running", "deleted"}
    BY <2>2 DEF IInv, Latest, Attempts
  <2>4. ASSUME saved[j].by # NoAttempt PROVE saved[j].by[2] < attempt[j]
    <3>1. saved[j].by \in AttemptsOf(j) /\ saved[j].by[2] <= attempt[j] /\ saved[j].by # wjob
      BY <2>0, <2>2, <2>4 DEF SavedInTime, Unwritten
    <3>2. saved[j].by = <<j, saved[j].by[2]>> /\ saved[j].by[2] \in Nat /\ attempt[j] \in Nat
      BY <2>0, <3>1 DEF AttemptsOf
    <3>. QED BY <2>3, <3>1, <3>2
  <2>. QED BY <2>2, <2>3, <2>4
<1>2. Spec => [](IInv /\ OrderInv)
  BY InitInv, StepInv, OrderInit, OrderStep, PTL DEF Spec
<1>. QED BY <1>1, <1>2, PTL DEF Spec, SavesInOrder

\* River's rows change only when a job is taken, settles, is rescued or is deleted.
LEMMA RowChanges ==
  ASSUME [Next]_vars
  PROVE  \/ UNCHANGED <<state, attempt>>
         \/ Settle
         \/ \E j \in Jobs : Fetch(j) \/ Rescue(j) \/ DeleteRow(j)
<1> DEFINE Same == UNCHANGED <<state, attempt>>
<1>1. CASE RegisterJob \/ SubmitJob \/ SubmitFails \/ Completion
  BY <1>1 DEF RegisterJob, SubmitJob, SubmitFails, Completion, river
<1>2. ASSUME NEW reason \in {"timeout", "cancelled"}, GiveUp(reason) PROVE Same
  BY <1>2 DEF GiveUp, river
<1>3. CASE ForceFlush \/ ForceFlushSave \/ WaitForFlushResult \/ JobDone
  BY <1>3 DEF ForceFlush, ForceFlushSave, WaitForFlushResult, JobDone, river
<1>4. ASSUME NEW a \in Attempts, Monitor(a) PROVE Same
  BY <1>4 DEF Monitor, MonitorFires, MonitorQuits, MarkDone, MarkDoneSave, river
<1>5. ASSUME NEW a \in Attempts, Scraper(a) PROVE Same
  BY <1>5 DEF Scraper, StartCrawl, AddResult, CrawlEnds, river
<1>6. CASE Manager \/ Environment
  BY <1>6 DEF Manager, Environment, StartCycle, TakeRestart, Terminate, ProcessEnds, river
<1>7. ASSUME NEW j \in Jobs, DeleteJob(j) \/ DeleteResults(j) PROVE Same
  BY <1>7 DEF DeleteJob, DeleteResults
<1>8. CASE UNCHANGED vars
  BY <1>8 DEF vars, river
<1>. QED BY <1>1, <1>2, <1>3, <1>4, <1>5, <1>6, <1>7, <1>8 DEF Next, Work, Deletion

\* A job that River calls ended is never worked on again, and every attempt is one
\* more than the last.
THEOREM EndedJobsStayEnded == Spec => EndedStaysEnded
<1> DEFINE Stays ==
      \A j \in Jobs :
        /\ attempt'[j] # attempt[j] => state[j] = "available" /\ attempt'[j] = attempt[j] + 1
        /\ state[j] \in Ended => state'[j] \in {state[j], "deleted"}
<1>1. IInv /\ [Next]_vars => Stays
  <2> SUFFICES ASSUME IInv, [Next]_vars PROVE Stays
    OBVIOUS
  <2>0. /\ attempt \in [Jobs -> 0..MaxAttempts] /\ wjob \in Attempts \cup {NoAttempt}
        /\ DOMAIN state = Jobs
    BY DEF IInv, TypeOK, RiverType, WorkType
  <2>1. CASE UNCHANGED <<state, attempt>>
    BY <2>1
  <2>2. CASE Settle
    <3>1. wjob # NoAttempt
      BY <2>2 DEF Settle, IInv, Hand
    <3>2. wjob[1] \in Jobs /\ state[wjob[1]] \in {"running", "deleted"}
      BY <2>0, <3>1 DEF IInv, Latest, Attempts
    <3>3. /\ attempt' = attempt
          /\ \A k \in Jobs : k # wjob[1] => state'[k] = state[k]
          /\ state[wjob[1]] = "deleted" => state'[wjob[1]] = "deleted"
      BY <2>0, <2>2, <3>2 DEF Settle, NextState
    <3>. QED BY <3>2, <3>3 DEF Ended
  <2>3. ASSUME NEW j \in Jobs, Fetch(j) PROVE Stays
    <3>1. /\ state[j] = "available" /\ attempt' = [attempt EXCEPT ![j] = @ + 1]
          /\ \A k \in Jobs : k # j => state'[k] = state[k]
      BY <2>0, <2>3 DEF Fetch
    <3>. QED BY <2>0, <3>1 DEF Ended
  <2>4. ASSUME NEW j \in Jobs, Rescue(j) PROVE Stays
    <3>1. /\ state[j] = "running" /\ attempt' = attempt
          /\ \A k \in Jobs : k # j => state'[k] = state[k]
      BY <2>0, <2>4 DEF Rescue
    <3>. QED BY <3>1 DEF Ended
  <2>5. ASSUME NEW j \in Jobs, DeleteRow(j) PROVE Stays
    BY <2>0, <2>5 DEF DeleteRow
  <2>. QED BY <2>1, <2>2, <2>3, <2>4, <2>5, RowChanges
<1>. QED BY <1>1, Inductive, PTL DEF Spec, EndedStaysEnded

=============================================================================
