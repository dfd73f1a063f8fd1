---------------------------- MODULE PartsProofs ----------------------------
(***************************************************************************)
(* Proofs about the parts that share no state with others: the collection  *)
(* of a place's reviews, for any listing, caps and proxies and whatever    *)
(* the endpoint answers; the shared back-off, for any number of browsers;  *)
(* the database mode's table of jobs, for any jobs, processes, callers,    *)
(* batch sizes and restarts, and its buffer of results; the admin's        *)
(* account, for any number of browsers, secrets, sets and codes; the       *)
(* wizard, for any number of runs; and the limit on logins.                *)
(***************************************************************************)
EXTENDS Reviews, BlockGuard, JobProvider, ResultBuffer, AdminAccount, Provisioning, RateLimit, SumTheorems

\* The kept reviews are served ones with an id, no more than the cap.
Kept ==
  /\ cfg \in Configs /\ panel \subseteq Served
  /\ rows \subseteq Served \ NoId /\ Cardinality(rows) <= cfg.cap

\* A reading is under way, or may be taken up by the next route.
Going == where \in {"start", "turn", "asked"} \/ (where = "next" /\ last.reason \notin Final)

\* While no token was handed out twice, the cursor tells what has been read.
Reading ==
  /\ token \in 0..(Len(Listing) - 1) /\ given \subseteq 0..(Len(Listing) - 1) /\ seen \subseteq given
  /\ Going /\ ~looped =>
       /\ given = 1..token /\ seen = given
       /\ \A i \in 1..token : Listing[i] \ NoId \subseteq rows

\* That there are no reviews is only said of a listing that reports none.
NoneReported ==
  last.reason # "no_reviews" /\ (report.reason = "no_reviews" => cfg.reported = 0)

ReviewsInv == NoneReported /\ Kept /\ Reading /\ ExhaustedReadsAll /\ CompleteIsWhole

-----------------------------------------------------------------------------
\* A page adds served reviews up to the cap, and all of its own when the cap is not reached.
LEMMA PageAdded ==
  ASSUME Kept, NEW R \in SUBSET Served, NEW grown \in Added(R)
  PROVE  /\ rows \subseteq grown /\ grown \subseteq Served \ NoId /\ Cardinality(grown) <= cfg.cap
         /\ Cardinality(grown) < cfg.cap => R \ NoId \subseteq grown
<1>. DEFINE new == (R \ NoId) \ rows
            k == Least(Cardinality(new), cfg.cap - Cardinality(rows))
<1>1. IsFiniteSet(rows) /\ IsFiniteSet(new) /\ IsFiniteSet(Served)
  BY ReviewsAssumption, FS_Subset DEF Kept
<1>2. Cardinality(rows) \in Nat /\ Cardinality(new) \in Nat /\ cfg.cap \in Nat
  BY <1>1, ReviewsAssumption, FS_CardinalityType DEF Kept, Configs
<1>3. PICK S \in SUBSET new : Cardinality(S) = k /\ grown = rows \cup S
  BY DEF Added, kSubset
<1>4. IsFiniteSet(S) /\ rows \cap S = {}
  BY <1>1, FS_Subset
<1>5. Cardinality(grown) = Cardinality(rows) + k
  <2>1. Cardinality(rows \cup S) = Cardinality(rows) + Cardinality(S) - Cardinality(rows \cap S)
    BY <1>1, <1>4, FS_Union
  <2>2. Cardinality(rows \cap S) = 0
    BY <1>4, FS_EmptySet
  <2>3. k \in Int
    BY <1>2 DEF Least
  <2>. QED
    BY <1>2, <1>3, <2>1, <2>2, <2>3
<1>6. Cardinality(grown) <= cfg.cap
  BY <1>2, <1>5 DEF Least, Kept
<1>7. ASSUME Cardinality(grown) < cfg.cap PROVE R \ NoId \subseteq grown
  <2>1. k = Cardinality(new)
    BY <1>2, <1>5, <1>7 DEF Least
  <2>2. S = new
    BY <1>1, <1>3, <2>1, FS_Subset
  <2>. QED
    BY <1>3, <2>2
<1>. QED
  BY <1>3, <1>6, <1>7 DEF Kept

\* A part of the served reviews that is as large as all of them is all of them.
LEMMA AllServed ==
  ASSUME NEW ids \in SUBSET Served, Cardinality(ids) >= Cardinality(Served)
  PROVE  ids = Served
<1>1. IsFiniteSet(ids) /\ Cardinality(ids) <= Cardinality(Served)
  BY ReviewsAssumption, FS_Subset
<1>2. Cardinality(ids) \in Nat /\ Cardinality(Served) \in Nat
  BY <1>1, ReviewsAssumption, FS_CardinalityType
<1>. QED
  BY <1>1, <1>2, ReviewsAssumption, FS_Subset

LEMMA ReviewsInit0 == ReviewsInit => ReviewsInv
<1>. SUFFICES ASSUME ReviewsInit PROVE ReviewsInv
  OBVIOUS
<1>. USE ReviewsAssumption DEF ReviewsInit
<1>1. Kept
  <2>1. cfg \in Configs /\ cfg.cap \in Nat
    BY DEF Configs
  <2>2. rows = {} /\ panel = {} /\ Cardinality({}) = 0
    BY FS_EmptySet
  <2>. QED
    BY <2>1, <2>2 DEF Kept
<1>2. Reading
  <2>1. Len(Listing) \in Nat /\ Len(Listing) # 0
    OBVIOUS
  <2>. QED
    BY <2>1 DEF Reading
<1>3. ExhaustedReadsAll /\ CompleteIsWhole /\ NoneReported
  BY DEF ExhaustedReadsAll, CompleteIsWhole, NoneReported, Over, Open, Unsettled
<1>. QED
  BY <1>1, <1>2, <1>3 DEF ReviewsInv

\* A step that reads nothing and leaves the cursor keeps the invariant, if it takes up no
\* reading that was over and ends none as exhausted.
LEMMA CursorUntouched ==
  ASSUME ReviewsInv, NoneReported', UNCHANGED <<cfg, rows, token, seen, given, looped>>, panel' \subseteq Served,
         Going' => Going, where' # "over",
         last' = last \/ last'.reason # "exhausted" \/ last'.detail # "none"
  PROVE  ReviewsInv'
<1>. USE DEF ReviewsInv
<1>1. Kept' /\ Reading'
  BY DEF Kept, Reading
<1>2. ExhaustedReadsAll' /\ CompleteIsWhole'
  BY DEF ExhaustedReadsAll, CompleteIsWhole, Over
<1>. QED
  BY <1>1, <1>2

LEMMA NoneReportedStep == ASSUME ReviewsInv, [ReviewsNext]_reviewVars PROVE NoneReported'
<1>. USE DEF NoneReported, ReviewsInv, cursor, pool, drift, tries, kept, dom
<1>1. ASSUME NEW o, Finish(o), UNCHANGED <<cfg, last>>, o.reason # "no_reviews" \/ cfg.reported = 0 PROVE NoneReported'
  BY <1>1 DEF Finish
<1>2. ASSUME NEW reason, NEW detail, StageEnds(reason, detail), reason # "no_reviews" PROVE NoneReported'
  BY <1>2 DEF StageEnds
<1>3. CASE UNCHANGED <<cfg, last, report>>
  BY <1>3
<1>4. CASE NoReviews
  BY <1>1, <1>4 DEF NoReviews
<1>5. CASE NoDOM
  BY <1>1, <1>5 DEF NoDOM
<1>6. CASE Merge
  BY <1>6 DEF Merge
<1>7. CASE Turn \/ NoURL \/ PageFails("error") \/ PageFails("parse_error")
  BY <1>2, <1>3, <1>7 DEF Turn, NoURL, PageFails, StartOver
<1>8. CASE Refused \/ Transient
  BY <1>2, <1>3, <1>8 DEF Refused, Transient, Refusal, Rotate
<1>9. ASSUME NEW next \in 0..Len(Listing), PageRead(next) PROVE NoneReported'
  BY <1>2, <1>3, <1>9 DEF PageRead
<1>10. ASSUME NEW P, Scrolled(P), UNCHANGED <<cfg, last>> PROVE NoneReported'
  <2>1. DomReason # "no_reviews"
    BY DEF DomReason
  <2>2. [last EXCEPT !.detail = "none"].reason # "no_reviews" \/ last.reason # "exhausted"
    BY DEF Final
  <2>. QED
    BY <1>1, <1>10, <2>1, <2>2 DEF Scrolled
<1>11. ASSUME NEW shown \in SUBSET Served, Pass(shown) PROVE NoneReported'
  BY <1>3, <1>10, <1>11 DEF Pass
<1>12. CASE GivesUp
  BY <1>10, <1>12 DEF GivesUp
<1>. QED
  BY <1>3, <1>4, <1>5, <1>6, <1>7, <1>8, <1>9, <1>11, <1>12
     DEF ReviewsNext, Collecting, TimeUp, BeginBrowser, BeginHTTP, BeginStage, BeginDOM, reviewVars

LEMMA ReviewsStep == ASSUME ReviewsInv, [ReviewsNext]_reviewVars PROVE ReviewsInv'
<1>. USE DEF cursor, pool, drift, tries, kept, dom
<1>0. panel \subseteq Served /\ NoneReported'
  BY NoneReportedStep DEF ReviewsInv, Kept
<1>1. CASE NoReviews
  BY <1>0, <1>1, CursorUntouched DEF NoReviews, Finish, Going
<1>2. CASE BeginBrowser \/ BeginHTTP
  BY <1>0, <1>2, CursorUntouched DEF BeginBrowser, BeginHTTP, BeginStage, Going
<1>3. CASE BeginDOM
  BY <1>0, <1>3, CursorUntouched DEF BeginDOM, Going
<1>4. CASE NoDOM
  BY <1>0, <1>4, CursorUntouched DEF NoDOM, Finish, Going
<1>5. CASE TimeUp
  BY <1>0, <1>5 DEF TimeUp, ReviewsInv, Kept, Reading, Going, ExhaustedReadsAll, CompleteIsWhole, Over
<1>6. CASE Turn
  <2>1. UNCHANGED <<cfg, rows, token, seen, given, looped, panel>> /\ Going
    BY <1>6 DEF Turn, StageEnds, Going
  <2>2. CASE StageEnds("budget", "none")
    BY <1>0, <2>1, <2>2, CursorUntouched DEF StageEnds
  <2>3. CASE StageEnds("exhausted", "page budget reached")
    BY <1>0, <2>1, <2>3, CursorUntouched DEF StageEnds
  <2>4. CASE where' = "asked" /\ UNCHANGED last
    BY <1>0, <2>1, <2>4, CursorUntouched
  <2>. QED
    BY <1>6, <2>2, <2>3, <2>4 DEF Turn
<1>7. CASE NoURL
  BY <1>0, <1>7, CursorUntouched DEF NoURL, StageEnds, Going
<1>8. ASSUME NEW reason \in {"error", "parse_error"}, PageFails(reason) PROVE ReviewsInv'
  <2>1. CASE StageEnds(reason, "none") /\ UNCHANGED given
    BY <1>0, <1>8, <2>1, CursorUntouched DEF PageFails, StageEnds, Going
  <2>2. CASE StartOver
    <3>1. /\ token' = 0 /\ seen' = {} /\ given' = {} /\ where' = "turn"
          /\ UNCHANGED <<cfg, rows, panel, last, report, looped>>
      BY <1>8, <2>2 DEF PageFails, StartOver
    <3>2. Kept' /\ ExhaustedReadsAll' /\ CompleteIsWhole'
      BY <3>1 DEF ReviewsInv, Kept, ExhaustedReadsAll, CompleteIsWhole, Over
    <3>3. Reading'
      <4>1. 0 \in 0..(Len(Listing) - 1)
        BY ReviewsAssumption
      <4>. QED
        BY <3>1, <4>1 DEF Reading
    <3>. QED
      BY <1>0, <3>2, <3>3 DEF ReviewsInv
  <2>. QED
    BY <1>8, <2>1, <2>2 DEF PageFails
<1>9. ASSUME NEW next \in 0..Len(Listing), PageRead(next) PROVE ReviewsInv'
  <2>. DEFINE read == Listing[token + 1]
  <2>1. token + 1 \in 1..Len(Listing) /\ Len(Listing) \in Nat /\ read \in SUBSET Served
    BY ReviewsAssumption DEF ReviewsInv, Reading
  <2>2. /\ where = "asked" /\ next \in NextTokens /\ rows' \in Added(read) /\ UNCHANGED <<cfg, panel>>
        /\ looped' = (looped \/ next \in given) /\ given' = given \cup {next}
    BY <1>9 DEF PageRead, StageEnds
  <2>3. /\ rows \subseteq rows' /\ rows' \subseteq Served \ NoId /\ Cardinality(rows') <= cfg.cap
        /\ Cardinality(rows') < cfg.cap => read \ NoId \subseteq rows'
    <3>. HIDE DEF read
    <3>. QED
      BY <2>1, <2>2, PageAdded DEF ReviewsInv
  <2>4. Kept' /\ where' # "over"
    BY <1>9, <2>2, <2>3 DEF PageRead, StageEnds, ReviewsInv, Kept
  <2>5. next \in 0..(Len(Listing) - 1)
    BY <2>1, <2>2 DEF NextTokens, ReviewsInv, Reading
  <2>6. ~looped' => ~looped /\ next \notin given /\ given = 1..token /\ seen = given
                   /\ next = (IF token + 1 < Len(Listing) THEN token + 1 ELSE 0)
                   /\ \A i \in 1..token : Listing[i] \ NoId \subseteq rows
    BY <2>2 DEF NextTokens, ReviewsInv, Reading, Going
  <2>7. CASE Cardinality(rows') >= cfg.cap
    <3>1. /\ last' = [reason |-> "cap", detail |-> "none"] /\ where' = "next" /\ UNCHANGED <<token, seen>>
      BY <1>9, <2>7 DEF PageRead, StageEnds
    <3>2. Reading'
      BY <2>2, <2>5, <3>1 DEF ReviewsInv, Reading, Going, Final
    <3>. QED
      BY <1>0, <2>4, <3>1, <3>2 DEF ReviewsInv, ExhaustedReadsAll, CompleteIsWhole, Over
  <2>8. CASE ~(Cardinality(rows') >= cfg.cap) /\ (next = 0 \/ next \in seen)
    <3>1. /\ last' = [reason |-> "exhausted", detail |-> "none"] /\ where' = "next" /\ UNCHANGED <<token, seen>>
      BY <1>9, <2>8 DEF PageRead, StageEnds
    <3>2. Reading'
      BY <2>2, <2>5, <3>1 DEF ReviewsInv, Reading, Going, Final
    <3>3. ASSUME ~looped' PROVE Served \ NoId \subseteq rows'
      <4>1. token + 1 = Len(Listing)
        BY <2>1, <2>6, <2>8, <3>3
      <4>2. read \ NoId \subseteq rows'
        <5>1. Cardinality(rows') \in Nat /\ cfg.cap \in Nat
          <6>1. IsFiniteSet(rows')
            BY <2>3, ReviewsAssumption, FS_Subset
          <6>. QED
            BY <6>1, ReviewsAssumption, FS_CardinalityType DEF ReviewsInv, Kept, Configs
        <5>. QED
          BY <2>3, <2>8, <5>1
      <4>3. ASSUME NEW i \in 1..Len(Listing) PROVE Listing[i] \ NoId \subseteq rows'
        <5>1. i = token + 1 \/ i \in 1..token
          BY <2>1, <4>1 DEF ReviewsInv, Reading
        <5>2. CASE i \in 1..token
          BY <2>3, <2>6, <3>3, <5>2
        <5>. QED
          BY <4>2, <5>1, <5>2
      <4>. QED
        BY <4>3, ReviewsAssumption DEF Served
    <3>. QED
      BY <1>0, <2>4, <3>1, <3>2, <3>3 DEF ReviewsInv, ExhaustedReadsAll, CompleteIsWhole, Over
  <2>9. CASE ~(Cardinality(rows') >= cfg.cap) /\ next # 0 /\ next \notin seen
    <3>1. /\ token' = next /\ seen' = seen \cup {next} /\ where' = "turn" /\ UNCHANGED <<last, report>>
      BY <1>9, <2>9 DEF PageRead
    <3>2. Reading'
      <4>1. token' \in 0..(Len(Listing) - 1) /\ given' \subseteq 0..(Len(Listing) - 1) /\ seen' \subseteq given'
        BY <2>2, <2>5, <3>1 DEF ReviewsInv, Reading
      <4>2. ASSUME ~looped' PROVE given' = 1..token' /\ seen' = given' /\ \A i \in 1..token' : Listing[i] \ NoId \subseteq rows'
        <5>1. token' = token + 1
          BY <2>6, <2>9, <3>1, <4>2
        <5>2. read \ NoId \subseteq rows'
          <6>1. Cardinality(rows') \in Nat /\ cfg.cap \in Nat
            <7>1. IsFiniteSet(rows')
              BY <2>3, ReviewsAssumption, FS_Subset
            <7>. QED
              BY <7>1, ReviewsAssumption, FS_CardinalityType DEF ReviewsInv, Kept, Configs
          <6>. QED
            BY <2>3, <2>9, <6>1
        <5>3. given' = 1..token' /\ seen' = given'
          <6>1. token \in Nat /\ given' = given \cup {token + 1} /\ seen' = seen \cup {token + 1}
            BY <2>2, <3>1, <5>1 DEF ReviewsInv, Reading
          <6>2. (1..token) \cup {token + 1} = 1..(token + 1)
            BY <6>1
          <6>. QED
            BY <2>6, <4>2, <5>1, <6>1, <6>2
        <5>4. ASSUME NEW i \in 1..token' PROVE Listing[i] \ NoId \subseteq rows'
          <6>1. i = token + 1 \/ i \in 1..token
            BY <5>1 DEF ReviewsInv, Reading
          <6>2. CASE i \in 1..token
            BY <2>3, <2>6, <4>2, <6>2
          <6>. QED
            BY <5>2, <6>1, <6>2
        <5>. QED
          BY <5>3, <5>4
      <4>. QED
        BY <4>1, <4>2 DEF Reading
    <3>3. ExhaustedReadsAll'
      BY <2>2, <2>3, <3>1 DEF ReviewsInv, ExhaustedReadsAll
    <3>. QED
      BY <1>0, <2>4, <3>2, <3>3 DEF ReviewsInv, CompleteIsWhole, Over
  <2>. QED
    BY <2>7, <2>8, <2>9
<1>10. CASE Refused
  <2>1. CASE Rotate
    BY <1>0, <1>10, <2>1, CursorUntouched DEF Refused, Rotate, Going
  <2>2. CASE Refusal("every identity refused")
    BY <1>0, <1>10, <2>2, CursorUntouched DEF Refused, Refusal, StageEnds, Going
  <2>. QED
    BY <1>10, <2>1, <2>2 DEF Refused
<1>11. CASE Transient
  <2>1. CASE Rotate
    BY <1>0, <1>11, <2>1, CursorUntouched DEF Transient, Rotate, Going
  <2>2. CASE StageEnds("budget", "none") \/ StageEnds("error", "none")
    BY <1>0, <1>11, <2>2, CursorUntouched DEF Transient, StageEnds, Going
  <2>3. CASE UNCHANGED <<cfg, where, stage, late, budget, rereads, cursor, rotated, dom, last, report, cur, retired>>
    BY <1>0, <1>11, <2>3, CursorUntouched DEF Transient, Going
  <2>. QED
    BY <1>11, <2>1, <2>2, <2>3 DEF Transient
<1>12. ASSUME NEW P \in SUBSET Served, Scrolled(P), where = "scroll", panel' \subseteq Served,
              UNCHANGED <<cfg, cursor, last, drift>>
       PROVE  ReviewsInv'
  <2>1. /\ rows \subseteq rows' /\ rows' \subseteq Served \ NoId /\ Cardinality(rows') <= cfg.cap
    BY <1>12, PageAdded DEF Scrolled, ReviewsInv
  <2>2. where' = "merge"
    BY <1>12 DEF Scrolled, Finish
  <2>. QED
    BY <1>0, <1>12, <2>1, <2>2 DEF ReviewsInv, Kept, Reading, Going, ExhaustedReadsAll, CompleteIsWhole, Over
<1>13. ASSUME NEW shown \in SUBSET Served, Pass(shown) PROVE ReviewsInv'
  <2>1. panel' \in SUBSET Served /\ where = "scroll" /\ UNCHANGED <<cfg, cursor, last, drift>>
    BY <1>0, <1>13 DEF Pass
  <2>2. CASE Scrolled(panel')
    BY <1>12, <2>1, <2>2
  <2>3. CASE UNCHANGED <<where, kept, report>>
    BY <1>0, <2>1, <2>3, CursorUntouched DEF Going
  <2>. QED
    BY <1>13, <2>2, <2>3 DEF Pass
<1>14. CASE GivesUp
  BY <1>0, <1>12, <1>14 DEF GivesUp
<1>15. CASE Merge
  <2>. DEFINE ids == rows \cup (cfg.inline \ NoId)
              known == cfg.reported > 0 /\ Reaches(ids)
              reason == IF report.reason = "exhausted" /\ known THEN "done" ELSE report.reason
  <2>1. /\ where = "merge" /\ where' = "over"
        /\ UNCHANGED <<cfg, rows, token, seen, given, looped, panel, last>>
        /\ report'.collected = ids
        /\ report'.complete = ((reason = "done" /\ known) \/ (reason = "no_reviews" /\ ids = {}))
    BY <1>15 DEF Merge
  <2>2. Kept' /\ Reading' /\ ExhaustedReadsAll'
    BY <2>1 DEF ReviewsInv, Kept, Reading, Going, ExhaustedReadsAll
  <2>3. CompleteIsWhole'
    <3>. SUFFICES ASSUME report'.complete, cfg.reported >= Cardinality(Served) PROVE ids = Served
      BY <2>1 DEF CompleteIsWhole
    <3>1. ids \in SUBSET Served /\ IsFiniteSet(ids)
      <4>1. rows \subseteq Served /\ cfg.inline \subseteq Served
        BY ReviewsAssumption DEF ReviewsInv, Kept, Configs
      <4>. QED
        BY <4>1, ReviewsAssumption, FS_Subset
    <3>2. Cardinality(ids) \in Nat /\ Cardinality(Served) \in Nat /\ cfg.reported \in Nat
      BY <3>1, ReviewsAssumption, FS_CardinalityType DEF ReviewsInv, Kept, Configs
    <3>3. CASE known
      <4>1. Cardinality(ids) >= cfg.reported
        BY <3>3 DEF Reaches
      <4>. HIDE DEF ids
      <4>. QED
        BY <3>1, <3>2, <4>1, AllServed
    <3>4. CASE reason = "no_reviews" /\ ids = {}
      <4>1. Cardinality(Served) = 0
        BY <3>2, <3>4 DEF ReviewsInv, NoneReported
      <4>. QED
        BY <3>4, <4>1, ReviewsAssumption, FS_EmptySet
    <3>. QED
      BY <2>1, <3>3, <3>4
  <2>. QED
    BY <1>0, <2>2, <2>3 DEF ReviewsInv
<1>16. CASE UNCHANGED reviewVars
  BY <1>0, <1>16 DEF reviewVars, ReviewsInv, Kept, Reading, Going, ExhaustedReadsAll, CompleteIsWhole, Over
<1>. QED
  BY <1>1, <1>2, <1>3, <1>4, <1>5, <1>6, <1>7, <1>8, <1>9, <1>10, <1>11, <1>13, <1>14, <1>15, <1>16
     DEF ReviewsNext, Collecting

\* A collection that calls itself complete of a listing whose count is no less than what
\* Google serves has every review served, whatever was read twice: the removal detection
\* rests on it (reviewset.go:18-20).
THEOREM CompleteCollectionsAreWhole == ReviewsSpec => []CompleteIsWhole
<1>1. ReviewsInv => CompleteIsWhole
  BY DEF ReviewsInv
<1>. QED
  BY <1>1, ReviewsInit0, ReviewsStep, PTL DEF ReviewsSpec

\* A reading that ended because the pages ran out has every review of every page, across
\* retries, identities and a restart (review_report.go:8-10), unless Google handed out a
\* page token twice.
THEOREM ExhaustedReadingsAreWhole == ReviewsSpec => []ExhaustedReadsAll
<1>1. ReviewsInv => ExhaustedReadsAll
  BY DEF ReviewsInv
<1>. QED
  BY <1>1, ReviewsInit0, ReviewsStep, PTL DEF ReviewsSpec
-----------------------------------------------------------------------------
(* How much a collection can do. *)

\* What the bounds rest on: each route begins with the whole budget and the listing is
\* started over by the second one alone; an identity that was left is not the one in use.
WithinBudget ==
  /\ rereads \in {0, 1} /\ pages \in Nat /\ budget \in Nat /\ pages <= 2 * PageBudget
  /\ where \in {"turn", "asked", "next"} =>
       pages <= budget /\ budget <= (IF rereads = 0 THEN PageBudget ELSE 2 * PageBudget)
  /\ where = "asked" => pages < budget
  /\ where = "start" => pages = 0

Routes ==
  /\ where \in {"start", "turn", "asked", "next", "scroll", "merge", "over"}
  /\ where \in {"turn", "asked", "next"} => stage \in {"rpc_browser", "rpc_http"}
  /\ where = "start" => stage = "none"
  /\ stage \in {"none", "rpc_browser"} => rereads = 0 /\ retired = {} /\ ~rotated
  /\ cur \in 0..(Identities - 1) /\ retired \subseteq 0..(Identities - 1)
  /\ where \in {"turn", "asked"} /\ stage = "rpc_http" => cur \notin retired

Tries ==
  /\ cfg \in Configs /\ attempt \in 0..TransientRetries /\ stuck \in 0..MaxStuckPasses
  /\ panel \subseteq Served /\ Cardinality(panel) <= cfg.cap
  /\ where \notin {"merge", "over"} => stuck < MaxStuckPasses

EffortInv == WithinBudget /\ Routes /\ Tries

\* A finite set of numbers has a least one.
LEMMA LeastOf == \A F : F \subseteq Int /\ IsFiniteSet(F) /\ F # {} => \E k \in F : \A j \in F : k <= j
<1>1. ASSUME NEW F, F \subseteq Int, IsFiniteSet(F), F # {} PROVE \E k \in F : \A j \in F : k <= j
  <2>. DEFINE C == {T \in SUBSET F : \E k \in T : \A i \in F : i <= k <=> i \in T}
  <2>1. C \in SUBSET SUBSET F
    OBVIOUS
  <2>2. C # {}
    <3>1. PICK k \in F : TRUE
      BY <1>1
    <3>2. k \in {i \in F : i <= k} /\ {i \in F : i <= k} \in C
      BY <1>1
    <3>. QED
      BY <3>2
  <2>3. PICK T \in C : \A U \in C : U \subseteq T => U = T
    <3>1. IsFiniteSet(F)
      BY <1>1
    <3>. HIDE DEF C
    <3>. QED
      BY <2>1, <2>2, <3>1, SmallestSet
  <2>4. PICK k \in T : \A i \in F : i <= k <=> i \in T
    BY <2>3
  <2>5. ASSUME NEW j \in F, j < k PROVE FALSE
    <3>. DEFINE U == {i \in F : i <= j}
    <3>1. j \in Int /\ k \in Int /\ k \in F /\ \A i \in F : i \in Int
      BY <1>1
    <3>2. U \in C /\ j \in U
      BY <3>1
    <3>3. \A i \in F : i <= j => i <= k
      BY <2>5, <3>1
    <3>4. U \subseteq T
      BY <2>4, <3>3
    <3>5. k \notin U
      BY <2>5, <3>1
    <3>. QED
      BY <2>3, <3>2, <3>4, <3>5
  <2>. QED
    BY <1>1, <2>5
<1>. QED
  BY <1>1

LEMMA CfgNumbers == ASSUME cfg \in Configs PROVE cfg.cap \in Nat \ {0} /\ cfg.reported \in Nat /\ PageBudget \in Nat
<1>1. cfg.cap \in Nat \ {0} /\ cfg.reported \in Nat
  BY ReviewsAssumption DEF Configs
<1>2. cfg.cap \div PageSize \in Nat
  BY <1>1, ReviewsAssumption
<1>3. (cfg.reported + PageSize - 1) \div PageSize \in Nat
  BY <1>1, ReviewsAssumption
<1>4. ((cfg.reported + PageSize - 1) \div PageSize) \div 20 \in Nat
  BY <1>3
<1>. QED
  BY <1>1, <1>2, <1>3, <1>4 DEF PageBudget, Least, Most

\* What a collection is at, by where it is.
LEMMA StretchIs ==
  ASSUME Routes
  PROVE  /\ Stretch \in 0..7
         /\ where = "start" => Stretch = 0
         /\ where \in {"turn", "asked"} /\ stage = "rpc_browser" => Stretch = 1
         /\ where = "next" /\ stage = "rpc_browser" => Stretch = 2
         /\ where \in {"turn", "asked"} /\ stage = "rpc_http" => Stretch = 3
         /\ where = "next" /\ stage = "rpc_http" => Stretch = 4
         /\ where = "scroll" => Stretch = 5
         /\ where = "merge" => Stretch = 6
         /\ where = "over" => Stretch = 7
BY DEF Routes, Stretch

\* The identities that were left, and those scrolled past, can be counted.
LEMMA LeftAndScrolled ==
  ASSUME Routes, Tries
  PROVE  /\ IsFiniteSet(retired) /\ Cardinality(retired) \in 0..Identities
         /\ IsFiniteSet(panel) /\ Cardinality(panel) \in Nat
<1>0. 0 \in Int /\ Identities - 1 \in Int /\ Identities > 0 /\ Identities \in Nat
  BY ReviewsAssumption
<1>1. IsFiniteSet(0..(Identities - 1))
  BY <1>0, FS_Interval
<1>4. Cardinality(0..(Identities - 1)) = IF 0 > Identities - 1 THEN 0 ELSE (Identities - 1) - 0 + 1
  BY <1>0, FS_Interval
<1>2. IsFiniteSet(retired) /\ Cardinality(retired) <= Identities
  <2>1. retired \subseteq 0..(Identities - 1)
    BY DEF Routes
  <2>2. IsFiniteSet(retired) /\ Cardinality(retired) <= Cardinality(0..(Identities - 1))
    BY <1>1, <2>1, FS_Subset
  <2>. QED
    BY <1>0, <1>4, <2>2
<1>3. IsFiniteSet(panel)
  BY ReviewsAssumption, FS_Subset DEF Tries
<1>5. Cardinality(retired) \in Nat
  BY <1>2, FS_CardinalityType
<1>6. Cardinality(panel) \in Nat
  BY <1>3, FS_CardinalityType
<1>7. Cardinality(retired) \in 0..Identities
  BY <1>0, <1>2, <1>5
<1>. QED
  BY <1>2, <1>3, <1>6, <1>7

LEMMA EffortInit == ReviewsInit => EffortInv
<1>. SUFFICES ASSUME ReviewsInit PROVE EffortInv
  OBVIOUS
<1>. USE DEF ReviewsInit
<1>1. cfg.cap \in Nat /\ PageBudget \in Nat
  BY CfgNumbers
<1>2. WithinBudget
  BY <1>1 DEF WithinBudget
<1>3. 1 % Identities \in 0..(Identities - 1)
  BY ReviewsAssumption
<1>4. Routes
  BY <1>3 DEF Routes
<1>5. Cardinality({}) = 0
  BY FS_EmptySet
<1>6. Tries
  BY <1>1, <1>5, ReviewsAssumption DEF Tries
<1>. QED
  BY <1>2, <1>4, <1>6 DEF EffortInv

\* The parts of the effort, before and after a step.
LEMMA EffortParts ==
  /\ Effort[1] = Stretch /\ Effort[2] = rereads /\ Effort[3] = pages
  /\ Effort[4] = IF where = "asked" THEN 1 ELSE 0
  /\ Effort[5] = Cardinality(retired) /\ Effort[6] = attempt /\ Effort[7] = Cardinality(panel) /\ Effort[8] = stuck
BY DEF Effort

LEMMA EffortParts1 ==
  /\ Effort'[1] = Stretch' /\ Effort'[2] = rereads' /\ Effort'[3] = pages'
  /\ Effort'[4] = IF where' = "asked" THEN 1 ELSE 0
  /\ Effort'[5] = Cardinality(retired)' /\ Effort'[6] = attempt' /\ Effort'[7] = Cardinality(panel)' /\ Effort'[8] = stuck'
BY DEF Effort

\* A step goes forward by what it is the first to raise.
LEMMA AdvancesBy ==
  /\ Stretch' > Stretch => Advances
  /\ Stretch' = Stretch /\ rereads' > rereads => Advances
  /\ Stretch' = Stretch /\ rereads' = rereads /\ pages' > pages => Advances
  /\ UNCHANGED <<Stretch, rereads, pages>> /\ where # "asked" /\ where' = "asked" => Advances
  /\ UNCHANGED <<Stretch, rereads, pages, where>> /\ Cardinality(retired)' > Cardinality(retired) => Advances
  /\ UNCHANGED <<Stretch, rereads, pages, where, retired>> /\ attempt' > attempt => Advances
  /\ UNCHANGED <<Stretch, rereads, pages, where, retired, attempt>>
       /\ Cardinality(panel)' > Cardinality(panel) => Advances
  /\ UNCHANGED <<Stretch, rereads, pages, where, retired, attempt, panel>> /\ stuck' > stuck => Advances
<1>. USE EffortParts, EffortParts1
<1>0. ASSUME NEW i \in 1..8, Effort'[i] > Effort[i], \A j \in 1..(i - 1) : Effort'[j] = Effort[j] PROVE Advances
  BY <1>0 DEF Advances
<1>1. Stretch' > Stretch => Advances
  BY <1>0
<1>2. Stretch' = Stretch /\ rereads' > rereads => Advances
  <2>1. SUFFICES ASSUME Stretch' = Stretch, rereads' > rereads PROVE Advances
    OBVIOUS
  <2>2. \A j \in 1..(2 - 1) : j = 1
    OBVIOUS
  <2>. QED
    BY <1>0, <2>1, <2>2
<1>3. Stretch' = Stretch /\ rereads' = rereads /\ pages' > pages => Advances
  <2>2. \A j \in 1..(3 - 1) : j \in {1, 2}
    OBVIOUS
  <2>. QED
    BY <1>0, <2>2
<1>4. UNCHANGED <<Stretch, rereads, pages>> /\ where # "asked" /\ where' = "asked" => Advances
  <2>2. \A j \in 1..(4 - 1) : j \in {1, 2, 3}
    OBVIOUS
  <2>. QED
    BY <1>0, <2>2
<1>5. UNCHANGED <<Stretch, rereads, pages, where>> /\ Cardinality(retired)' > Cardinality(retired) => Advances
  <2>2. \A j \in 1..(5 - 1) : j \in {1, 2, 3, 4}
    OBVIOUS
  <2>. QED
    BY <1>0, <2>2
<1>6. UNCHANGED <<Stretch, rereads, pages, where, retired>> /\ attempt' > attempt => Advances
  <2>2. \A j \in 1..(6 - 1) : j \in {1, 2, 3, 4, 5}
    OBVIOUS
  <2>. QED
    BY <1>0, <2>2
<1>7. UNCHANGED <<Stretch, rereads, pages, where, retired, attempt>>
        /\ Cardinality(panel)' > Cardinality(panel) => Advances
  <2>2. \A j \in 1..(7 - 1) : j \in {1, 2, 3, 4, 5, 6}
    OBVIOUS
  <2>. QED
    BY <1>0, <2>2
<1>8. UNCHANGED <<Stretch, rereads, pages, where, retired, attempt, panel>> /\ stuck' > stuck => Advances
  <2>2. \A j \in 1..(8 - 1) : j \in {1, 2, 3, 4, 5, 6, 7}
    OBVIOUS
  <2>. QED
    BY <1>0, <2>2
<1>. QED
  BY <1>1, <1>2, <1>3, <1>4, <1>5, <1>6, <1>7, <1>8

LEMMA StretchIs1 ==
  ASSUME Routes'
  PROVE  /\ Stretch' \in 0..7
         /\ where' = "start" => Stretch' = 0
         /\ where' \in {"turn", "asked"} /\ stage' = "rpc_browser" => Stretch' = 1
         /\ where' = "next" /\ stage' = "rpc_browser" => Stretch' = 2
         /\ where' \in {"turn", "asked"} /\ stage' = "rpc_http" => Stretch' = 3
         /\ where' = "next" /\ stage' = "rpc_http" => Stretch' = 4
         /\ where' = "scroll" => Stretch' = 5
         /\ where' = "merge" => Stretch' = 6
         /\ where' = "over" => Stretch' = 7
BY DEF Routes, Stretch

LEMMA SameBudget == ASSUME UNCHANGED cfg PROVE PageBudget' = PageBudget
BY DEF PageBudget

\* The next stretch begins, or the collection's end: only what the new stretch is about changes.
LEMMA NextStretch ==
  ASSUME EffortInv, Routes', Stretch' > Stretch, UNCHANGED <<cfg, rereads, attempt>>,
         pages' \in Nat, pages' <= 2 * PageBudget, budget' \in Nat,
         where' \in {"turn", "asked", "next"} =>
           pages' <= budget' /\ budget' <= (IF rereads = 0 THEN PageBudget ELSE 2 * PageBudget),
         where' # "asked", where' # "start",
         panel' \subseteq Served, Cardinality(panel') <= cfg.cap,
         stuck' \in 0..MaxStuckPasses, where' \notin {"merge", "over"} => stuck' < MaxStuckPasses
  PROVE  EffortInv' /\ Advances
<1>1. PageBudget' = PageBudget
  BY SameBudget
<1>2. WithinBudget'
  BY <1>1 DEF EffortInv, WithinBudget
<1>3. Tries'
  BY DEF EffortInv, Tries
<1>. QED
  BY <1>2, <1>3, AdvancesBy DEF EffortInv

\* A route ends, with or without a last page read or identity left.
LEMMA RouteEnds ==
  ASSUME EffortInv, where \in {"turn", "asked"}, NEW reason, NEW detail, StageEnds(reason, detail),
         pages' \in Nat, pages' <= budget,
         retired' \subseteq 0..(Identities - 1), stage # "rpc_http" => UNCHANGED retired, UNCHANGED cur
  PROVE  EffortInv' /\ Advances
<1>1. /\ where' = "next" /\ UNCHANGED <<cfg, stage, rereads, budget, attempt, rotated, panel, stuck>>
  BY DEF StageEnds, tries, dom
<1>2. Routes'
  BY <1>1 DEF EffortInv, Routes
<1>3. Stretch' > Stretch
  BY <1>1, <1>2, StretchIs, StretchIs1 DEF EffortInv, Routes
<1>4. pages' <= 2 * PageBudget
  <2>1. cfg \in Configs /\ PageBudget \in Nat
    BY CfgNumbers DEF EffortInv, Tries
  <2>. QED
    BY <2>1 DEF EffortInv, WithinBudget
<1>. QED
  BY <1>1, <1>2, <1>3, <1>4, NextStretch DEF EffortInv, WithinBudget, Tries

\* While a page is asked for, and when the next is up, the route goes on.
LEMMA RouteGoesOn ==
  ASSUME EffortInv, where \in {"turn", "asked"}, where' \in {"turn", "asked"}, UNCHANGED <<cfg, stage, panel, stuck>>,
         rereads' \in {rereads, 1}, stage # "rpc_http" => rereads' = rereads /\ ~rotated' /\ UNCHANGED <<cur, retired>>,
         pages' \in Nat, budget' \in Nat,
         pages' <= budget', budget' <= (IF rereads' = 0 THEN PageBudget ELSE 2 * PageBudget),
         where' = "asked" => pages' < budget',
         attempt' \in 0..TransientRetries,
         cur' \in 0..(Identities - 1), retired' \subseteq 0..(Identities - 1), stage = "rpc_http" => cur' \notin retired'
  PROVE  EffortInv' /\ UNCHANGED Stretch
<1>1. PageBudget' = PageBudget /\ PageBudget \in Nat
  BY SameBudget, CfgNumbers DEF EffortInv, Tries
<1>2. WithinBudget'
  BY <1>1 DEF EffortInv, WithinBudget
<1>3. Tries'
  BY DEF EffortInv, Tries
<1>4. Routes'
  BY DEF EffortInv, Routes
<1>5. UNCHANGED Stretch
  BY <1>4, StretchIs, StretchIs1 DEF EffortInv, Routes
<1>. QED
  BY <1>2, <1>3, <1>4, <1>5 DEF EffortInv

LEMMA TurnAdvances == ASSUME EffortInv, Turn \/ NoURL PROVE EffortInv' /\ Advances
<1>. USE DEF cursor, pool, drift, tries, kept, dom
<1>1. where = "turn" /\ UNCHANGED <<pages, cur, retired>> /\ pages \in Nat /\ pages <= budget
  BY DEF Turn, NoURL, EffortInv, WithinBudget
<1>2. CASE \E reason, detail : StageEnds(reason, detail)
  BY <1>1, <1>2, RouteEnds DEF EffortInv, Routes
<1>3. CASE /\ where' = "asked" /\ attempt' = 0 /\ rotated' = FALSE /\ pages < budget
           /\ UNCHANGED <<cfg, stage, late, budget, rereads, cursor, dom, last, report>>
  <2>1. attempt' \in 0..TransientRetries
    BY <1>3, ReviewsAssumption
  <2>2. EffortInv' /\ UNCHANGED Stretch
    BY <1>1, <1>3, <2>1, RouteGoesOn DEF EffortInv, WithinBudget, Routes
  <2>. QED
    BY <1>1, <1>3, <2>2, AdvancesBy
<1>4. budget \in Nat
  BY DEF EffortInv, WithinBudget
<1>5. CASE Turn
  <2>1. CASE late \/ pages >= budget
    BY <1>2, <1>5, <2>1 DEF Turn
  <2>2. CASE ~late /\ ~(pages >= budget)
    <3>1. pages < budget
      BY <1>1, <1>4, <2>2
    <3>. QED
      BY <1>3, <1>5, <2>2, <3>1 DEF Turn
  <2>. QED
    BY <2>1, <2>2
<1>6. CASE NoURL
  BY <1>2, <1>6 DEF NoURL
<1>. QED
  BY <1>5, <1>6

LEMMA PageAdvances ==
  ASSUME EffortInv, NEW next \in 0..Len(Listing), PageRead(next)
  PROVE  EffortInv' /\ Advances
<1>. USE DEF cursor, pool, drift, tries, kept, dom
<1>1. /\ where = "asked" /\ pages' = pages + 1 /\ pages \in Nat /\ budget \in Nat /\ pages < budget
      /\ UNCHANGED <<cur, retired>>
  BY DEF PageRead, EffortInv, WithinBudget
<1>2. CASE \E reason, detail : StageEnds(reason, detail)
  BY <1>1, <1>2, RouteEnds DEF EffortInv, Routes
<1>3. CASE where' = "turn" /\ UNCHANGED <<cfg, stage, late, budget, rereads, tries, dom, last, report>>
  <2>1. EffortInv' /\ UNCHANGED Stretch
    BY <1>1, <1>3, RouteGoesOn DEF EffortInv, WithinBudget, Routes, Tries
  <2>. QED
    BY <1>1, <1>3, <2>1, AdvancesBy
<1>. QED
  BY <1>2, <1>3 DEF PageRead

LEMMA PageFailsAdvances ==
  ASSUME EffortInv, NEW reason, PageFails(reason)
  PROVE  EffortInv' /\ Advances
<1>. USE DEF cursor, pool, drift, tries, kept, dom
<1>1. /\ where = "asked" /\ pages \in Nat /\ budget \in Nat /\ pages < budget
      /\ UNCHANGED <<pages, cur, retired>>
  BY DEF PageFails, EffortInv, WithinBudget
<1>2. CASE StageEnds(reason, "none")
  BY <1>1, <1>2, RouteEnds DEF EffortInv, Routes
<1>3. CASE rotated /\ StartOver
  <2>1. /\ rereads = 0 /\ rereads' = 1 /\ budget' = budget + pages /\ where' = "turn" /\ stage = "rpc_http"
        /\ UNCHANGED <<cfg, stage, tries, dom>>
    BY <1>1, <1>3 DEF StartOver, EffortInv, Routes
  <2>2. PageBudget \in Nat /\ budget <= PageBudget
    BY <1>1, <2>1, CfgNumbers DEF EffortInv, WithinBudget, Tries
  <2>3. EffortInv' /\ UNCHANGED Stretch
    BY <1>1, <2>1, <2>2, RouteGoesOn DEF EffortInv, Routes, Tries
  <2>. QED
    BY <2>1, <2>3, AdvancesBy
<1>. QED
  BY <1>2, <1>3 DEF PageFails

\* The identity turned to was not left before, and there is one more that was.
LEMMA RotateAdvances ==
  ASSUME EffortInv, where = "asked", Rotate, UNCHANGED pages
  PROVE  EffortInv' /\ Advances
<1>. USE DEF cursor, pool, drift, tries, kept, dom
<1>1. /\ stage = "rpc_http" /\ Fresh # {} /\ retired' = retired \cup {cur} /\ cur' = (cur + Min(Fresh)) % Identities
      /\ attempt' = 0 /\ UNCHANGED <<cfg, where, stage, budget, rereads, dom>>
  BY DEF Rotate
<1>2. /\ cur \in 0..(Identities - 1) /\ cur \notin retired /\ retired \subseteq 0..(Identities - 1)
      /\ Identities \in Nat \ {0}
  BY <1>1, ReviewsAssumption DEF EffortInv, Routes
<1>3. Min(Fresh) \in Fresh
  <2>1. Fresh \subseteq Nat
    BY <1>2 DEF Fresh
  <2>2. PICK k \in Fresh : \A j \in Fresh : k <= j
    <3>1. IsFiniteSet(Fresh)
      <4>1. Fresh \subseteq 1..Identities /\ IsFiniteSet(1..Identities)
        BY <1>2, FS_Interval DEF Fresh
      <4>. QED
        BY <4>1, FS_Subset
    <3>2. Fresh \subseteq Int
      BY <2>1
    <3>. QED
      BY <1>1, <3>1, <3>2, LeastOf
  <2>. QED
    BY <2>1, <2>2 DEF Min
<1>4. cur' \in 0..(Identities - 1) /\ cur' \notin retired'
  <2>1. cur + Min(Fresh) \in Int /\ (cur + Min(Fresh)) % Identities \notin retired \cup {cur}
    BY <1>2, <1>3 DEF Fresh
  <2>. QED
    BY <1>1, <1>2, <2>1
<1>5. attempt' \in 0..TransientRetries
  BY <1>1, ReviewsAssumption
<1>6. EffortInv' /\ UNCHANGED Stretch
  BY <1>1, <1>2, <1>4, <1>5, RouteGoesOn DEF EffortInv, WithinBudget
<1>7. Cardinality(retired)' > Cardinality(retired)
  <2>1. IsFiniteSet(retired) /\ Cardinality(retired) \in Nat
    <3>1. IsFiniteSet(retired)
      BY LeftAndScrolled DEF EffortInv
    <3>. QED
      BY <3>1, FS_CardinalityType
  <2>2. Cardinality(retired \cup {cur}) = Cardinality(retired) + 1
    BY <1>2, <2>1, FS_AddElement
  <2>. QED
    BY <1>1, <2>1, <2>2
<1>. QED
  BY <1>1, <1>6, <1>7, AdvancesBy

LEMMA RefusalAdvances == ASSUME EffortInv, Refused \/ Transient PROVE EffortInv' /\ Advances
<1>. USE DEF cursor, pool, drift, tries, kept, dom
<1>1. /\ where = "asked" /\ pages \in Nat /\ budget \in Nat /\ pages < budget /\ UNCHANGED pages
      /\ cur \in 0..(Identities - 1) /\ retired \subseteq 0..(Identities - 1)
  BY DEF Refused, Transient, EffortInv, WithinBudget, Routes
<1>2. CASE Rotate
  BY <1>1, <1>2, RotateAdvances
<1>3. CASE /\ \E reason, detail : StageEnds(reason, detail)
           /\ RotateFails \/ UNCHANGED <<cur, retired>>
  <2>1. retired' \subseteq 0..(Identities - 1) /\ UNCHANGED cur /\ (stage # "rpc_http" => UNCHANGED retired)
    BY <1>1, <1>3 DEF RotateFails
  <2>. QED
    BY <1>1, <1>3, <2>1, RouteEnds
<1>4. CASE /\ attempt < TransientRetries /\ attempt' = attempt + 1
           /\ UNCHANGED <<cfg, where, stage, late, budget, rereads, cursor, rotated, dom, last, report, cur, retired>>
  <2>1. attempt \in Nat /\ attempt' \in 0..TransientRetries
    BY <1>4, ReviewsAssumption DEF EffortInv, Tries
  <2>2. EffortInv' /\ UNCHANGED Stretch
    BY <1>1, <1>4, <2>1, RouteGoesOn DEF EffortInv, WithinBudget, Routes
  <2>. QED
    BY <1>1, <1>4, <2>1, <2>2, AdvancesBy
<1>. QED
  BY <1>2, <1>3, <1>4 DEF Refused, Transient, Refusal

LEMMA FinishAdvances ==
  ASSUME EffortInv, where \in {"start", "next", "scroll", "merge"}, where' \in {"merge", "over"}, where # where',
         where = "merge" => where' = "over",
         UNCHANGED <<cfg, stage, cur, retired, rotated, rereads, attempt, pages, budget>>,
         panel' \subseteq Served, Cardinality(panel') <= cfg.cap, stuck' \in 0..MaxStuckPasses
  PROVE  EffortInv' /\ Advances
<1>1. Routes'
  BY DEF EffortInv, Routes
<1>2. Stretch' > Stretch
  BY <1>1, StretchIs, StretchIs1 DEF EffortInv, Routes
<1>. QED
  BY <1>1, <1>2, NextStretch DEF EffortInv, WithinBudget

LEMMA StageAdvances == ASSUME EffortInv, BeginBrowser \/ BeginHTTP \/ BeginDOM PROVE EffortInv' /\ Advances
<1>. USE DEF cursor, pool, drift, tries, kept, dom
<1>1. PageBudget \in Nat /\ cfg.cap \in Nat
  BY CfgNumbers DEF EffortInv, Tries
<1>2. UNCHANGED <<cfg, pages, rereads, attempt, rotated, cur, retired>>
  BY DEF BeginBrowser, BeginHTTP, BeginStage, BeginDOM
<1>3. CASE BeginBrowser \/ BeginHTTP
  <2>1. /\ where' = "turn" /\ budget' = PageBudget /\ UNCHANGED <<panel, stuck>>
        /\ \/ where = "start" /\ stage' = "rpc_browser"
           \/ where = "next" /\ stage = "rpc_browser" /\ stage' = "rpc_http"
    BY <1>3 DEF BeginBrowser, BeginHTTP, BeginStage
  <2>2. Routes'
    BY <1>2, <2>1 DEF EffortInv, Routes
  <2>3. Stretch' > Stretch
    BY <2>1, <2>2, StretchIs, StretchIs1 DEF EffortInv
  <2>4. pages <= PageBudget
    BY <1>1, <2>1 DEF EffortInv, WithinBudget, Routes
  <2>. QED
    BY <1>1, <1>2, <2>1, <2>2, <2>3, <2>4, NextStretch DEF EffortInv, WithinBudget, Tries
<1>4. CASE BeginDOM
  <2>1. where = "next" /\ where' = "scroll" /\ stage' = "dom" /\ UNCHANGED <<budget, panel, stuck>>
    BY <1>4 DEF BeginDOM, RoutesDone
  <2>2. Routes'
    BY <1>2, <2>1 DEF EffortInv, Routes
  <2>3. Stretch' > Stretch
    BY <2>1, <2>2, StretchIs, StretchIs1 DEF EffortInv, Routes
  <2>. QED
    BY <1>1, <1>2, <2>1, <2>2, <2>3, NextStretch DEF EffortInv, WithinBudget, Tries
<1>. QED
  BY <1>3, <1>4

LEMMA ScrollAdvances ==
  ASSUME EffortInv, \/ \E shown \in SUBSET Served : Pass(shown)
                    \/ GivesUp
  PROVE  EffortInv' /\ Advances
<1>. USE DEF cursor, pool, drift, tries, kept, dom
<1>1. /\ where = "scroll" /\ stuck \in 0..MaxStuckPasses /\ stuck < MaxStuckPasses /\ MaxStuckPasses \in Nat
      /\ panel \subseteq Served /\ Cardinality(panel) <= cfg.cap /\ cfg \in Configs
  BY ReviewsAssumption DEF Pass, GivesUp, EffortInv, Tries
<1>2. ASSUME NEW P, Scrolled(P) PROVE where' = "merge"
  BY <1>2 DEF Scrolled, Finish
<1>3. CASE GivesUp
  <2>1. UNCHANGED <<cfg, stage, cur, retired, rotated, rereads, attempt, pages, budget, panel, stuck>>
    BY <1>3 DEF GivesUp
  <2>2. where' = "merge"
    BY <1>2, <1>3 DEF GivesUp
  <2>. QED
    BY <1>1, <2>1, <2>2, FinishAdvances
<1>4. ASSUME NEW shown \in SUBSET Served, Pass(shown) PROVE EffortInv' /\ Advances
  <2>1. /\ UNCHANGED <<cfg, stage, cur, retired, rotated, rereads, attempt, pages, budget>>
        /\ shown \subseteq Served \ panel /\ panel' = panel \cup shown /\ Cardinality(panel') <= cfg.cap
        /\ stuck' = (IF shown = {} THEN stuck + 1 ELSE 0)
    BY <1>4 DEF Pass
  <2>2. panel' \subseteq Served /\ stuck' \in 0..MaxStuckPasses
    BY <1>1, <2>1
  <2>3. CASE PanelDone(panel', stuck')
    <3>1. where' = "merge"
      BY <1>2, <1>4, <2>3 DEF Pass
    <3>. QED
      BY <1>1, <2>1, <2>2, <3>1, FinishAdvances
  <2>4. CASE ~PanelDone(panel', stuck')
    <3>1. where' = "scroll"
      BY <1>1, <1>4, <2>4 DEF Pass
    <3>2. stuck' < MaxStuckPasses
      BY <1>1, <2>2, <2>4 DEF PanelDone
    <3>3. WithinBudget'
      BY <1>1, <2>1, <3>1, SameBudget DEF EffortInv, WithinBudget
    <3>4. Routes'
      BY <1>1, <2>1, <3>1 DEF EffortInv, Routes
    <3>5. Tries'
      BY <2>1, <2>2, <3>1, <3>2 DEF EffortInv, Tries
    <3>6. UNCHANGED <<Stretch, rereads, pages, where, retired, attempt>>
      BY <1>1, <2>1, <3>1, <3>4, StretchIs, StretchIs1 DEF EffortInv
    <3>7. Advances
      <4>1. CASE shown = {}
        <5>1. panel' = panel /\ stuck' > stuck
          BY <1>1, <2>1, <4>1
        <5>. QED
          BY <3>6, <5>1, AdvancesBy
      <4>2. CASE shown # {}
        <5>1. IsFiniteSet(panel') /\ panel \subseteq panel' /\ panel # panel'
          BY <2>1, <2>2, <4>2, ReviewsAssumption, FS_Subset
        <5>2. Cardinality(panel) < Cardinality(panel')
          <6>1. Cardinality(panel) <= Cardinality(panel') /\ Cardinality(panel) # Cardinality(panel')
            BY <5>1, FS_Subset
          <6>2. Cardinality(panel) \in Nat /\ Cardinality(panel') \in Nat
            BY <5>1, FS_Subset, FS_CardinalityType
          <6>. QED
            BY <6>1, <6>2
        <5>3. Cardinality(panel)' > Cardinality(panel)
          <6>1. Cardinality(panel) \in Nat /\ Cardinality(panel') \in Nat
            BY <5>1, FS_Subset, FS_CardinalityType
          <6>. QED
            BY <5>2, <6>1
        <5>. QED
          BY <3>6, <5>3, AdvancesBy
      <4>. QED
        BY <4>1, <4>2
    <3>. QED
      BY <3>3, <3>4, <3>5, <3>7 DEF EffortInv
  <2>. QED
    BY <2>3, <2>4
<1>. QED
  BY <1>3, <1>4

LEMMA EndAdvances == ASSUME EffortInv, NoReviews \/ NoDOM \/ Merge PROVE EffortInv' /\ Advances
<1>. USE DEF cursor, pool, drift, tries, kept, dom
<1>1. /\ where \in {"start", "next", "merge"} /\ where' \in {"merge", "over"} /\ where # where'
      /\ where = "merge" => where' = "over"
  BY DEF NoReviews, NoDOM, Merge, Finish, RoutesDone
<1>2. UNCHANGED <<cfg, stage, cur, retired, rotated, rereads, attempt, pages, budget, panel, stuck>>
  BY DEF NoReviews, NoDOM, Merge
<1>. QED
  BY <1>1, <1>2, FinishAdvances DEF EffortInv, Tries

LEMMA CollectingAdvances == ASSUME EffortInv, Collecting PROVE EffortInv' /\ Advances
BY EndAdvances, StageAdvances, TurnAdvances, PageFailsAdvances, RefusalAdvances, PageAdvances, ScrollAdvances
   DEF Collecting

LEMMA EffortStep == ASSUME EffortInv, [ReviewsNext]_reviewVars PROVE EffortInv'
<1>1. CASE Collecting
  BY <1>1, CollectingAdvances
<1>2. CASE TimeUp \/ UNCHANGED reviewVars
  <2>1. UNCHANGED <<cfg, where, stage, rereads, pages, budget, attempt, rotated, cur, retired, panel, stuck>>
    BY <1>2 DEF TimeUp, reviewVars, cursor, pool, drift, tries, kept, dom
  <2>2. WithinBudget'
    BY <2>1, SameBudget DEF EffortInv, WithinBudget
  <2>3. Routes'
    BY <2>1 DEF EffortInv, Routes
  <2>4. Tries'
    BY <2>1 DEF EffortInv, Tries
  <2>. QED
    BY <2>2, <2>3, <2>4 DEF EffortInv
<1>. QED
  BY <1>1, <1>2 DEF ReviewsNext

LEMMA EffortBounds == EffortInv => EffortIsBounded /\ RetiredStaysOut
<1>. SUFFICES ASSUME EffortInv PROVE EffortIsBounded /\ RetiredStaysOut
  OBVIOUS
<1>1. cfg \in Configs /\ cfg.cap \in Nat /\ PageBudget \in Nat
  BY CfgNumbers DEF EffortInv, Tries
<1>2. Stretch \in 0..7 /\ Cardinality(retired) \in 0..Identities /\ Cardinality(panel) \in 0..cfg.cap
  <2>1. Cardinality(retired) \in 0..Identities /\ Cardinality(panel) \in Nat
    BY LeftAndScrolled DEF EffortInv
  <2>2. Cardinality(panel) <= cfg.cap
    BY DEF EffortInv, Tries
  <2>3. Stretch \in 0..7
    BY StretchIs DEF EffortInv
  <2>. QED
    BY <1>1, <2>1, <2>2, <2>3
<1>3. rereads \in 0..1 /\ pages \in 0..(2 * PageBudget)
  BY <1>1 DEF EffortInv, WithinBudget
<1>4. attempt \in 0..TransientRetries /\ stuck \in 0..MaxStuckPasses
  BY DEF EffortInv, Tries
<1>5. /\ MostEffort[1] = 7 /\ MostEffort[2] = 1 /\ MostEffort[3] = 2 * PageBudget /\ MostEffort[4] = 1
      /\ MostEffort[5] = Identities /\ MostEffort[6] = TransientRetries /\ MostEffort[7] = cfg.cap
      /\ MostEffort[8] = MaxStuckPasses
  BY DEF MostEffort
<1>6. Effort[4] \in 0..1
  BY EffortParts
<1>7. ASSUME NEW i \in 1..8 PROVE Effort[i] \in 0..MostEffort[i]
  <2>1. i \in {1, 2, 3, 4, 5, 6, 7, 8}
    OBVIOUS
  <2>. QED
    BY <1>2, <1>3, <1>4, <1>5, <1>6, <2>1, EffortParts
<1>8. RetiredStaysOut
  BY DEF EffortInv, Routes, RetiredStaysOut
<1>. QED
  BY <1>7, <1>8 DEF EffortIsBounded

(* The work of one collection is bounded, whatever the endpoint answers and *)
(* for any listing, caps, counts and number of proxies: pages by twice the  *)
(* budget, restarts by one, rotations by the identities, retries and passes *)
(* by their limits (reviews.go:30, review_collector.go).                    *)
THEOREM EffortBounded == ReviewsSpec => [](EffortIsBounded /\ RetiredStaysOut)
<1>1. ReviewsInit => EffortInv
  BY EffortInit
<1>2. EffortInv /\ [ReviewsNext]_reviewVars => EffortInv'
  BY EffortStep
<1>3. EffortInv => EffortIsBounded /\ RetiredStaysOut
  BY EffortBounds
<1>. QED
  BY <1>1, <1>2, <1>3, PTL DEF ReviewsSpec

(* A collection goes forward with every step of its own: with the bounds, it *)
(* has finitely many of them to make.                                        *)
THEOREM CollectionsAdvance == ReviewsSpec => NeverBack
<1>1. ReviewsInit => EffortInv
  BY EffortInit
<1>2. EffortInv /\ [ReviewsNext]_reviewVars => EffortInv'
  BY EffortStep
<1>3. EffortInv /\ [ReviewsNext]_reviewVars => [late' = late => Advances]_reviewVars
  <2>1. ASSUME EffortInv, ReviewsNext PROVE late' = late => Advances
    <3>1. CASE Collecting
      BY <2>1, <3>1, CollectingAdvances
    <3>2. CASE TimeUp
      BY <3>2 DEF TimeUp
    <3>. QED
      BY <2>1, <3>1, <3>2 DEF ReviewsNext
  <2>. QED
    BY <2>1
<1>. QED
  BY <1>1, <1>2, <1>3, PTL DEF ReviewsSpec, NeverBack
-----------------------------------------------------------------------------
(* The back-off. *)

GuardInv ==
  /\ consecutive \in 0..(MostDoublings + 1) /\ since \in 0..Longest
  /\ HoldsBack

LEMMA BackoffBounds ==
  ASSUME NEW n \in 1..(MostDoublings + 1)
  PROVE  Backoff(n) \in 0..Longest
<1>1. Smaller(n - 1, MostDoublings) \in 0..MostDoublings
  BY BlockGuardAssumption DEF Smaller
<1>2. Base * 2^Smaller(n - 1, MostDoublings) \in Nat
  BY <1>1, BlockGuardAssumption
<1>. DEFINE doubled == Base * 2^Smaller(n - 1, MostDoublings)
<1>3. Backoff(n) = Smaller(doubled, Longest) /\ doubled \in Nat
  BY <1>2 DEF Backoff
<1>. HIDE DEF doubled
<1>. QED
  BY <1>3, BlockGuardAssumption DEF Smaller

LEMMA GuardStep == ASSUME GuardInv, [GuardNext]_guardVars PROVE GuardInv'
<1>. USE BlockGuardAssumption
<1>1. ASSUME NEW b \in Browser, Ask(b) \/ Wake(b) \/ Cancelled(b) \/ PageFailed(b) PROVE GuardInv'
  BY <1>1 DEF Ask, Wake, Cancelled, PageFailed, GuardInv, HoldsBack
<1>2. ASSUME NEW b \in Browser, PageLoaded(b) PROVE GuardInv'
  BY <1>2 DEF PageLoaded, GuardInv, HoldsBack
<1>3. ASSUME NEW b \in Browser, PageRefused(b) PROVE GuardInv'
  <2>1. consecutive' \in 1..(MostDoublings + 1)
    BY <1>3 DEF PageRefused, GuardInv, Smaller
  <2>2. Backoff(consecutive') \in 0..Longest
    BY <2>1, BackoffBounds
  <2>3. hold' = Larger(hold, Backoff(consecutive')) /\ since' = 0 /\ hold \in 0..Longest
    BY <1>3 DEF PageRefused, GuardInv, HoldsBack
  <2>4. hold' \in 0..Longest /\ hold' + since' >= Backoff(consecutive')
    BY <2>2, <2>3 DEF Larger
  <2>5. Backoff(consecutive') = Backoff(consecutive)'
    BY DEF Backoff
  <2>. QED
    BY <2>1, <2>3, <2>4, <2>5 DEF GuardInv, HoldsBack
<1>4. CASE Elapse
  <2>1. /\ hold' = Larger(hold - 1, 0) /\ since' = Smaller(since + 1, Longest) /\ UNCHANGED consecutive
        /\ hold \in 0..Longest /\ since \in 0..Longest
    BY <1>4 DEF Elapse, Sooner, GuardInv, HoldsBack
  <2>2. hold' \in 0..Longest /\ since' \in 0..Longest /\ (hold' + since' >= hold + since \/ hold' + since' >= Longest)
    BY <2>1 DEF Larger, Smaller
  <2>3. ASSUME consecutive > 0 PROVE hold' + since' >= Backoff(consecutive)
    <3>1. Backoff(consecutive) \in 0..Longest /\ hold + since >= Backoff(consecutive)
      BY <2>3, BackoffBounds DEF GuardInv, HoldsBack
    <3>. QED
      BY <2>1, <2>2, <3>1
  <2>4. Backoff(consecutive)' = Backoff(consecutive)
    BY <2>1 DEF Backoff
  <2>. QED
    BY <2>1, <2>2, <2>3, <2>4 DEF GuardInv, HoldsBack
<1>5. CASE UNCHANGED guardVars
  BY <1>5 DEF guardVars, GuardInv, HoldsBack
<1>. QED
  BY <1>1, <1>2, <1>3, <1>4, <1>5 DEF GuardNext

\* Back-offs stay between what the refusals in a row call for and the longest
\* (blockguard.go:35-36), whichever browsers' refusals and loads arrive in between, and
\* however late: nothing shortens one that is running.
THEOREM BackoffHolds == GuardSpec => []HoldsBack
<1>1. GuardInit => GuardInv
  BY BlockGuardAssumption DEF GuardInit, GuardInv, HoldsBack
<1>2. GuardInv => HoldsBack
  BY DEF GuardInv
<1>. QED
  BY <1>1, <1>2, GuardStep, PTL DEF GuardSpec
-----------------------------------------------------------------------------
(* The database mode.  A job that was marked is in one place at most, and *)
(* has not been handed over as long as it is in one.                      *)

JobTypes ==
  /\ table \in [Job -> {"absent", "new", "queued"}] /\ handed \in [Job -> Nat]
  /\ batch \in [Proc -> SUBSET Job] /\ jobc \in [Proc -> SUBSET Job]
  /\ relay \in [Proc \X Caller -> Job \cup {"free", "gone"}]

\* Where a marked job may be: a batch, a channel, or offered by a call of Jobs.
Held(j) ==
  \/ \E p \in Proc : j \in batch[p] \cup jobc[p]
  \/ \E c \in Proc \X Caller : relay[c] = j

\* Only what the table calls queued is anywhere or was handed over.
MarkedFirst == \A j \in Job : table[j] # "queued" => ~Held(j) /\ handed[j] = 0

\* It is not in two batches, not in two channels, not offered twice, nor in two of these.
BatchesApart == \A p, q \in Proc : p # q => batch[p] \cap batch[q] = {}
ChannelsApart == \A p, q \in Proc : batch[p] \cap jobc[q] = {} /\ (p # q => jobc[p] \cap jobc[q] = {})
OffersApart ==
  /\ \A c \in Proc \X Caller, p \in Proc : relay[c] \notin batch[p] \cup jobc[p]
  /\ \A c, d \in Proc \X Caller : relay[c] \in Job /\ c # d => relay[c] # relay[d]

\* What is still held was not handed over.
HeldIsNew == \A j \in Job : Held(j) => handed[j] = 0

JobInv ==
  /\ JobTypes /\ MarkedFirst /\ BatchesApart /\ ChannelsApart /\ OffersApart /\ HeldIsNew /\ HandedOnce

LEMMA JobInit0 == JobInit => JobInv
<1>. QED
  BY JobProviderAssumption DEF JobInit, JobInv, JobTypes, MarkedFirst, BatchesApart, ChannelsApart, OffersApart,
    HeldIsNew, HandedOnce, Held

\* A step that holds nothing new and hands nothing over.
LEMMA LetGo ==
  ASSUME JobInv, JobTypes', UNCHANGED handed,
         \A j \in Job : table'[j] = table[j] \/ table'[j] = "queued" \/ (table[j] = "absent" /\ table'[j] = "new"),
         \A p \in Proc : batch'[p] \subseteq batch[p] /\ jobc'[p] \subseteq jobc[p],
         \A c \in Proc \X Caller : relay'[c] = relay[c] \/ relay'[c] \in {"free", "gone"}
  PROVE  JobInv'
<1>1. \A j \in Job : Held(j)' => Held(j)
  BY JobProviderAssumption DEF Held
<1>2. MarkedFirst' /\ HeldIsNew' /\ HandedOnce'
  BY <1>1 DEF JobInv, MarkedFirst, HeldIsNew, HandedOnce, JobTypes
<1>3. BatchesApart' /\ ChannelsApart'
  BY DEF JobInv, BatchesApart, ChannelsApart
<1>4. OffersApart'
  BY JobProviderAssumption DEF JobInv, OffersApart, JobTypes
<1>. QED
  BY <1>2, <1>3, <1>4 DEF JobInv

LEMMA ClaimKeeps == ASSUME JobInv, NEW p \in Proc, Claim(p) PROVE JobInv'
<1>1. PICK S \in SUBSET New : Mark(S) /\ batch' = [batch EXCEPT ![p] = S]
  BY DEF Claim, Batches, kSubset
<1>2. \A j \in S : j \in Job /\ ~Held(j) /\ handed[j] = 0 /\ table'[j] = "queued"
  BY <1>1 DEF JobInv, MarkedFirst, Mark, New
<1>3. UNCHANGED <<jobc, relay, handed>> /\ batch[p] = {}
  BY DEF Claim
<1>4. JobTypes'
  BY <1>1, <1>2, <1>3 DEF JobInv, JobTypes, Mark
<1>5. \A j \in Job : Held(j)' => Held(j) \/ j \in S
  BY <1>1, <1>3 DEF Held, JobInv, JobTypes
<1>6. MarkedFirst' /\ HeldIsNew' /\ HandedOnce'
  BY <1>1, <1>2, <1>3, <1>5 DEF JobInv, MarkedFirst, HeldIsNew, HandedOnce, Mark, JobTypes
<1>7. BatchesApart' /\ ChannelsApart'
  BY <1>1, <1>2, <1>3 DEF JobInv, BatchesApart, ChannelsApart, Held, JobTypes
<1>8. OffersApart'
  BY <1>1, <1>2, <1>3 DEF JobInv, OffersApart, Held, JobTypes
<1>. QED
  BY <1>4, <1>6, <1>7, <1>8 DEF JobInv

LEMMA PassOnKeeps == ASSUME JobInv, NEW p \in Proc, PassOn(p) PROVE JobInv'
<1>1. PICK j \in batch[p] : /\ batch' = [batch EXCEPT ![p] = @ \ {j}]
                            /\ jobc' = [jobc EXCEPT ![p] = @ \cup {j}]
  BY DEF PassOn
<1>2. UNCHANGED <<table, relay, handed>>
  BY DEF PassOn
<1>3. JobTypes'
  BY <1>1, <1>2 DEF JobInv, JobTypes
<1>4. \A i \in Job : Held(i)' => Held(i)
  BY <1>1, <1>2 DEF Held, JobInv, JobTypes
<1>5. MarkedFirst' /\ HeldIsNew' /\ HandedOnce'
  BY <1>2, <1>4 DEF JobInv, MarkedFirst, HeldIsNew, HandedOnce
<1>6. BatchesApart' /\ ChannelsApart'
  BY <1>1 DEF JobInv, BatchesApart, ChannelsApart, JobTypes
<1>7. OffersApart'
  BY <1>1, <1>2 DEF JobInv, OffersApart, JobTypes
<1>. QED
  BY <1>3, <1>5, <1>6, <1>7 DEF JobInv

LEMMA TakeKeeps == ASSUME JobInv, NEW p \in Proc, NEW c \in Caller, Take(p, c) PROVE JobInv'
<1>1. PICK j \in jobc[p] : /\ relay' = [relay EXCEPT ![<<p, c>>] = j]
                           /\ jobc' = [jobc EXCEPT ![p] = @ \ {j}]
  BY DEF Take
<1>2. UNCHANGED <<table, batch, handed>>
  BY DEF Take
<1>3. JobTypes'
  BY <1>1, <1>2 DEF JobInv, JobTypes
<1>4. \A i \in Job : Held(i)' => Held(i)
  BY <1>1, <1>2 DEF Held, JobInv, JobTypes
<1>5. MarkedFirst' /\ HeldIsNew' /\ HandedOnce'
  BY <1>2, <1>4 DEF JobInv, MarkedFirst, HeldIsNew, HandedOnce
<1>6. BatchesApart' /\ ChannelsApart'
  BY <1>1, <1>2 DEF JobInv, BatchesApart, ChannelsApart, JobTypes
<1>7. OffersApart'
  <2>1. \A q \in Proc : j \notin batch[q] /\ j \notin jobc'[q] /\ jobc'[q] \subseteq jobc[q]
    BY <1>1 DEF JobInv, ChannelsApart, JobTypes
  <2>2. <<p, c>> \in Proc \X Caller /\ relay'[<<p, c>>] = j
        /\ (\A d \in Proc \X Caller : d # <<p, c>> => relay'[d] = relay[d] /\ relay[d] # j)
    BY <1>1 DEF JobInv, OffersApart, JobTypes
  <2>3. ASSUME NEW d \in Proc \X Caller, NEW q \in Proc PROVE relay'[d] \notin batch[q] \cup jobc'[q]
    <3>1. CASE d = <<p, c>>
      BY <2>1, <2>2, <3>1
    <3>2. CASE d # <<p, c>>
      <4>1. relay'[d] = relay[d] /\ relay[d] \notin batch[q] \cup jobc[q]
        BY <2>2, <3>2 DEF JobInv, OffersApart
      <4>. QED
        BY <2>1, <4>1
    <3>. QED
      BY <3>1, <3>2
  <2>4. \A d, e \in Proc \X Caller : relay'[d] \in Job /\ d # e => relay'[d] # relay'[e]
    BY <2>2 DEF JobInv, OffersApart
  <2>. QED
    BY <1>2, <2>3, <2>4 DEF OffersApart
<1>. QED
  BY <1>3, <1>5, <1>6, <1>7 DEF JobInv

LEMMA OfferKeeps == ASSUME JobInv, NEW p \in Proc, NEW c \in Caller, Offer(p, c) PROVE JobInv'
<1>. DEFINE j == relay[<<p, c>>]
<1>1. j \in Job /\ Held(j) /\ handed[j] = 0 /\ table[j] = "queued"
  BY DEF Offer, Held, JobInv, HeldIsNew, MarkedFirst
<1>2. /\ handed' = [handed EXCEPT ![j] = @ + 1] /\ relay' = [relay EXCEPT ![<<p, c>>] = "free"]
      /\ UNCHANGED <<table, batch, jobc>>
  BY DEF Offer
<1>3. JobTypes'
  BY <1>1, <1>2 DEF JobInv, JobTypes
<1>4. \A i \in Job : Held(i)' => Held(i) /\ i # j
  <2>. SUFFICES ASSUME NEW i \in Job, Held(i)' PROVE Held(i) /\ i # j
    OBVIOUS
  <2>1. CASE \E q \in Proc : i \in (batch[q] \cup jobc[q])
    BY <2>1 DEF Held, JobInv, OffersApart
  <2>2. CASE \E d \in Proc \X Caller : relay'[d] = i
    BY <2>2, <1>1, <1>2, JobProviderAssumption DEF Held, JobInv, OffersApart, JobTypes
  <2>. QED
    BY <2>1, <2>2, <1>2 DEF Held
<1>5. MarkedFirst' /\ HeldIsNew' /\ HandedOnce'
  <2>1. \A i \in Job : handed'[i] = IF i = j THEN 1 ELSE handed[i]
    BY <1>1, <1>2 DEF JobInv, JobTypes
  <2>2. MarkedFirst'
    BY <2>1, <1>1, <1>2, <1>4 DEF JobInv, MarkedFirst
  <2>3. HeldIsNew'
    BY <2>1, <1>4 DEF JobInv, HeldIsNew
  <2>4. HandedOnce'
    BY <2>1 DEF JobInv, HandedOnce
  <2>. QED
    BY <2>2, <2>3, <2>4
<1>6. BatchesApart' /\ ChannelsApart'
  BY <1>2 DEF JobInv, BatchesApart, ChannelsApart
<1>7. OffersApart'
  BY <1>2, JobProviderAssumption DEF JobInv, OffersApart, JobTypes
<1>. QED
  BY <1>3, <1>5, <1>6, <1>7 DEF JobInv

LEMMA JobStep == ASSUME JobInv, [JobNext]_jobVars PROVE JobInv'
<1>1. ASSUME NEW j \in Job, Push(j) PROVE JobInv'
  BY <1>1, LetGo DEF Push, JobInv, JobTypes
<1>2. ASSUME NEW p \in Proc, Fetching(p) PROVE JobInv'
  BY <1>2, ClaimKeeps, PassOnKeeps DEF Fetching
<1>3. ASSUME NEW p \in Proc, ClaimFails(p) PROVE JobInv'
  <2>1. PICK S \in SUBSET New \cup {{}} : Mark(S)
    BY <1>3 DEF ClaimFails, Batches, kSubset
  <2>. QED
    BY <1>3, <2>1, LetGo DEF ClaimFails, FetchEnds, Mark, life, JobInv, JobTypes
<1>4. ASSUME NEW p \in Proc, FetchStops(p) PROVE JobInv'
  BY <1>4, LetGo DEF FetchStops, FetchEnds, JobInv, JobTypes
<1>5. ASSUME NEW p \in Proc, NEW c \in Caller, Relaying(p, c) PROVE JobInv'
  BY <1>5, TakeKeeps, OfferKeeps DEF Relaying
<1>6. ASSUME NEW p \in Proc, NEW c \in Caller, RelayEnds(p, c) \/ JobsAgain(p, c) PROVE JobInv'
  BY <1>6, LetGo DEF RelayEnds, JobsAgain, JobInv, JobTypes
<1>7. ASSUME NEW p \in Proc, ContextEnds(p) PROVE JobInv'
  BY <1>7, LetGo DEF ContextEnds, JobInv, JobTypes
<1>8. ASSUME NEW p \in Proc, Restart(p) PROVE JobInv'
  BY <1>8, LetGo DEF Restart, JobInv, JobTypes
<1>9. CASE UNCHANGED jobVars
  BY <1>9, LetGo DEF jobVars, JobInv, JobTypes
<1>. QED
  BY <1>1, <1>2, <1>3, <1>4, <1>5, <1>6, <1>7, <1>8, <1>9 DEF JobNext

\* However many processes empty the table, fail, end and start again, a job is handed to
\* one worker once (provider.go:152-165).
THEOREM NoJobTwice == JobSpec => []HandedOnce
<1>1. JobInv => HandedOnce
  BY DEF JobInv
<1>. QED
  BY JobInit0, JobStep, <1>1, PTL DEF JobSpec
-----------------------------------------------------------------------------
BufferTypes ==
  /\ in \in {"open", "closed"} /\ writer \in {"running", "ended", "failed"}
  /\ received \subseteq Result /\ buff \subseteq received /\ saved \in [Result -> Nat]

\* While the writer goes on, what it received is in the buffer, saved once or left out.
Accounted ==
  /\ \A r \in Result \ received : saved[r] = 0
  /\ writer # "failed" => \A r \in received :
       /\ r \in buff => saved[r] = 0
       /\ saved[r] = 1 \/ r \in buff \cup skipped
  /\ writer = "ended" => buff = {}

BufferInv == BufferTypes /\ Accounted /\ ResultsKept

\* What a save of B may come to.
LEMMA Outcomes ==
  ASSUME NEW B, NEW o \in Once(B) \cup RowByRow(B)
  PROVE  o.in \subseteq B /\ o.ok \in BOOLEAN /\ (o.ok => B \subseteq o.in \cup o.out)
<1>1. CASE o \in Once(B)
  <2>1. CASE o \in [in : {{}, B}, out : {{}}, ok : {FALSE}]
    BY <2>1
  <2>2. CASE o = [in |-> B, out |-> {}, ok |-> TRUE]
    BY <2>2
  <2>. QED
    BY <1>1, <2>1, <2>2 DEF Once
<1>2. CASE o \in RowByRow(B)
  <2>1. PICK G \in SUBSET B :
          o \in [in : SUBSET (B \ G), out : {G}, ok : {FALSE}] \cup {[in |-> B \ G, out |-> G, ok |-> TRUE]}
    BY <1>2 DEF RowByRow
  <2>2. CASE o \in [in : SUBSET (B \ G), out : {G}, ok : {FALSE}]
    BY <2>2
  <2>3. CASE o = [in |-> B \ G, out |-> G, ok |-> TRUE]
    BY <2>3
  <2>. QED
    BY <2>1, <2>2, <2>3
<1>. QED
  BY <1>1, <1>2

\* A save of what is buffered, with what has just come, keeps account.
LEMMA SaveKeeps ==
  ASSUME BufferInv, writer = "running", NEW B \in SUBSET Result, Save(B), UNCHANGED in,
         buff \subseteq B, received' = received \cup B, \A r \in B \ buff : r \notin received
  PROVE  BufferInv'
<1>1. PICK o \in Once(B) \cup RowByRow(B) :
        /\ saved' = [r \in Result |-> saved[r] + (IF r \in o.in THEN 1 ELSE 0)]
        /\ skipped' = skipped \cup o.out
        /\ writer' = (IF ~o.ok THEN "failed" ELSE IF in = "closed" THEN "ended" ELSE "running")
        /\ buff' = IF o.ok THEN {} ELSE B
  BY DEF Save
<1>2. o.in \subseteq B /\ o.ok \in BOOLEAN /\ (o.ok => B \subseteq o.in \cup o.out)
  BY <1>1, Outcomes
<1>3. \A r \in B : saved[r] = 0
  BY DEF BufferInv, BufferTypes, Accounted
<1>4. BufferTypes'
  BY <1>1, <1>2 DEF BufferInv, BufferTypes
<1>5. \A r \in Result : saved'[r] = IF r \in o.in THEN 1 ELSE saved[r]
  BY <1>1, <1>2, <1>3 DEF BufferInv, BufferTypes
<1>6. Accounted'
  BY <1>1, <1>2, <1>5 DEF BufferInv, BufferTypes, Accounted
<1>7. ResultsKept'
  <2>1. \A r \in Result : saved'[r] <= 1
    BY <1>5 DEF BufferInv, ResultsKept, BufferTypes
  <2>. QED
    BY <2>1, <1>6, <1>4 DEF ResultsKept, Accounted, BufferTypes
<1>. QED
  BY <1>4, <1>6, <1>7 DEF BufferInv

LEMMA BufferInit0 == BufferInit => BufferInv
<1>. QED
  BY DEF BufferInit, BufferInv, BufferTypes, Accounted, ResultsKept

LEMMA BufferStep == ASSUME BufferInv, [BufferNext]_bufferVars PROVE BufferInv'
<1>. USE DEF BufferInv, BufferTypes, Accounted, ResultsKept
<1>1. ASSUME NEW r \in Result, ResultComes(r) PROVE BufferInv'
  <2>1. CASE Save(buff \cup {r})
    BY <1>1, <2>1, SaveKeeps DEF ResultComes
  <2>2. CASE buff' = buff \cup {r} /\ UNCHANGED <<writer, saved, skipped>>
    BY <1>1, <2>2 DEF ResultComes
  <2>. QED
    BY <1>1, <2>1, <2>2 DEF ResultComes
<1>2. CASE WrongType
  BY <1>2 DEF WrongType
<1>3. CASE NoMoreResults
  BY <1>3 DEF NoMoreResults
<1>4. CASE LastSave
  <2>1. CASE buff = {}
    BY <1>4, <2>1 DEF LastSave
  <2>2. CASE buff # {}
    BY <1>4, <2>2, SaveKeeps DEF LastSave
  <2>. QED
    BY <2>1, <2>2
<1>5. CASE UNCHANGED bufferVars
  BY <1>5 DEF bufferVars
<1>. QED
  BY <1>1, <1>2, <1>3, <1>4, <1>5 DEF BufferNext

\* A result is written once at most, and when the writer ends well each result it received
\* is in the table or was left out for a byte the database cannot hold
\* (resultwriter.go:86-188).
THEOREM ResultsAreKept == BufferSpec => []ResultsKept
<1>1. BufferInv => ResultsKept
  BY DEF BufferInv
<1>. QED
  BY BufferInit0, BufferStep, <1>1, PTL DEF BufferSpec
-----------------------------------------------------------------------------
\* Who reads the codes to use one has the row locked, so what it read is what is stored.
LockedReads ==
  \A b \in Agent : At(b, "spend") => lock = b /\ req[b].hashes = codes

\* A code that was used is not stored.
UsedIsGone == codes \cap spent = {} /\ ~again

CodeInv == DOMAIN req = Agent /\ LockedReads /\ UsedIsGone

\* What a browser waits for while its set-up is under way; it has no page meanwhile.
Settling == {"generate", "store", "enable"}
NoPageMeanwhile ==
  /\ DOMAIN view = Agent /\ DOMAIN req = Agent
  /\ \A b \in Agent : req[b].at \in Settling \cup {"clean"} => view[b] = "none"

\* Once a code of the new secret was right, and as long as nobody interferes or goes back:
\* the secret is that one, and the codes to be stored are ones the owner has seen.
Verified ==
  \A b \in Agent : req[b].at \in Settling \/ view[b] \in {"backup", "sent to backup"} => secret \in verified
Seen ==
  \A b \in Agent : /\ view[b] = "backup" => pending \in sheet \cup {0}
                   /\ At(b, "store") => req[b].set \in sheet
Stored0 == \E g \in sheet : Set(g) \subseteq codes \cup spent
Enabling == \A b \in Agent : At(b, "enable") => Stored0
Answered == enabled => secret \in verified /\ Stored0

InCourse == Verified /\ Seen /\ Enabling /\ Answered

AccountInv == CodeInv /\ NoPageMeanwhile /\ (~overlap /\ ~strayed => InCourse)

-----------------------------------------------------------------------------
LEMMA AccountInit0 == AccountInit => AccountInv
<1>. SUFFICES ASSUME AccountInit PROVE AccountInv
  OBVIOUS
<1>. USE DEF AccountInit, Idle
<1>1. CodeInv
  BY DEF CodeInv, LockedReads, UsedIsGone, At
<1>2. NoPageMeanwhile
  BY DEF NoPageMeanwhile, Settling
<1>3. InCourse
  BY DEF InCourse, Verified, Seen, Enabling, Answered, Settling, At
<1>. QED
  BY <1>1, <1>2, <1>3 DEF AccountInv

\* A request that does not touch the codes moves to a step other than "spend".
LEMMA CodesUntouched ==
  ASSUME CodeInv, NEW b \in Agent, NEW r, r.at # "spend", Goto(b, r), UNCHANGED <<codes, lock, usage>>, ~At(b, "spend")
  PROVE  CodeInv'
<1>. USE DEF CodeInv, LockedReads, UsedIsGone, At, Goto, usage
<1>1. DOMAIN req' = Agent /\ UsedIsGone'
  OBVIOUS
<1>2. ASSUME NEW a \in Agent, At(a, "spend")' PROVE lock' = a /\ req'[a].hashes = codes'
  <2>1. a # b /\ req'[a] = req[a]
    BY <1>2
  <2>. QED
    BY <2>1, <1>2
<1>. QED
  BY <1>1, <1>2

\* Whoever lets the row go has nobody else between the reading and the writing of it.
LEMMA CodesLetGo ==
  ASSUME CodeInv, NEW b \in Agent, NEW r, r.at # "spend", Goto(b, r), Unlocks(b), UNCHANGED <<codes, usage>>
  PROVE  CodeInv'
<1>. USE AdminAccountAssumption DEF CodeInv, LockedReads, UsedIsGone, At, Goto, usage, Unlocks
<1>1. DOMAIN req' = Agent /\ UsedIsGone'
  OBVIOUS
<1>2. ASSUME NEW a \in Agent, At(a, "spend")' PROVE lock' = a /\ req'[a].hashes = codes'
  <2>1. a # b /\ req'[a] = req[a]
    BY <1>2
  <2>2. lock = a /\ req[a].hashes = codes
    BY <2>1, <1>2
  <2>. QED
    BY <2>1, <2>2
<1>. QED
  BY <1>1, <1>2

LEMMA CodeStep == ASSUME CodeInv, [AccountNext]_accountVars PROVE CodeInv'
<1>. USE DEF row, sessions, owner, usage, Idle
<1>1. ASSUME NEW b \in Agent, Login(b) PROVE CodeInv'
  BY <1>1, CodesUntouched DEF Login, At
<1>2. ASSUME NEW b \in Agent, LoggedIn(b) PROVE CodeInv'
  BY <1>2, CodesUntouched DEF LoggedIn, At
<1>3. ASSUME NEW b \in Agent, CodeOfDevice(b) PROVE CodeInv'
  BY <1>3, CodesUntouched DEF CodeOfDevice, At
<1>4. ASSUME NEW b \in Agent, CodeOfSheet(b) PROVE CodeInv'
  <2>1. PICK c : Goto(b, [at |-> "lock", code |-> c])
    BY <1>4 DEF CodeOfSheet
  <2>. QED
    BY <1>4, <2>1, CodesUntouched DEF CodeOfSheet, At
<1>5. ASSUME NEW b \in Agent, ReadLocked(b) PROVE CodeInv'
  BY <1>5, AdminAccountAssumption DEF ReadLocked, CodeInv, LockedReads, UsedIsGone, At, Goto
<1>6. ASSUME NEW b \in Agent, Spend(b) PROVE CodeInv'
  <2>. USE DEF CodeInv, At
  <2>1. lock = b /\ req[b].hashes = codes /\ req[b].code \in codes /\ req[b].code \notin spent
    BY <1>6 DEF Spend, LockedReads, UsedIsGone
  <2>2. codes' = codes \ {req[b].code} /\ spent' = spent \cup {req[b].code} /\ ~again'
    <3>1. CASE again' = (again \/ req[b].code \in spent)
      BY <3>1, <1>6, <2>1, Zenon DEF Spend, UsedIsGone
    <3>2. CASE UNCHANGED again
      BY <3>2, <1>6, <2>1 DEF Spend, UsedIsGone
    <3>. QED
      BY <1>6, <3>1, <3>2 DEF Spend
  <2>3. UsedIsGone'
    BY <2>2 DEF UsedIsGone
  <2>4. DOMAIN req' = Agent /\ req'[b].at \in {"finish", "idle"} /\ \A a \in Agent \ {b} : req'[a] = req[a]
    BY <1>6 DEF Spend, Goto
  <2>5. LockedReads'
    BY <2>1, <2>4 DEF LockedReads
  <2>. QED
    BY <2>3, <2>4, <2>5
<1>7. ASSUME NEW b \in Agent, NotFound(b) PROVE CodeInv'
  BY <1>7, CodesLetGo DEF NotFound
<1>8. ASSUME NEW b \in Agent, RequestEnds(b) PROVE CodeInv'
  BY <1>8, CodesLetGo DEF RequestEnds
<1>9. ASSUME NEW b \in Agent, FinishLogin(b) PROVE CodeInv'
  BY <1>9, CodesUntouched DEF FinishLogin, At
<1>10. ASSUME NEW b \in Agent, SessionEnds(b) \/ ChangePassword(b) \/ Leave(b) PROVE CodeInv'
  BY <1>10 DEF SessionEnds, ChangePassword, Leave, CodeInv, LockedReads, UsedIsGone, At
<1>11. ASSUME NEW b \in Agent, NEW step, Get(b, step) PROVE CodeInv'
  BY <1>11 DEF Get, CodeInv, LockedReads, UsedIsGone, At
<1>12. ASSUME NEW b \in Agent, NewSecret(b) PROVE CodeInv'
  BY <1>12 DEF NewSecret, CodeInv, LockedReads, UsedIsGone, At
<1>13. ASSUME NEW b \in Agent, VerifyCode(b) PROVE CodeInv'
  BY <1>13, CodesUntouched DEF VerifyCode, Submits, At
<1>14. ASSUME NEW b \in Agent, SaveSet(b) PROVE CodeInv'
  BY <1>14, CodesUntouched DEF SaveSet, At
<1>15. ASSUME NEW b \in Agent, Confirm(b) PROVE CodeInv'
  BY <1>15, CodesUntouched DEF Confirm, Submits, At
<1>16. ASSUME NEW b \in Agent, StoreSet(b) PROVE CodeInv'
  BY <1>16, AdminAccountAssumption DEF StoreSet, CodeInv, LockedReads, UsedIsGone, At, Goto
<1>17. ASSUME NEW b \in Agent, Enable(b) PROVE CodeInv'
  BY <1>17, CodesUntouched DEF Enable, At
<1>18. ASSUME NEW b \in Agent, DropSet(b) PROVE CodeInv'
  BY <1>18, CodesUntouched DEF DropSet, At
<1>19. ASSUME NEW b \in Agent, Disable(b) PROVE CodeInv'
  BY <1>19, AdminAccountAssumption DEF Disable, Submits, CodeInv, LockedReads, UsedIsGone, At
<1>20. CASE UNCHANGED accountVars
  BY <1>20 DEF accountVars, CodeInv, LockedReads, UsedIsGone, At
<1>. QED
  BY <1>1, <1>2, <1>3, <1>4, <1>5, <1>6, <1>7, <1>8, <1>9, <1>10, <1>11, <1>12, <1>13, <1>14, <1>15,
     <1>16, <1>17, <1>18, <1>19, <1>20 DEF AccountNext

\* "Each code works only once" (templates/2fa_setup.html), from whatever browsers and
\* however closely it is entered, as long as its set is not stored again
\* (postgres.go:252-311).
THEOREM CodesAreUsedOnce == AccountSpec => []CodeUsedOnce
<1>1. AccountInit => CodeInv
  BY AccountInit0 DEF AccountInv
<1>2. CodeInv => CodeUsedOnce
  BY DEF CodeInv, UsedIsGone, CodeUsedOnce
<1>. QED
  BY <1>1, <1>2, CodeStep, PTL DEF AccountSpec
-----------------------------------------------------------------------------
\* A request that leaves the account alone ends, or moves to a step outside a set-up.
LEMMA SetupUntouched ==
  ASSUME AccountInv, NEW b \in Agent, NEW r, r.at \notin Settling \cup {"clean"}, Goto(b, r),
         UNCHANGED <<secret, enabled, pending, view, sheet, verified, course>>, codes' \cup spent' = codes \cup spent
  PROVE  NoPageMeanwhile' /\ (~overlap' /\ ~strayed' => InCourse')
<1>. USE DEF AccountInv, NoPageMeanwhile, Goto, Settling, course
<1>1. req'[b] = r /\ \A a \in Agent \ {b} : req'[a] = req[a]
  OBVIOUS
<1>2. NoPageMeanwhile'
  BY <1>1
<1>3. Stored0 => Stored0'
  BY DEF Stored0
<1>4. ASSUME ~overlap', ~strayed' PROVE InCourse'
  <2>1. Verified /\ Seen /\ Enabling /\ Answered
    BY <1>4 DEF InCourse
  <2>2. Verified'
    BY <2>1, <1>1 DEF Verified
  <2>3. Seen'
    BY <2>1, <1>1 DEF Seen, At
  <2>4. Enabling' /\ Answered'
    BY <2>1, <1>1, <1>3 DEF Enabling, Answered, At
  <2>. QED
    BY <2>2, <2>3, <2>4 DEF InCourse
<1>. QED
  BY <1>2, <1>4

\* A set-up that nobody overlapped found nobody else in one.
LEMMA NobodyElse ==
  ASSUME AccountInv, NEW b \in Agent, Marked(b), ~overlap'
  PROVE  ~overlap /\ \A a \in Agent \ {b} : view[a] = "none" /\ req[a].at \notin Settling \cup {"clean"}
  BY DEF Marked, Busy, Settling

LEMMA AccountStep == ASSUME AccountInv, [AccountNext]_accountVars PROVE AccountInv'
<1>. DEFINE SetupInv == NoPageMeanwhile /\ (~overlap /\ ~strayed => InCourse)
<1>1. CodeInv'
  BY CodeStep DEF AccountInv
<1>2. SetupInv'
  <2>. USE DEF row, sessions, owner, usage, course, Idle
  <2>0. DOMAIN view = Agent /\ DOMAIN req = Agent
    BY DEF AccountInv, NoPageMeanwhile
  <2>1. ASSUME NEW b \in Agent, Login(b) PROVE SetupInv'
    BY <2>1, SetupUntouched DEF Login, Settling
  <2>2. ASSUME NEW b \in Agent, LoggedIn(b) PROVE SetupInv'
    BY <2>2, SetupUntouched DEF LoggedIn, Settling
  <2>3. ASSUME NEW b \in Agent, CodeOfDevice(b) PROVE SetupInv'
    BY <2>3, SetupUntouched DEF CodeOfDevice, Settling
  <2>4. ASSUME NEW b \in Agent, CodeOfSheet(b) PROVE SetupInv'
    <3>1. PICK c : Goto(b, [at |-> "lock", code |-> c])
      BY <2>4 DEF CodeOfSheet
    <3>. QED
      BY <2>4, <3>1, SetupUntouched DEF CodeOfSheet, Settling
  <2>5. ASSUME NEW b \in Agent, ReadLocked(b) PROVE SetupInv'
    BY <2>5, SetupUntouched DEF ReadLocked, Settling
  <2>6. ASSUME NEW b \in Agent, Spend(b) PROVE SetupInv'
    <3>1. codes' \cup spent' = codes \cup spent
      BY <2>6 DEF Spend, AccountInv, CodeInv, LockedReads
    <3>2. CASE Goto(b, [at |-> "finish"])
      BY <2>6, <3>1, <3>2, SetupUntouched DEF Spend, Settling
    <3>3. CASE Goto(b, Idle)
      BY <2>6, <3>1, <3>3, SetupUntouched DEF Spend, Settling
    <3>. QED
      BY <2>6, <3>2, <3>3 DEF Spend
  <2>7. ASSUME NEW b \in Agent, NotFound(b) PROVE SetupInv'
    BY <2>7, SetupUntouched DEF NotFound, Settling
  <2>8. ASSUME NEW b \in Agent, RequestEnds(b) PROVE SetupInv'
    BY <2>8, SetupUntouched DEF RequestEnds, Settling
  <2>9. ASSUME NEW b \in Agent, FinishLogin(b) PROVE SetupInv'
    BY <2>9, SetupUntouched DEF FinishLogin, Settling
  <2>10. ASSUME NEW b \in Agent, SessionEnds(b) \/ ChangePassword(b) PROVE SetupInv'
    <3>1. UNCHANGED <<secret, enabled, codes, pending, view, req, sheet, verified, spent, overlap, strayed>>
      BY <2>10 DEF SessionEnds, ChangePassword
    <3>. QED
      BY <3>1 DEF AccountInv, NoPageMeanwhile, InCourse, Verified, Seen, Enabling, Answered, Stored0, At
  <2>11. ASSUME NEW b \in Agent, Leave(b) PROVE SetupInv'
    <3>1. /\ view' = [view EXCEPT ![b] = "none"]
          /\ UNCHANGED <<secret, enabled, codes, pending, req, sheet, verified, spent, overlap, strayed>>
      BY <2>11 DEF Leave, Shows
    <3>2. \A a \in Agent : view'[a] \in {view[a], "none"}
      BY <3>1, <2>0
    <3>. QED
      BY <2>0, <3>1, <3>2 DEF AccountInv, NoPageMeanwhile, InCourse, Verified, Seen, Enabling, Answered, Stored0, At
  <2>12. ASSUME NEW b \in Agent, NEW step \in {"password", "qr", "backup"}, Get(b, step) PROVE SetupInv'
    <3>1. /\ req[b].at = "idle"
          /\ UNCHANGED <<secret, enabled, codes, pending, req, verified, spent, overlap>>
      BY <2>12 DEF Get, At
    <3>2. PICK shown \in {"enabled", "password", "qr", "backup"} :
             /\ view' = [view EXCEPT ![b] = shown] /\ (shown = "backup" => step = "backup")
             /\ sheet' = IF shown = "backup" THEN sheet \cup {pending} ELSE sheet
      BY <2>12 DEF Get, Shows
    <3>3. view'[b] = shown /\ \A a \in Agent \ {b} : view'[a] = view[a]
      BY <3>2, <2>0
    <3>4. NoPageMeanwhile'
      BY <3>1, <3>2, <3>3, <2>0 DEF AccountInv, NoPageMeanwhile, Settling
    <3>5. ASSUME ~overlap', ~strayed' PROVE InCourse'
      <4>1. ~strayed /\ (shown = "backup" => view[b] \in {"backup", "sent to backup"})
        BY <2>12, <3>2, <3>5 DEF Get, Strays
      <4>2. Verified /\ Seen /\ Enabling /\ Answered
        BY <3>1, <3>5, <4>1 DEF AccountInv, InCourse
      <4>3. Verified'
        BY <3>1, <3>3, <4>1, <4>2 DEF Verified
      <4>4. sheet \subseteq sheet' /\ (shown = "backup" => pending \in sheet')
        BY <3>2
      <4>5. Seen'
        BY <3>1, <3>3, <4>2, <4>4 DEF Seen, At
      <4>6. Stored0 => Stored0'
        BY <3>1, <4>4 DEF Stored0
      <4>7. Enabling' /\ Answered'
        BY <3>1, <4>2, <4>6 DEF Enabling, Answered, At
      <4>. QED
        BY <4>3, <4>5, <4>7 DEF InCourse
    <3>. QED
      BY <3>4, <3>5
  <2>13. ASSUME NEW b \in Agent, NewSecret(b) PROVE SetupInv'
    <3>1. /\ view' = [view EXCEPT ![b] = "sent to qr"] /\ req[b].at = "idle" /\ Marked(b) /\ Strays(enabled)
          /\ UNCHANGED <<req, enabled>>
      BY <2>13 DEF NewSecret, Submits, Shows, At
    <3>2. NoPageMeanwhile'
      BY <3>1, <2>0 DEF NoPageMeanwhile, AccountInv, Settling
    <3>3. ASSUME ~overlap', ~strayed' PROVE InCourse'
      <4>1. \A a \in Agent \ {b} : view[a] = "none" /\ req[a].at \notin Settling \cup {"clean"}
        BY <3>1, <3>3, NobodyElse
      <4>2. \A a \in Agent : view'[a] \in {"none", "sent to qr"} /\ req'[a].at \notin Settling
        BY <2>0, <3>1, <4>1 DEF Settling
      <4>3. ~enabled'
        BY <3>1, <3>3 DEF Strays
      <4>. QED
        BY <4>2, <4>3 DEF InCourse, Verified, Seen, Enabling, Answered, At, Settling
    <3>. QED
      BY <3>2, <3>3
  <2>14. ASSUME NEW b \in Agent, VerifyCode(b) PROVE SetupInv'
    <3>1. /\ req' = [req EXCEPT ![b] = [at |-> "generate"]]
          /\ view' = [view EXCEPT ![b] = "none"] /\ verified' = verified \cup {secret}
          /\ UNCHANGED <<secret, enabled, pending, codes, spent, sheet, overlap, strayed>>
      BY <2>14 DEF VerifyCode, Shows, Goto
    <3>2. /\ \A a \in Agent \ {b} : view'[a] = view[a] /\ req'[a] = req[a]
          /\ view'[b] = "none" /\ req'[b].at = "generate" /\ DOMAIN view' = Agent /\ DOMAIN req' = Agent
      BY <2>0, <3>1
    <3>3. NoPageMeanwhile'
      BY <3>2 DEF NoPageMeanwhile, AccountInv
    <3>4. ASSUME ~overlap', ~strayed' PROVE InCourse'
      <4>1. Verified /\ Seen /\ Enabling /\ Answered
        BY <3>1, <3>4 DEF AccountInv, InCourse
      <4>2. Verified' /\ Seen'
        BY <3>1, <3>2, <4>1 DEF Verified, Seen, At
      <4>3. Enabling' /\ Answered'
        BY <3>1, <3>2, <4>1 DEF Enabling, Answered, Stored0, At
      <4>. QED
        BY <4>2, <4>3 DEF InCourse
    <3>. QED
      BY <3>3, <3>4
  <2>15. ASSUME NEW b \in Agent, SaveSet(b) PROVE SetupInv'
    <3>1. /\ req' = [req EXCEPT ![b] = [at |-> "idle"]] /\ req[b].at = "generate" /\ Marked(b)
          /\ view' = [view EXCEPT ![b] = "sent to backup"]
          /\ UNCHANGED <<secret, enabled, codes, spent, sheet, verified, strayed>>
      BY <2>15 DEF SaveSet, Goto, Shows, At
    <3>2. /\ \A a \in Agent \ {b} : view'[a] = view[a] /\ req'[a] = req[a]
          /\ view'[b] = "sent to backup" /\ req'[b].at = "idle" /\ DOMAIN view' = Agent /\ DOMAIN req' = Agent
      BY <2>0, <3>1
    <3>3. NoPageMeanwhile'
      BY <3>2 DEF NoPageMeanwhile, AccountInv, Settling
    <3>4. ASSUME ~overlap', ~strayed' PROVE InCourse'
      <4>1. ~overlap /\ \A a \in Agent \ {b} : view[a] = "none" /\ req[a].at \notin Settling \cup {"clean"}
        BY <3>1, <3>4, NobodyElse
      <4>2. Verified /\ Answered
        BY <3>1, <3>4, <4>1 DEF AccountInv, InCourse
      <4>3. \A a \in Agent : view'[a] # "backup" /\ req'[a].at \notin Settling
        BY <3>2, <4>1 DEF Settling
      <4>4. secret' \in verified'
        BY <3>1, <4>2 DEF Verified, Settling
      <4>5. Answered'
        BY <3>1, <4>2 DEF Answered, Stored0
      <4>. QED
        BY <4>3, <4>4, <4>5 DEF InCourse, Verified, Seen, Enabling, Settling, At
    <3>. QED
      BY <3>3, <3>4
  <2>16. ASSUME NEW b \in Agent, Confirm(b) PROVE SetupInv'
    <3>1. /\ req' = [req EXCEPT ![b] = [at |-> "store", set |-> pending]] /\ pending # 0
          /\ view' = [view EXCEPT ![b] = "none"] /\ Strays(view[b] # "backup")
          /\ UNCHANGED <<secret, enabled, pending, codes, spent, sheet, verified, overlap>>
      BY <2>16 DEF Confirm, Shows, Goto
    <3>2. /\ \A a \in Agent \ {b} : view'[a] = view[a] /\ req'[a] = req[a]
          /\ view'[b] = "none" /\ req'[b].at = "store" /\ req'[b].set = pending
          /\ DOMAIN view' = Agent /\ DOMAIN req' = Agent
      BY <2>0, <3>1
    <3>3. NoPageMeanwhile'
      BY <3>2 DEF NoPageMeanwhile, AccountInv
    <3>4. ASSUME ~overlap', ~strayed' PROVE InCourse'
      <4>1. ~strayed /\ view[b] = "backup"
        BY <3>1, <3>4 DEF Strays
      <4>2. Verified /\ Seen /\ Enabling /\ Answered
        BY <3>1, <3>4, <4>1 DEF AccountInv, InCourse
      <4>3. Verified'
        BY <3>1, <3>2, <4>1, <4>2 DEF Verified
      <4>4. Seen'
        BY <3>1, <3>2, <4>1, <4>2 DEF Seen, At
      <4>5. Enabling' /\ Answered'
        BY <3>1, <3>2, <4>2 DEF Enabling, Answered, Stored0, At
      <4>. QED
        BY <4>3, <4>4, <4>5 DEF InCourse
    <3>. QED
      BY <3>3, <3>4
  <2>17. ASSUME NEW b \in Agent, StoreSet(b) PROVE SetupInv'
    <3>1. /\ req' = [req EXCEPT ![b] = [at |-> "enable"]] /\ req[b].at = "store" /\ Marked(b)
          /\ codes' = Set(req[b].set)
          /\ UNCHANGED <<secret, enabled, view, pending, sheet, verified, strayed>>
      BY <2>17 DEF StoreSet, Goto, At
    <3>2. view[b] = "none" /\ DOMAIN view' = Agent /\ DOMAIN req' = Agent
      BY <2>0, <3>1 DEF AccountInv, NoPageMeanwhile, Settling
    <3>3. NoPageMeanwhile'
      BY <2>0, <3>1, <3>2 DEF NoPageMeanwhile, AccountInv
    <3>4. ASSUME ~overlap', ~strayed' PROVE InCourse'
      <4>1. ~overlap /\ \A a \in Agent \ {b} : view[a] = "none" /\ req[a].at \notin Settling \cup {"clean"}
        BY <3>1, <3>4, NobodyElse
      <4>2. Verified /\ Seen
        BY <3>1, <3>4, <4>1 DEF AccountInv, InCourse
      <4>3. \A a \in Agent : view'[a] = "none" /\ req'[a].at # "store"
        BY <2>0, <3>1, <3>2, <4>1 DEF Settling
      <4>4. secret' \in verified'
        BY <3>1, <4>2 DEF Verified, Settling
      <4>5. Stored0'
        <5>1. req[b].set \in sheet'
          BY <3>1, <4>2 DEF Seen, At
        <5>. QED
          BY <3>1, <5>1 DEF Stored0, Set
      <4>. QED
        BY <4>3, <4>4, <4>5 DEF InCourse, Verified, Seen, Enabling, Answered, At
    <3>. QED
      BY <3>3, <3>4
  <2>18. ASSUME NEW b \in Agent, Enable(b) PROVE SetupInv'
    <3>1. /\ req' = [req EXCEPT ![b] = [at |-> "clean"]] /\ req[b].at = "enable" /\ Marked(b)
          /\ UNCHANGED <<secret, view, pending, codes, spent, sheet, verified, strayed>>
      BY <2>18 DEF Enable, Goto, At
    <3>2. view[b] = "none" /\ DOMAIN view' = Agent /\ DOMAIN req' = Agent
      BY <2>0, <3>1 DEF AccountInv, NoPageMeanwhile, Settling
    <3>3. NoPageMeanwhile'
      BY <2>0, <3>1, <3>2 DEF NoPageMeanwhile, AccountInv
    <3>4. ASSUME ~overlap', ~strayed' PROVE InCourse'
      <4>1. ~overlap /\ \A a \in Agent \ {b} : view[a] = "none" /\ req[a].at \notin Settling \cup {"clean"}
        BY <3>1, <3>4, NobodyElse
      <4>2. Verified /\ Enabling
        BY <3>1, <3>4, <4>1 DEF AccountInv, InCourse
      <4>3. \A a \in Agent : view'[a] = "none" /\ req'[a].at \notin Settling
        BY <2>0, <3>1, <3>2, <4>1 DEF Settling
      <4>4. secret' \in verified' /\ Stored0'
        BY <3>1, <4>2 DEF Enabling, Verified, Settling, Stored0, At
      <4>. QED
        BY <4>3, <4>4 DEF InCourse, Verified, Seen, Enabling, Answered, At, Settling
    <3>. QED
      BY <3>3, <3>4
  <2>19. ASSUME NEW b \in Agent, DropSet(b) PROVE SetupInv'
    <3>1. /\ req' = [req EXCEPT ![b] = [at |-> "idle"]] /\ pending' = 0
          /\ UNCHANGED <<secret, enabled, view, codes, spent, sheet, verified, overlap, strayed>>
      BY <2>19 DEF DropSet, Goto
    <3>2. DOMAIN req' = Agent /\ req'[b].at = "idle" /\ \A a \in Agent \ {b} : req'[a] = req[a]
      BY <2>0, <3>1
    <3>3. NoPageMeanwhile'
      BY <2>0, <3>1, <3>2 DEF NoPageMeanwhile, AccountInv, Settling
    <3>4. ASSUME ~overlap', ~strayed' PROVE InCourse'
      <4>1. Verified /\ Seen /\ Enabling /\ Answered
        BY <3>1, <3>4 DEF AccountInv, InCourse
      <4>2. Verified' /\ Seen'
        BY <3>1, <3>2, <4>1 DEF Verified, Seen, Settling, At
      <4>3. Enabling' /\ Answered'
        BY <3>1, <3>2, <4>1 DEF Enabling, Answered, Stored0, At
      <4>. QED
        BY <4>2, <4>3 DEF InCourse
    <3>. QED
      BY <3>3, <3>4
  <2>20. ASSUME NEW b \in Agent, Disable(b) PROVE SetupInv'
    <3>1. /\ view' = [view EXCEPT ![b] = "none"] /\ req[b].at = "idle" /\ Marked(b) /\ ~enabled'
          /\ UNCHANGED req
      BY <2>20 DEF Disable, Submits, Shows, At
    <3>2. NoPageMeanwhile'
      BY <2>0, <3>1 DEF NoPageMeanwhile, AccountInv
    <3>3. ASSUME ~overlap', ~strayed' PROVE InCourse'
      <4>1. \A a \in Agent \ {b} : view[a] = "none" /\ req[a].at \notin Settling \cup {"clean"}
        BY <3>1, <3>3, NobodyElse
      <4>2. \A a \in Agent : view'[a] = "none" /\ req'[a].at \notin Settling
        BY <2>0, <3>1, <4>1 DEF Settling
      <4>. QED
        BY <3>1, <4>2 DEF InCourse, Verified, Seen, Enabling, Answered, At, Settling
    <3>. QED
      BY <3>2, <3>3
  <2>21. CASE UNCHANGED accountVars
    BY <2>21 DEF accountVars, AccountInv, NoPageMeanwhile, InCourse, Verified, Seen, Enabling, Answered, Stored0, At
  <2>. HIDE DEF SetupInv
  <2>. QED
    BY <2>1, <2>2, <2>3, <2>4, <2>5, <2>6, <2>7, <2>8, <2>9, <2>10, <2>11, <2>12, <2>13, <2>14, <2>15,
       <2>16, <2>17, <2>18, <2>19, <2>20, <2>21 DEF AccountNext
<1>. QED
  BY <1>1, <1>2 DEF AccountInv

\* An enabled second step can be answered, wherever an earlier set-up was cut short, unless
\* two browsers change the set-up at once or the owner goes back in it: its secret is one
\* the authenticator was seen to have, and of a set the owner has seen every code is stored
\* or was used.  Reloading a page, wrong codes, forms of the verification sent from any
\* page and set-ups begun anew are all within it (handlers_2fa.go:178-447).
THEOREM SecondStepCanBeAnswered == AccountSpec => []EnabledCanBeAnswered
<1>1. AccountInv => EnabledCanBeAnswered
  BY DEF AccountInv, InCourse, Answered, Stored0, EnabledCanBeAnswered
<1>. QED
  BY <1>1, AccountInit0, AccountStep, PTL DEF AccountSpec
-----------------------------------------------------------------------------
(* The wizard. *)

State ==
  [provider : {"none", "no file", "torn file", "vps", "do", "hetzner"}, image : BOOLEAN, place : {0} \cup Places,
   conn : BOOLEAN, setup : BOOLEAN, url : {NoUrl} \cup [db : Dbs, pw : Int],
   secret : [Secret -> 0..MaxRuns], deployed : BOOLEAN, app : BOOLEAN, user : 0..MaxRuns]

\* What is stored and what runs go by the secrets of the state st.
Fits(st, stored, deployed) ==
  /\ st.url # NoUrl /\ \A s \in Secret : st.secret[s] # 0
  /\ \A e \in Entry : stored[st.url.db][e] = [key |-> st.secret["key"], val |-> st.secret[e]]
  /\ deployed.key = st.secret["key"] /\ deployed.salt = st.secret["salt"]

\* What a state says of the world is so.
SoundIn(st, users, stored, deployed) ==
  /\ st \in State
  /\ st.user # 0 => st.url # NoUrl /\ users[st.url.db] = st.user
  /\ st.provider = "none" => st.place = 0
  /\ st.deployed => Fits(st, stored, deployed)

Sound == SoundIn(mem, admins, conf, app) /\ SoundIn(file, admins, conf, app)

\* What a run holds goes beyond the file and contradicts it nowhere.
Extends ==
  /\ file.place # 0 => mem.place = file.place
  /\ file.url # NoUrl => mem.url = file.url
  /\ \A s \in Secret : file.secret[s] # 0 => mem.secret[s] = file.secret[s]

\* How far a run has come.
AfterUrl == {"created", "verify", "key", "salt", "ssh", "config", "deploy", "deployed", "admin", "created admin", "done"}
AfterPlace == {"chosen", "connect", "setup", "database"} \cup AfterUrl
AfterSecrets == {"config", "deploy", "deployed", "admin", "created admin", "done"}
AtSave == AfterPlace \ {"chosen", "created", "deployed", "created admin"}
Reached ==
  /\ pc = "off" => mem = Blank
  /\ pc # "off" => runs \in 1..MaxRuns /\ Extends
  /\ pc = "image" => mem = file \/ (mem = Blank /\ file = NoFile)
  /\ pc \in {"ssh key", "server"} => mem.place = 0 /\ mem.provider = "hetzner"
  /\ pc \in AfterPlace => mem.place # 0
  /\ pc \in AfterUrl => mem.url # NoUrl
  /\ pc \in {"salt", "ssh"} \cup AfterSecrets => mem.secret["key"] # 0
  /\ pc \in {"ssh"} \cup AfterSecrets => mem.secret["salt"] # 0
  /\ pc \in AfterSecrets => mem.secret["ssh"] # 0
  /\ pc \in AtSave \cup {"provider"} => mem = file
  /\ pc \in {"created admin", "done"} => mem.user # 0

\* The run has stored every entry but those that are left.
StoredSoFar ==
  pc \in {"config", "deploy"} =>
    /\ \A e \in Entry \ left : conf[mem.url.db][e] = [key |-> mem.secret["key"], val |-> mem.secret[e]]
    /\ pc = "deploy" => left = {}

\* While no state is given up or torn, whatever is stored goes by the file.
StoredByFile ==
  ~lost => \A d \in Dbs : \A e \in Entry : conf[d][e].key # 0 =>
    /\ d = file.url.db /\ file.secret["key"] # 0 /\ file.secret[e] # 0
    /\ conf[d][e] = [key |-> file.secret["key"], val |-> file.secret[e]]

ProvTypes ==
  /\ runs \in 0..MaxRuns /\ left \subseteq Entry
  /\ servers \in [1..MaxRuns -> 0..MaxRuns] /\ cloudKey \in 0..MaxRuns
  /\ pw \in [Dbs -> Int] /\ admins \in [Dbs -> 0..MaxRuns]
  /\ conf \in [Dbs -> [Entry -> [key : 0..MaxRuns, val : 0..MaxRuns]]]

ProvInv == ProvTypes /\ Sound /\ Reached /\ StoredSoFar /\ StoredByFile

LEMMA Names ==
  /\ 0 \notin Dbs /\ 0 \notin Places /\ Ext \in Dbs /\ Own \in Places /\ Places \subseteq Dbs
  /\ \A n \in 1..MaxRuns : n \in Places /\ Cloud(n) \in Dbs
  BY ProvisioningAssumption DEF Dbs, Places, Cloud, Own, Ext

LEMMA StateOfBlank == Blank \in State /\ NoFile \in State /\ TornFile \in State
<1>1. 0 \in 0..MaxRuns
  BY ProvisioningAssumption
<1>2. Blank \in State
  BY <1>1 DEF Blank, State, Secret
<1>3. NoFile \in State /\ TornFile \in State
  BY <1>2 DEF NoFile, TornFile, State
<1>. QED
  BY <1>2, <1>3

LEMMA ProvInit0 == ProvInit => ProvInv
<1>. SUFFICES ASSUME ProvInit PROVE ProvInv
  OBVIOUS
<1>1. ProvTypes
  BY ProvisioningAssumption, Names DEF ProvInit, ProvTypes, Entry
<1>2. Sound
  BY StateOfBlank DEF ProvInit, Sound, SoundIn, Blank, NoFile
<1>3. Reached /\ StoredSoFar
  BY DEF ProvInit, Reached, StoredSoFar, AfterPlace, AfterUrl, AfterSecrets, AtSave
<1>4. StoredByFile
  BY DEF ProvInit, StoredByFile, Entry
<1>. QED
  BY <1>1, <1>2, <1>3, <1>4 DEF ProvInv

\* A state that goes on from another one says what that one says.
LEMMA Carries ==
  ASSUME NEW users, NEW stored, NEW deployed, NEW st, SoundIn(st, users, stored, deployed),
         NEW next \in State, next.user = st.user, next.deployed = st.deployed, next.provider = "none" => next.place = 0,
         st.url # NoUrl => next.url = st.url,
         \A s \in Secret : st.secret[s] # 0 => next.secret[s] = st.secret[s]
  PROVE  SoundIn(next, users, stored, deployed)
<1>1. st.deployed => Fits(next, stored, deployed)
  <2>. SUFFICES ASSUME Fits(st, stored, deployed) PROVE Fits(next, stored, deployed)
    BY DEF SoundIn
  <2>1. next.url = st.url /\ \A s \in Secret : next.secret[s] = st.secret[s]
    BY DEF Fits
  <2>. QED
    BY <2>1 DEF Fits, Secret, Entry
<1>. QED
  BY <1>1 DEF SoundIn

\* A step of a run that neither changes what is stored, deployed or registered, nor takes
\* back an address or a secret, leaves both states true; saved or not.
LEMMA Onwards ==
  ASSUME ProvInv, Extends, UNCHANGED <<admins, conf, app, lost>>, file' = file \/ file' = mem',
         mem' \in State, mem'.user = mem.user, mem'.deployed = mem.deployed, mem'.provider = "none" => mem'.place = 0,
         mem.url # NoUrl => mem'.url = mem.url,
         \A s \in Secret : mem.secret[s] # 0 => mem'.secret[s] = mem.secret[s]
  PROVE  Sound' /\ StoredByFile'
<1>1. SoundIn(mem', admins', conf', app')
  <2>1. SoundIn(mem, admins', conf', app')
    BY DEF ProvInv, Sound
  <2>. QED
    BY <2>1, Carries
<1>2. SoundIn(file', admins', conf', app')
  BY <1>1 DEF ProvInv, Sound
<1>3. StoredByFile'
  <2>. SUFFICES ASSUME ~lost, NEW d \in Dbs, NEW e \in Entry, conf[d][e].key # 0
       PROVE  /\ d = file'.url.db /\ file'.secret["key"] # 0 /\ file'.secret[e] # 0
              /\ conf[d][e] = [key |-> file'.secret["key"], val |-> file'.secret[e]]
    BY DEF StoredByFile
  <2>1. /\ d = file.url.db /\ file.secret["key"] # 0 /\ file.secret[e] # 0
        /\ conf[d][e] = [key |-> file.secret["key"], val |-> file.secret[e]]
    BY DEF ProvInv, StoredByFile
  <2>2. file.url # NoUrl
    BY <2>1, Names DEF NoUrl
  <2>3. file'.url = file.url /\ file'.secret["key"] = file.secret["key"] /\ file'.secret[e] = file.secret[e]
    <3>1. mem.url = file.url /\ mem.secret["key"] = file.secret["key"] /\ mem.secret[e] = file.secret[e]
      BY <2>1, <2>2 DEF Extends, Secret, Entry
    <3>2. mem'.url = mem.url /\ mem'.secret["key"] = mem.secret["key"] /\ mem'.secret[e] = mem.secret[e]
      BY <2>1, <2>2, <3>1 DEF Secret, Entry
    <3>. QED
      BY <3>1, <3>2
  <2>. QED
    BY <2>1, <2>3
<1>. QED
  BY <1>1, <1>2, <1>3 DEF Sound

\* What a step of a run does that only the states record.
Goes ==
  /\ mem' \in State /\ mem'.user = mem.user /\ mem'.deployed = mem.deployed
  /\ mem.place # 0 => mem'.place = mem.place
  /\ mem.url # NoUrl => mem'.url = mem.url
  /\ \A z \in Secret : mem.secret[z] # 0 => mem'.secret[z] = mem.secret[z]
  /\ mem'.provider = "none" => mem'.place = 0
  /\ Extends /\ (file' = file \/ file' = mem') /\ UNCHANGED <<admins, conf, app, lost>>

\* Every step of a run that only the states record keeps the invariant.
LEMMA WizardStep ==
  ASSUME ProvInv, NEW p \in {"vps", "do", "hetzner"}, NEW s \in Secret,
         Image \/ Choose(p) \/ RegisterKey \/ CreateServer \/ Chosen \/ Connect \/ SetUp \/ HasDatabase \/ DatabaseCreated \/ Verify \/ Generate(s) \/ Configured \/ KeepDeployed \/ DeploySaved \/ AdminSaved \/ KeepAdmin \/ CreateDatabase
  PROVE ProvInv' /\ Goes
<1>. USE ProvisioningAssumption, Names DEF cloud, database, deployment, history, SaveAnd, Goes
<1>a. mem \in State /\ file \in State /\ (mem.provider = "none" => mem.place = 0) /\ (pc # "off" => Extends)
  BY DEF ProvInv, Sound, SoundIn, Reached
<1>b. Goes => Sound' /\ StoredByFile'
  BY Onwards
<1>1. CASE Image
  <2>1. Goes
    BY <1>a, <1>1 DEF Image, State, Secret, ProvInv, ProvTypes, Reached
  <2>2. Sound' /\ StoredByFile'
    BY <2>1, <1>b
  <2>3. ProvTypes'
    BY <1>1, <2>1, <1>a DEF Image, ProvInv, ProvTypes, Reached, State, Secret
  <2>4. Reached'
    <3>1. pc = "image" /\ pc' = "provider" /\ UNCHANGED runs
      BY <1>1 DEF Image
    <3>2. mem' = file'
      <4>1. CASE file' = mem'
        BY <4>1
      <4>2. CASE mem.image /\ UNCHANGED file
        <5>1. mem = file
          BY <4>2, <3>1 DEF ProvInv, Reached, Blank
        <5>2. mem' = mem
          BY <1>a, <1>1, <4>2 DEF Image, State
        <5>. QED
          BY <4>2, <5>1, <5>2
      <4>. QED
        BY <1>1, <4>1, <4>2 DEF Image
    <3>. QED
      BY <3>1, <3>2 DEF ProvInv, Reached, Extends, State, Secret, AfterPlace, AfterUrl, AfterSecrets, AtSave
  <2>5. StoredSoFar'
    BY <1>1, <1>a DEF Image, ProvInv, StoredSoFar, Entry, State, Secret
  <2>. QED
    BY <2>1, <2>2, <2>3, <2>4, <2>5 DEF ProvInv
<1>2. CASE Choose(p)
  <2>1. Goes
    <3>1. CASE p # "hetzner" /\ ~Settled(p)
      <4>1. mem.place = 0 /\ mem' = [mem EXCEPT !.provider = p, !.place = Own]
        BY <1>a, <1>2, <3>1 DEF Choose, Settled
      <4>. QED
        BY <1>a, <1>2, <4>1 DEF Choose, State
    <3>2. CASE ~(p # "hetzner" /\ ~Settled(p))
      <4>1. mem' = [mem EXCEPT !.provider = p, !.place = mem.place]
        BY <1>2, <3>2 DEF Choose
      <4>2. mem' \in State /\ mem'.provider # "none" /\ mem'.place = mem.place /\ mem'.user = mem.user
            /\ mem'.deployed = mem.deployed /\ mem'.url = mem.url /\ mem'.secret = mem.secret
        BY <1>a, <4>1 DEF State
      <4>. QED
        BY <1>a, <1>2, <4>2 DEF Choose
    <3>. QED
      BY <3>1, <3>2
  <2>2. Sound' /\ StoredByFile'
    BY <2>1, <1>b
  <2>3. ProvTypes'
    BY <1>2, <2>1, <1>a DEF Choose, ProvInv, ProvTypes, Reached, State, Secret
  <2>4. Reached'
    <3>1. CASE p = "hetzner" /\ ~Settled(p)
      <4>1. pc' = "ssh key" /\ mem' = [mem EXCEPT !.provider = p]
        BY <1>2, <1>a, <3>1 DEF Choose, State
      <4>2. mem.place = 0
        BY <1>2, <1>a, <3>1 DEF Choose, Settled
      <4>. QED
        BY <1>2, <1>a, <3>1, <4>1, <4>2 DEF Choose, ProvInv, Reached, Extends, State, Secret, AfterPlace, AfterUrl, AfterSecrets, AtSave
    <3>2. CASE p = "hetzner" /\ Settled(p)
      <4>1. mem' = mem /\ mem.place # 0
        BY <1>2, <1>a, <3>2, ZenonT(25) DEF Choose, Settled, State
      <4>2. UNCHANGED <<file, runs>> /\ pc = "provider" /\ pc' = "chosen"
        BY <1>2, <3>2 DEF Choose
      <4>. QED
        BY <4>1, <4>2 DEF ProvInv, Reached, Extends, AfterPlace, AfterUrl, AfterSecrets, AtSave
    <3>3. CASE p # "hetzner"
      <4>1. mem' \in State /\ mem'.place # 0 /\ (mem.place # 0 => mem'.place = mem.place)
        BY <1>2, <1>a, <3>3 DEF Choose, Settled, State
      <4>. QED
        BY <1>2, <1>a, <3>3, <4>1 DEF Choose, ProvInv, Reached, Extends, State, Secret, AfterPlace, AfterUrl, AfterSecrets, AtSave
    <3>. QED
      BY <3>1, <3>2, <3>3
  <2>5. StoredSoFar'
    BY <1>2, <1>a DEF Choose, ProvInv, StoredSoFar, Entry, State, Secret
  <2>. QED
    BY <2>1, <2>2, <2>3, <2>4, <2>5 DEF ProvInv
<1>3. CASE RegisterKey
  <2>1. Goes
    BY <1>a, <1>3 DEF RegisterKey, State, Secret, ProvInv, ProvTypes, Reached
  <2>2. Sound' /\ StoredByFile'
    BY <2>1, <1>b
  <2>3. ProvTypes'
    BY <1>3, <2>1, <1>a DEF RegisterKey, ProvInv, ProvTypes, Reached, State, Secret
  <2>4. Reached'
    BY <1>3, <1>a, <2>1, ZenonT(25) DEF RegisterKey, ProvInv, Reached, Extends, State, Secret, AfterPlace, AfterUrl, AfterSecrets, AtSave
  <2>5. StoredSoFar'
    BY <1>3, <1>a DEF RegisterKey, ProvInv, StoredSoFar, Entry, State, Secret
  <2>. QED
    BY <2>1, <2>2, <2>3, <2>4, <2>5 DEF ProvInv
<1>4. CASE CreateServer
  <2>1. Goes
    BY <1>a, <1>4 DEF CreateServer, State, Secret, ProvInv, ProvTypes, Reached
  <2>2. Sound' /\ StoredByFile'
    BY <2>1, <1>b
  <2>3. ProvTypes'
    BY <1>4, <2>1, <1>a DEF CreateServer, ProvInv, ProvTypes, Reached, State, Secret
  <2>4. Reached'
    BY <1>4, <1>a, <2>1, ZenonT(25) DEF CreateServer, ProvInv, Reached, Extends, State, Secret, AfterPlace, AfterUrl, AfterSecrets, AtSave
  <2>5. StoredSoFar'
    BY <1>4, <1>a DEF CreateServer, ProvInv, StoredSoFar, Entry, State, Secret
  <2>. QED
    BY <2>1, <2>2, <2>3, <2>4, <2>5 DEF ProvInv
<1>5. CASE Chosen
  <2>1. Goes
    BY <1>a, <1>5, ZenonT(25) DEF Chosen, State, Secret, ProvInv, ProvTypes, Reached
  <2>2. Sound' /\ StoredByFile'
    BY <2>1, <1>b
  <2>3. ProvTypes'
    BY <1>5, <2>1, <1>a DEF Chosen, ProvInv, ProvTypes, Reached, State, Secret
  <2>4. Reached'
    BY <1>5, <1>a, <2>1 DEF Chosen, ProvInv, Reached, Extends, State, Secret, AfterPlace, AfterUrl, AfterSecrets, AtSave
  <2>5. StoredSoFar'
    BY <1>5, <1>a DEF Chosen, ProvInv, StoredSoFar, Entry, State, Secret
  <2>. QED
    BY <2>1, <2>2, <2>3, <2>4, <2>5 DEF ProvInv
<1>6. CASE Connect
  <2>1. Goes
    <3>1. CASE mem.conn
      BY <1>6, <3>1, <1>a DEF Connect
    <3>2. CASE ~mem.conn
      <4>1. mem' = [mem EXCEPT !.conn = TRUE] /\ file' = mem' /\ pc = "connect"
            /\ UNCHANGED <<admins, conf, app, lost>>
        BY <1>6, <3>2 DEF Connect
      <4>2. /\ mem' \in State /\ mem'.user = mem.user /\ mem'.deployed = mem.deployed /\ mem'.url = mem.url
            /\ mem'.secret = mem.secret /\ mem'.provider = mem.provider /\ mem'.place = mem.place
        BY <4>1, <1>a DEF State
      <4>. QED
        BY <4>1, <4>2, <1>a
    <3>. QED
      BY <3>1, <3>2
  <2>2. Sound' /\ StoredByFile'
    BY <2>1, <1>b
  <2>3. ProvTypes'
    BY <1>6, <2>1, <1>a DEF Connect, ProvInv, ProvTypes, Reached, State, Secret
  <2>4. Reached'
    <3>1. CASE mem.conn
      <4>1. UNCHANGED <<mem, file, runs>> /\ pc = "connect" /\ pc' = "setup"
        BY <1>6, <3>1 DEF Connect
      <4>. QED
        BY <4>1 DEF ProvInv, Reached, Extends, AfterPlace, AfterUrl, AfterSecrets, AtSave
    <3>2. CASE ~mem.conn
      <4>1. mem' = [mem EXCEPT !.conn = TRUE] /\ file' = mem' /\ UNCHANGED runs
            /\ pc = "connect" /\ pc' = "setup"
        BY <1>6, <3>2 DEF Connect
      <4>2. mem'.url = mem.url /\ mem'.place = mem.place
        BY <4>1, <1>a DEF State
      <4>. QED
        BY <4>1, <4>2 DEF ProvInv, Reached, Extends, AfterPlace, AfterUrl, AfterSecrets, AtSave
    <3>. QED
      BY <3>1, <3>2
  <2>5. StoredSoFar'
    BY <1>6, <1>a DEF Connect, ProvInv, StoredSoFar, Entry, State, Secret
  <2>. QED
    BY <2>1, <2>2, <2>3, <2>4, <2>5 DEF ProvInv
<1>7. CASE SetUp
  <2>1. Goes
    <3>1. CASE mem.setup
      BY <1>7, <3>1, <1>a DEF SetUp
    <3>2. CASE ~mem.setup
      <4>1. mem' = [mem EXCEPT !.setup = TRUE] /\ file' = mem' /\ pc = "setup"
            /\ UNCHANGED <<admins, conf, app, lost>>
        BY <1>7, <3>2 DEF SetUp
      <4>2. /\ mem' \in State /\ mem'.user = mem.user /\ mem'.deployed = mem.deployed /\ mem'.url = mem.url
            /\ mem'.secret = mem.secret /\ mem'.provider = mem.provider /\ mem'.place = mem.place
        BY <4>1, <1>a DEF State
      <4>. QED
        BY <4>1, <4>2, <1>a
    <3>. QED
      BY <3>1, <3>2
  <2>2. Sound' /\ StoredByFile'
    BY <2>1, <1>b
  <2>3. ProvTypes'
    BY <1>7, <2>1, <1>a DEF SetUp, ProvInv, ProvTypes, Reached, State, Secret
  <2>4. Reached'
    <3>1. CASE mem.setup
      <4>1. UNCHANGED <<mem, file, runs>> /\ pc = "setup" /\ pc' = "database"
        BY <1>7, <3>1 DEF SetUp
      <4>. QED
        BY <4>1 DEF ProvInv, Reached, Extends, AfterPlace, AfterUrl, AfterSecrets, AtSave
    <3>2. CASE ~mem.setup
      <4>1. mem' = [mem EXCEPT !.setup = TRUE] /\ file' = mem' /\ UNCHANGED runs
            /\ pc = "setup" /\ pc' = "database"
        BY <1>7, <3>2 DEF SetUp
      <4>2. mem'.url = mem.url /\ mem'.place = mem.place
        BY <4>1, <1>a DEF State
      <4>. QED
        BY <4>1, <4>2 DEF ProvInv, Reached, Extends, AfterPlace, AfterUrl, AfterSecrets, AtSave
    <3>. QED
      BY <3>1, <3>2
  <2>5. StoredSoFar'
    BY <1>7, <1>a DEF SetUp, ProvInv, StoredSoFar, Entry, State, Secret
  <2>. QED
    BY <2>1, <2>2, <2>3, <2>4, <2>5 DEF ProvInv
<1>8. CASE HasDatabase
  <2>1. Goes
    BY <1>a, <1>8 DEF HasDatabase, State, Secret, ProvInv, ProvTypes, Reached
  <2>2. Sound' /\ StoredByFile'
    BY <2>1, <1>b
  <2>3. ProvTypes'
    BY <1>8, <2>1, <1>a DEF HasDatabase, ProvInv, ProvTypes, Reached, State, Secret
  <2>4. Reached'
    BY <1>8, <1>a, <2>1 DEF HasDatabase, ProvInv, Reached, Extends, State, Secret, AfterPlace, AfterUrl, AfterSecrets, AtSave
  <2>5. StoredSoFar'
    BY <1>8, <1>a DEF HasDatabase, ProvInv, StoredSoFar, Entry, State, Secret
  <2>. QED
    BY <2>1, <2>2, <2>3, <2>4, <2>5 DEF ProvInv
<1>9. CASE DatabaseCreated
  <2>1. Goes
    BY <1>a, <1>9, ZenonT(25) DEF DatabaseCreated, State, Secret, ProvInv, ProvTypes, Reached
  <2>2. Sound' /\ StoredByFile'
    BY <2>1, <1>b
  <2>3. ProvTypes'
    BY <1>9, <2>1, <1>a DEF DatabaseCreated, ProvInv, ProvTypes, Reached, State, Secret
  <2>4. Reached'
    BY <1>9, <1>a, <2>1 DEF DatabaseCreated, ProvInv, Reached, Extends, State, Secret, AfterPlace, AfterUrl, AfterSecrets, AtSave
  <2>5. StoredSoFar'
    BY <1>9, <1>a DEF DatabaseCreated, ProvInv, StoredSoFar, Entry, State, Secret
  <2>. QED
    BY <2>1, <2>2, <2>3, <2>4, <2>5 DEF ProvInv
<1>10. CASE Verify
  <2>1. Goes
    BY <1>a, <1>10, ZenonT(25) DEF Verify, State, Secret, ProvInv, ProvTypes, Reached
  <2>2. Sound' /\ StoredByFile'
    BY <2>1, <1>b
  <2>3. ProvTypes'
    BY <1>10, <2>1, <1>a DEF Verify, ProvInv, ProvTypes, Reached, State, Secret
  <2>4. Reached'
    BY <1>10, <1>a, <2>1 DEF Verify, ProvInv, Reached, Extends, State, Secret, AfterPlace, AfterUrl, AfterSecrets, AtSave
  <2>5. StoredSoFar'
    BY <1>10, <1>a DEF Verify, ProvInv, StoredSoFar, Entry, State, Secret
  <2>. QED
    BY <2>1, <2>2, <2>3, <2>4, <2>5 DEF ProvInv
<1>11. CASE Generate(s)
  <2>1. Goes
    <3>1. CASE mem.secret[s] # 0
      BY <1>11, <3>1, <1>a DEF Generate, Secret
    <3>2. CASE mem.secret[s] = 0
      <4>1. mem' = [mem EXCEPT !.secret[s] = runs] /\ runs \in 0..MaxRuns
        BY <1>11, <3>2 DEF Generate, ProvInv, ProvTypes
      <4>2. mem' \in State /\ mem'.secret = [mem.secret EXCEPT ![s] = runs] /\ mem'.provider = mem.provider
            /\ mem'.place = mem.place /\ mem'.url = mem.url /\ mem'.user = mem.user /\ mem'.deployed = mem.deployed
        BY <4>1, <1>a DEF State
      <4>. QED
        BY <1>11, <3>2, <4>2, <1>a DEF Generate, State, Secret
    <3>. QED
      BY <3>1, <3>2
  <2>2. Sound' /\ StoredByFile'
    BY <2>1, <1>b
  <2>3. ProvTypes'
    BY <1>11, <2>1, <1>a DEF Generate, ProvInv, ProvTypes, Reached, State, Secret
  <2>4. Reached'
    <3>1. CASE mem.secret[s] # 0
      <4>1. UNCHANGED <<mem, file, runs>> /\ pc = s /\ pc' = After(s)
        BY <1>11, <3>1 DEF Generate
      <4>. QED
        BY <3>1, <4>1 DEF After, ProvInv, Reached, Extends, Secret, AfterPlace, AfterUrl, AfterSecrets, AtSave
    <3>2. CASE mem.secret[s] = 0
      <4>1. mem' = [mem EXCEPT !.secret[s] = runs] /\ runs \in 1..MaxRuns /\ mem' \in State
        BY <1>11, <3>2, <2>1 DEF Generate, ProvInv, Reached, Secret
      <4>2. mem'.secret[s] # 0 /\ (\A z \in Secret : mem.secret[z] # 0 => mem'.secret[z] = mem.secret[z])
            /\ mem'.place = mem.place /\ mem'.url = mem.url /\ mem'.user = mem.user
        BY <4>1, <2>1, <1>a DEF State, Secret
      <4>. QED
        BY <1>11, <3>2, <4>1, <4>2, <1>a, ZenonT(25) DEF Generate, After, ProvInv, Reached, Extends, State, Secret, AfterPlace, AfterUrl, AfterSecrets, AtSave
    <3>. QED
      BY <3>1, <3>2
  <2>5. StoredSoFar'
    BY <1>11, <1>a DEF Generate, After, StoredSoFar, Entry, Secret
  <2>. QED
    BY <2>1, <2>2, <2>3, <2>4, <2>5 DEF ProvInv
<1>12. CASE Configured
  <2>1. Goes
    BY <1>a, <1>12, ZenonT(25) DEF Configured, State, Secret, ProvInv, ProvTypes, Reached
  <2>2. Sound' /\ StoredByFile'
    BY <2>1, <1>b
  <2>3. ProvTypes'
    BY <1>12, <2>1, <1>a DEF Configured, ProvInv, ProvTypes, Reached, State, Secret
  <2>4. Reached'
    BY <1>12, <1>a, <2>1 DEF Configured, ProvInv, Reached, Extends, State, Secret, AfterPlace, AfterUrl, AfterSecrets, AtSave
  <2>5. StoredSoFar'
    BY <1>12, <1>a DEF Configured, ProvInv, StoredSoFar, Entry, State, Secret
  <2>. QED
    BY <2>1, <2>2, <2>3, <2>4, <2>5 DEF ProvInv
<1>13. CASE KeepDeployed
  <2>1. Goes
    BY <1>a, <1>13 DEF KeepDeployed, State, Secret, ProvInv, ProvTypes, Reached
  <2>2. Sound' /\ StoredByFile'
    BY <2>1, <1>b
  <2>3. ProvTypes'
    BY <1>13, <2>1, <1>a DEF KeepDeployed, ProvInv, ProvTypes, Reached, State, Secret
  <2>4. Reached'
    BY <1>13, <1>a, <2>1 DEF KeepDeployed, ProvInv, Reached, Extends, State, Secret, AfterPlace, AfterUrl, AfterSecrets, AtSave
  <2>5. StoredSoFar'
    BY <1>13, <1>a DEF KeepDeployed, ProvInv, StoredSoFar, Entry, State, Secret
  <2>. QED
    BY <2>1, <2>2, <2>3, <2>4, <2>5 DEF ProvInv
<1>14. CASE DeploySaved
  <2>1. Goes
    BY <1>a, <1>14, ZenonT(25) DEF DeploySaved, State, Secret, ProvInv, ProvTypes, Reached
  <2>2. Sound' /\ StoredByFile'
    BY <2>1, <1>b
  <2>3. ProvTypes'
    BY <1>14, <2>1, <1>a DEF DeploySaved, ProvInv, ProvTypes, Reached, State, Secret
  <2>4. Reached'
    BY <1>14, <1>a, <2>1 DEF DeploySaved, ProvInv, Reached, Extends, State, Secret, AfterPlace, AfterUrl, AfterSecrets, AtSave
  <2>5. StoredSoFar'
    BY <1>14, <1>a DEF DeploySaved, ProvInv, StoredSoFar, Entry, State, Secret
  <2>. QED
    BY <2>1, <2>2, <2>3, <2>4, <2>5 DEF ProvInv
<1>15. CASE AdminSaved
  <2>1. Goes
    BY <1>a, <1>15, ZenonT(25) DEF AdminSaved, State, Secret, ProvInv, ProvTypes, Reached
  <2>2. Sound' /\ StoredByFile'
    BY <2>1, <1>b
  <2>3. ProvTypes'
    BY <1>15, <2>1, <1>a DEF AdminSaved, ProvInv, ProvTypes, Reached, State, Secret
  <2>4. Reached'
    BY <1>15, <1>a, <2>1 DEF AdminSaved, ProvInv, Reached, Extends, State, Secret, AfterPlace, AfterUrl, AfterSecrets, AtSave
  <2>5. StoredSoFar'
    BY <1>15, <1>a DEF AdminSaved, ProvInv, StoredSoFar, Entry, State, Secret
  <2>. QED
    BY <2>1, <2>2, <2>3, <2>4, <2>5 DEF ProvInv
<1>16. CASE KeepAdmin
  <2>1. Goes
    BY <1>a, <1>16, ZenonT(25) DEF KeepAdmin, State, Secret, ProvInv, ProvTypes, Reached
  <2>2. Sound' /\ StoredByFile'
    BY <2>1, <1>b
  <2>3. ProvTypes'
    BY <1>16, <2>1, <1>a DEF KeepAdmin, ProvInv, ProvTypes, Reached, State, Secret
  <2>4. Reached'
    BY <1>16, <1>a, <2>1 DEF KeepAdmin, ProvInv, Reached, Extends, State, Secret, AfterPlace, AfterUrl, AfterSecrets, AtSave
  <2>5. StoredSoFar'
    BY <1>16, <1>a DEF KeepAdmin, ProvInv, StoredSoFar, Entry, State, Secret
  <2>. QED
    BY <2>1, <2>2, <2>3, <2>4, <2>5 DEF ProvInv
<1>17. CASE CreateDatabase
  <2>1. Goes
    <3>1. mem.url = NoUrl /\ runs \in 1..MaxRuns /\ mem.place \in Places /\ pc = "database"
      BY <1>17, <1>a DEF CreateDatabase, ProvInv, Reached, AfterPlace, State
    <3>2. \E d \in Dbs, w \in Int : mem' = [mem EXCEPT !.url = [db |-> d, pw |-> w]]
      <4>1. CASE NewDatabase
        BY <4>1, <3>1, SMTT(20) DEF NewDatabase
      <4>2. CASE mem' = [mem EXCEPT !.url = [db |-> Ext, pw |-> pw[Ext]]]
        BY <4>2 DEF ProvInv, ProvTypes
      <4>. QED
        BY <1>17, <4>1, <4>2 DEF CreateDatabase
    <3>3. PICK d \in Dbs, w \in Int : mem' = [mem EXCEPT !.url = [db |-> d, pw |-> w]]
      BY <3>2
    <3>4. /\ mem' \in State /\ mem'.user = mem.user /\ mem'.deployed = mem.deployed
          /\ mem'.secret = mem.secret /\ mem'.provider = mem.provider /\ mem'.place = mem.place
      BY <3>3, <1>a DEF State
    <3>5. UNCHANGED <<file, admins, conf, app, lost>>
      BY <1>17 DEF CreateDatabase, NewDatabase
    <3>. QED
      BY <3>1, <3>4, <3>5, <1>a
  <2>2. Sound' /\ StoredByFile'
    BY <2>1, <1>b
  <2>3. ProvTypes'
    <3>1. mem.url = NoUrl /\ runs \in 1..MaxRuns /\ mem.place \in Places /\ pc = "database"
      BY <1>17, <1>a DEF CreateDatabase, ProvInv, Reached, AfterPlace, State
    <3>2. pw' \in [Dbs -> Int]
      <4>1. CASE NewDatabase
        BY <4>1, <3>1 DEF NewDatabase, ProvInv, ProvTypes
      <4>. QED
        BY <1>17, <4>1 DEF CreateDatabase, ProvInv, ProvTypes
    <3>. QED
      BY <1>17, <3>2 DEF CreateDatabase, ProvInv, ProvTypes
  <2>4. Reached'
    <3>1. mem.url = NoUrl /\ mem.place # 0 /\ pc = "database" /\ file.url = NoUrl /\ Extends
      BY <1>17, <1>a DEF CreateDatabase, ProvInv, Reached, AfterPlace, Extends
    <3>2. \E d \in Dbs : \E w : mem' = [mem EXCEPT !.url = [db |-> d, pw |-> w]]
      <4>1. CASE NewDatabase
        BY <4>1, <3>1, <1>a DEF NewDatabase, ProvInv, Reached, State
      <4>2. CASE mem' = [mem EXCEPT !.url = [db |-> Ext, pw |-> pw[Ext]]]
        BY <4>2
      <4>. QED
        BY <1>17, <4>1, <4>2 DEF CreateDatabase
    <3>3. mem'.url # NoUrl /\ mem'.place = mem.place /\ mem'.secret = mem.secret
      <4>0. PICK d \in Dbs : \E w : mem' = [mem EXCEPT !.url = [db |-> d, pw |-> w]]
        BY <3>2
      <4>1. PICK w : mem' = [mem EXCEPT !.url = [db |-> d, pw |-> w]]
        BY <4>0
      <4>2. mem'.url = [db |-> d, pw |-> w] /\ mem'.place = mem.place /\ mem'.secret = mem.secret
        BY <4>1, <1>a DEF State
      <4>. QED
        BY <4>2 DEF NoUrl
    <3>. QED
      BY <1>17, <3>1, <3>3, <1>a DEF CreateDatabase, ProvInv, Reached, Extends, State, Secret, AfterPlace, AfterUrl, AfterSecrets, AtSave
  <2>5. StoredSoFar'
    BY <1>17, <1>a DEF CreateDatabase, NewDatabase, ProvInv, StoredSoFar, Entry, State, Secret
  <2>. QED
    BY <2>1, <2>2, <2>3, <2>4, <2>5 DEF ProvInv
<1>. QED
  BY <1>1, <1>2, <1>3, <1>4, <1>5, <1>6, <1>7, <1>8, <1>9, <1>10, <1>11, <1>12, <1>13, <1>14, <1>15, <1>16, <1>17

LEMMA SetConfigStep == ASSUME ProvInv, NEW e \in Entry, SetConfig(e) PROVE ProvInv'
<1>. USE ProvisioningAssumption, Names DEF cloud, database, deployment, history
<1>. DEFINE stored == [key |-> mem.secret["key"], val |-> mem.secret[e]]
<1>1. /\ mem \in State /\ mem = file /\ mem.url # NoUrl /\ mem.url.db \in Dbs
      /\ mem.secret["key"] # 0 /\ \A z \in Entry : mem.secret[z] # 0
  BY DEF SetConfig, ProvInv, Sound, SoundIn, Reached, State, AfterPlace, AfterUrl, AfterSecrets, AtSave, Entry
<1>2. /\ conf' = [conf EXCEPT ![mem.url.db][e] = stored]
      /\ UNCHANGED <<file, mem, pc, runs, cloud, pw, admins, deployment, history>> /\ left' = left \ {e} /\ pc = "config"
  BY DEF SetConfig
<1>3. stored \in [key : 0..MaxRuns, val : 0..MaxRuns]
  BY <1>1 DEF State, Secret, Entry
<1>4. /\ conf'[mem.url.db][e] = stored
      /\ \A d \in Dbs, z \in Entry : d # mem.url.db \/ z # e => conf'[d][z] = conf[d][z]
  <2>. HIDE DEF stored
  <2>. QED
    BY <1>1, <1>2 DEF ProvInv, ProvTypes
<1>5. ProvTypes'
  <2>. HIDE DEF stored
  <2>. QED
    BY <1>1, <1>2, <1>3 DEF ProvInv, ProvTypes
<1>6. Sound'
  <2>1. mem.deployed => Fits(mem, conf', app)
    BY <1>1, <1>4 DEF ProvInv, Sound, SoundIn, Fits
  <2>. QED
    BY <1>1, <1>2, <2>1 DEF ProvInv, Sound, SoundIn
<1>7. Reached'
  BY <1>2 DEF ProvInv, Reached, Extends
<1>8. StoredSoFar'
  BY <1>1, <1>2, <1>4 DEF ProvInv, StoredSoFar
<1>9. StoredByFile'
  <2>. SUFFICES ASSUME ~lost, NEW d \in Dbs, NEW z \in Entry, conf'[d][z].key # 0
       PROVE  /\ d = file.url.db /\ file.secret["key"] # 0 /\ file.secret[z] # 0
              /\ conf'[d][z] = [key |-> file.secret["key"], val |-> file.secret[z]]
    BY <1>2 DEF StoredByFile
  <2>1. CASE d = mem.url.db /\ z = e
    BY <2>1, <1>1, <1>4
  <2>2. CASE d # mem.url.db \/ z # e
    BY <2>2, <1>4 DEF ProvInv, StoredByFile
  <2>. QED
    BY <2>1, <2>2
<1>. QED
  BY <1>5, <1>6, <1>7, <1>8, <1>9 DEF ProvInv

LEMMA DeployStep == ASSUME ProvInv, Deploy PROVE ProvInv'
<1>. USE ProvisioningAssumption, Names DEF cloud, database, deployment, history
<1>1. /\ mem \in State /\ mem = file /\ mem.url # NoUrl /\ mem.place # 0 /\ \A z \in Secret : mem.secret[z] # 0
      /\ \A z \in Entry : conf[mem.url.db][z] = [key |-> mem.secret["key"], val |-> mem.secret[z]]
  BY DEF Deploy, ProvInv, Sound, SoundIn, Reached, State, AfterPlace, AfterUrl, AfterSecrets, AtSave, StoredSoFar, Secret
<1>2. /\ mem' = [mem EXCEPT !.deployed = TRUE, !.app = mem.provider = "do"]
      /\ pc = "deploy" /\ pc' = "deployed" /\ UNCHANGED <<file, runs, left, cloud, database, history>>
      /\ app'.key = mem.secret["key"] /\ app'.salt = mem.secret["salt"]
  BY DEF Deploy, Deployed
<1>3. /\ mem' \in State /\ mem'.url = mem.url /\ mem'.secret = mem.secret /\ mem'.place = mem.place
      /\ mem'.user = mem.user /\ mem'.provider = mem.provider
  <2>1. PICK platform \in BOOLEAN : mem' = [mem EXCEPT !.deployed = TRUE, !.app = platform]
    BY <1>2, Zenon
  <2>. QED
    BY <1>1, <2>1 DEF State
<1>4. ProvTypes'
  BY <1>2 DEF ProvInv, ProvTypes
<1>5. Sound'
  <2>1. Fits(mem', conf, app') /\ Fits(file, conf, app')
    BY <1>1, <1>2, <1>3 DEF Fits
  <2>. QED
    BY <1>2, <1>3, <2>1 DEF ProvInv, Sound, SoundIn
<1>6. Reached'
  BY <1>1, <1>2, <1>3 DEF ProvInv, Reached, Extends, AfterPlace, AfterUrl, AfterSecrets, AtSave, Secret
<1>7. StoredSoFar' /\ StoredByFile'
  BY <1>2 DEF ProvInv, StoredSoFar, StoredByFile
<1>. QED
  BY <1>4, <1>5, <1>6, <1>7 DEF ProvInv

LEMMA CreateAdminStep == ASSUME ProvInv, CreateAdmin PROVE ProvInv'
<1>. USE ProvisioningAssumption, Names DEF cloud, database, deployment, history
<1>1. /\ mem \in State /\ mem = file /\ mem.url # NoUrl /\ mem.url.db \in Dbs /\ mem.place # 0
      /\ \A z \in Secret : mem.secret[z] # 0
      /\ runs \in 1..MaxRuns /\ mem.user = 0
  BY DEF CreateAdmin, ProvInv, Sound, SoundIn, Reached, State, AfterPlace, AfterUrl, AfterSecrets, AtSave, Secret
<1>2. /\ mem' = [mem EXCEPT !.user = runs] /\ admins' = [admins EXCEPT ![mem.url.db] = runs]
      /\ pc = "admin" /\ pc' = "created admin"
      /\ UNCHANGED <<file, runs, left, cloud, pw, conf, deployment, history>>
  BY DEF CreateAdmin
<1>3. /\ mem' \in State /\ mem'.url = mem.url /\ mem'.secret = mem.secret /\ mem'.place = mem.place
      /\ mem'.user = runs /\ mem'.provider = mem.provider /\ mem'.deployed = mem.deployed
  <2>1. runs \in 0..MaxRuns
    BY <1>1
  <2>2. mem' = [mem EXCEPT !.user = runs]
    BY <1>2
  <2>. QED
    BY <1>1, <2>1, <2>2 DEF State
<1>4. ProvTypes'
  BY <1>1, <1>2 DEF ProvInv, ProvTypes
<1>5. Sound'
  <2>1. mem.deployed => Fits(mem', conf, app)
    BY <1>3 DEF ProvInv, Sound, SoundIn, Fits
  <2>2. admins'[mem.url.db] = runs
    BY <1>1, <1>2 DEF ProvInv, ProvTypes
  <2>3. SoundIn(mem', admins', conf, app)
    BY <1>1, <1>3, <2>1, <2>2 DEF ProvInv, Sound, SoundIn
  <2>4. SoundIn(file, admins', conf, app)
    BY <1>1 DEF ProvInv, Sound, SoundIn
  <2>. QED
    BY <1>2, <2>3, <2>4 DEF Sound
<1>6. Reached'
  BY <1>1, <1>2, <1>3 DEF ProvInv, Reached, Extends, AfterPlace, AfterUrl, AfterSecrets, AtSave, Secret
<1>7. StoredSoFar' /\ StoredByFile'
  BY <1>2 DEF ProvInv, StoredSoFar, StoredByFile
<1>. QED
  BY <1>4, <1>5, <1>6, <1>7 DEF ProvInv

LEMMA BeginStep == ASSUME ProvInv, NEW resume \in BOOLEAN, Begin(resume) PROVE ProvInv'
<1>. USE ProvisioningAssumption, Names DEF cloud, database, deployment, history
<1>1. /\ pc = "off" /\ pc' = "image" /\ runs' = runs + 1 /\ runs < MaxRuns
      /\ (mem' = file /\ file' = file) \/ (mem' = Blank /\ file' = NoFile)
      /\ UNCHANGED <<left, cloud, database, deployment, cut>>
  <2>1. CASE file # NoFile /\ resume
    BY <2>1 DEF Begin
  <2>2. CASE ~resume
    BY <2>2 DEF Begin
  <2>3. CASE file = NoFile /\ resume
    BY <2>3 DEF Begin
  <2>. QED
    BY <2>1, <2>2, <2>3
<1>2. ProvTypes'
  <2>1. runs' \in 0..MaxRuns
    BY <1>1 DEF ProvInv, ProvTypes
  <2>2. UNCHANGED <<left, servers, cloudKey, pw, admins, conf>>
    BY <1>1
  <2>. QED
    BY <2>1, <2>2 DEF ProvInv, ProvTypes
<1>3. Sound'
  <2>1. SoundIn(Blank, admins, conf, app) /\ SoundIn(NoFile, admins, conf, app)
    BY StateOfBlank DEF SoundIn, Blank, NoFile
  <2>. QED
    BY <1>1, <2>1 DEF ProvInv, Sound
<1>4. Reached'
  <2>1. Extends'
    BY <1>1 DEF Extends, Blank, NoFile, Secret
  <2>2. runs' \in 1..MaxRuns
    BY <1>1 DEF ProvInv, ProvTypes
  <2>. QED
    BY <1>1, <2>1, <2>2 DEF Reached, AfterPlace, AfterUrl, AfterSecrets, AtSave
<1>5. StoredSoFar'
  BY <1>1 DEF StoredSoFar
<1>6. StoredByFile'
  <2>1. CASE file' = file
    <3>1. ~lost' => ~lost
      BY DEF Begin
    <3>. QED
      BY <1>1, <2>1, <3>1 DEF ProvInv, StoredByFile
  <2>2. CASE file' # file
    <3>1. ~lost' => ~lost /\ file = NoFile
      BY <2>2 DEF Begin
    <3>. QED
      BY <2>2, <3>1 DEF Begin, StoredByFile
  <2>. QED
    BY <2>1, <2>2
<1>. QED
  BY <1>2, <1>3, <1>4, <1>5, <1>6 DEF ProvInv

LEMMA StopStep == ASSUME ProvInv, Stop PROVE ProvInv'
<1>. USE Names DEF cloud, database, deployment, history
<1>1. /\ pc' = "off" /\ mem' = Blank /\ left' = {}
      /\ UNCHANGED <<runs, cloud, database, deployment>>
      /\ UNCHANGED <<file, lost>> \/ (file' = TornFile /\ lost' = TRUE)
  BY DEF Stop
<1>2. ProvTypes' /\ StoredSoFar' /\ StoredByFile'
  BY <1>1 DEF ProvInv, ProvTypes, StoredSoFar, StoredByFile
<1>3. Sound'
  <2>1. SoundIn(Blank, admins, conf, app) /\ SoundIn(TornFile, admins, conf, app)
    BY StateOfBlank DEF SoundIn, Blank, TornFile
  <2>. QED
    BY <1>1, <2>1 DEF ProvInv, Sound
<1>4. Reached'
  BY <1>1 DEF Reached, AfterPlace, AfterUrl, AfterSecrets, AtSave
<1>. QED
  BY <1>2, <1>3, <1>4 DEF ProvInv

LEMMA RemoveTornStep == ASSUME ProvInv, RemoveTorn PROVE ProvInv'
<1>. USE Names DEF cloud, database, deployment, history
<1>1. /\ pc = "off" /\ file = TornFile /\ file' = NoFile
      /\ UNCHANGED <<mem, pc, runs, left, cloud, database, deployment, history>>
  BY DEF RemoveTorn
<1>2. ProvTypes' /\ StoredSoFar' /\ Reached'
  BY <1>1 DEF ProvInv, ProvTypes, StoredSoFar, Reached, AfterPlace, AfterUrl, AfterSecrets, AtSave
<1>3. Sound'
  <2>1. SoundIn(NoFile, admins, conf, app)
    BY StateOfBlank DEF SoundIn, Blank, NoFile
  <2>. QED
    BY <1>1, <2>1 DEF ProvInv, Sound
<1>4. StoredByFile'
  <2>1. file.url = file'.url /\ file.secret = file'.secret
    BY <1>1 DEF NoFile, TornFile, Blank
  <2>. QED
    BY <1>1, <2>1 DEF ProvInv, StoredByFile
<1>. QED
  BY <1>2, <1>3, <1>4 DEF ProvInv

LEMMA UpdateStep == ASSUME ProvInv, Update PROVE ProvInv'
<1>. USE DEF cloud, database, deployment, history
<1>1. /\ UNCHANGED <<file, mem, pc, runs, left, cloud, database, history>>
      /\ app'.key = file.secret["key"] /\ app'.salt = file.secret["salt"] /\ pc = "off"
  BY DEF Update, Deployed
<1>2. ProvTypes' /\ StoredSoFar' /\ StoredByFile' /\ Reached'
  BY <1>1 DEF ProvInv, ProvTypes, StoredSoFar, StoredByFile, Reached, Extends
<1>3. Sound'
  <2>1. ~mem.deployed
    BY <1>1 DEF ProvInv, Reached, Blank
  <2>2. file.deployed => Fits(file, conf, app')
    BY <1>1 DEF ProvInv, Sound, SoundIn, Fits
  <2>. QED
    BY <1>1, <2>1, <2>2 DEF ProvInv, Sound, SoundIn
<1>. QED
  BY <1>2, <1>3 DEF ProvInv

LEMMA ProvStep == ASSUME ProvInv, [ProvNext]_provVars PROVE ProvInv'
<1>1. CASE UNCHANGED provVars
  <2>1. ProvTypes' /\ Sound'
    BY <1>1 DEF provVars, ProvInv, ProvTypes, Sound
  <2>2. Reached'
    BY <1>1 DEF provVars, ProvInv, Reached, Extends
  <2>3. StoredSoFar' /\ StoredByFile'
    BY <1>1 DEF provVars, ProvInv, StoredSoFar, StoredByFile
  <2>. QED
    BY <2>1, <2>2, <2>3 DEF ProvInv
<1>2. ASSUME NEW p \in {"vps", "do", "hetzner"}, Choose(p) PROVE ProvInv'
  <2>1. "key" \in Secret
    BY DEF Secret
  <2>. QED
    BY <1>2, <2>1, WizardStep
<1>3. ASSUME NEW s \in Secret, Generate(s) PROVE ProvInv'
  BY <1>3, WizardStep
<1>4. CASE Image \/ RegisterKey \/ CreateServer \/ Chosen \/ Connect \/ SetUp \/ HasDatabase \/ CreateDatabase
        \/ DatabaseCreated \/ Verify \/ Configured \/ KeepDeployed \/ DeploySaved \/ AdminSaved \/ KeepAdmin
  <2>1. "key" \in Secret
    BY DEF Secret
  <2>. QED
    BY <1>4, <2>1, WizardStep
<1>. QED
  BY <1>1, <1>2, <1>3, <1>4, SetConfigStep, DeployStep, CreateAdminStep, BeginStep, StopStep, RemoveTornStep, UpdateStep
     DEF ProvNext, Wizard

\* What was known stays known or is written off as cut short.
Remembered == Known(file) \cup Known(mem) \cup cut
Made == ({"server"} \X (1..MaxRuns)) \cup ({"database"} \X Dbs)

LEMMA RunForgetsNothing ==
  ASSUME ProvInv, Extends, mem.place # 0 => mem'.place = mem.place, mem.url # NoUrl => mem'.url = mem.url,
         file' = file \/ file' = mem', UNCHANGED cut, NEW x \in Made, x \in Remembered
  PROVE  x \in Remembered'
<1>. USE Names DEF Known, Remembered, Made, NoUrl
<1>1. CASE x \in cut
  BY <1>1
<1>2. ASSUME x \in {<<"server", mem.place>>, <<"database", mem.url.db>>} PROVE x \in Known(mem')
  BY <1>2
<1>3. CASE x \in Known(mem)
  BY <1>2, <1>3
<1>4. CASE x \in Known(file)
  <2>1. x \in Known(mem)
    BY <1>4 DEF Extends
  <2>. QED
    BY <1>2, <2>1
<1>. QED
  BY <1>1, <1>3, <1>4

LEMMA NothingForgotten ==
  ASSUME ProvInv, [ProvNext]_provVars, ~lost', NEW x \in Made, x \in Remembered
  PROVE  x \in Remembered'
<1>. USE DEF cloud, database, deployment, history
<1>1. CASE UNCHANGED provVars
  BY <1>1 DEF provVars, Remembered, Known
<1>2. ASSUME NEW resume \in BOOLEAN, Begin(resume) PROVE x \in Remembered'
  <2>1. mem = Blank /\ UNCHANGED <<cut, file>>
    BY <1>2 DEF Begin, ProvInv, Reached
  <2>2. x \notin Known(Blank)
    BY Names DEF Known, Made, Blank, NoUrl
  <2>. QED
    BY <2>1, <2>2 DEF Remembered
<1>3. CASE Stop
  <2>1. UNCHANGED file /\ cut' = cut \cup (Known(mem) \ Known(file))
    BY <1>3 DEF Stop
  <2>. QED
    BY <2>1 DEF Remembered, Known
<1>8. CASE RemoveTorn
  <2>1. Known(file) = Known(file') /\ UNCHANGED <<mem, cut>>
    BY <1>8 DEF RemoveTorn, Known, TornFile, NoFile, Blank
  <2>. QED
    BY <2>1 DEF Remembered, Known
<1>4. CASE Update
  BY <1>4 DEF Update, Deployed, Remembered, Known
<1>5. CASE (\E e \in Entry : SetConfig(e)) \/ Deploy \/ CreateAdmin
  <2>1. Extends /\ mem \in State /\ UNCHANGED <<file, cut>>
    BY <1>5 DEF SetConfig, Deploy, Deployed, CreateAdmin, ProvInv, Reached, Sound, SoundIn
  <2>2. mem'.place = mem.place /\ mem'.url = mem.url
    BY <1>5, <2>1 DEF SetConfig, Deploy, CreateAdmin, State
  <2>. QED
    BY <2>1, <2>2, RunForgetsNothing
<1>6. ASSUME NEW p \in {"vps", "do", "hetzner"}, NEW s \in Secret,
             Image \/ Choose(p) \/ RegisterKey \/ CreateServer \/ Chosen \/ Connect \/ SetUp \/ HasDatabase
             \/ CreateDatabase \/ DatabaseCreated \/ Verify \/ Generate(s) \/ Configured \/ KeepDeployed
             \/ DeploySaved \/ AdminSaved \/ KeepAdmin
      PROVE  x \in Remembered'
  <2>1. Goes
    BY <1>6, WizardStep
  <2>2. UNCHANGED cut
    BY <1>6 DEF Image, Choose, RegisterKey, CreateServer, Chosen, Connect, SetUp, HasDatabase, CreateDatabase,
       NewDatabase, DatabaseCreated, Verify, Generate, Configured, KeepDeployed, DeploySaved, AdminSaved, KeepAdmin
  <2>. QED
    BY <2>1, <2>2, RunForgetsNothing DEF Goes
<1>7. "key" \in Secret /\ "vps" \in {"vps", "do", "hetzner"}
  BY DEF Secret
<1>. QED
  BY <1>1, <1>2, <1>3, <1>4, <1>5, <1>6, <1>7, <1>8 DEF ProvNext, Wizard

\* What is made is known to the run that made it.
LEMMA MadeIsKnown ==
  ASSUME ProvInv, [ProvNext]_provVars
  PROVE  /\ \A n \in 1..MaxRuns : servers'[n] # 0 => servers[n] # 0 \/ <<"server", n>> \in Known(mem')
         /\ \A d \in Dbs : pw'[d] # 0 => pw[d] # 0 \/ <<"database", d>> \in Known(mem')
         /\ (apps > 1 => missed) => (apps' > 1 => missed')
<1>. USE DEF cloud, database, deployment, history
<1>1. CASE CreateServer
  BY <1>1 DEF CreateServer, Known, ProvInv, ProvTypes, Sound, SoundIn, State
<1>2. CASE CreateDatabase
  <2>1. mem \in State /\ UNCHANGED <<servers, apps, missed>>
    BY <1>2 DEF CreateDatabase, NewDatabase, ProvInv, Sound, SoundIn
  <2>2. ASSUME NEW d \in Dbs, pw'[d] # pw[d] PROVE mem'.url.db = d
    <3>1. CASE NewDatabase
      <4>1. PICK at : pw' = [pw EXCEPT ![at] = IF @ = 0 THEN runs ELSE @] /\ mem' = [mem EXCEPT !.url = [db |-> at, pw |-> runs]]
        BY <3>1 DEF NewDatabase
      <4>2. d = at /\ mem'.url = [db |-> at, pw |-> runs]
        BY <2>1, <2>2, <4>1 DEF ProvInv, ProvTypes, State
      <4>. QED
        BY <4>2
    <3>2. CASE UNCHANGED pw
      BY <3>2, <2>2
    <3>. QED
      BY <1>2, <3>1, <3>2 DEF CreateDatabase
  <2>. QED
    BY <2>1, <2>2 DEF Known
<1>3. CASE Deploy \/ Update
  BY <1>3 DEF Deploy, Update, Deployed
<1>4. CASE UNCHANGED <<servers, pw, apps, missed>>
  BY <1>4
<1>5. ProvNext /\ ~CreateServer /\ ~CreateDatabase /\ ~Deploy /\ ~Update => UNCHANGED <<servers, pw, apps, missed>>
  BY DEF ProvNext, Wizard, Begin, Stop, RemoveTorn, Image, Choose, RegisterKey, Chosen, Connect, SetUp, HasDatabase,
     DatabaseCreated, Verify, Generate, SetConfig, Configured, KeepDeployed, DeploySaved, CreateAdmin, AdminSaved, KeepAdmin
<1>. QED
  BY <1>1, <1>2, <1>3, <1>4, <1>5 DEF provVars

\* The credentials shown at the end are those of the user there is (provision.go:389-403).
THEOREM CredentialsAreGood == ProvSpec => []AdminCanLogIn
<1>1. ProvInv => AdminCanLogIn
  BY DEF ProvInv, Sound, SoundIn, Reached, AdminCanLogIn
<1>. QED
  BY <1>1, ProvInit0, ProvStep, PTL DEF ProvSpec

\* While no state is given up and no save is cut in the middle, every entry stored, in whatever
\* database, uses the key and the value the file has, wherever else a run ended
\* (provision.go:258-351); and whatever was given up or torn, an app the file calls deployed
\* can read its entries.
THEOREM SecretsCanBeRead == ProvSpec => []SecretsOutlive
<1>1. ProvInv => SecretsOutlive
  <2>. SUFFICES ASSUME ProvInv PROVE SecretsOutlive
    OBVIOUS
  <2>2. ~lost => \A d \in Dbs : \A e \in Entry : conf[d][e].key # 0 =>
          conf[d][e] = [key |-> file.secret.key, val |-> file.secret[e]]
    BY DEF ProvInv, StoredByFile
  <2>3. file.deployed => \A e \in Entry : Stored[e].key = app.key /\ Stored["salt"].val = app.salt
    BY DEF ProvInv, Sound, SoundIn, Fits, Stored, Entry
  <2>. QED
    BY <2>2, <2>3 DEF SecretsOutlive
<1>. QED
  BY <1>1, ProvInit0, ProvStep, PTL DEF ProvSpec

\* While no state is given up and no save is cut in the middle, a server or a database that the
\* file does not know was made by a run that ended before it had saved it, and a second app by a
\* listing that failed (provision.go:795, appplatform.go:137).
THEOREM LossesAreExplained == ProvSpec => []OnlyCutShortIsLost
<1>1. ProvInit => OnlyCutShortIsLost
  BY ProvisioningAssumption DEF ProvInit, OnlyCutShortIsLost
<1>2. ASSUME ProvInv, OnlyCutShortIsLost, [ProvNext]_provVars PROVE OnlyCutShortIsLost'
  <2>. SUFFICES ASSUME ~lost'
       PROVE  /\ \A n \in 1..MaxRuns : servers'[n] # 0 => <<"server", n>> \in Remembered'
              /\ \A d \in Dbs \ {Ext} : pw'[d] # 0 => <<"database", d>> \in Remembered'
              /\ apps' > 1 => missed'
    BY DEF OnlyCutShortIsLost, Remembered
  <2>1. ~lost
    BY <1>2 DEF ProvNext, Begin, Stop, RemoveTorn, Update, Wizard, provVars, Image, Choose, RegisterKey, CreateServer, Chosen,
       Connect, SetUp, HasDatabase, CreateDatabase, NewDatabase, DatabaseCreated, Verify, Generate, SetConfig, Configured,
       KeepDeployed, Deploy, DeploySaved, CreateAdmin, AdminSaved, KeepAdmin, history
  <2>2. \A x \in Made : x \in Remembered => x \in Remembered'
    BY <1>2, NothingForgotten
  <2>3. ASSUME NEW n \in 1..MaxRuns, servers'[n] # 0 PROVE <<"server", n>> \in Remembered'
    <3>1. <<"server", n>> \in Made
      BY DEF Made
    <3>. QED
      BY <1>2, <2>1, <2>2, <2>3, <3>1, MadeIsKnown DEF OnlyCutShortIsLost, Remembered
  <2>4. ASSUME NEW d \in Dbs \ {Ext}, pw'[d] # 0 PROVE <<"database", d>> \in Remembered'
    <3>1. <<"database", d>> \in Made
      BY DEF Made
    <3>. QED
      BY <1>2, <2>1, <2>2, <2>4, <3>1, MadeIsKnown DEF OnlyCutShortIsLost, Remembered
  <2>. QED
    BY <1>2, <2>1, <2>3, <2>4, MadeIsKnown DEF OnlyCutShortIsLost
<1>. QED
  BY <1>1, <1>2, ProvInit0, ProvStep, PTL DEF ProvSpec
-----------------------------------------------------------------------------
(* The limit on logins: how many checks are allowed from any time on is a  *)
(* sum over ages, and grows with the time looked back.                     *)

\* The sum over the ages below a time.
Below(f, time) == SumFunctionOnSet(f, {a \in Ages : a < time})

\* The checks allowed in the current window.
InWindow == Min({counter, Limit})

LimitTypes ==
  /\ counter \in 0..(Limit + 1) /\ start \in 0..Oldest
  /\ now \in [Request -> -1..MaxDelay] /\ allowed \in [Ages -> Nat] /\ denied \in BOOLEAN

\* Without a row nothing was allowed since.
NoneYet == counter = 0 => start = 0 /\ \A a \in Ages : allowed[a] = 0

\* All that the window has let through was allowed since it began.
SinceStart == start < Oldest => Below(allowed, start + 1) >= InWindow

\* A check runs MaxDelay after it has taken the time at most, so what was allowed later than
\* that after a window's start is the window's, and a window earlier that of two windows at most.
TwoWindows ==
  /\ Below(allowed, start - MaxDelay) <= InWindow
  /\ Below(allowed, start + Window - MaxDelay) <= Limit + InWindow

RefusedRightly == denied => Below(allowed, Window + MaxDelay) >= Limit

LimitInv == LimitTypes /\ NoneYet /\ SinceStart /\ TwoWindows /\ RefusedRightly

LEMMA MinOfTwo == ASSUME NEW a \in Int, NEW b \in Int PROVE Min({a, b}) = IF a <= b THEN a ELSE b
<1> DEFINE m == IF a <= b THEN a ELSE b
<1>1. m \in {a, b} /\ \A y \in {a, b} : m <= y OBVIOUS
<1>2. \A x \in {a, b} : (\A y \in {a, b} : x <= y) => x = m OBVIOUS
<1>3. Min({a, b}) = CHOOSE x \in {a, b} : \A y \in {a, b} : x <= y BY DEF Min
<1> HIDE DEF m
<1>4. QED BY <1>1, <1>2, <1>3

LEMMA AgesFinite == \A time : IsFiniteSet({a \in Ages : a < time})
<1>1. IsFiniteSet(Ages) BY FS_Interval, RateLimitAssumption DEF Ages
<1>2. QED BY <1>1, FS_Subset

LEMMA BelowNat ==
  ASSUME NEW f \in [Ages -> Nat], NEW time
  PROVE  Below(f, time) \in Nat
<1>1. \A a \in {b \in Ages : b < time} : f[a] \in Nat OBVIOUS
<1>2. QED BY <1>1, AgesFinite, SumNatural DEF Below

LEMMA BelowGrows ==
  ASSUME NEW f \in [Ages -> Nat], NEW s \in Int, NEW t \in Int, s <= t
  PROVE  Below(f, s) <= Below(f, t)
<1> DEFINE S == {a \in Ages : a < s}  T == {a \in Ages : a < t}
<1>1. S \in SUBSET T BY DEF Ages
<1>2. \A a \in T : f[a] \in Nat OBVIOUS
<1>3. IsFiniteSet(T) BY AgesFinite
<1> HIDE DEF S, T
<1>4. SumFunctionOnSet(f, S) <= SumFunctionOnSet(f, T) BY <1>1, <1>2, <1>3, SumGrows
<1>5. QED BY <1>4 DEF Below, S, T

\* A check that is allowed now counts from every time on.
LEMMA BelowCounts ==
  ASSUME NEW f \in [Ages -> Nat], NEW t \in Int
  PROVE  LET g == [f EXCEPT ![0] = @ + 1]
         IN  /\ g \in [Ages -> Nat]
             /\ Below(g, t) = IF t > 0 THEN Below(f, t) + 1 ELSE Below(f, t)
<1> DEFINE g == [f EXCEPT ![0] = @ + 1]  T == {a \in Ages : a < t}
<1>0. 0 \in Ages BY RateLimitAssumption DEF Ages
<1>1. g \in [Ages -> Nat] BY <1>0
<1>2. IsFiniteSet(T) BY AgesFinite
<1>3. CASE t > 0
  <2>1. 0 \in T BY <1>0, <1>3
  <2>2. g[0] = f[0] + 1 /\ f[0] \in Nat /\ \A x \in T : f[x] \in Int /\ (x # 0 => g[x] = f[x]) BY <1>0
  <2> HIDE DEF g, T
  <2>3. SumFunctionOnSet(g, T) = SumFunctionOnSet(f, T) + (g[0] - f[0]) BY <1>2, <2>1, <2>2, SumChanges
  <2>4. SumFunctionOnSet(f, T) \in Int BY <1>2, <2>2, SumType
  <2>5. SumFunctionOnSet(g, T) = SumFunctionOnSet(f, T) + 1 BY <2>2, <2>3, <2>4
  <2>6. QED BY <1>1, <1>3, <2>5 DEF Below, T, g
<1>4. CASE ~ (t > 0)
  <2>1. \A x \in T : f[x] \in Int /\ f[x] = g[x] BY <1>4 DEF Ages
  <2> HIDE DEF g, T
  <2>2. SumFunctionOnSet(g, T) = SumFunctionOnSet(f, T) BY <1>2, <2>1, SumSame
  <2>3. QED BY <1>1, <1>4, <2>2 DEF Below, T, g
<1>5. QED BY <1>3, <1>4

\* As time passes, what was allowed below a time is allowed below the next.
LEMMA BelowAges ==
  ASSUME NEW f \in [Ages -> Nat], NEW t \in Int
  PROVE  LET g == [a \in Ages |-> IF a = 0 THEN 0 ELSE f[a - 1]]
         IN  /\ g \in [Ages -> Nat]
             /\ t < Oldest => Below(g, t + 1) = Below(f, t)
             /\ Below(g, t + 1) <= Below(f, t)
<1> DEFINE g == [a \in Ages |-> IF a = 0 THEN 0 ELSE f[a - 1]]
           T == {a \in Ages : a < t + 1}  P == T \ {0}
           e == [a \in Ages |-> a - 1]    I == {e[a] : a \in P}
<1>0. 0 \in Ages /\ \A a \in Ages : a # 0 => a - 1 \in Ages BY RateLimitAssumption DEF Ages
<1>1. g \in [Ages -> Nat] BY <1>0
<1>2. IsFiniteSet(T) /\ IsFiniteSet(P) /\ P \in SUBSET T
  <2>1. IsFiniteSet(T) BY AgesFinite
  <2>2. QED BY <2>1, FS_Subset
<1>3. SumFunctionOnSet(g, T) = SumFunctionOnSet(g, P)
  <2>1. CASE 0 \in T
    <3>1. \A x \in T : g[x] \in Int BY <1>1
    <3>2. g[0] = 0 BY <1>0
    <3> HIDE DEF g, T
    <3>3. SumFunctionOnSet(g, T) = g[0] + SumFunctionOnSet(g, P) BY <1>2, <2>1, <3>1, SumTakesAny
    <3>4. SumFunctionOnSet(g, P) \in Int BY <1>2, <3>1, SumType
    <3>5. QED BY <3>2, <3>3, <3>4
  <2>2. CASE 0 \notin T
    <3>1. P = T BY <2>2
    <3>2. QED BY <3>1
  <2>3. QED BY <2>1, <2>2
<1>4. SumFunctionOnSet(g, P) = SumFunctionOnSet(f, I)
  <2>1. \A x \in P : g[x] \in Int /\ g[x] = f[e[x]] BY <1>0, <1>1
  <2>2. \A x, y \in P : e[x] = e[y] => x = y BY DEF Ages
  <2> HIDE DEF g, e, P
  <2>3. QED BY <1>2, <2>1, <2>2, SumRenamed
<1> DEFINE J == {a \in Ages : a < t}
<1>5. I \subseteq J BY <1>0 DEF Ages
<1>6. t < Oldest => I = J
  <2> SUFFICES ASSUME t < Oldest, NEW a \in J PROVE a \in I BY <1>5
  <2>1. a + 1 \in P BY RateLimitAssumption DEF Ages, Oldest
  <2>2. e[a + 1] = a BY <2>1 DEF Ages
  <2>3. QED BY <2>1, <2>2
<1>7. SumFunctionOnSet(f, I) <= SumFunctionOnSet(f, J)
  <2>1. IsFiniteSet(J) /\ \A a \in J : f[a] \in Nat BY AgesFinite
  <2> HIDE DEF I, J
  <2>2. QED BY <1>5, <2>1, SumGrows
<1>8. Below(g, t + 1) = SumFunctionOnSet(f, I) BY <1>3, <1>4 DEF Below
<1>9. Below(f, t) = SumFunctionOnSet(f, J) BY DEF Below
<1> HIDE DEF g, I, J, T, P, e
<1>10. Below(g, t + 1) <= Below(f, t) BY <1>7, <1>8, <1>9
<1>11. t < Oldest => Below(g, t + 1) = Below(f, t) BY <1>6, <1>8, <1>9
<1>12. QED BY <1>1, <1>10, <1>11 DEF g

LEMMA BelowNone ==
  ASSUME NEW f \in [Ages -> Nat], NEW t, \A a \in Ages : f[a] = 0
  PROVE  Below(f, t) = 0
BY AgesFinite, SumOfZeros DEF Below

LEMMA LimitStart == LimitInit => LimitInv
<1> SUFFICES ASSUME LimitInit PROVE LimitInv OBVIOUS
<1> USE RateLimitAssumption DEF LimitInit
<1>1. LimitTypes
  <2>1. counter \in 0..(Limit + 1) /\ start \in 0..Oldest BY DEF Oldest
  <2>2. now \in [Request -> -1..MaxDelay] OBVIOUS
  <2>3. allowed \in [Ages -> Nat] /\ denied \in BOOLEAN OBVIOUS
  <2>4. QED BY <2>1, <2>2, <2>3 DEF LimitTypes
<1>2. NoneYet BY DEF NoneYet
<1>3. allowed \in [Ages -> Nat] /\ \A a \in Ages : allowed[a] = 0 OBVIOUS
<1>4. \A t : Below(allowed, t) = 0 BY <1>3, BelowNone
<1>5. InWindow = 0 BY MinOfTwo DEF InWindow
<1>6. QED BY <1>1, <1>2, <1>4, <1>5 DEF LimitInv, SinceStart, TwoWindows, RefusedRightly

\* A check changes the sums by what it allows.
LEMMA CheckCounts ==
  ASSUME LimitInv, NEW r \in Request, now[r] # -1, Counted(r), counter' \in Nat
  PROVE  /\ allowed' \in [Ages -> Nat] /\ now' \in [Request -> -1..MaxDelay]
         /\ denied' \in BOOLEAN /\ (denied' => counter' > Limit)
         /\ \A t \in Int : Below(allowed', t) = IF counter' <= Limit /\ t > 0 THEN Below(allowed, t) + 1 ELSE Below(allowed, t)
<1>1. allowed \in [Ages -> Nat] /\ now \in [Request -> -1..MaxDelay] /\ Limit \in Nat /\ MaxDelay \in Nat
  BY RateLimitAssumption DEF LimitInv, LimitTypes
<1>2. denied' = (counter' > Limit) /\ now' = [now EXCEPT ![r] = -1] BY DEF Counted
<1>3. CASE counter' > Limit
  <2>1. allowed' = allowed BY <1>2, <1>3 DEF Counted
  <2>2. QED BY <1>1, <1>2, <1>3, <2>1
<1>4. CASE ~ (counter' > Limit)
  <2>1. allowed' = [allowed EXCEPT ![0] = @ + 1] BY <1>2, <1>4 DEF Counted
  <2>2. counter' <= Limit BY <1>1, <1>4
  <2>3. allowed' \in [Ages -> Nat]
    BY <1>1, <2>1, BelowCounts
  <2>4. \A t \in Int : Below(allowed', t) = IF t > 0 THEN Below(allowed, t) + 1 ELSE Below(allowed, t)
    BY <1>1, <2>1, BelowCounts
  <2>5. now' \in [Request -> -1..MaxDelay] BY <1>1, <1>2
  <2>6. denied' \in BOOLEAN /\ (denied' => counter' > Limit)
    <3>0. (counter' > Limit) = FALSE BY <1>4
    <3>1. denied' = FALSE BY <1>2, <3>0
    <3>2. denied' => counter' > Limit BY <1>2, Zenon
    <3>3. QED BY <3>1, <3>2
  <2>7. \A t \in Int : Below(allowed', t) = IF counter' <= Limit /\ t > 0 THEN Below(allowed, t) + 1 ELSE Below(allowed, t)
    BY <2>2, <2>4
  <2>8. QED BY <2>3, <2>5, <2>6, <2>7
<1>5. QED BY <1>3, <1>4

LEMMA CheckKeeps == ASSUME LimitInv, NEW r \in Request, Check(r) PROVE LimitInv'
<1> DEFINE s == now[r]
<1>1. s # -1 /\ Counted(r) BY DEF Check
<1>2. /\ Window \in Nat \ {0} /\ Limit \in Nat \ {0} /\ MaxDelay \in Nat /\ MaxDelay < Window
      /\ counter \in 0..(Limit + 1) /\ start \in 0..Oldest /\ Oldest = Window + MaxDelay /\ s \in 0..MaxDelay
  BY <1>1, RateLimitAssumption DEF LimitInv, LimitTypes, Oldest
<1>3. IF counter = 0 \/ start - s >= Window
      THEN counter' = 1 /\ start' = s
      ELSE counter' = (IF counter <= Limit THEN counter + 1 ELSE Limit + 1) /\ start' = start
  <2>1. Min({counter + 1, Limit + 1}) = IF counter <= Limit THEN counter + 1 ELSE Limit + 1 BY <1>2, MinOfTwo
  <2>2. QED BY <2>1 DEF Check, NoRow
<1>4. counter' \in 1..(Limit + 1) /\ start' \in 0..Oldest BY <1>2, <1>3
<1>5. /\ allowed' \in [Ages -> Nat] /\ now' \in [Request -> -1..MaxDelay]
      /\ denied' \in BOOLEAN /\ (denied' => counter' > Limit)
      /\ \A t \in Int : Below(allowed', t) = IF counter' <= Limit /\ t > 0 THEN Below(allowed, t) + 1 ELSE Below(allowed, t)
  BY <1>1, <1>4, CheckCounts
<1>6. \A t \in Int : Below(allowed, t) \in Nat BY BelowNat DEF LimitInv, LimitTypes
<1>7. InWindow = IF counter <= Limit THEN counter ELSE Limit BY <1>2, MinOfTwo DEF InWindow
<1>8. InWindow' = IF counter' <= Limit THEN counter' ELSE Limit
  <2>1. InWindow' = Min({counter', Limit}) BY DEF InWindow
  <2>2. QED BY <1>2, <1>4, <2>1, MinOfTwo
<1>9. LimitTypes' /\ NoneYet' BY <1>2, <1>4, <1>5 DEF LimitTypes, NoneYet
\* The times the invariant asks about.
<1> DEFINE t1 == start + 1  t2 == start - MaxDelay  t3 == start + Window - MaxDelay
           u1 == start' + 1 u2 == start' - MaxDelay u3 == start' + Window - MaxDelay
<1>10. /\ start < Oldest => Below(allowed, t1) >= InWindow
       /\ Below(allowed, t2) <= InWindow /\ Below(allowed, t3) <= Limit + InWindow
  BY DEF LimitInv, SinceStart, TwoWindows
<1>11. {t1, t2, t3, u1, u2, u3} \subseteq Int BY <1>2, <1>4
<1>12. \A t \in {t1, t2, t3, u1, u2, u3} :
         /\ Below(allowed, t) \in Nat
         /\ Below(allowed', t) = IF counter' <= Limit /\ t > 0 THEN Below(allowed, t) + 1 ELSE Below(allowed, t)
  BY <1>5, <1>6, <1>11
<1>13. CASE counter = 0 \/ start - s >= Window
  <2>1. counter' = 1 /\ start' = s /\ InWindow' = 1 BY <1>2, <1>3, <1>8, <1>13
  <2>2. Below(allowed', u1) >= 1 BY <1>2, <1>12, <2>1
  <2>3. u2 <= 0 BY <1>2, <2>1
  <2>4. Below(allowed, u2) = 0
    <3>1. \A a \in Ages : a \in Nat BY DEF Ages
    <3>2. u2 \in Int BY <1>11
    <3>3. ASSUME NEW a \in Ages PROVE ~ (a < u2)
      <4> HIDE DEF u2
      <4> QED BY <2>3, <3>1, <3>2
    <3>4. {a \in Ages : a < u2} = {} BY <3>3
    <3>5. QED BY <3>4, SumOfNone DEF Below
  <2>5. Below(allowed', u2) <= 1 BY <1>2, <1>12, <2>4
  <2>6. Below(allowed, u3) <= Limit
    <3>1. CASE counter = 0
      <4>1. Below(allowed, u3) = 0 BY <3>1, BelowNone DEF LimitInv, LimitTypes, NoneYet
      <4>2. QED BY <1>2, <4>1
    <3>2. CASE start - s >= Window
      <4>1. u3 <= t2 BY <1>2, <2>1, <3>2
      <4>2. Below(allowed, u3) <= Below(allowed, t2) BY <1>11, <4>1, BelowGrows DEF LimitInv, LimitTypes
      <4>3. InWindow <= Limit /\ InWindow \in Nat BY <1>2, <1>7
      <4>4. QED BY <1>2, <1>10, <1>12, <4>2, <4>3
    <3>3. QED BY <1>13, <3>1, <3>2
  <2>7. Below(allowed', u3) <= Limit + 1 BY <1>2, <1>12, <2>6
  <2>8. SinceStart' /\ TwoWindows' BY <2>1, <2>2, <2>5, <2>7 DEF SinceStart, TwoWindows
  <2>9. RefusedRightly' BY <1>2, <1>5, <2>1 DEF RefusedRightly
  <2>10. QED BY <1>9, <2>8, <2>9 DEF LimitInv
<1>14. CASE ~ (counter = 0 \/ start - s >= Window)
  <2>1. start' = start /\ u1 = t1 /\ u2 = t2 /\ u3 = t3 BY <1>3, <1>14
  <2>2. counter' = IF counter <= Limit THEN counter + 1 ELSE Limit + 1 BY <1>3, <1>14
  <2>3. start < Oldest /\ t1 > 0 BY <1>2, <1>14
  <2> HIDE DEF t1, t2, t3, u1, u2, u3
  <2>4. Below(allowed', t1) >= InWindow' BY <1>2, <1>7, <1>8, <1>10, <1>12, <2>2, <2>3
  <2>5. Below(allowed', t2) <= InWindow' BY <1>2, <1>7, <1>8, <1>10, <1>12, <2>2
  <2>6. Below(allowed', t3) <= Limit + InWindow' BY <1>2, <1>7, <1>8, <1>10, <1>12, <2>2
  <2>7. SinceStart' /\ TwoWindows' BY <2>1, <2>4, <2>5, <2>6 DEF SinceStart, TwoWindows, u1, u2, u3
  <2>8. RefusedRightly'
    <3> SUFFICES ASSUME denied' PROVE Below(allowed', Window + MaxDelay) >= Limit BY DEF RefusedRightly
    <3>1. counter' > Limit /\ InWindow' = Limit BY <1>2, <1>5, <1>8, <1>4
    <3>2. t1 <= Window + MaxDelay BY <1>2, <2>3 DEF t1
    <3>3. Below(allowed', t1) <= Below(allowed', Window + MaxDelay) BY <1>2, <1>5, <1>11, <3>2, BelowGrows
    <3>4. Below(allowed', t1) \in Nat /\ Below(allowed', Window + MaxDelay) \in Nat BY <1>5, BelowNat
    <3>5. QED BY <1>2, <2>4, <3>1, <3>3, <3>4
  <2>9. QED BY <1>9, <2>7, <2>8 DEF LimitInv
<1>15. QED BY <1>13, <1>14

LEMMA LaterKeeps == ASSUME LimitInv, Later PROVE LimitInv'
<1>1. /\ Window \in Nat \ {0} /\ Limit \in Nat \ {0} /\ MaxDelay \in Nat /\ MaxDelay < Window
      /\ counter \in 0..(Limit + 1) /\ start \in 0..Oldest /\ Oldest = Window + MaxDelay
      /\ allowed \in [Ages -> Nat]
  BY RateLimitAssumption DEF LimitInv, LimitTypes, Oldest
<1>2. counter' = counter /\ ~denied' /\ denied' \in BOOLEAN BY DEF Later
<1>3. start' = IF counter = 0 THEN 0 ELSE IF start < Oldest THEN start + 1 ELSE Oldest
  <2>1. Min({start + 1, Oldest}) = IF start + 1 <= Oldest THEN start + 1 ELSE Oldest BY <1>1, MinOfTwo
  <2>2. QED BY <1>1, <2>1 DEF Later
<1>4. allowed' = [a \in Ages |-> IF a = 0 THEN 0 ELSE allowed[a - 1]] BY DEF Later
<1>5. /\ allowed' \in [Ages -> Nat]
      /\ \A t \in Int : /\ Below(allowed', t + 1) <= Below(allowed, t)
                       /\ t < Oldest => Below(allowed', t + 1) = Below(allowed, t)
  BY <1>1, <1>4, BelowAges
<1>14. \A t, u \in Int : u = t + 1 => /\ Below(allowed', u) <= Below(allowed, t)
                                      /\ t < Oldest => Below(allowed', u) = Below(allowed, t)
  <2> SUFFICES ASSUME NEW t \in Int, NEW u \in Int, u = t + 1
               PROVE  /\ Below(allowed', u) <= Below(allowed, t)
                      /\ t < Oldest => Below(allowed', u) = Below(allowed, t)
    OBVIOUS
  <2>1. /\ Below(allowed', t + 1) <= Below(allowed, t)
        /\ t < Oldest => Below(allowed', t + 1) = Below(allowed, t)
    BY <1>1, <1>4, BelowAges
  <2>2. QED BY <2>1
<1>6. \A t \in Int : Below(allowed, t) \in Nat /\ Below(allowed', t) \in Nat BY <1>1, <1>5, BelowNat
<1>7. InWindow = InWindow' /\ InWindow = IF counter <= Limit THEN counter ELSE Limit
  BY <1>1, <1>2, MinOfTwo DEF InWindow
<1>8. now' \in [Request -> -1..MaxDelay]
  <2>1. \A r \in Request : now[r] \in -1..MaxDelay /\ now[r] < MaxDelay BY DEF Later, LimitInv, LimitTypes
  <2>2. now' = [r \in Request |-> IF now[r] = -1 THEN -1 ELSE now[r] + 1] BY DEF Later
  <2>3. QED BY <1>1, <2>1, <2>2
<1>9. LimitTypes'
  <2>1. start' \in 0..Oldest BY <1>1, <1>3
  <2>2. QED BY <1>1, <1>2, <1>5, <1>8, <2>1 DEF LimitTypes, Oldest
<1>10. RefusedRightly' BY <1>2 DEF RefusedRightly
<1>11. CASE counter = 0
  <2>1. start = 0 /\ \A a \in Ages : allowed[a] = 0 BY <1>11 DEF LimitInv, NoneYet
  <2>2. start' = 0 BY <1>3, <1>11
  <2>3. \A a \in Ages : a # 0 => a - 1 \in Ages BY <1>1 DEF Ages
  <2>4. \A a \in Ages : allowed'[a] = 0 BY <1>4, <2>1, <2>3
  <2>5. \A t : Below(allowed', t) = 0 BY <1>5, <2>4, BelowNone
  <2>6. InWindow' = 0 BY <1>1, <1>7, <1>11
  <2>7. NoneYet' /\ SinceStart' /\ TwoWindows' BY <1>1, <2>2, <2>4, <2>5, <2>6 DEF NoneYet, SinceStart, TwoWindows
  <2>8. QED BY <1>9, <1>10, <2>7 DEF LimitInv
<1>12. CASE counter # 0
  <2>1. NoneYet' BY <1>2, <1>12 DEF NoneYet
  <2>2. SinceStart'
    <3>1. SUFFICES ASSUME start' < Oldest PROVE Below(allowed', start' + 1) >= InWindow' BY DEF SinceStart, Oldest
    <3>2. start < Oldest /\ start' = start + 1 /\ start + 1 \in Int /\ start + 1 < Oldest
      BY <1>1, <1>3, <1>12, <3>1
    <3>3. Below(allowed', (start + 1) + 1) = Below(allowed, start + 1)
      <4> DEFINE t == start + 1
      <4>1. t \in Int /\ t < Oldest BY <3>2
      <4> HIDE DEF t
      <4>2. Below(allowed', t + 1) = Below(allowed, t) BY <1>14, <4>1, t + 1 \in Int
      <4>3. QED BY <4>2 DEF t
    <3>4. Below(allowed, start + 1) >= InWindow BY <3>2 DEF LimitInv, SinceStart
    <3>5. QED BY <1>7, <3>2, <3>3, <3>4
  <2>3. TwoWindows'
    <3> DEFINE t2 == start - MaxDelay  t3 == start + Window - MaxDelay
               u2 == start' - MaxDelay u3 == start' + Window - MaxDelay
    <3>1. {t2, t3, u2, u3} \subseteq Int /\ u2 <= t2 + 1 /\ u3 <= t3 + 1 BY <1>1, <1>3, <1>12
    <3>2. Below(allowed, t2) <= InWindow /\ Below(allowed, t3) <= Limit + InWindow BY DEF LimitInv, TwoWindows
    <3>3. Below(allowed', t2 + 1) <= Below(allowed, t2) /\ Below(allowed', t3 + 1) <= Below(allowed, t3)
      <4> HIDE DEF t2, t3
      <4> QED BY <1>14, <3>1, t2 + 1 \in Int, t3 + 1 \in Int
    <3>4. Below(allowed', u2) <= Below(allowed', t2 + 1) /\ Below(allowed', u3) <= Below(allowed', t3 + 1)
      <4> HIDE DEF t2, t3, u2, u3
      <4>1. t2 + 1 \in Int /\ t3 + 1 \in Int BY <3>1
      <4>2. QED BY <1>5, <3>1, <4>1, BelowGrows
    <3>5. \A t \in {t2, t3, u2, u3, t2 + 1, t3 + 1} : Below(allowed, t) \in Nat /\ Below(allowed', t) \in Nat
      BY <1>6, <3>1
    <3>6. InWindow \in Nat /\ Limit \in Nat BY <1>1, <1>7
    <3>7. Below(allowed', u2) <= InWindow' /\ Below(allowed', u3) <= Limit + InWindow'
      <4> HIDE DEF t2, t3, u2, u3
      <4> QED BY <1>7, <3>2, <3>3, <3>4, <3>5, <3>6
    <3>8. QED BY <3>7 DEF TwoWindows
  <2>4. QED BY <1>9, <1>10, <2>1, <2>2, <2>3 DEF LimitInv
<1>13. QED BY <1>11, <1>12

LEMMA LimitStep == LimitInv /\ [LimitNext]_limitVars => LimitInv'
<1> SUFFICES ASSUME LimitInv, [LimitNext]_limitVars PROVE LimitInv' OBVIOUS
<1>1. CASE \E r \in Request : TakeTime(r)
  <2>1. PICK r \in Request : TakeTime(r) BY <1>1
  <2>2. now' \in [Request -> -1..MaxDelay] BY <2>1, RateLimitAssumption DEF TakeTime, LimitInv, LimitTypes
  <2>3. UNCHANGED <<counter, start, allowed>> /\ denied' = FALSE BY <2>1 DEF TakeTime
  <2>4. InWindow' = InWindow BY <2>3 DEF InWindow
  <2>5. LimitTypes' BY <2>2, <2>3 DEF LimitInv, LimitTypes, Oldest
  <2>6. QED BY <2>3, <2>4, <2>5 DEF LimitInv, NoneYet, SinceStart, TwoWindows, RefusedRightly, Oldest
<1>2. CASE \E r \in Request : Check(r) BY <1>2, CheckKeeps
<1>3. CASE Reset
  <2>1. counter' = 0 /\ start' = 0 /\ denied' = FALSE /\ now' = now /\ allowed' = [a \in Ages |-> 0] BY <1>3 DEF Reset
  <2>2. Limit \in Nat \ {0} /\ Window \in Nat /\ MaxDelay \in Nat BY RateLimitAssumption
  <2>3. allowed' \in [Ages -> Nat] /\ \A a \in Ages : allowed'[a] = 0 BY <2>1
  <2>4. \A t : Below(allowed', t) = 0 BY <2>3, BelowNone
  <2>5. InWindow' = 0
    <3>1. InWindow' = Min({0, Limit}) BY <2>1 DEF InWindow
    <3>2. QED BY <2>2, <3>1, MinOfTwo
  <2>6. counter' \in 0..(Limit + 1) /\ start' \in 0..Oldest BY <2>1, <2>2 DEF Oldest
  <2>7. LimitTypes' BY <2>1, <2>3, <2>6 DEF LimitInv, LimitTypes, Oldest
  <2>8. QED BY <2>1, <2>2, <2>3, <2>4, <2>5, <2>7 DEF LimitInv, NoneYet, SinceStart, TwoWindows, RefusedRightly
<1>4. CASE Later BY <1>4, LaterKeeps
<1>5. CASE UNCHANGED limitVars
  <2>1. InWindow' = InWindow BY <1>5 DEF InWindow, limitVars
  <2>2. QED BY <1>5, <2>1 DEF limitVars, LimitInv, LimitTypes, NoneYet, SinceStart, TwoWindows, RefusedRightly, Oldest
<1>6. QED BY <1>1, <1>2, <1>3, <1>4, <1>5 DEF LimitNext

\* A check is refused only when the limit was reached within a window and a delay, and no more
\* than twice the limit get through while one window gives way to the next, for any limit,
\* window, delay and number of requests: the row's count is what its window has let through
\* (ratelimit/postgres/postgres.go:28-64).
THEOREM LimitIsKept == LimitSpec => []LimitHolds
<1>1. LimitInv => LimitHolds
  <2> SUFFICES ASSUME LimitInv PROVE LimitHolds OBVIOUS
  <2>1. /\ Window \in Nat /\ Limit \in Nat /\ MaxDelay \in Nat /\ start \in Nat /\ counter \in Nat
        /\ allowed \in [Ages -> Nat]
    BY RateLimitAssumption DEF LimitInv, LimitTypes
  <2>2. InWindow \in Nat /\ InWindow <= Limit BY <2>1, MinOfTwo DEF InWindow
  <2>3. Below(allowed, Window - MaxDelay) <= Below(allowed, start + Window - MaxDelay) BY <2>1, BelowGrows
  <2>4. Below(allowed, start + Window - MaxDelay) <= Limit + InWindow BY DEF LimitInv, TwoWindows
  <2>5. Below(allowed, Window - MaxDelay) \in Nat /\ Below(allowed, start + Window - MaxDelay) \in Nat BY <2>1, BelowNat
  <2>6. Below(allowed, Window - MaxDelay) <= 2 * Limit BY <2>1, <2>2, <2>3, <2>4, <2>5
  <2>7. QED BY <2>6 DEF LimitInv, RefusedRightly, LimitHolds, AllowedWithin, Below
<1>2. QED BY <1>1, LimitStart, LimitStep, PTL DEF LimitSpec
=============================================================================
