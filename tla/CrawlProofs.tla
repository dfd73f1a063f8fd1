---------------------------- MODULE CrawlProofs ----------------------------
(***************************************************************************)
(* Proofs about Crawl, for any finite set of searches and of places. The   *)
(* counters are the cardinalities of four sets (CountersAgree); two finite *)
(* sets, one in the other, with the same cardinality are equal, so when    *)
(* the counters meet, the sets do.                                         *)
(***************************************************************************)
EXTENDS Crawl, FiniteSetTheorems, TLAPS

Counted == {p \in Places : Completed(p)}

CountersAgree ==
  /\ seedCount = Cardinality(Seeds)
  /\ seedCompleted = Cardinality(DoneSeeds)
  /\ placesFound = Cardinality(Discovered)
  /\ placesCompleted = Cardinality(Counted)

\* A place job exists from when its seed is counted, and runs once that is done.
JobsFollowSeeds ==
  \A p \in Places :
    /\ place[p] # "none" => seed[p[1]] \in {"counted", "done"}
    /\ place[p] \notin {"none", "found"} => seed[p[1]] = "done"

\* A token in the channel, like the end itself, means that everything is done.
TokenMeansDone == doneCh \/ exit = "fired" => EverythingDone

CountingInv == JobsFollowSeeds /\ CountersAgree /\ TokenMeansDone

\* The deduper's map and the jobs of the searches that asked it.
FreshSeeds ==
  \A s \in Seeds :
    /\ seed[s] = "queued" => s \notin redirected /\ next[s] = {}
    /\ seed[s] # "feeding" => feed[s] = {} /\ asking[s] = {}
NextBecomesPlaces ==
  \A p \in Places :
    /\ seed[p[1]] \in {"counted", "done"} /\ p[2] \in next[p[1]] => place[p] # "none"
    /\ place[p] # "none" => p[2] \in next[p[1]]
SeenIsTaken == \A h \in seen : \E s \in Seeds : s \notin redirected /\ h \in next[s]
TakenIsSeen ==
  mode.dedup /\ ~ mode.fast =>
    /\ \A s \in Seeds \ redirected : next[s] \subseteq seen
    /\ \A s, t \in Seeds \ redirected : next[s] \cap next[t] # {} => s = t
RedirectsDoNotAsk == \A s \in redirected : feed[s] = {} /\ asking[s] = {}

DedupInv == /\ FreshSeeds /\ NextBecomesPlaces /\ SeenIsTaken
            /\ TakenIsSeen /\ RedirectsDoNotAsk
-----------------------------------------------------------------------------
(* Facts about finite sets.                                                *)

LEMMA FinitePlaces == IsFiniteSet(Places)
BY SeedsAreFinite, HrefsAreFinite, FS_Product DEF Places

LEMMA PlacesCount ==
  ASSUME NEW S \in SUBSET Places
  PROVE  IsFiniteSet(S) /\ Cardinality(S) \in Nat
BY FinitePlaces, FS_Subset, FS_CardinalityType

LEMMA SeedsCount ==
  ASSUME NEW S \in SUBSET Seeds
  PROVE  IsFiniteSet(S) /\ Cardinality(S) \in Nat
BY SeedsAreFinite, FS_Subset, FS_CardinalityType

\* A part of a finite set that is as large as the whole is the whole.
LEMMA WholeSet ==
  ASSUME NEW S, IsFiniteSet(S), NEW T \in SUBSET S, Cardinality(T) >= Cardinality(S)
  PROVE  T = S
<1>1. IsFiniteSet(T) /\ Cardinality(T) <= Cardinality(S)
                     /\ (Cardinality(S) = Cardinality(T) => S = T)
  BY FS_Subset
<1>2. Cardinality(T) \in Nat /\ Cardinality(S) \in Nat
  BY <1>1, FS_CardinalityType
<1>. QED BY <1>1, <1>2

\* Disjoint parts add up.
LEMMA DisjointSum ==
  ASSUME NEW S, IsFiniteSet(S), NEW T, IsFiniteSet(T), S \cap T = {}
  PROVE  Cardinality(S \cup T) = Cardinality(S) + Cardinality(T)
<1>1. Cardinality(S \cup T) = Cardinality(S) + Cardinality(T) - Cardinality(S \cap T)
  BY FS_Union
<1>2. Cardinality(S \cap T) = 0
  BY FS_EmptySet
<1>3. Cardinality(S) \in Nat /\ Cardinality(T) \in Nat
  BY FS_CardinalityType
<1>. QED BY <1>1, <1>2, <1>3

-----------------------------------------------------------------------------
(* Type correctness.                                                       *)

LEMMA ModesAreRecords ==
  /\ Modes \subseteq Mode
  /\ \A m \in Modes : /\ m.managed \in BOOLEAN /\ m.fast \in BOOLEAN
                      /\ m.dedup \in BOOLEAN /\ m.emails \in BOOLEAN
BY DEF Modes, RunnerModes, WorkerModes, Mode

CountersOK == /\ seedCount \in Nat /\ seedCompleted \in Nat
              /\ placesFound \in Nat /\ placesCompleted \in Nat

LEMMA CompleteUnlessType ==
  ASSUME CountersOK, doneCh \in BOOLEAN, NEW later \in BOOLEAN, NEW val \in Nat,
         CompleteUnless(later, val)
  PROVE  CountersOK' /\ doneCh' \in BOOLEAN
<1>1. CASE later
  BY <1>1 DEF CompleteUnless, counters, CountersOK
<1>2. CASE ~ later
  <2>1. IncrPlacesCompleted(val)
    BY <1>2 DEF CompleteUnless
  <2>2. CountersOK'
    BY <2>1 DEF IncrPlacesCompleted, CountersOK
  <2>3. doneCh' \in BOOLEAN
    BY <2>1, Zenon DEF IncrPlacesCompleted, Done
  <2>. QED BY <2>2, <2>3
<1>. QED BY <1>1, <1>2

LEMMA TypeStep == TypeOK /\ [Next]_vars => TypeOK'
<1> SUFFICES ASSUME TypeOK, [Next]_vars PROVE TypeOK'
  OBVIOUS
<1> USE DEF TypeOK, SeedState, PlaceState
<1>0. CountersOK /\ mode.managed \in BOOLEAN /\ (~ mode.managed) \in BOOLEAN
  BY ModesAreRecords DEF CountersOK
<1>1. ASSUME NEW s \in Seeds, SeedFails(s) PROVE TypeOK'
  BY <1>1 DEF SeedFails, IncrSeedCompleted, Done
<1>2. ASSUME NEW s \in Seeds, ReadFeed(s) PROVE TypeOK'
  BY <1>2 DEF ReadFeed, counters
<1>3. ASSUME NEW s \in Seeds, ReadPlacePage(s) PROVE TypeOK'
  BY <1>3 DEF ReadPlacePage, counters
<1>4. ASSUME NEW s \in Seeds, NEW h \in Hrefs, LookUp(s, h) PROVE TypeOK'
  BY <1>4 DEF LookUp, counters
<1>5. ASSUME NEW s \in Seeds, AddIfNotExists(s) PROVE TypeOK'
  BY <1>5 DEF AddIfNotExists, counters
<1>6. ASSUME NEW s \in Seeds, CountFound(s) PROVE TypeOK'
  <2>1. Cardinality(Found(s)) \in Nat
    BY PlacesCount DEF Found
  <2>. QED BY <1>6, <2>1 DEF CountFound, IncrPlacesFound
<1>7. ASSUME NEW s \in Seeds, CompleteSeed(s) PROVE TypeOK'
  BY <1>7 DEF CompleteSeed, IncrSeedCompleted, Done
<1>8. ASSUME NEW s \in Seeds, EntriesListed(s) PROVE TypeOK'
  <2>1. Cardinality(Entries(s)) \in Nat
    BY PlacesCount DEF Entries
  <2>2. CountersOK' /\ doneCh' \in BOOLEAN
    BY <1>0, <1>8, <2>1, CompleteUnlessType DEF EntriesListed
  <2>. QED BY <1>8, <2>2 DEF EntriesListed, CountersOK
<1>9. ASSUME NEW p \in Places, PlaceFails(p) PROVE TypeOK'
  BY <1>9 DEF PlaceFails, IncrPlacesCompleted, Done
<1>10. ASSUME NEW p \in Places, HasWebsite(p) PROVE TypeOK'
  BY <1>10 DEF HasWebsite, counters
<1>11. ASSUME NEW p \in Places, PlaceListed(p) PROVE TypeOK'
  <2>1. CountersOK' /\ doneCh' \in BOOLEAN
    BY <1>0, <1>11, CompleteUnlessType DEF PlaceListed
  <2>. QED BY <1>11, <2>1 DEF PlaceListed, CountersOK
<1>12. ASSUME NEW p \in Places, EmailListed(p) PROVE TypeOK'
  <2>1. CountersOK' /\ doneCh' \in BOOLEAN
    BY <1>0, <1>12, CompleteUnlessType DEF EmailListed
  <2>. QED BY <1>12, <2>1 DEF EmailListed, CountersOK
<1>13. ASSUME NEW p \in Places, WriteRow(p) PROVE TypeOK'
  <2>1. CountersOK' /\ doneCh' \in BOOLEAN
    BY <1>0, <1>13, CompleteUnlessType DEF WriteRow
  <2>. QED BY <1>13, <2>1 DEF WriteRow, CountersOK
<1>14. ASSUME NEW s \in Seeds, WriteRows(s) PROVE TypeOK'
  <2>1. Cardinality(Rows(s)) \in Nat
    BY PlacesCount DEF Rows
  <2>2. CountersOK' /\ doneCh' \in BOOLEAN
    BY <1>0, <1>14, <2>1, CompleteUnlessType DEF WriteRows
  <2>. QED BY <1>14, <2>2 DEF WriteRows, CountersOK
<1>15. CASE Fire
  BY <1>15 DEF Fire, jobs, counters
<1>16. CASE Leave
  BY <1>16 DEF Leave, jobs, counters
<1>17. CASE UNCHANGED vars
  BY <1>17 DEF vars, jobs, counters
<1>. QED
  BY <1>1, <1>2, <1>3, <1>4, <1>5, <1>6, <1>7, <1>8, <1>9, <1>10, <1>11, <1>12, <1>13,
     <1>14, <1>15, <1>16, <1>17 DEF Next, SeedStep, PlaceStep, WriterStep

LEMMA TypeInit == Init => TypeOK
<1> SUFFICES ASSUME Init PROVE TypeOK
  OBVIOUS
<1>1. Cardinality(Seeds) \in Nat
  BY SeedsAreFinite, FS_CardinalityType
<1>2. seedCount \in Nat /\ seedCompleted \in Nat /\ placesFound \in Nat /\ placesCompleted \in Nat
  BY <1>1 DEF Init
<1>. QED BY <1>2 DEF Init, TypeOK, SeedState, PlaceState

\* Type correctness of the crawl, for any searches and places (the modes are the
\* ways the callers of exiter.New set it up).
THEOREM CrawlTypes == Spec => []TypeOK
BY TypeInit, TypeStep, PTL DEF Spec
-----------------------------------------------------------------------------
(* Jobs are made and run in order.                                         *)

LEMMA JobsStep == TypeOK /\ JobsFollowSeeds /\ [Next]_vars => JobsFollowSeeds'
<1> SUFFICES ASSUME TypeOK, JobsFollowSeeds, [Next]_vars PROVE JobsFollowSeeds'
  OBVIOUS
<1> USE DEF JobsFollowSeeds
<1>0. /\ seed \in [Seeds -> SeedState] /\ place \in [Places -> PlaceState]
      /\ \A p \in Places : p[1] \in Seeds
  BY DEF TypeOK, Places
<1>1. ASSUME NEW s \in Seeds, SeedFails(s) PROVE JobsFollowSeeds'
  BY <1>0, <1>1 DEF SeedFails
<1>2. ASSUME NEW s \in Seeds, ReadFeed(s) PROVE JobsFollowSeeds'
  BY <1>0, <1>2 DEF ReadFeed
<1>3. ASSUME NEW s \in Seeds, ReadPlacePage(s) PROVE JobsFollowSeeds'
  BY <1>0, <1>3 DEF ReadPlacePage
<1>4. ASSUME NEW s \in Seeds, NEW h \in Hrefs, LookUp(s, h) PROVE JobsFollowSeeds'
  BY <1>0, <1>4 DEF LookUp
<1>5. ASSUME NEW s \in Seeds, AddIfNotExists(s) PROVE JobsFollowSeeds'
  BY <1>0, <1>5 DEF AddIfNotExists
<1>6. ASSUME NEW s \in Seeds, CountFound(s) PROVE JobsFollowSeeds'
  BY <1>0, <1>6 DEF CountFound, Found
<1>7. ASSUME NEW s \in Seeds, CompleteSeed(s) PROVE JobsFollowSeeds'
  BY <1>0, <1>7 DEF CompleteSeed
<1>8. ASSUME NEW s \in Seeds, EntriesListed(s) PROVE JobsFollowSeeds'
  BY <1>0, <1>8 DEF EntriesListed, Entries
<1>9. ASSUME NEW p \in Places, PlaceFails(p) PROVE JobsFollowSeeds'
  BY <1>0, <1>9 DEF PlaceFails, Queued
<1>10. ASSUME NEW p \in Places, HasWebsite(p) PROVE JobsFollowSeeds'
  BY <1>0, <1>10 DEF HasWebsite, Queued
<1>11. ASSUME NEW p \in Places, PlaceListed(p) PROVE JobsFollowSeeds'
  BY <1>0, <1>11 DEF PlaceListed, Queued
<1>12. ASSUME NEW p \in Places, EmailListed(p) PROVE JobsFollowSeeds'
  BY <1>0, <1>12 DEF EmailListed
<1>13. ASSUME NEW p \in Places, WriteRow(p) PROVE JobsFollowSeeds'
  BY <1>0, <1>13 DEF WriteRow
<1>14. ASSUME NEW s \in Seeds, WriteRows(s) PROVE JobsFollowSeeds'
  BY <1>0, <1>14 DEF WriteRows, Rows
<1>15. CASE Fire
  BY <1>0, <1>15 DEF Fire, jobs, counters
<1>16. CASE Leave
  BY <1>0, <1>16 DEF Leave, jobs, counters
<1>17. CASE UNCHANGED vars
  BY <1>0, <1>17 DEF vars, jobs, counters
<1>. QED
  BY <1>1, <1>2, <1>3, <1>4, <1>5, <1>6, <1>7, <1>8, <1>9, <1>10, <1>11, <1>12, <1>13,
     <1>14, <1>15, <1>16, <1>17 DEF Next, SeedStep, PlaceStep, WriterStep

-----------------------------------------------------------------------------
(* The counters count.                                                     *)

LEMMA CountersStep ==
  TypeOK /\ JobsFollowSeeds /\ CountersAgree /\ [Next]_vars => CountersAgree'
<1> SUFFICES ASSUME TypeOK, JobsFollowSeeds, CountersAgree, [Next]_vars PROVE CountersAgree'
  OBVIOUS
<1>0. /\ seed \in [Seeds -> SeedState] /\ place \in [Places -> PlaceState]
      /\ mode.managed \in BOOLEAN
      /\ IsFiniteSet(DoneSeeds) /\ Cardinality(DoneSeeds) \in Nat
      /\ Discovered \in SUBSET Places /\ IsFiniteSet(Discovered) /\ Cardinality(Discovered) \in Nat
      /\ Counted \in SUBSET Places /\ IsFiniteSet(Counted) /\ Cardinality(Counted) \in Nat
  <2>1. DoneSeeds \in SUBSET Seeds /\ Discovered \in SUBSET Places /\ Counted \in SUBSET Places
    BY DEF DoneSeeds, Discovered, Counted
  <2>. QED BY <2>1, SeedsCount, PlacesCount, ModesAreRecords DEF TypeOK
<1>1. ASSUME NEW s \in Seeds, SeedFails(s) PROVE CountersAgree'
  <2>1. s \notin DoneSeeds /\ DoneSeeds' = DoneSeeds \cup {s}
    BY <1>0, <1>1 DEF SeedFails, DoneSeeds
  <2>2. Discovered' = Discovered /\ Counted' = Counted
    BY <1>1 DEF SeedFails, Discovered, Counted, Completed
  <2>3. seedCompleted' = seedCompleted + 1
    BY <1>1 DEF SeedFails, IncrSeedCompleted
  <2>4. Cardinality(DoneSeeds') = Cardinality(DoneSeeds) + 1
    BY <1>0, <2>1, FS_AddElement
  <2>. QED BY <1>1, <2>2, <2>3, <2>4 DEF SeedFails, IncrSeedCompleted, CountersAgree
<1>2. ASSUME NEW s \in Seeds, ReadFeed(s) PROVE CountersAgree'
  <2>1. DoneSeeds' = DoneSeeds
    BY <1>0, <1>2 DEF ReadFeed, DoneSeeds
  <2>2. Discovered' = Discovered /\ Counted' = Counted
    BY <1>0, <1>2 DEF ReadFeed, Discovered, Counted, Completed
  <2>. QED BY <1>2, <2>1, <2>2 DEF ReadFeed, counters, CountersAgree
<1>3. ASSUME NEW s \in Seeds, ReadPlacePage(s) PROVE CountersAgree'
  <2>1. DoneSeeds' = DoneSeeds
    BY <1>0, <1>3 DEF ReadPlacePage, DoneSeeds
  <2>2. Discovered' = Discovered /\ Counted' = Counted
    BY <1>0, <1>3 DEF ReadPlacePage, Discovered, Counted, Completed
  <2>. QED BY <1>3, <2>1, <2>2 DEF ReadPlacePage, counters, CountersAgree
<1>4. ASSUME NEW s \in Seeds, NEW h \in Hrefs, LookUp(s, h) PROVE CountersAgree'
  <2>1. DoneSeeds' = DoneSeeds
    BY <1>0, <1>4 DEF LookUp, DoneSeeds
  <2>2. Discovered' = Discovered /\ Counted' = Counted
    BY <1>0, <1>4 DEF LookUp, Discovered, Counted, Completed
  <2>. QED BY <1>4, <2>1, <2>2 DEF LookUp, counters, CountersAgree
<1>5. ASSUME NEW s \in Seeds, AddIfNotExists(s) PROVE CountersAgree'
  <2>1. DoneSeeds' = DoneSeeds
    BY <1>0, <1>5 DEF AddIfNotExists, DoneSeeds
  <2>2. Discovered' = Discovered /\ Counted' = Counted
    BY <1>0, <1>5 DEF AddIfNotExists, Discovered, Counted, Completed
  <2>. QED BY <1>5, <2>1, <2>2 DEF AddIfNotExists, counters, CountersAgree
<1>6. ASSUME NEW s \in Seeds, CountFound(s) PROVE CountersAgree'
  <2>1. DoneSeeds' = DoneSeeds
    BY <1>0, <1>6 DEF CountFound, DoneSeeds
  <2>2. \A p \in Found(s) : place[p] = "none"
    BY <1>0, <1>6 DEF CountFound, Found, JobsFollowSeeds
  <2>3. Counted' = Counted
    BY <1>0, <1>6, <2>2 DEF CountFound, Counted, Completed
  <2>4. Found(s) \cap Discovered = {} /\ Discovered' = Discovered \cup Found(s)
    BY <1>0, <1>6, <2>2 DEF CountFound, Discovered, Found
  <2>5. Cardinality(Discovered') = Cardinality(Discovered) + Cardinality(Found(s))
    <3>1. Found(s) \subseteq Places
      BY DEF Found
    <3>. QED BY <1>0, <2>4, <3>1, DisjointSum, PlacesCount
  <2>. QED BY <1>6, <2>1, <2>3, <2>5 DEF CountFound, IncrPlacesFound, CountersAgree
<1>7. ASSUME NEW s \in Seeds, CompleteSeed(s) PROVE CountersAgree'
  <2>1. s \notin DoneSeeds /\ DoneSeeds' = DoneSeeds \cup {s}
    BY <1>0, <1>7 DEF CompleteSeed, DoneSeeds
  <2>2. Discovered' = Discovered /\ Counted' = Counted
    BY <1>7 DEF CompleteSeed, Discovered, Counted, Completed
  <2>3. seedCompleted' = seedCompleted + 1
    BY <1>7 DEF CompleteSeed, IncrSeedCompleted
  <2>4. Cardinality(DoneSeeds') = Cardinality(DoneSeeds) + 1
    BY <1>0, <2>1, FS_AddElement
  <2>. QED BY <1>7, <2>2, <2>3, <2>4 DEF CompleteSeed, IncrSeedCompleted, CountersAgree
<1>8. ASSUME NEW s \in Seeds, EntriesListed(s) PROVE CountersAgree'
  <2>1. DoneSeeds' = DoneSeeds /\ Discovered' = Discovered
    BY <1>0, <1>8 DEF EntriesListed, DoneSeeds, Discovered, Entries
  <2>2. CASE ~ mode.managed
    <3>1. Entries(s) \cap Counted = {} /\ Counted' = Counted \cup Entries(s)
      BY <1>0, <1>8, <2>2 DEF EntriesListed, Counted, Completed, Entries
    <3>2. IncrPlacesCompleted(Cardinality(Entries(s)))
      BY <1>8, <2>2 DEF EntriesListed, CompleteUnless
    <3>3. Cardinality(Counted') = Cardinality(Counted) + Cardinality(Entries(s))
      <4>1. Entries(s) \subseteq Places
        BY DEF Entries
      <4>. QED BY <1>0, <3>1, <4>1, DisjointSum, PlacesCount
    <3>. QED BY <2>1, <3>2, <3>3 DEF IncrPlacesCompleted, CountersAgree
  <2>3. CASE ~ (~ mode.managed)
    <3>1. Counted' = Counted
      BY <1>0, <1>8, <2>3 DEF EntriesListed, Counted, Completed, Entries
    <3>2. UNCHANGED counters
      BY <1>8, <2>3 DEF EntriesListed, CompleteUnless
    <3>. QED BY <2>1, <3>1, <3>2 DEF counters, CountersAgree
  <2>. QED BY <2>2, <2>3
<1>9. ASSUME NEW p \in Places, PlaceFails(p) PROVE CountersAgree'
  <2>1. DoneSeeds' = DoneSeeds /\ Discovered' = Discovered
    BY <1>0, <1>9 DEF PlaceFails, DoneSeeds, Discovered, Queued
  <2>2. CASE TRUE
    <3>1. p \notin Counted /\ Counted' = Counted \cup {p}
      BY <1>0, <1>9, <2>2 DEF PlaceFails, Counted, Completed, Queued
    <3>2. IncrPlacesCompleted(1)
      BY <1>9, <2>2 DEF PlaceFails, CompleteUnless
    <3>3. Cardinality(Counted') = Cardinality(Counted) + 1
      BY <1>0, <3>1, FS_AddElement
    <3>. QED BY <2>1, <3>2, <3>3 DEF IncrPlacesCompleted, CountersAgree
  <2>3. CASE ~ (TRUE)
    <3>1. Counted' = Counted
      BY <1>0, <1>9, <2>3 DEF PlaceFails, Counted, Completed, Queued
    <3>2. UNCHANGED counters
      BY <1>9, <2>3 DEF PlaceFails, CompleteUnless
    <3>. QED BY <2>1, <3>1, <3>2 DEF counters, CountersAgree
  <2>. QED BY <2>2, <2>3
<1>10. ASSUME NEW p \in Places, HasWebsite(p) PROVE CountersAgree'
  <2>1. DoneSeeds' = DoneSeeds /\ Discovered' = Discovered /\ Counted' = Counted
    BY <1>0, <1>10 DEF HasWebsite, Queued, DoneSeeds, Discovered, Counted, Completed
  <2>. QED BY <1>10, <2>1 DEF HasWebsite, counters, CountersAgree
<1>11. ASSUME NEW p \in Places, PlaceListed(p) PROVE CountersAgree'
  <2>1. DoneSeeds' = DoneSeeds /\ Discovered' = Discovered
    BY <1>0, <1>11 DEF PlaceListed, DoneSeeds, Discovered, Queued
  <2>2. CASE ~ mode.managed
    <3>1. p \notin Counted /\ Counted' = Counted \cup {p}
      BY <1>0, <1>11, <2>2 DEF PlaceListed, Counted, Completed, Queued
    <3>2. IncrPlacesCompleted(1)
      BY <1>11, <2>2 DEF PlaceListed, CompleteUnless
    <3>3. Cardinality(Counted') = Cardinality(Counted) + 1
      BY <1>0, <3>1, FS_AddElement
    <3>. QED BY <2>1, <3>2, <3>3 DEF IncrPlacesCompleted, CountersAgree
  <2>3. CASE ~ (~ mode.managed)
    <3>1. Counted' = Counted
      BY <1>0, <1>11, <2>3 DEF PlaceListed, Counted, Completed, Queued
    <3>2. UNCHANGED counters
      BY <1>11, <2>3 DEF PlaceListed, CompleteUnless
    <3>. QED BY <2>1, <3>1, <3>2 DEF counters, CountersAgree
  <2>. QED BY <2>2, <2>3
<1>12. ASSUME NEW p \in Places, EmailListed(p) PROVE CountersAgree'
  <2>1. DoneSeeds' = DoneSeeds /\ Discovered' = Discovered
    BY <1>0, <1>12 DEF EmailListed, DoneSeeds, Discovered, Queued
  <2>2. CASE ~ mode.managed
    <3>1. p \notin Counted /\ Counted' = Counted \cup {p}
      BY <1>0, <1>12, <2>2 DEF EmailListed, Counted, Completed, Queued
    <3>2. IncrPlacesCompleted(1)
      BY <1>12, <2>2 DEF EmailListed, CompleteUnless
    <3>3. Cardinality(Counted') = Cardinality(Counted) + 1
      BY <1>0, <3>1, FS_AddElement
    <3>. QED BY <2>1, <3>2, <3>3 DEF IncrPlacesCompleted, CountersAgree
  <2>3. CASE ~ (~ mode.managed)
    <3>1. Counted' = Counted
      BY <1>0, <1>12, <2>3 DEF EmailListed, Counted, Completed, Queued
    <3>2. UNCHANGED counters
      BY <1>12, <2>3 DEF EmailListed, CompleteUnless
    <3>. QED BY <2>1, <3>1, <3>2 DEF counters, CountersAgree
  <2>. QED BY <2>2, <2>3
<1>13. ASSUME NEW p \in Places, WriteRow(p) PROVE CountersAgree'
  <2>1. DoneSeeds' = DoneSeeds /\ Discovered' = Discovered
    BY <1>0, <1>13 DEF WriteRow, DoneSeeds, Discovered, Queued
  <2>2. CASE mode.managed
    <3>1. p \notin Counted /\ Counted' = Counted \cup {p}
      BY <1>0, <1>13, <2>2 DEF WriteRow, Counted, Completed, Queued
    <3>2. IncrPlacesCompleted(1)
      BY <1>13, <2>2 DEF WriteRow, CompleteUnless
    <3>3. Cardinality(Counted') = Cardinality(Counted) + 1
      BY <1>0, <3>1, FS_AddElement
    <3>. QED BY <2>1, <3>2, <3>3 DEF IncrPlacesCompleted, CountersAgree
  <2>3. CASE ~ (mode.managed)
    <3>1. Counted' = Counted
      BY <1>0, <1>13, <2>3 DEF WriteRow, Counted, Completed, Queued
    <3>2. UNCHANGED counters
      BY <1>13, <2>3 DEF WriteRow, CompleteUnless
    <3>. QED BY <2>1, <3>1, <3>2 DEF counters, CountersAgree
  <2>. QED BY <2>2, <2>3
<1>14. ASSUME NEW s \in Seeds, WriteRows(s) PROVE CountersAgree'
  <2>1. DoneSeeds' = DoneSeeds /\ Discovered' = Discovered
    BY <1>0, <1>14 DEF WriteRows, DoneSeeds, Discovered, Rows
  <2>2. CASE mode.managed
    <3>1. Rows(s) \cap Counted = {} /\ Counted' = Counted \cup Rows(s)
      BY <1>0, <1>14, <2>2 DEF WriteRows, Counted, Completed, Rows
    <3>2. IncrPlacesCompleted(Cardinality(Rows(s)))
      BY <1>14, <2>2 DEF WriteRows, CompleteUnless
    <3>3. Cardinality(Counted') = Cardinality(Counted) + Cardinality(Rows(s))
      <4>1. Rows(s) \subseteq Places
        BY DEF Rows
      <4>. QED BY <1>0, <3>1, <4>1, DisjointSum, PlacesCount
    <3>. QED BY <2>1, <3>2, <3>3 DEF IncrPlacesCompleted, CountersAgree
  <2>3. CASE ~ (mode.managed)
    <3>1. Counted' = Counted
      BY <1>0, <1>14, <2>3 DEF WriteRows, Counted, Completed, Rows
    <3>2. UNCHANGED counters
      BY <1>14, <2>3 DEF WriteRows, CompleteUnless
    <3>. QED BY <2>1, <3>1, <3>2 DEF counters, CountersAgree
  <2>. QED BY <2>2, <2>3
<1>15. CASE Fire
  BY <1>15 DEF Fire, jobs, counters, CountersAgree, DoneSeeds, Discovered, Counted, Completed
<1>16. CASE Leave
  BY <1>16 DEF Leave, jobs, counters, CountersAgree, DoneSeeds, Discovered, Counted, Completed
<1>17. CASE UNCHANGED vars
  BY <1>17 DEF vars, jobs, counters, CountersAgree, DoneSeeds, Discovered, Counted, Completed
<1>. QED
  BY <1>1, <1>2, <1>3, <1>4, <1>5, <1>6, <1>7, <1>8, <1>9, <1>10, <1>11, <1>12, <1>13,
     <1>14, <1>15, <1>16, <1>17 DEF Next, SeedStep, PlaceStep, WriterStep

-----------------------------------------------------------------------------
(* A token means the end.                                                  *)

LEMMA CountersMeet ==
  CountersAgree /\ Done(seedCompleted, placesCompleted) => EverythingDone
<1> SUFFICES ASSUME CountersAgree, Done(seedCompleted, placesCompleted)
             PROVE  EverythingDone
  OBVIOUS
<1>1. DoneSeeds \in SUBSET Seeds /\ Counted \in SUBSET Discovered /\ Discovered \in SUBSET Places
  BY DEF DoneSeeds, Counted, Discovered, Completed
<1>2. DoneSeeds = Seeds
  BY <1>1, SeedsAreFinite, WholeSet DEF CountersAgree, Done
<1>3. Counted = Discovered
  BY <1>1, PlacesCount, WholeSet DEF CountersAgree, Done
<1>. QED BY <1>2, <1>3 DEF EverythingDone, Counted

LEMMA CountersMeetNext ==
  CountersAgree' /\ Done(seedCompleted, placesCompleted)' => EverythingDone'
BY CountersMeet, PTL

\* Nothing can happen any more that would undo the end.
LEMMA EndIsStable ==
  TypeOK /\ JobsFollowSeeds /\ EverythingDone /\ [Next]_vars => EverythingDone'
<1> SUFFICES ASSUME TypeOK, JobsFollowSeeds, EverythingDone, [Next]_vars PROVE EverythingDone'
  OBVIOUS
<1>0. /\ seed \in [Seeds -> SeedState] /\ place \in [Places -> PlaceState]
      /\ mode.managed \in BOOLEAN
      /\ \A s \in Seeds : seed[s] = "done"
      /\ \A p \in Places : p[1] \in Seeds
      /\ \A p \in Places : place[p] = "none" \/ Completed(p)
  BY ModesAreRecords DEF TypeOK, EverythingDone, DoneSeeds, Discovered, Places
<1>1. ASSUME NEW s \in Seeds, SeedFails(s) PROVE EverythingDone'
  BY <1>0, <1>1 DEF SeedFails, EverythingDone, DoneSeeds, Discovered, Completed
<1>2. ASSUME NEW s \in Seeds, ReadFeed(s) PROVE EverythingDone'
  BY <1>0, <1>2 DEF ReadFeed, EverythingDone, DoneSeeds, Discovered, Completed
<1>3. ASSUME NEW s \in Seeds, ReadPlacePage(s) PROVE EverythingDone'
  BY <1>0, <1>3 DEF ReadPlacePage, EverythingDone, DoneSeeds, Discovered, Completed
<1>4. ASSUME NEW s \in Seeds, NEW h \in Hrefs, LookUp(s, h) PROVE EverythingDone'
  BY <1>0, <1>4 DEF LookUp, EverythingDone, DoneSeeds, Discovered, Completed
<1>5. ASSUME NEW s \in Seeds, AddIfNotExists(s) PROVE EverythingDone'
  BY <1>0, <1>5 DEF AddIfNotExists, EverythingDone, DoneSeeds, Discovered, Completed
<1>6. ASSUME NEW s \in Seeds, CountFound(s) PROVE EverythingDone'
  BY <1>0, <1>6 DEF CountFound, Found, EverythingDone, DoneSeeds, Discovered, Completed
<1>7. ASSUME NEW s \in Seeds, CompleteSeed(s) PROVE EverythingDone'
  BY <1>0, <1>7 DEF CompleteSeed, EverythingDone, DoneSeeds, Discovered, Completed
<1>8. ASSUME NEW s \in Seeds, EntriesListed(s) PROVE EverythingDone'
  BY <1>0, <1>8 DEF EntriesListed, Entries, EverythingDone, DoneSeeds, Discovered, Completed
<1>9. ASSUME NEW p \in Places, PlaceFails(p) PROVE EverythingDone'
  BY <1>0, <1>9 DEF PlaceFails, Queued, EverythingDone, DoneSeeds, Discovered, Completed
<1>10. ASSUME NEW p \in Places, HasWebsite(p) PROVE EverythingDone'
  BY <1>0, <1>10 DEF HasWebsite, Queued, EverythingDone, DoneSeeds, Discovered, Completed
<1>11. ASSUME NEW p \in Places, PlaceListed(p) PROVE EverythingDone'
  BY <1>0, <1>11 DEF PlaceListed, Queued, EverythingDone, DoneSeeds, Discovered, Completed
<1>12. ASSUME NEW p \in Places, EmailListed(p) PROVE EverythingDone'
  BY <1>0, <1>12 DEF EmailListed, EverythingDone, DoneSeeds, Discovered, Completed
<1>13. ASSUME NEW p \in Places, WriteRow(p) PROVE EverythingDone'
  BY <1>0, <1>13 DEF WriteRow, EverythingDone, DoneSeeds, Discovered, Completed
<1>14. ASSUME NEW s \in Seeds, WriteRows(s) PROVE EverythingDone'
  BY <1>0, <1>14 DEF WriteRows, Rows, EverythingDone, DoneSeeds, Discovered, Completed
<1>15. CASE Fire
  BY <1>0, <1>15 DEF Fire, jobs, counters, EverythingDone, DoneSeeds, Discovered, Completed
<1>16. CASE Leave
  BY <1>0, <1>16 DEF Leave, jobs, counters, EverythingDone, DoneSeeds, Discovered, Completed
<1>17. CASE UNCHANGED vars
  BY <1>0, <1>17 DEF vars, jobs, counters, EverythingDone, DoneSeeds, Discovered, Completed
<1>. QED
  BY <1>1, <1>2, <1>3, <1>4, <1>5, <1>6, <1>7, <1>8, <1>9, <1>10, <1>11, <1>12, <1>13,
     <1>14, <1>15, <1>16, <1>17 DEF Next, SeedStep, PlaceStep, WriterStep

\* A new token comes from the counters.
LEMMA NewToken ==
  [Next]_vars /\ ~ doneCh /\ doneCh' => Done(seedCompleted, placesCompleted)'
<1> SUFFICES ASSUME [Next]_vars, ~ doneCh, doneCh' PROVE Done(seedCompleted, placesCompleted)'
  OBVIOUS
<1>1. ASSUME NEW s \in Seeds, SeedFails(s) PROVE Done(seedCompleted, placesCompleted)'
  BY <1>1 DEF SeedFails, IncrSeedCompleted, counters, Done
<1>2. ASSUME NEW s \in Seeds, ReadFeed(s) PROVE Done(seedCompleted, placesCompleted)'
  BY <1>2 DEF ReadFeed, counters, Done
<1>3. ASSUME NEW s \in Seeds, ReadPlacePage(s) PROVE Done(seedCompleted, placesCompleted)'
  BY <1>3 DEF ReadPlacePage, counters, Done
<1>4. ASSUME NEW s \in Seeds, NEW h \in Hrefs, LookUp(s, h) PROVE Done(seedCompleted, placesCompleted)'
  BY <1>4 DEF LookUp, counters, Done
<1>5. ASSUME NEW s \in Seeds, AddIfNotExists(s) PROVE Done(seedCompleted, placesCompleted)'
  BY <1>5 DEF AddIfNotExists, counters, Done
<1>6. ASSUME NEW s \in Seeds, CountFound(s) PROVE Done(seedCompleted, placesCompleted)'
  BY <1>6 DEF CountFound, IncrPlacesFound, counters, Done
<1>7. ASSUME NEW s \in Seeds, CompleteSeed(s) PROVE Done(seedCompleted, placesCompleted)'
  BY <1>7 DEF CompleteSeed, IncrSeedCompleted, counters, Done
<1>8. ASSUME NEW s \in Seeds, EntriesListed(s) PROVE Done(seedCompleted, placesCompleted)'
  BY <1>8 DEF EntriesListed, CompleteUnless, IncrPlacesCompleted, counters, Done
<1>9. ASSUME NEW p \in Places, PlaceFails(p) PROVE Done(seedCompleted, placesCompleted)'
  BY <1>9 DEF PlaceFails, IncrPlacesCompleted, counters, Done
<1>10. ASSUME NEW p \in Places, HasWebsite(p) PROVE Done(seedCompleted, placesCompleted)'
  BY <1>10 DEF HasWebsite, counters, Done
<1>11. ASSUME NEW p \in Places, PlaceListed(p) PROVE Done(seedCompleted, placesCompleted)'
  BY <1>11 DEF PlaceListed, CompleteUnless, IncrPlacesCompleted, counters, Done
<1>12. ASSUME NEW p \in Places, EmailListed(p) PROVE Done(seedCompleted, placesCompleted)'
  BY <1>12 DEF EmailListed, CompleteUnless, IncrPlacesCompleted, counters, Done
<1>13. ASSUME NEW p \in Places, WriteRow(p) PROVE Done(seedCompleted, placesCompleted)'
  BY <1>13 DEF WriteRow, CompleteUnless, IncrPlacesCompleted, counters, Done
<1>14. ASSUME NEW s \in Seeds, WriteRows(s) PROVE Done(seedCompleted, placesCompleted)'
  BY <1>14 DEF WriteRows, CompleteUnless, IncrPlacesCompleted, counters, Done
<1>15. CASE Fire
  BY <1>15 DEF Fire, jobs, counters, Done
<1>16. CASE Leave
  BY <1>16 DEF Leave, jobs, counters, Done
<1>17. CASE UNCHANGED vars
  BY <1>17 DEF vars, jobs, counters, Done
<1>. QED
  BY <1>1, <1>2, <1>3, <1>4, <1>5, <1>6, <1>7, <1>8, <1>9, <1>10, <1>11, <1>12, <1>13,
     <1>14, <1>15, <1>16, <1>17 DEF Next, SeedStep, PlaceStep, WriterStep

\* Only a token makes the monitor call the cancel function.
LEMMA FiringTakesToken ==
  [Next]_vars /\ exit' = "fired" => exit = "fired" \/ doneCh
<1> SUFFICES ASSUME [Next]_vars, exit' = "fired" PROVE exit = "fired" \/ doneCh
  OBVIOUS
<1>1. ASSUME NEW s \in Seeds, SeedFails(s) PROVE exit = "fired" \/ doneCh
  BY <1>1 DEF SeedFails
<1>2. ASSUME NEW s \in Seeds, ReadFeed(s) PROVE exit = "fired" \/ doneCh
  BY <1>2 DEF ReadFeed
<1>3. ASSUME NEW s \in Seeds, ReadPlacePage(s) PROVE exit = "fired" \/ doneCh
  BY <1>3 DEF ReadPlacePage
<1>4. ASSUME NEW s \in Seeds, NEW h \in Hrefs, LookUp(s, h) PROVE exit = "fired" \/ doneCh
  BY <1>4 DEF LookUp
<1>5. ASSUME NEW s \in Seeds, AddIfNotExists(s) PROVE exit = "fired" \/ doneCh
  BY <1>5 DEF AddIfNotExists
<1>6. ASSUME NEW s \in Seeds, CountFound(s) PROVE exit = "fired" \/ doneCh
  BY <1>6 DEF CountFound
<1>7. ASSUME NEW s \in Seeds, CompleteSeed(s) PROVE exit = "fired" \/ doneCh
  BY <1>7 DEF CompleteSeed
<1>8. ASSUME NEW s \in Seeds, EntriesListed(s) PROVE exit = "fired" \/ doneCh
  BY <1>8 DEF EntriesListed
<1>9. ASSUME NEW p \in Places, PlaceFails(p) PROVE exit = "fired" \/ doneCh
  BY <1>9 DEF PlaceFails
<1>10. ASSUME NEW p \in Places, HasWebsite(p) PROVE exit = "fired" \/ doneCh
  BY <1>10 DEF HasWebsite
<1>11. ASSUME NEW p \in Places, PlaceListed(p) PROVE exit = "fired" \/ doneCh
  BY <1>11 DEF PlaceListed
<1>12. ASSUME NEW p \in Places, EmailListed(p) PROVE exit = "fired" \/ doneCh
  BY <1>12 DEF EmailListed
<1>13. ASSUME NEW p \in Places, WriteRow(p) PROVE exit = "fired" \/ doneCh
  BY <1>13 DEF WriteRow
<1>14. ASSUME NEW s \in Seeds, WriteRows(s) PROVE exit = "fired" \/ doneCh
  BY <1>14 DEF WriteRows
<1>15. CASE Fire
  BY <1>15 DEF Fire
<1>16. CASE Leave
  BY <1>16 DEF Leave
<1>17. CASE UNCHANGED vars
  BY <1>17 DEF vars
<1>. QED
  BY <1>1, <1>2, <1>3, <1>4, <1>5, <1>6, <1>7, <1>8, <1>9, <1>10, <1>11, <1>12, <1>13,
     <1>14, <1>15, <1>16, <1>17 DEF Next, SeedStep, PlaceStep, WriterStep

LEMMA TokenStep ==
  TypeOK /\ CountingInv /\ [Next]_vars => CountingInv'
<1> SUFFICES ASSUME TypeOK, CountingInv, [Next]_vars PROVE CountingInv'
  OBVIOUS
<1>1. JobsFollowSeeds' /\ CountersAgree'
  BY JobsStep, CountersStep DEF CountingInv
<1>2. ASSUME doneCh' \/ exit' = "fired" PROVE EverythingDone'
  <2>1. CASE doneCh \/ exit = "fired"
    BY <2>1, EndIsStable DEF CountingInv, TokenMeansDone
  <2>2. CASE ~ doneCh /\ exit # "fired"
    BY <1>1, <1>2, <2>2, NewToken, FiringTakesToken, CountersMeetNext
  <2>. QED BY <2>1, <2>2
<1>. QED BY <1>1, <1>2 DEF CountingInv, TokenMeansDone

LEMMA CountingInit == Init => CountingInv
<1> SUFFICES ASSUME Init PROVE CountingInv
  OBVIOUS
<1>1. JobsFollowSeeds /\ TokenMeansDone
  BY DEF Init, JobsFollowSeeds, TokenMeansDone
<1>2. DoneSeeds = {} /\ Discovered = {} /\ Counted = {}
  BY DEF Init, DoneSeeds, Discovered, Counted, Completed
<1>3. CountersAgree
  BY <1>2, FS_EmptySet DEF Init, CountersAgree
<1>. QED BY <1>1, <1>3 DEF CountingInv

LEMMA CountingHolds == Spec => [](TypeOK /\ CountingInv)
BY TypeInit, TypeStep, CountingInit, TokenStep, PTL DEF Spec

\* The monitor never calls the cancel function while a search, a place, a website or
\* (when the writer counts) a row is outstanding, in whatever order the goroutines
\* move its counters.
THEOREM CrawlEndsOnlyWhenDone == Spec => []NoEarlyExit
<1>1. CountingInv => NoEarlyExit
  BY DEF CountingInv, TokenMeansDone, NoEarlyExit
<1>. QED BY <1>1, CountingHolds, PTL

-----------------------------------------------------------------------------
(* The end is noticed, and nobody is left waiting for it.                  *)

LEMMA DoneMeets ==
  CountersAgree /\ EverythingDone => Done(seedCompleted, placesCompleted)
<1> SUFFICES ASSUME CountersAgree, EverythingDone
             PROVE  Done(seedCompleted, placesCompleted)
  OBVIOUS
<1>1. Counted = Discovered /\ Discovered \in SUBSET Places
  BY DEF EverythingDone, Counted, Discovered, Completed
<1>2. Cardinality(Seeds) \in Nat /\ Cardinality(Discovered) \in Nat
  BY <1>1, PlacesCount, SeedsAreFinite, FS_CardinalityType
<1>. QED BY <1>1, <1>2 DEF EverythingDone, CountersAgree, Done

LEMMA DoneMeetsNext ==
  CountersAgree' /\ EverythingDone' => Done(seedCompleted, placesCompleted)'
BY DoneMeets, PTL

\* A step that makes everything done is an increment that finds the counters equal.
LEMMA LastStepNotices ==
  ASSUME TypeOK, [Next]_vars, ~ EverythingDone, EverythingDone',
         Done(seedCompleted, placesCompleted)'
  PROVE  doneCh'
<1>0. /\ seed \in [Seeds -> SeedState] /\ place \in [Places -> PlaceState]
      /\ mode.managed \in BOOLEAN /\ mode.fast \in BOOLEAN
      /\ \A p \in Places : p[1] \in Seeds
  BY ModesAreRecords DEF TypeOK, Places
<1>1. ASSUME NEW s \in Seeds, SeedFails(s) PROVE doneCh'
  BY <1>1 DEF SeedFails, IncrSeedCompleted, Done
<1>2. ASSUME NEW s \in Seeds, ReadFeed(s) PROVE doneCh'
  <2>1. seed'[s] # "done"
    BY <1>0, <1>2 DEF ReadFeed
  <2>. QED BY <2>1 DEF EverythingDone, DoneSeeds
<1>3. ASSUME NEW s \in Seeds, ReadPlacePage(s) PROVE doneCh'
  <2>1. seed'[s] # "done"
    BY <1>0, <1>3 DEF ReadPlacePage
  <2>. QED BY <2>1 DEF EverythingDone, DoneSeeds
<1>4. ASSUME NEW s \in Seeds, NEW h \in Hrefs, LookUp(s, h) PROVE doneCh'
  BY <1>4 DEF LookUp, EverythingDone, DoneSeeds, Discovered, Completed
<1>5. ASSUME NEW s \in Seeds, AddIfNotExists(s) PROVE doneCh'
  BY <1>5 DEF AddIfNotExists, EverythingDone, DoneSeeds, Discovered, Completed
<1>6. ASSUME NEW s \in Seeds, CountFound(s) PROVE doneCh'
  <2>1. seed'[s] # "done"
    BY <1>0, <1>6 DEF CountFound
  <2>. QED BY <2>1 DEF EverythingDone, DoneSeeds
<1>7. ASSUME NEW s \in Seeds, CompleteSeed(s) PROVE doneCh'
  BY <1>7 DEF CompleteSeed, IncrSeedCompleted, Done
<1>8. ASSUME NEW s \in Seeds, EntriesListed(s) PROVE doneCh'
  <2>1. CASE mode.managed
    <3>1. PICK p \in Places : p \in Entries(s)
      BY <1>8 DEF EntriesListed, Entries
    <3>2. place'[p] = "row" /\ mode' = mode
      BY <1>0, <1>8, <3>1 DEF EntriesListed
    <3>. QED BY <2>1, <3>2 DEF EverythingDone, Discovered, Completed
  <2>2. CASE ~ mode.managed
    BY <1>8, <2>2 DEF EntriesListed, CompleteUnless, IncrPlacesCompleted, Done
  <2>. QED BY <2>1, <2>2
<1>9. ASSUME NEW p \in Places, PlaceFails(p) PROVE doneCh'
  BY <1>9 DEF PlaceFails, IncrPlacesCompleted, Done
<1>10. ASSUME NEW p \in Places, HasWebsite(p) PROVE doneCh'
  <2>1. place'[p] = "email"
    BY <1>0, <1>10 DEF HasWebsite
  <2>. QED BY <2>1 DEF EverythingDone, Discovered, Completed
<1>11. ASSUME NEW p \in Places, PlaceListed(p) PROVE doneCh'
  <2>1. CASE mode.managed
    <3>1. place'[p] = "row" /\ mode' = mode
      BY <1>0, <1>11 DEF PlaceListed
    <3>. QED BY <2>1, <3>1 DEF EverythingDone, Discovered, Completed
  <2>2. CASE ~ mode.managed
    BY <1>11, <2>2 DEF PlaceListed, CompleteUnless, IncrPlacesCompleted, Done
  <2>. QED BY <2>1, <2>2
<1>12. ASSUME NEW p \in Places, EmailListed(p) PROVE doneCh'
  <2>1. CASE mode.managed
    <3>1. place'[p] = "row" /\ mode' = mode
      BY <1>0, <1>12 DEF EmailListed
    <3>. QED BY <2>1, <3>1 DEF EverythingDone, Discovered, Completed
  <2>2. CASE ~ mode.managed
    BY <1>12, <2>2 DEF EmailListed, CompleteUnless, IncrPlacesCompleted, Done
  <2>. QED BY <2>1, <2>2
<1>13. ASSUME NEW p \in Places, WriteRow(p) PROVE doneCh'
  <2>1. CASE ~ mode.managed
    BY <1>0, <1>13, <2>1 DEF WriteRow, EverythingDone, DoneSeeds, Discovered, Completed
  <2>2. CASE mode.managed
    BY <1>13, <2>2 DEF WriteRow, CompleteUnless, IncrPlacesCompleted, Done
  <2>. QED BY <2>1, <2>2
<1>14. ASSUME NEW s \in Seeds, WriteRows(s) PROVE doneCh'
  <2>1. CASE ~ mode.managed
    BY <1>0, <1>14, <2>1 DEF WriteRows, Rows, EverythingDone, DoneSeeds, Discovered, Completed
  <2>2. CASE mode.managed
    BY <1>14, <2>2 DEF WriteRows, CompleteUnless, IncrPlacesCompleted, Done
  <2>. QED BY <2>1, <2>2
<1>15. CASE Fire
  BY <1>15 DEF Fire, jobs, EverythingDone, DoneSeeds, Discovered, Completed
<1>16. CASE Leave
  BY <1>16 DEF Leave, jobs, EverythingDone, DoneSeeds, Discovered, Completed
<1>17. CASE UNCHANGED vars
  BY <1>17 DEF vars, jobs, EverythingDone, DoneSeeds, Discovered, Completed
<1>. QED
  BY <1>1, <1>2, <1>3, <1>4, <1>5, <1>6, <1>7, <1>8, <1>9, <1>10, <1>11, <1>12, <1>13,
     <1>14, <1>15, <1>16, <1>17 DEF Next, SeedStep, PlaceStep, WriterStep

\* Only the monitor takes its token, and then it waits no more.
LEMMA TokenIsKept ==
  ASSUME [Next]_vars, exit' = "waiting"
  PROVE  exit = "waiting" /\ (doneCh => doneCh')
<1> DEFINE Kept == exit = "waiting" /\ (doneCh => doneCh')
<1>1. ASSUME NEW s \in Seeds, SeedFails(s) PROVE Kept
  BY <1>1 DEF SeedFails, IncrSeedCompleted
<1>2. ASSUME NEW s \in Seeds, ReadFeed(s) PROVE Kept
  BY <1>2 DEF ReadFeed
<1>3. ASSUME NEW s \in Seeds, ReadPlacePage(s) PROVE Kept
  BY <1>3 DEF ReadPlacePage
<1>4. ASSUME NEW s \in Seeds, NEW h \in Hrefs, LookUp(s, h) PROVE Kept
  BY <1>4 DEF LookUp
<1>5. ASSUME NEW s \in Seeds, AddIfNotExists(s) PROVE Kept
  BY <1>5 DEF AddIfNotExists
<1>6. ASSUME NEW s \in Seeds, CountFound(s) PROVE Kept
  BY <1>6 DEF CountFound, IncrPlacesFound
<1>7. ASSUME NEW s \in Seeds, CompleteSeed(s) PROVE Kept
  BY <1>7 DEF CompleteSeed, IncrSeedCompleted
<1>8. ASSUME NEW s \in Seeds, EntriesListed(s) PROVE Kept
  BY <1>8 DEF EntriesListed, CompleteUnless, IncrPlacesCompleted
<1>9. ASSUME NEW p \in Places, PlaceFails(p) PROVE Kept
  BY <1>9 DEF PlaceFails, IncrPlacesCompleted
<1>10. ASSUME NEW p \in Places, HasWebsite(p) PROVE Kept
  BY <1>10 DEF HasWebsite
<1>11. ASSUME NEW p \in Places, PlaceListed(p) PROVE Kept
  BY <1>11 DEF PlaceListed, CompleteUnless, IncrPlacesCompleted
<1>12. ASSUME NEW p \in Places, EmailListed(p) PROVE Kept
  BY <1>12 DEF EmailListed, CompleteUnless, IncrPlacesCompleted
<1>13. ASSUME NEW p \in Places, WriteRow(p) PROVE Kept
  BY <1>13 DEF WriteRow, CompleteUnless, IncrPlacesCompleted
<1>14. ASSUME NEW s \in Seeds, WriteRows(s) PROVE Kept
  BY <1>14 DEF WriteRows, CompleteUnless, IncrPlacesCompleted
<1>15. CASE Fire
  BY <1>15 DEF Fire
<1>16. CASE Leave
  BY <1>16 DEF Leave
<1>17. CASE UNCHANGED vars
  BY <1>17 DEF vars
<1>. QED
  BY <1>1, <1>2, <1>3, <1>4, <1>5, <1>6, <1>7, <1>8, <1>9, <1>10, <1>11, <1>12, <1>13,
     <1>14, <1>15, <1>16, <1>17 DEF Next, SeedStep, PlaceStep, WriterStep

LEMMA NoticeStep ==
  TypeOK /\ CountingInv /\ EndIsNoticed /\ [Next]_vars => EndIsNoticed'
<1> SUFFICES ASSUME TypeOK, CountingInv, EndIsNoticed, [Next]_vars,
                    EverythingDone', exit' = "waiting"
             PROVE  doneCh'
  BY DEF EndIsNoticed
<1>1. exit = "waiting" /\ (doneCh => doneCh')
  BY TokenIsKept
<1>2. CASE EverythingDone
  BY <1>1, <1>2 DEF EndIsNoticed
<1>3. CASE ~ EverythingDone
  <2>1. CountersAgree'
    BY CountersStep DEF CountingInv
  <2>. QED BY <1>3, <2>1, DoneMeetsNext, LastStepNotices
<1>. QED BY <1>2, <1>3

LEMMA NoticeInit == Init => EndIsNoticed
BY SeedsAreFinite DEF Init, EndIsNoticed, EverythingDone, DoneSeeds

\* The monitor misses no end: when everything is done and it still waits, its token
\* is there, whichever goroutine was last (the safety half of CrawlEnds).
THEOREM CrawlNoticesItsEnd == Spec => []EndIsNoticed
<1>1. TypeOK /\ CountingInv /\ EndIsNoticed /\ [Next]_vars
        => (TypeOK /\ CountingInv /\ EndIsNoticed)'
  BY TypeStep, TokenStep, NoticeStep
<1>. QED BY <1>1, TypeInit, CountingInit, NoticeInit, PTL DEF Spec

\* A crawl that still waits always has a goroutine with a step to take.
THEOREM CrawlIsNeverStuck == Spec => []NeverStuck
<1>1. TypeOK /\ CountingInv /\ EndIsNoticed => NeverStuck
  <2> SUFFICES ASSUME TypeOK, CountingInv, EndIsNoticed, exit = "waiting", ~ doneCh
               PROVE  WorkAtHand
    BY DEF NeverStuck
  <2>0. /\ place \in [Places -> PlaceState] /\ mode.fast \in BOOLEAN /\ mode.managed \in BOOLEAN
        /\ \A p \in Places : p[1] \in Seeds
    BY ModesAreRecords DEF TypeOK, Places
  <2>1. CASE DoneSeeds # Seeds
    BY <2>1 DEF DoneSeeds, WorkAtHand
  <2>2. CASE DoneSeeds = Seeds
    <3>1. PICK p \in Discovered : ~ Completed(p)
      BY <2>2 DEF EndIsNoticed, EverythingDone
    <3>2. /\ p \in Places /\ p[1] \in Seeds /\ seed[p[1]] = "done"
          /\ place[p] \in {"found", "email", "row"}
      BY <2>0, <2>2, <3>1 DEF Discovered, Completed, DoneSeeds, PlaceState
    <3>3. CASE place[p] = "email"
      BY <3>2, <3>3 DEF WorkAtHand
    <3>4. CASE place[p] \in {"found", "row"} /\ mode.fast
      <4>1. p \in Entries(p[1]) \cup Rows(p[1])
        BY <3>2, <3>4 DEF Entries, Rows
      <4>. QED BY <3>2, <3>4, <4>1 DEF WorkAtHand
    <3>5. CASE place[p] \in {"found", "row"} /\ ~ mode.fast
      BY <3>2, <3>5 DEF WorkAtHand, Queued
    <3>. QED BY <3>2, <3>3, <3>4, <3>5
  <2>. QED BY <2>1, <2>2
<1>. QED BY <1>1, CountingHolds, CrawlNoticesItsEnd, PTL

-----------------------------------------------------------------------------
(* Every step of a crawl brings it on.                                     *)

LEMMA Stages ==
  /\ SeedStage["queued"] = 0 /\ SeedStage["feeding"] = 1
  /\ SeedStage["counted"] = 2 /\ SeedStage["done"] = 3
  /\ PlaceStage["none"] = 0 /\ PlaceStage["found"] = 1 /\ PlaceStage["email"] = 2
  /\ PlaceStage["row"] = 3 /\ PlaceStage["written"] = 4 /\ PlaceStage["failed"] = 4
  /\ \A x \in SeedState : SeedStage[x] \in Nat
  /\ \A x \in PlaceState : PlaceStage[x] \in Nat
BY DEF SeedStage, PlaceStage, SeedState, PlaceState

\* What is the same has not gone back.
SeedsStay == seed' = seed /\ next' = next /\ feed' = feed
LEMMA StayingSeeds ==
  ASSUME TypeOK, SeedsStay
  PROVE  \A s \in Seeds : /\ SeedStage[seed'[s]] >= SeedStage[seed[s]]
                          /\ seed[s] # "queued" => next[s] \subseteq next'[s]
                          /\ seed[s] # "queued" => feed'[s] \subseteq feed[s]
<1>1. \A s \in Seeds : SeedStage[seed[s]] \in Nat
  BY Stages DEF TypeOK
<1>. QED BY <1>1 DEF SeedsStay

LEMMA StayingPlaces ==
  ASSUME TypeOK, place' = place
  PROVE  \A p \in Places : PlaceStage[place'[p]] >= PlaceStage[place[p]]
<1>1. \A p \in Places : PlaceStage[place[p]] \in Nat
  BY Stages DEF TypeOK
<1>. QED BY <1>1

\* A search goes a stage further, and with it only what it found.
LEMMA SeedForward ==
  ASSUME TypeOK, NEW s \in Seeds, NEW x \in SeedState, SeedStage[x] > SeedStage[seed[s]],
         seed' = [seed EXCEPT ![s] = x],
         seed[s] = "queued" \/ (next' = next /\ feed' = feed),
         \A t \in Seeds \ {s} : next'[t] = next[t] /\ feed'[t] = feed[t],
         \A p \in Places : PlaceStage[place'[p]] >= PlaceStage[place[p]]
  PROVE  Forward
<1>1. \A t \in Seeds : SeedStage[seed[t]] \in Nat
  BY Stages DEF TypeOK
<1>2. SeedStage[x] \in Nat
  BY Stages
<1>3. seed \in [Seeds -> SeedState] /\ seed'[s] = x
  BY DEF TypeOK
<1>4. \A t \in Seeds : SeedStage[seed'[t]] >= SeedStage[seed[t]]
  BY <1>1, <1>2, <1>3
<1>5. SeedMoves(s)
  BY <1>3 DEF SeedMoves
<1>6. \A t \in Seeds : /\ seed[t] # "queued" => next[t] \subseteq next'[t]
                       /\ seed[t] # "queued" => feed'[t] \subseteq feed[t]
  OBVIOUS
<1>. QED BY <1>4, <1>5, <1>6 DEF Forward

\* Some places go a stage further.
LEMMA PlacesForward ==
  ASSUME TypeOK, SeedsStay, NEW P \in SUBSET Places, P # {}, NEW x \in PlaceState,
         \A p \in P : PlaceStage[x] > PlaceStage[place[p]],
         place' = [p \in Places |-> IF p \in P THEN x ELSE place[p]]
  PROVE  Forward
<1>1. \A p \in Places : PlaceStage[place[p]] \in Nat
  BY Stages DEF TypeOK
<1>2. PlaceStage[x] \in Nat
  BY Stages
<1>3. \A p \in Places : PlaceStage[place'[p]] >= PlaceStage[place[p]]
  BY <1>1, <1>2
<1>4. \E p \in Places : PlaceMoves(p)
  BY DEF PlaceMoves
<1>. QED BY <1>3, <1>4, StayingSeeds DEF Forward

LEMMA PlaceForward ==
  ASSUME TypeOK, SeedsStay, NEW p \in Places, NEW x \in PlaceState,
         PlaceStage[x] > PlaceStage[place[p]], place' = [place EXCEPT ![p] = x]
  PROVE  Forward
<1>1. place' = [q \in Places |-> IF q \in {p} THEN x ELSE place[q]]
  BY DEF TypeOK
<1>. QED BY <1>1, PlacesForward

LEMMA ForwardStep == TypeOK /\ JobsFollowSeeds /\ Next => Forward
<1> SUFFICES ASSUME TypeOK, JobsFollowSeeds, Next PROVE Forward
  OBVIOUS
<1>0. /\ seed \in [Seeds -> SeedState] /\ place \in [Places -> PlaceState]
      /\ feed \in [Seeds -> SUBSET Hrefs] /\ asking \in [Seeds -> SUBSET Hrefs]
      /\ next \in [Seeds -> SUBSET Hrefs]
      /\ \A p \in Places : p[1] \in Seeds
  BY DEF TypeOK, Places
<1>s. {"feeding", "counted", "done"} \subseteq SeedState
      /\ {"found", "email", "row", "written", "failed"} \subseteq PlaceState
  BY DEF SeedState, PlaceState
<1>1. ASSUME NEW s \in Seeds, SeedFails(s) PROVE Forward
  <2>1. seed' = [seed EXCEPT ![s] = "done"] /\ next' = next /\ feed' = feed /\ place' = place
    BY <1>1 DEF SeedFails
  <2>2. SeedStage["done"] > SeedStage[seed[s]]
    BY <1>1, Stages DEF SeedFails
  <2>3. \A p \in Places : PlaceStage[place'[p]] >= PlaceStage[place[p]]
    BY <2>1, StayingPlaces
  <2>. QED BY <1>s, <2>1, <2>2, <2>3, SeedForward
<1>2. ASSUME NEW s \in Seeds, ReadFeed(s) PROVE Forward
  <2>1. \A t \in Seeds \ {s} : next'[t] = next[t] /\ feed'[t] = feed[t]
    BY <1>0, <1>2 DEF ReadFeed
  <2>2. seed[s] = "queued" /\ seed' = [seed EXCEPT ![s] = "feeding"] /\ place' = place
    BY <1>2 DEF ReadFeed
  <2>3. SeedStage["feeding"] > SeedStage[seed[s]]
    BY <2>2, Stages
  <2>4. \A p \in Places : PlaceStage[place'[p]] >= PlaceStage[place[p]]
    BY <2>2, StayingPlaces
  <2>. QED BY <1>s, <2>1, <2>2, <2>3, <2>4, SeedForward
<1>3. ASSUME NEW s \in Seeds, ReadPlacePage(s) PROVE Forward
  <2>1. \A t \in Seeds \ {s} : next'[t] = next[t] /\ feed'[t] = feed[t]
    BY <1>0, <1>3 DEF ReadPlacePage
  <2>2. seed[s] = "queued" /\ seed' = [seed EXCEPT ![s] = "feeding"] /\ place' = place
    BY <1>3 DEF ReadPlacePage
  <2>3. SeedStage["feeding"] > SeedStage[seed[s]]
    BY <2>2, Stages
  <2>4. \A p \in Places : PlaceStage[place'[p]] >= PlaceStage[place[p]]
    BY <2>2, StayingPlaces
  <2>. QED BY <1>s, <2>1, <2>2, <2>3, <2>4, SeedForward
<1>4. ASSUME NEW s \in Seeds, NEW h \in Hrefs, LookUp(s, h) PROVE Forward
  <2>1. seed' = seed /\ place' = place
    BY <1>4 DEF LookUp
  <2>2. feed'[s] = feed[s] \ {h} /\ h \in feed[s]
    BY <1>0, <1>4 DEF LookUp
  <2>3. \A t \in Seeds : feed'[t] \subseteq feed[t] /\ next[t] \subseteq next'[t]
    BY <1>0, <1>4 DEF LookUp
  <2>4. SeedMoves(s)
    BY <2>2 DEF SeedMoves
  <2>5. \A t \in Seeds : SeedStage[seed'[t]] >= SeedStage[seed[t]]
    BY <1>0, <2>1, Stages
  <2>. QED BY <2>1, <2>3, <2>4, <2>5, StayingPlaces DEF Forward
<1>5. ASSUME NEW s \in Seeds, AddIfNotExists(s) PROVE Forward
  <2>1. seed' = seed /\ place' = place /\ feed' = feed
    BY <1>5 DEF AddIfNotExists
  <2>2. asking'[s] = {} /\ asking[s] # {}
    BY <1>0, <1>5 DEF AddIfNotExists
  <2>3. \A t \in Seeds : next[t] \subseteq next'[t]
    BY <1>0, <1>5 DEF AddIfNotExists
  <2>4. SeedMoves(s)
    BY <2>1, <2>2 DEF SeedMoves
  <2>5. \A t \in Seeds : SeedStage[seed'[t]] >= SeedStage[seed[t]]
    BY <1>0, <2>1, Stages
  <2>. QED BY <2>1, <2>3, <2>4, <2>5, StayingPlaces DEF Forward
<1>6. ASSUME NEW s \in Seeds, CountFound(s) PROVE Forward
  <2>1. \A p \in Found(s) : place[p] = "none"
    BY <1>0, <1>6 DEF CountFound, Found, JobsFollowSeeds
  <2>2. \A p \in Places : PlaceStage[place[p]] \in Nat
    BY <1>0, Stages
  <2>3. \A p \in Places : PlaceStage[place'[p]] >= PlaceStage[place[p]]
    BY <1>6, <2>1, <2>2, Stages DEF CountFound
  <2>4. SeedStage["counted"] > SeedStage[seed[s]]
    BY <1>6, Stages DEF CountFound
  <2>. QED BY <1>s, <1>6, <2>3, <2>4, SeedForward DEF CountFound
<1>7. ASSUME NEW s \in Seeds, CompleteSeed(s) PROVE Forward
  <2>1. seed' = [seed EXCEPT ![s] = "done"] /\ next' = next /\ feed' = feed /\ place' = place
    BY <1>7 DEF CompleteSeed
  <2>2. SeedStage["done"] > SeedStage[seed[s]]
    BY <1>7, Stages DEF CompleteSeed
  <2>3. \A p \in Places : PlaceStage[place'[p]] >= PlaceStage[place[p]]
    BY <2>1, StayingPlaces
  <2>. QED BY <1>s, <2>1, <2>2, <2>3, SeedForward
<1>8. ASSUME NEW s \in Seeds, EntriesListed(s) PROVE Forward
  <2>1. Entries(s) \in SUBSET Places /\ \A p \in Entries(s) : place[p] = "found"
    BY DEF Entries
  <2>. QED BY <1>s, <1>8, <2>1, Stages, PlacesForward DEF EntriesListed, SeedsStay
<1>9. ASSUME NEW p \in Places, PlaceFails(p) PROVE Forward
  <2>1. SeedsStay /\ place' = [place EXCEPT ![p] = "failed"]
    BY <1>9 DEF PlaceFails, SeedsStay
  <2>2. PlaceStage["failed"] > PlaceStage[place[p]]
    BY <1>9, Stages DEF PlaceFails, Queued
  <2>. QED BY <1>s, <2>1, <2>2, PlaceForward
<1>10. ASSUME NEW p \in Places, HasWebsite(p) PROVE Forward
  <2>1. SeedsStay /\ place' = [place EXCEPT ![p] = "email"]
    BY <1>10 DEF HasWebsite, SeedsStay
  <2>2. PlaceStage["email"] > PlaceStage[place[p]]
    BY <1>10, Stages DEF HasWebsite, Queued
  <2>. QED BY <1>s, <2>1, <2>2, PlaceForward
<1>11. ASSUME NEW p \in Places, PlaceListed(p) PROVE Forward
  <2>1. SeedsStay /\ place' = [place EXCEPT ![p] = "row"]
    BY <1>11 DEF PlaceListed, SeedsStay
  <2>2. PlaceStage["row"] > PlaceStage[place[p]]
    BY <1>11, Stages DEF PlaceListed, Queued
  <2>. QED BY <1>s, <2>1, <2>2, PlaceForward
<1>12. ASSUME NEW p \in Places, EmailListed(p) PROVE Forward
  <2>1. SeedsStay /\ place' = [place EXCEPT ![p] = "row"]
    BY <1>12 DEF EmailListed, SeedsStay
  <2>2. PlaceStage["row"] > PlaceStage[place[p]]
    BY <1>12, Stages DEF EmailListed
  <2>. QED BY <1>s, <2>1, <2>2, PlaceForward
<1>13. ASSUME NEW p \in Places, WriteRow(p) PROVE Forward
  <2>1. SeedsStay /\ place' = [place EXCEPT ![p] = "written"]
    BY <1>13 DEF WriteRow, SeedsStay
  <2>2. PlaceStage["written"] > PlaceStage[place[p]]
    BY <1>13, Stages DEF WriteRow
  <2>. QED BY <1>s, <2>1, <2>2, PlaceForward
<1>14. ASSUME NEW s \in Seeds, WriteRows(s) PROVE Forward
  <2>1. Rows(s) \in SUBSET Places /\ \A p \in Rows(s) : place[p] = "row"
    BY DEF Rows
  <2>. QED BY <1>s, <1>14, <2>1, Stages, PlacesForward DEF WriteRows, SeedsStay
<1>15. CASE Fire \/ Leave
  <2>1. SeedsStay /\ place' = place /\ exit' # exit
    BY <1>15 DEF Fire, Leave, jobs, SeedsStay
  <2>. QED BY <2>1, StayingSeeds, StayingPlaces DEF Forward
<1>. QED
  BY <1>1, <1>2, <1>3, <1>4, <1>5, <1>6, <1>7, <1>8, <1>9, <1>10, <1>11, <1>12, <1>13,
     <1>14, <1>15 DEF Next, SeedStep, PlaceStep, WriterStep

\* Every step of a crawl brings a search or a place a stage on, shortens what a
\* search has to ask, or ends the run, and nothing goes back. Stages and lists are
\* finite and a crawl is never stuck, so what is left of CrawlEnds is fairness.
THEOREM CrawlGoesOn == Spec => CrawlAdvances
<1>1. TypeOK /\ CountingInv /\ [Next]_vars => [Forward]_vars
  BY ForwardStep DEF CountingInv
<1>. QED BY <1>1, CountingHolds, PTL DEF Spec, CrawlAdvances

-----------------------------------------------------------------------------
(* The deduper.                                                            *)

LEMMA DedupStep ==
  TypeOK /\ JobsFollowSeeds /\ DedupInv /\ [Next]_vars => DedupInv'
<1> SUFFICES ASSUME TypeOK, JobsFollowSeeds, DedupInv, [Next]_vars PROVE DedupInv'
  OBVIOUS
<1>0. /\ seed \in [Seeds -> SeedState] /\ place \in [Places -> PlaceState]
      /\ feed \in [Seeds -> SUBSET Hrefs] /\ asking \in [Seeds -> SUBSET Hrefs]
      /\ next \in [Seeds -> SUBSET Hrefs] /\ seen \in SUBSET Hrefs
      /\ redirected \in SUBSET Seeds
      /\ \A p \in Places :
           /\ p[1] \in Seeds /\ p[2] \in Hrefs
           /\ place[p] # "none" => seed[p[1]] \in {"counted", "done"}
      /\ mode.dedup \in BOOLEAN /\ mode.fast \in BOOLEAN
  BY ModesAreRecords DEF TypeOK, Places, JobsFollowSeeds
<1>1. ASSUME NEW s \in Seeds, SeedFails(s) PROVE DedupInv'
  <2>1. FreshSeeds'
    BY <1>0, <1>1 DEF SeedFails, DedupInv, FreshSeeds, RedirectsDoNotAsk
  <2>2. NextBecomesPlaces'
    BY <1>0, <1>1 DEF SeedFails, DedupInv, NextBecomesPlaces, FreshSeeds, RedirectsDoNotAsk
  <2>3. SeenIsTaken'
    BY <1>0, <1>1 DEF SeedFails, DedupInv, SeenIsTaken, FreshSeeds, RedirectsDoNotAsk
  <2>4. TakenIsSeen'
    BY <1>0, <1>1 DEF SeedFails, DedupInv, TakenIsSeen, FreshSeeds, RedirectsDoNotAsk
  <2>5. RedirectsDoNotAsk'
    BY <1>0, <1>1 DEF SeedFails, DedupInv, RedirectsDoNotAsk, FreshSeeds
  <2>. QED BY <2>1, <2>2, <2>3, <2>4, <2>5 DEF DedupInv
<1>2. ASSUME NEW s \in Seeds, ReadFeed(s) PROVE DedupInv'
  <2>1. FreshSeeds'
    BY <1>0, <1>2 DEF ReadFeed, DedupInv, FreshSeeds, RedirectsDoNotAsk
  <2>2. NextBecomesPlaces'
    BY <1>0, <1>2 DEF ReadFeed, DedupInv, NextBecomesPlaces, FreshSeeds, RedirectsDoNotAsk
  <2>3. SeenIsTaken'
    BY <1>0, <1>2 DEF ReadFeed, DedupInv, SeenIsTaken, FreshSeeds, RedirectsDoNotAsk
  <2>4. TakenIsSeen'
    BY <1>0, <1>2 DEF ReadFeed, DedupInv, TakenIsSeen, FreshSeeds, RedirectsDoNotAsk
  <2>5. RedirectsDoNotAsk'
    BY <1>0, <1>2 DEF ReadFeed, DedupInv, RedirectsDoNotAsk, FreshSeeds
  <2>. QED BY <2>1, <2>2, <2>3, <2>4, <2>5 DEF DedupInv
<1>3. ASSUME NEW s \in Seeds, ReadPlacePage(s) PROVE DedupInv'
  <2>1. FreshSeeds'
    BY <1>0, <1>3 DEF ReadPlacePage, DedupInv, FreshSeeds, RedirectsDoNotAsk
  <2>2. NextBecomesPlaces'
    BY <1>0, <1>3 DEF ReadPlacePage, DedupInv, NextBecomesPlaces, FreshSeeds, RedirectsDoNotAsk
  <2>3. SeenIsTaken'
    BY <1>0, <1>3 DEF ReadPlacePage, DedupInv, SeenIsTaken, FreshSeeds, RedirectsDoNotAsk
  <2>4. TakenIsSeen'
    BY <1>0, <1>3 DEF ReadPlacePage, DedupInv, TakenIsSeen, FreshSeeds, RedirectsDoNotAsk
  <2>5. RedirectsDoNotAsk'
    BY <1>0, <1>3 DEF ReadPlacePage, DedupInv, RedirectsDoNotAsk, FreshSeeds
  <2>. QED BY <2>1, <2>2, <2>3, <2>4, <2>5 DEF DedupInv
<1>4. ASSUME NEW s \in Seeds, NEW h \in Hrefs, LookUp(s, h) PROVE DedupInv'
  <2>1. FreshSeeds'
    BY <1>0, <1>4 DEF LookUp, DedupInv, FreshSeeds, RedirectsDoNotAsk
  <2>2. NextBecomesPlaces'
    BY <1>0, <1>4 DEF LookUp, DedupInv, NextBecomesPlaces, FreshSeeds, RedirectsDoNotAsk
  <2>3. SeenIsTaken'
    BY <1>0, <1>4 DEF LookUp, DedupInv, SeenIsTaken, FreshSeeds, RedirectsDoNotAsk
  <2>4. TakenIsSeen'
    BY <1>0, <1>4 DEF LookUp, DedupInv, TakenIsSeen, FreshSeeds, RedirectsDoNotAsk
  <2>5. RedirectsDoNotAsk'
    BY <1>0, <1>4 DEF LookUp, DedupInv, RedirectsDoNotAsk, FreshSeeds
  <2>. QED BY <2>1, <2>2, <2>3, <2>4, <2>5 DEF DedupInv
<1>5. ASSUME NEW s \in Seeds, AddIfNotExists(s) PROVE DedupInv'
  <2>1. FreshSeeds'
    BY <1>0, <1>5 DEF AddIfNotExists, DedupInv, FreshSeeds, RedirectsDoNotAsk
  <2>2. NextBecomesPlaces'
    BY <1>0, <1>5 DEF AddIfNotExists, DedupInv, NextBecomesPlaces, FreshSeeds, RedirectsDoNotAsk
  <2>3. SeenIsTaken'
    BY <1>0, <1>5 DEF AddIfNotExists, DedupInv, SeenIsTaken, FreshSeeds, RedirectsDoNotAsk
  <2>4. TakenIsSeen'
    BY <1>0, <1>5 DEF AddIfNotExists, DedupInv, TakenIsSeen, FreshSeeds, RedirectsDoNotAsk
  <2>5. RedirectsDoNotAsk'
    BY <1>0, <1>5 DEF AddIfNotExists, DedupInv, RedirectsDoNotAsk, FreshSeeds
  <2>. QED BY <2>1, <2>2, <2>3, <2>4, <2>5 DEF DedupInv
<1>6. ASSUME NEW s \in Seeds, CountFound(s) PROVE DedupInv'
  <2>1. FreshSeeds'
    BY <1>0, <1>6 DEF CountFound, Found, DedupInv, FreshSeeds, RedirectsDoNotAsk
  <2>2. NextBecomesPlaces'
    BY <1>0, <1>6 DEF CountFound, Found, DedupInv, NextBecomesPlaces, FreshSeeds, RedirectsDoNotAsk
  <2>3. SeenIsTaken'
    BY <1>0, <1>6 DEF CountFound, Found, DedupInv, SeenIsTaken, FreshSeeds, RedirectsDoNotAsk
  <2>4. TakenIsSeen'
    BY <1>0, <1>6 DEF CountFound, Found, DedupInv, TakenIsSeen, FreshSeeds, RedirectsDoNotAsk
  <2>5. RedirectsDoNotAsk'
    BY <1>0, <1>6 DEF CountFound, Found, DedupInv, RedirectsDoNotAsk, FreshSeeds
  <2>. QED BY <2>1, <2>2, <2>3, <2>4, <2>5 DEF DedupInv
<1>7. ASSUME NEW s \in Seeds, CompleteSeed(s) PROVE DedupInv'
  <2>1. FreshSeeds'
    BY <1>0, <1>7 DEF CompleteSeed, DedupInv, FreshSeeds, RedirectsDoNotAsk
  <2>2. NextBecomesPlaces'
    BY <1>0, <1>7 DEF CompleteSeed, DedupInv, NextBecomesPlaces, FreshSeeds, RedirectsDoNotAsk
  <2>3. SeenIsTaken'
    BY <1>0, <1>7 DEF CompleteSeed, DedupInv, SeenIsTaken, FreshSeeds, RedirectsDoNotAsk
  <2>4. TakenIsSeen'
    BY <1>0, <1>7 DEF CompleteSeed, DedupInv, TakenIsSeen, FreshSeeds, RedirectsDoNotAsk
  <2>5. RedirectsDoNotAsk'
    BY <1>0, <1>7 DEF CompleteSeed, DedupInv, RedirectsDoNotAsk, FreshSeeds
  <2>. QED BY <2>1, <2>2, <2>3, <2>4, <2>5 DEF DedupInv
<1>8. ASSUME NEW s \in Seeds, EntriesListed(s) PROVE DedupInv'
  <2>1. FreshSeeds'
    BY <1>0, <1>8 DEF EntriesListed, Entries, DedupInv, FreshSeeds, RedirectsDoNotAsk
  <2>2. NextBecomesPlaces'
    BY <1>0, <1>8 DEF EntriesListed, Entries, DedupInv, NextBecomesPlaces, FreshSeeds, RedirectsDoNotAsk
  <2>3. SeenIsTaken'
    BY <1>0, <1>8 DEF EntriesListed, Entries, DedupInv, SeenIsTaken, FreshSeeds, RedirectsDoNotAsk
  <2>4. TakenIsSeen'
    BY <1>0, <1>8 DEF EntriesListed, Entries, DedupInv, TakenIsSeen, FreshSeeds, RedirectsDoNotAsk
  <2>5. RedirectsDoNotAsk'
    BY <1>0, <1>8 DEF EntriesListed, Entries, DedupInv, RedirectsDoNotAsk, FreshSeeds
  <2>. QED BY <2>1, <2>2, <2>3, <2>4, <2>5 DEF DedupInv
<1>9. ASSUME NEW p \in Places, PlaceFails(p) PROVE DedupInv'
  <2>1. FreshSeeds'
    BY <1>0, <1>9 DEF PlaceFails, Queued, DedupInv, FreshSeeds, RedirectsDoNotAsk
  <2>2. NextBecomesPlaces'
    BY <1>0, <1>9 DEF PlaceFails, Queued, DedupInv, NextBecomesPlaces, FreshSeeds, RedirectsDoNotAsk
  <2>3. SeenIsTaken'
    BY <1>0, <1>9 DEF PlaceFails, Queued, DedupInv, SeenIsTaken, FreshSeeds, RedirectsDoNotAsk
  <2>4. TakenIsSeen'
    BY <1>0, <1>9 DEF PlaceFails, Queued, DedupInv, TakenIsSeen, FreshSeeds, RedirectsDoNotAsk
  <2>5. RedirectsDoNotAsk'
    BY <1>0, <1>9 DEF PlaceFails, Queued, DedupInv, RedirectsDoNotAsk, FreshSeeds
  <2>. QED BY <2>1, <2>2, <2>3, <2>4, <2>5 DEF DedupInv
<1>10. ASSUME NEW p \in Places, HasWebsite(p) PROVE DedupInv'
  <2>1. FreshSeeds'
    BY <1>0, <1>10 DEF HasWebsite, Queued, DedupInv, FreshSeeds, RedirectsDoNotAsk
  <2>2. NextBecomesPlaces'
    BY <1>0, <1>10 DEF HasWebsite, Queued, DedupInv, NextBecomesPlaces, FreshSeeds, RedirectsDoNotAsk
  <2>3. SeenIsTaken'
    BY <1>0, <1>10 DEF HasWebsite, Queued, DedupInv, SeenIsTaken, FreshSeeds, RedirectsDoNotAsk
  <2>4. TakenIsSeen'
    BY <1>0, <1>10 DEF HasWebsite, Queued, DedupInv, TakenIsSeen, FreshSeeds, RedirectsDoNotAsk
  <2>5. RedirectsDoNotAsk'
    BY <1>0, <1>10 DEF HasWebsite, Queued, DedupInv, RedirectsDoNotAsk, FreshSeeds
  <2>. QED BY <2>1, <2>2, <2>3, <2>4, <2>5 DEF DedupInv
<1>11. ASSUME NEW p \in Places, PlaceListed(p) PROVE DedupInv'
  <2>1. FreshSeeds'
    BY <1>0, <1>11 DEF PlaceListed, Queued, DedupInv, FreshSeeds, RedirectsDoNotAsk
  <2>2. NextBecomesPlaces'
    BY <1>0, <1>11 DEF PlaceListed, Queued, DedupInv, NextBecomesPlaces, FreshSeeds, RedirectsDoNotAsk
  <2>3. SeenIsTaken'
    BY <1>0, <1>11 DEF PlaceListed, Queued, DedupInv, SeenIsTaken, FreshSeeds, RedirectsDoNotAsk
  <2>4. TakenIsSeen'
    BY <1>0, <1>11 DEF PlaceListed, Queued, DedupInv, TakenIsSeen, FreshSeeds, RedirectsDoNotAsk
  <2>5. RedirectsDoNotAsk'
    BY <1>0, <1>11 DEF PlaceListed, Queued, DedupInv, RedirectsDoNotAsk, FreshSeeds
  <2>. QED BY <2>1, <2>2, <2>3, <2>4, <2>5 DEF DedupInv
<1>12. ASSUME NEW p \in Places, EmailListed(p) PROVE DedupInv'
  <2>1. FreshSeeds'
    BY <1>0, <1>12 DEF EmailListed, DedupInv, FreshSeeds, RedirectsDoNotAsk
  <2>2. NextBecomesPlaces'
    BY <1>0, <1>12 DEF EmailListed, DedupInv, NextBecomesPlaces, FreshSeeds, RedirectsDoNotAsk
  <2>3. SeenIsTaken'
    BY <1>0, <1>12 DEF EmailListed, DedupInv, SeenIsTaken, FreshSeeds, RedirectsDoNotAsk
  <2>4. TakenIsSeen'
    BY <1>0, <1>12 DEF EmailListed, DedupInv, TakenIsSeen, FreshSeeds, RedirectsDoNotAsk
  <2>5. RedirectsDoNotAsk'
    BY <1>0, <1>12 DEF EmailListed, DedupInv, RedirectsDoNotAsk, FreshSeeds
  <2>. QED BY <2>1, <2>2, <2>3, <2>4, <2>5 DEF DedupInv
<1>13. ASSUME NEW p \in Places, WriteRow(p) PROVE DedupInv'
  <2>1. FreshSeeds'
    BY <1>0, <1>13 DEF WriteRow, DedupInv, FreshSeeds, RedirectsDoNotAsk
  <2>2. NextBecomesPlaces'
    BY <1>0, <1>13 DEF WriteRow, DedupInv, NextBecomesPlaces, FreshSeeds, RedirectsDoNotAsk
  <2>3. SeenIsTaken'
    BY <1>0, <1>13 DEF WriteRow, DedupInv, SeenIsTaken, FreshSeeds, RedirectsDoNotAsk
  <2>4. TakenIsSeen'
    BY <1>0, <1>13 DEF WriteRow, DedupInv, TakenIsSeen, FreshSeeds, RedirectsDoNotAsk
  <2>5. RedirectsDoNotAsk'
    BY <1>0, <1>13 DEF WriteRow, DedupInv, RedirectsDoNotAsk, FreshSeeds
  <2>. QED BY <2>1, <2>2, <2>3, <2>4, <2>5 DEF DedupInv
<1>14. ASSUME NEW s \in Seeds, WriteRows(s) PROVE DedupInv'
  <2>1. FreshSeeds'
    BY <1>0, <1>14 DEF WriteRows, Rows, DedupInv, FreshSeeds, RedirectsDoNotAsk
  <2>2. NextBecomesPlaces'
    BY <1>0, <1>14 DEF WriteRows, Rows, DedupInv, NextBecomesPlaces, FreshSeeds, RedirectsDoNotAsk
  <2>3. SeenIsTaken'
    BY <1>0, <1>14 DEF WriteRows, Rows, DedupInv, SeenIsTaken, FreshSeeds, RedirectsDoNotAsk
  <2>4. TakenIsSeen'
    BY <1>0, <1>14 DEF WriteRows, Rows, DedupInv, TakenIsSeen, FreshSeeds, RedirectsDoNotAsk
  <2>5. RedirectsDoNotAsk'
    BY <1>0, <1>14 DEF WriteRows, Rows, DedupInv, RedirectsDoNotAsk, FreshSeeds
  <2>. QED BY <2>1, <2>2, <2>3, <2>4, <2>5 DEF DedupInv
<1>15. CASE Fire
  <2>1. FreshSeeds'
    BY <1>0, <1>15 DEF Fire, jobs, DedupInv, FreshSeeds, RedirectsDoNotAsk
  <2>2. NextBecomesPlaces'
    BY <1>0, <1>15 DEF Fire, jobs, DedupInv, NextBecomesPlaces, FreshSeeds, RedirectsDoNotAsk
  <2>3. SeenIsTaken'
    BY <1>0, <1>15 DEF Fire, jobs, DedupInv, SeenIsTaken, FreshSeeds, RedirectsDoNotAsk
  <2>4. TakenIsSeen'
    BY <1>0, <1>15 DEF Fire, jobs, DedupInv, TakenIsSeen, FreshSeeds, RedirectsDoNotAsk
  <2>5. RedirectsDoNotAsk'
    BY <1>0, <1>15 DEF Fire, jobs, DedupInv, RedirectsDoNotAsk, FreshSeeds
  <2>. QED BY <2>1, <2>2, <2>3, <2>4, <2>5 DEF DedupInv
<1>16. CASE Leave
  <2>1. FreshSeeds'
    BY <1>0, <1>16 DEF Leave, jobs, DedupInv, FreshSeeds, RedirectsDoNotAsk
  <2>2. NextBecomesPlaces'
    BY <1>0, <1>16 DEF Leave, jobs, DedupInv, NextBecomesPlaces, FreshSeeds, RedirectsDoNotAsk
  <2>3. SeenIsTaken'
    BY <1>0, <1>16 DEF Leave, jobs, DedupInv, SeenIsTaken, FreshSeeds, RedirectsDoNotAsk
  <2>4. TakenIsSeen'
    BY <1>0, <1>16 DEF Leave, jobs, DedupInv, TakenIsSeen, FreshSeeds, RedirectsDoNotAsk
  <2>5. RedirectsDoNotAsk'
    BY <1>0, <1>16 DEF Leave, jobs, DedupInv, RedirectsDoNotAsk, FreshSeeds
  <2>. QED BY <2>1, <2>2, <2>3, <2>4, <2>5 DEF DedupInv
<1>17. CASE UNCHANGED vars
  <2>1. FreshSeeds'
    BY <1>0, <1>17 DEF vars, jobs, DedupInv, FreshSeeds, RedirectsDoNotAsk
  <2>2. NextBecomesPlaces'
    BY <1>0, <1>17 DEF vars, jobs, DedupInv, NextBecomesPlaces, FreshSeeds, RedirectsDoNotAsk
  <2>3. SeenIsTaken'
    BY <1>0, <1>17 DEF vars, jobs, DedupInv, SeenIsTaken, FreshSeeds, RedirectsDoNotAsk
  <2>4. TakenIsSeen'
    BY <1>0, <1>17 DEF vars, jobs, DedupInv, TakenIsSeen, FreshSeeds, RedirectsDoNotAsk
  <2>5. RedirectsDoNotAsk'
    BY <1>0, <1>17 DEF vars, jobs, DedupInv, RedirectsDoNotAsk, FreshSeeds
  <2>. QED BY <2>1, <2>2, <2>3, <2>4, <2>5 DEF DedupInv
<1>. QED
  BY <1>1, <1>2, <1>3, <1>4, <1>5, <1>6, <1>7, <1>8, <1>9, <1>10, <1>11, <1>12, <1>13,
     <1>14, <1>15, <1>16, <1>17 DEF Next, SeedStep, PlaceStep, WriterStep

LEMMA DedupInit == Init => DedupInv
BY DEF Init, DedupInv, FreshSeeds, NextBecomesPlaces, SeenIsTaken, TakenIsSeen,
       RedirectsDoNotAsk, Places

LEMMA DedupHolds == Spec => [](TypeOK /\ CountingInv /\ DedupInv)
<1>1. TypeOK /\ CountingInv /\ DedupInv /\ [Next]_vars => DedupInv'
  BY DedupStep DEF CountingInv
<1>. QED BY <1>1, CountingHolds, DedupInit, PTL DEF Spec

\* The deduper never swallows a place: when the crawl ends by itself, every place put
\* to it has been visited for some search.
THEOREM NoPlaceIsSwallowed == Spec => []ListedPlacesAreVisited
<1>1. TypeOK /\ CountingInv /\ DedupInv => ListedPlacesAreVisited
  <2> SUFFICES ASSUME TypeOK, CountingInv, DedupInv, exit = "fired", NEW h \in seen
               PROVE  \E s \in Seeds : place[<<s, h>>] # "none"
    BY DEF ListedPlacesAreVisited
  <2>1. \A s \in Seeds : seed[s] = "done"
    BY DEF CountingInv, TokenMeansDone, EverythingDone, DoneSeeds
  <2>2. PICK s \in Seeds : h \in next[s]
    BY DEF DedupInv, SeenIsTaken
  <2>3. <<s, h>> \in Places /\ <<s, h>>[1] = s /\ <<s, h>>[2] = h
    BY DEF TypeOK, Places
  <2>. QED BY <2>1, <2>2, <2>3 DEF DedupInv, NextBecomesPlaces
<1>. QED BY <1>1, DedupHolds, PTL

\* However the look-ups of two searches interleave, one place is visited for one search.
THEOREM OneVisitPerPlace == Spec => []PlacesAreVisitedOnce
<1>1. DedupInv => PlacesAreVisitedOnce
  <2> SUFFICES ASSUME DedupInv, mode.dedup, ~ mode.fast, NEW h \in Hrefs,
                      NEW s \in Seeds \ redirected, NEW t \in Seeds \ redirected,
                      place[<<s, h>>] # "none", place[<<t, h>>] # "none"
               PROVE  s = t
    BY DEF PlacesAreVisitedOnce
  <2>1. /\ <<s, h>> \in Places /\ <<s, h>>[1] = s /\ <<s, h>>[2] = h
        /\ <<t, h>> \in Places /\ <<t, h>>[1] = t /\ <<t, h>>[2] = h
    BY DEF Places
  <2>2. h \in next[s] /\ h \in next[t]
    BY <2>1 DEF DedupInv, NextBecomesPlaces
  <2>. QED BY <2>2 DEF DedupInv, TakenIsSeen
<1>. QED BY <1>1, DedupHolds, PTL

-----------------------------------------------------------------------------
(* The counters implement the promise.                                     *)

\* What all the steps that find nothing and end nothing do to the work.
Accounted == Outstanding' \subseteq Outstanding /\ exit' = exit

LEMMA PromiseSteps ==
  TypeOK /\ CountingInv /\ [Next]_vars => [Promise!Next]_(Promise!vars)
<1> SUFFICES ASSUME TypeOK, CountingInv, [Next]_vars PROVE [Promise!Next]_(Promise!vars)
  OBVIOUS
<1>0. /\ seed \in [Seeds -> SeedState] /\ place \in [Places -> PlaceState]
      /\ mode.managed \in BOOLEAN
      /\ Outstanding \subseteq Seeds \cup Places
  BY ModesAreRecords DEF TypeOK, Outstanding, Discovered
<1>1. ASSUME NEW s \in Seeds, SeedFails(s) PROVE Accounted
  BY <1>0, <1>1 DEF Accounted, SeedFails, Outstanding, Discovered, Completed
<1>2. ASSUME NEW s \in Seeds, ReadFeed(s) PROVE Accounted
  BY <1>0, <1>2 DEF Accounted, ReadFeed, Outstanding, Discovered, Completed
<1>3. ASSUME NEW s \in Seeds, ReadPlacePage(s) PROVE Accounted
  BY <1>0, <1>3 DEF Accounted, ReadPlacePage, Outstanding, Discovered, Completed
<1>4. ASSUME NEW s \in Seeds, NEW h \in Hrefs, LookUp(s, h) PROVE Accounted
  BY <1>0, <1>4 DEF Accounted, LookUp, Outstanding, Discovered, Completed
<1>5. ASSUME NEW s \in Seeds, AddIfNotExists(s) PROVE Accounted
  BY <1>0, <1>5 DEF Accounted, AddIfNotExists, Outstanding, Discovered, Completed
<1>6. ASSUME NEW s \in Seeds, CompleteSeed(s) PROVE Accounted
  BY <1>0, <1>6 DEF Accounted, CompleteSeed, Outstanding, Discovered, Completed
<1>7. ASSUME NEW s \in Seeds, EntriesListed(s) PROVE Accounted
  BY <1>0, <1>7 DEF Accounted, EntriesListed, Entries, Outstanding, Discovered, Completed
<1>8. ASSUME NEW p \in Places, PlaceFails(p) PROVE Accounted
  BY <1>0, <1>8 DEF Accounted, PlaceFails, Queued, Outstanding, Discovered, Completed
<1>9. ASSUME NEW p \in Places, HasWebsite(p) PROVE Accounted
  BY <1>0, <1>9 DEF Accounted, HasWebsite, Queued, Outstanding, Discovered, Completed
<1>10. ASSUME NEW p \in Places, PlaceListed(p) PROVE Accounted
  BY <1>0, <1>10 DEF Accounted, PlaceListed, Queued, Outstanding, Discovered, Completed
<1>11. ASSUME NEW p \in Places, EmailListed(p) PROVE Accounted
  BY <1>0, <1>11 DEF Accounted, EmailListed, Outstanding, Discovered, Completed
<1>12. ASSUME NEW p \in Places, WriteRow(p) PROVE Accounted
  BY <1>0, <1>12 DEF Accounted, WriteRow, Outstanding, Discovered, Completed
<1>13. ASSUME NEW s \in Seeds, WriteRows(s) PROVE Accounted
  BY <1>0, <1>13 DEF Accounted, WriteRows, Rows, Outstanding, Discovered, Completed
<1>14. ASSUME Accounted PROVE Promise!Account
  <2>1. Outstanding' = Outstanding \ (Outstanding \ Outstanding')
    BY <1>14 DEF Accounted
  <2>. QED BY <1>14, <2>1 DEF Promise!Account, Accounted
<1>15. ASSUME NEW s \in Seeds, CountFound(s) PROVE Promise!Find
  <2>1. s \in Outstanding /\ exit' = exit
    BY <1>15 DEF CountFound, Outstanding
  <2>2. \A p \in Found(s) : p \in Places /\ place[p] = "none"
    BY <1>0, <1>15 DEF CountFound, Found, CountingInv, JobsFollowSeeds
  <2>3. Outstanding' = Outstanding \cup Found(s)
    BY <1>0, <1>15, <2>2 DEF CountFound, Outstanding, Discovered, Completed
  <2>4. Found(s) \in SUBSET (Seeds \cup Places)
    BY <2>2
  <2>. QED BY <2>1, <2>3, <2>4 DEF Promise!Find
<1>16. ASSUME Fire PROVE Promise!Announce
  <2>1. Outstanding = {}
    BY <1>16 DEF Fire, CountingInv, TokenMeansDone, EverythingDone, DoneSeeds, Outstanding
  <2>2. Outstanding' = Outstanding
    BY <1>16 DEF Fire, jobs, Outstanding, Discovered, Completed
  <2>. QED BY <1>16, <2>1, <2>2 DEF Fire, Promise!Announce
<1>17. ASSUME Leave PROVE Promise!CallOff
  <2>1. Outstanding' = Outstanding
    BY <1>17 DEF Leave, jobs, Outstanding, Discovered, Completed
  <2>. QED BY <1>17, <2>1 DEF Leave, Promise!CallOff
<1>18. CASE UNCHANGED vars
  BY <1>18 DEF vars, jobs, Promise!vars, Outstanding, Discovered, Completed
<1>. QED
  BY <1>1, <1>2, <1>3, <1>4, <1>5, <1>6, <1>7, <1>8, <1>9, <1>10, <1>11, <1>12, <1>13,
     <1>14, <1>15, <1>16, <1>17, <1>18
  DEF Next, SeedStep, PlaceStep, WriterStep, Promise!Next

LEMMA PromiseInit == Init => Promise!Init
<1> SUFFICES ASSUME Init PROVE Promise!Init
  OBVIOUS
<1>1. Outstanding = Seeds
  BY DEF Init, Outstanding, Discovered
<1>2. Outstanding # {} /\ Outstanding \subseteq Seeds \cup Places
  BY <1>1, SeedsAreFinite
<1>3. (exit = "fired") = FALSE /\ (exit = "left") = FALSE
  BY DEF Init
<1>. QED BY <1>2, <1>3 DEF Promise!Init

\* The crawl, with its four counters, its channel and its deduper, implements
\* CrawlPromise: work appears only while there is work, and the end is announced only
\* when there is none.
THEOREM CrawlKeepsPromise == Spec => KeepsPromise
BY PromiseInit, PromiseSteps, CountingHolds, PTL DEF Spec, KeepsPromise, Promise!Spec

=============================================================================
