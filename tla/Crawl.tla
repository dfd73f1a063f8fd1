------------------------------- MODULE Crawl -------------------------------
(***************************************************************************)
(* When is a crawl over? Seed jobs (searches) find places, a place may     *)
(* lead to a job for its website, and rows travel to a result writer; many *)
(* goroutines process them in any order. The exit monitor keeps four       *)
(* counters under a mutex and, when they meet, calls a cancel function     *)
(* that ends the crawl (dashboard, command line) or saves its rows (SaaS). *)
(* exiter/exiter.go, gmaps/{job,place,emailjob,searchjob}.go,              *)
(* deduper/hashmap.go, scraper/centralwriter.go.                           *)
(***************************************************************************)
EXTENDS Naturals, FiniteSets

CONSTANTS
  Seeds,     \* the searches of the crawl
  Hrefs      \* the places the searches can list

ASSUME SeedsAreFinite == IsFiniteSet(Seeds) /\ Seeds # {}
ASSUME HrefsAreFinite == IsFiniteSet(Hrefs)

Places == Seeds \X Hrefs     \* a place job: the search that found it, and the place

(***************************************************************************)
(* The ways the repository sets up a crawl: a search may be a browser job  *)
(* (GmapJob) or a plain request for a list of entries (fast, SearchJob);   *)
(* completion of a place is counted by its own job, or by the writer once  *)
(* it has the row (managed); a shared deduper or none.                     *)
(***************************************************************************)
Mode == [fast : BOOLEAN, managed : BOOLEAN, emails : BOOLEAN, dedup : BOOLEAN]
RunnerModes == {m \in Mode : ~ m.managed /\ (m.dedup \/ (~ m.fast /\ ~ m.emails))}
WorkerModes == {m \in Mode : m.managed /\ ~ m.dedup}
Modes == RunnerModes \cup WorkerModes

SeedState  == {"queued", "feeding", "counted", "done"}
PlaceState == {"none", "found", "email", "row", "written", "failed"}

VARIABLES
  mode,             \* how this crawl was set up
  seed,             \* where the processing of each seed job is
  redirected,       \* searches that Google answered with a place's own page
  feed,             \* hrefs of its page not yet put to the deduper
  asking,           \* the href its goroutine has looked up but not yet added
  next,             \* hrefs it will make place jobs for
  place,            \* where each place job is; "none" when it does not exist
  seen,             \* the deduper's map
  seedCount, seedCompleted, placesFound, placesCompleted,   \* the monitor's counters
  doneCh,           \* a token in the monitor's channel
  exit              \* the monitor's Run: waiting, fired (called cancelFunc), left

counters == <<seedCount, seedCompleted, placesFound, placesCompleted>>
jobs == <<seed, redirected, feed, asking, next, place, seen>>
vars == <<mode, jobs, counters, doneCh, exit>>

TypeOK ==
  /\ mode \in Modes
  /\ seed \in [Seeds -> SeedState]
  /\ redirected \subseteq Seeds
  /\ feed \in [Seeds -> SUBSET Hrefs]
  /\ asking \in [Seeds -> SUBSET Hrefs]
  /\ next \in [Seeds -> SUBSET Hrefs]
  /\ place \in [Places -> PlaceState]
  /\ seen \subseteq Hrefs
  /\ seedCount \in Nat
  /\ seedCompleted \in Nat
  /\ placesFound \in Nat
  /\ placesCompleted \in Nat
  /\ doneCh \in BOOLEAN
  /\ exit \in {"waiting", "fired", "left"}

Init ==
  /\ mode \in Modes
  /\ seed = [s \in Seeds |-> "queued"]
  /\ redirected = {}
  /\ feed = [s \in Seeds |-> {}]
  /\ asking = [s \in Seeds |-> {}]
  /\ next = [s \in Seeds |-> {}]
  /\ place = [p \in Places |-> "none"]
  /\ seen = {}
  /\ seedCount = Cardinality(Seeds)
  /\ seedCompleted = 0
  /\ placesFound = 0
  /\ placesCompleted = 0
  /\ doneCh = FALSE
  /\ exit = "waiting"

-----------------------------------------------------------------------------
(* The exit monitor. The send is non-blocking into a channel of one.       *)

Done(sc, pc) == sc >= seedCount /\ pc >= placesFound

IncrSeedCompleted(val) ==
  /\ seedCompleted' = seedCompleted + val
  /\ doneCh' = (doneCh \/ Done(seedCompleted + val, placesCompleted))
  /\ UNCHANGED <<seedCount, placesFound, placesCompleted>>

IncrPlacesFound(val) ==
  /\ placesFound' = placesFound + val
  /\ UNCHANGED <<seedCount, seedCompleted, placesCompleted, doneCh>>

IncrPlacesCompleted(val) ==
  /\ placesCompleted' = placesCompleted + val
  /\ doneCh' = (doneCh \/ Done(seedCompleted, placesCompleted + val))
  /\ UNCHANGED <<seedCount, seedCompleted, placesFound>>

\* A place is complete as soon as it is processed, or only in the writer's hands.
CompleteUnless(later, val) ==
  IF later THEN UNCHANGED <<counters, doneCh>> ELSE IncrPlacesCompleted(val)

Fire ==
  /\ exit = "waiting"
  /\ doneCh
  /\ exit' = "fired"
  /\ doneCh' = FALSE
  /\ UNCHANGED <<mode, jobs, counters>>

\* The context of the run ends first: a timeout, the watchdog, a shutdown.
Leave ==
  /\ exit = "waiting"
  /\ exit' = "left"
  /\ UNCHANGED <<mode, jobs, counters, doneCh>>

-----------------------------------------------------------------------------
(* A seed job's Process.                                                   *)

\* Mutant: a seed that fails is not counted.
SeedFailsUncounted(s) ==
  /\ seed[s] = "queued"
  /\ seed' = [seed EXCEPT ![s] = "done"]
  /\ UNCHANGED <<counters, doneCh>>
  /\ UNCHANGED <<mode, redirected, feed, asking, next, place, seen, exit>>

\* A fetch error, a page or a body that cannot be parsed.
SeedFails(s) ==
  /\ seed[s] = "queued"
  /\ seed' = [seed EXCEPT ![s] = "done"]
  /\ IncrSeedCompleted(1)
  /\ UNCHANGED <<mode, redirected, feed, asking, next, place, seen, exit>>

\* A page of results. A SearchJob makes no jobs: every entry counts as found at once.
ReadFeed(s) ==
  /\ seed[s] = "queued"
  /\ seed' = [seed EXCEPT ![s] = "feeding"]
  /\ \E listed \in SUBSET Hrefs :
       IF mode.fast
       THEN next' = [next EXCEPT ![s] = listed] /\ UNCHANGED feed
       ELSE feed' = [feed EXCEPT ![s] = listed] /\ UNCHANGED next
  /\ UNCHANGED <<mode, redirected, asking, place, seen, counters, doneCh, exit>>

\* The search was redirected to a place's own page: one job, past the deduper.
ReadPlacePage(s) ==
  /\ ~ mode.fast
  /\ seed[s] = "queued"
  /\ seed' = [seed EXCEPT ![s] = "feeding"]
  /\ redirected' = redirected \cup {s}
  /\ \E h \in Hrefs : next' = [next EXCEPT ![s] = {h}]
  /\ UNCHANGED <<mode, feed, asking, place, seen, counters, doneCh, exit>>

(***************************************************************************)
(* AddIfNotExists looks the place up under the read lock and again, to add *)
(* it, under the write lock: another search may add it in between.         *)
(***************************************************************************)
LookUp(s, h) ==
  /\ asking[s] = {}
  /\ h \in feed[s]
  /\ feed' = [feed EXCEPT ![s] = @ \ {h}]
  /\ IF ~ mode.dedup
     THEN next' = [next EXCEPT ![s] = @ \cup {h}] /\ UNCHANGED asking
     ELSE asking' = [asking EXCEPT ![s] = {h} \ seen] /\ UNCHANGED next
  /\ UNCHANGED <<mode, seed, redirected, place, seen, counters, doneCh, exit>>

\* Mutant: no second look under the write lock.
AddUnchecked(s) ==
  /\ asking[s] # {}
  /\ next' = [next EXCEPT ![s] = @ \cup asking[s]]
  /\ seen' = seen \cup asking[s]
  /\ asking' = [asking EXCEPT ![s] = {}]
  /\ UNCHANGED <<mode, seed, redirected, feed, place, counters, doneCh, exit>>

AddIfNotExists(s) ==
  /\ asking[s] # {}
  /\ next' = [next EXCEPT ![s] = @ \cup (asking[s] \ seen)]
  /\ seen' = seen \cup asking[s]
  /\ asking' = [asking EXCEPT ![s] = {}]
  /\ UNCHANGED <<mode, seed, redirected, feed, place, counters, doneCh, exit>>

Found(s) == {p \in Places : p[1] = s /\ p[2] \in next[s]}

CountFound(s) ==
  /\ seed[s] = "feeding"
  /\ feed[s] = {} /\ asking[s] = {}
  /\ seed' = [seed EXCEPT ![s] = "counted"]
  /\ place' = [p \in Places |-> IF p \in Found(s) THEN "found" ELSE place[p]]
  /\ IncrPlacesFound(Cardinality(Found(s)))
  /\ UNCHANGED <<mode, redirected, feed, asking, next, seen, exit>>

\* The seed is complete; returning hands its place jobs (or its list) over.
CompleteSeed(s) ==
  /\ seed[s] = "counted"
  /\ seed' = [seed EXCEPT ![s] = "done"]
  /\ IncrSeedCompleted(1)
  /\ UNCHANGED <<mode, redirected, feed, asking, next, place, seen, exit>>

-----------------------------------------------------------------------------
(* A place job's and a website job's Process, and the entries of a search. *)

Queued(p) == ~ mode.fast /\ seed[p[1]] = "done" /\ place[p] = "found"

PlaceFails(p) ==
  /\ Queued(p)
  /\ place' = [place EXCEPT ![p] = "failed"]
  /\ IncrPlacesCompleted(1)
  /\ UNCHANGED <<mode, seed, redirected, feed, asking, next, seen, exit>>

\* Its website is worth a visit: the row and the completion are left to the email job.
HasWebsite(p) ==
  /\ mode.emails
  /\ Queued(p)
  /\ place' = [place EXCEPT ![p] = "email"]
  /\ UNCHANGED <<mode, seed, redirected, feed, asking, next, seen, counters, doneCh, exit>>

\* Mutant: counted here although the writer will count it.
PlaceListedEager(p) ==
  /\ Queued(p)
  /\ place' = [place EXCEPT ![p] = "row"]
  /\ IncrPlacesCompleted(1)
  /\ UNCHANGED <<mode, seed, redirected, feed, asking, next, seen, exit>>

PlaceListed(p) ==
  /\ Queued(p)
  /\ place' = [place EXCEPT ![p] = "row"]
  /\ CompleteUnless(mode.managed, 1)
  /\ UNCHANGED <<mode, seed, redirected, feed, asking, next, seen, exit>>

\* Found an email or not, could fetch the website or not: a row all the same.
EmailListed(p) ==
  /\ place[p] = "email"
  /\ place' = [place EXCEPT ![p] = "row"]
  /\ CompleteUnless(mode.managed, 1)
  /\ UNCHANGED <<mode, seed, redirected, feed, asking, next, seen, exit>>

Entries(s) == {p \in Places : p[1] = s /\ place[p] = "found"}

\* A SearchJob returns all of its entries as one result.
EntriesListed(s) ==
  /\ mode.fast
  /\ seed[s] = "done"
  /\ Entries(s) # {}
  /\ place' = [p \in Places |-> IF p \in Entries(s) THEN "row" ELSE place[p]]
  /\ CompleteUnless(mode.managed, Cardinality(Entries(s)))
  /\ UNCHANGED <<mode, seed, redirected, feed, asking, next, seen, exit>>

-----------------------------------------------------------------------------
(* The result writer. A managed one adds the row and then counts it.       *)

WriteRow(p) ==
  /\ ~ mode.fast
  /\ place[p] = "row"
  /\ place' = [place EXCEPT ![p] = "written"]
  /\ CompleteUnless(~ mode.managed, 1)
  /\ UNCHANGED <<mode, seed, redirected, feed, asking, next, seen, exit>>

Rows(s) == {p \in Places : p[1] = s /\ place[p] = "row"}

WriteRows(s) ==
  /\ mode.fast
  /\ Rows(s) # {}
  /\ place' = [p \in Places |-> IF p \in Rows(s) THEN "written" ELSE place[p]]
  /\ CompleteUnless(~ mode.managed, Cardinality(Rows(s)))
  /\ UNCHANGED <<mode, seed, redirected, feed, asking, next, seen, exit>>

-----------------------------------------------------------------------------
SeedStep(s) ==
  \/ SeedFails(s) \/ ReadFeed(s) \/ ReadPlacePage(s)
  \/ (\E h \in Hrefs : LookUp(s, h)) \/ AddIfNotExists(s)
  \/ CountFound(s) \/ CompleteSeed(s) \/ EntriesListed(s)
PlaceStep(p) == PlaceFails(p) \/ HasWebsite(p) \/ PlaceListed(p) \/ EmailListed(p)
WriterStep == (\E p \in Places : WriteRow(p)) \/ (\E s \in Seeds : WriteRows(s))

Next ==
  \/ \E s \in Seeds : SeedStep(s)
  \/ \E p \in Places : PlaceStep(p)
  \/ WriterStep
  \/ Fire
  \/ Leave

\* scrapemate processes every job it is given in the end, and the writer every result.
Fairness ==
  /\ \A s \in Seeds : WF_vars(SeedStep(s))
  /\ \A p \in Places : WF_vars(PlaceStep(p))
  /\ WF_vars(WriterStep)
  /\ WF_vars(Fire)

Spec == Init /\ [][Next]_vars
FairSpec == Spec /\ Fairness

-----------------------------------------------------------------------------
(* Properties.                                                             *)

\* Places that count as complete, and the places found.
Completed(p) == place[p] \in {"failed", "written"} \/ (~ mode.managed /\ place[p] = "row")
Discovered == {p \in Places : place[p] # "none"}
DoneSeeds == {s \in Seeds : seed[s] = "done"}

EverythingDone ==
  /\ DoneSeeds = Seeds
  /\ \A p \in Discovered : Completed(p)

\* The cancel function is never called while a search, a place, a website or,
\* when the writer counts, a row on its way to the writer is outstanding
\* (exiter.go: done is computed from two pairs of counters that several
\* goroutines move in any order).
NoEarlyExit == exit = "fired" => EverythingDone

\* The deduper never swallows a place: when a crawl ends by itself, every place
\* that any search put to the deduper has a job that visited it.
ListedPlacesAreVisited ==
  exit = "fired" => \A h \in seen : \E s \in Seeds : place[<<s, h>>] # "none"

\* Two searches that list the same place at the same time do not both visit it
\* (hashmap.go looks the place up twice, under two locks). A search that was
\* redirected to a place's own page does not ask the deduper.
PlacesAreVisitedOnce ==
  mode.dedup /\ ~ mode.fast =>
    \A h \in Hrefs : \A s, t \in Seeds \ redirected :
      place[<<s, h>>] # "none" /\ place[<<t, h>>] # "none" => s = t

\* A crawl ends by itself unless it is stopped (jobs that fail, that list nothing
\* and that lead to other jobs included): the last of all the increments, whichever
\* it is, finds the counters equal.
CrawlEnds == <>(exit # "waiting")

\* The end is never missed: once everything is done and the monitor still waits,
\* its token is there, whichever goroutine moved the counters last (exiter.go
\* looks only when a seed or a place completes, never when places are found).
EndIsNoticed == EverythingDone /\ exit = "waiting" => doneCh

\* While the monitor waits, a goroutine has something to do, or the token is there.
WorkAtHand ==
  \/ \E s \in Seeds : seed[s] # "done" \/ (mode.fast /\ (Entries(s) \cup Rows(s)) # {})
  \/ \E p \in Places : Queued(p) \/ place[p] = "email" \/ (~ mode.fast /\ place[p] = "row")
NeverStuck == exit = "waiting" => doneCh \/ WorkAtHand

\* Every step of a crawl brings it on, and none takes anything of it back: a search
\* has fewer places to ask for or is a stage further, a place is, or the run ended.
SeedStage == [queued |-> 0, feeding |-> 1, counted |-> 2, done |-> 3]
PlaceStage == [none |-> 0, found |-> 1, email |-> 2, row |-> 3, written |-> 4, failed |-> 4]
SeedMoves(s) ==
  \/ SeedStage[seed'[s]] > SeedStage[seed[s]]
  \/ feed'[s] \subseteq feed[s] /\ feed'[s] # feed[s]
  \/ feed'[s] = feed[s] /\ asking'[s] \subseteq asking[s] /\ asking'[s] # asking[s]
PlaceMoves(p) == PlaceStage[place'[p]] > PlaceStage[place[p]]
Forward ==
  /\ \A s \in Seeds : /\ SeedStage[seed'[s]] >= SeedStage[seed[s]]
                      /\ seed[s] # "queued" => next[s] \subseteq next'[s]
                      /\ seed[s] # "queued" => feed'[s] \subseteq feed[s]
  /\ \A p \in Places : PlaceStage[place'[p]] >= PlaceStage[place[p]]
  /\ (\E s \in Seeds : SeedMoves(s)) \/ (\E p \in Places : PlaceMoves(p)) \/ exit' # exit
CrawlAdvances == [][Forward]_vars

\* The counters implement the promise.
Outstanding ==
  {s \in Seeds : seed[s] # "done"} \cup {p \in Discovered : ~ Completed(p)}
Promise == INSTANCE CrawlPromise WITH
  Work <- Seeds \cup Places, outstanding <- Outstanding,
  announced <- exit = "fired", calledOff <- exit = "left"
KeepsPromise == Promise!Spec
=============================================================================
