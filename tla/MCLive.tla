------------------------------- MODULE MCLive -------------------------------
(***************************************************************************)
(* Three parts that share no state and whose scheduling is fair, for TLC:  *)
(* the crawl, the reading of reviews and the job provider of the database  *)
(* mode.  A behaviour is one of one of them; the others stay as they       *)
(* begin, but for the crawl, which somebody calls off.                     *)
(***************************************************************************)
EXTENDS Crawl, Sequences

CONSTANTS s1, s2, h1, h2, r1, r2, r3, n1, found

CONSTANTS Listing, NoId, PageSize, Identities, Caps, Counts, Inlines, TransientRetries, MaxStuckPasses
CONSTANTS Job, Parent, Proc, Caller, BatchSize, MaxRestarts

\* Three pages; one review of the second carries no id.
ThreePages == <<{r1}, {r2, n1}, {r3}>>
NoInline == {{}}

\* One job found by the other.
FoundBy == [j \in Job |-> CHOOSE k \in Job : k # found]

VARIABLES
  part,
  cfg, where, stage, late, rows, orphans, token, pagesSeen, pages, budget, rereads,
  attempt, rotated, cur, retired, panel, stuck, last, report, given, looped,
  table, fetch, batch, jobc, relay, ctx, restarts, handed, claimed

Reading == INSTANCE Reviews WITH seen <- pagesSeen
Provider == INSTANCE JobProvider

readingVars == <<cfg, where, stage, late, rows, orphans, token, pagesSeen, pages, budget, rereads,
                 attempt, rotated, cur, retired, panel, stuck, last, report, given, looped>>
providerVars == <<table, fetch, batch, jobc, relay, ctx, restarts, handed, claimed>>
liveVars == <<part, vars, readingVars, providerVars>>

LiveInit ==
  /\ part \in {"crawl", "reviews", "jobs"}
  /\ Init /\ Reading!ReviewsInit /\ Provider!JobInit
  /\ part # "crawl" => mode = CHOOSE m \in Modes : TRUE
  /\ part # "reviews" => cfg = CHOOSE c \in Reading!Configs : TRUE

\* What stays as it is when one part moves.
Only(p) ==
  /\ part = p /\ UNCHANGED part
  /\ p # "crawl" => UNCHANGED vars /\ exit = "left"
  /\ p # "reviews" => UNCHANGED readingVars
  /\ p # "jobs" => UNCHANGED providerVars

CalledOff == part # "crawl" /\ Leave /\ UNCHANGED <<part, readingVars, providerVars>>

LiveNext ==
  \/ Only("crawl") /\ Next
  \/ CalledOff
  \/ Only("reviews") /\ Reading!ReviewsNext
  \/ Only("jobs") /\ Provider!JobNext

(* The fairness of Crawl's FairSpec, of ReviewsSpec and of JobSpec, in the behaviours of these parts. *)
LiveSpec ==
  /\ LiveInit /\ [][LiveNext]_liveVars
  /\ WF_liveVars(CalledOff)
  /\ \A s \in Seeds : WF_liveVars(Only("crawl") /\ SeedStep(s))
  /\ \A p \in Places : WF_liveVars(Only("crawl") /\ PlaceStep(p))
  /\ WF_liveVars(Only("crawl") /\ WriterStep) /\ WF_liveVars(Only("crawl") /\ Fire)
  /\ WF_liveVars(Only("reviews") /\ Reading!Collecting)
  /\ \A p \in Proc : /\ WF_liveVars(Only("jobs") /\ Provider!Fetching(p))
                     /\ \A c \in Caller : WF_liveVars(Only("jobs") /\ Provider!Relaying(p, c))

(* Every collection of reviews ends, whatever Google answers. *)
CollectionEnds == Reading!CollectionEnds

(* A new job is taken, and what is taken reaches a worker (JobProvider). *)
NewJobsReachWorkers == Provider!NewJobsReachWorkers
=============================================================================
