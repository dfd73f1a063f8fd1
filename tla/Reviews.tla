------------------------------ MODULE Reviews ------------------------------
(***************************************************************************)
(* The collection of one place's reviews (gmaps/review_collector.go): the  *)
(* review endpoint read page by page, first through the browser, then      *)
(* through the proxies' identities, and the scrolled panel for what is     *)
(* still missing.  Google answers any request in any way it can; the       *)
(* budget may run out at any moment.                                       *)
(***************************************************************************)
EXTENDS Integers, Sequences, FiniteSets, FiniteSetsExt

CONSTANTS
  Listing,       \* the pages of reviews the endpoint serves, in order
  NoId,          \* the reviews that carry no id
  PageSize,      \* reviews asked for a page
  Identities,    \* how many proxies there are
  Caps, Counts, Inlines,   \* ReviewConfig.MaxReviews, the count reported (0: unknown), the reviews shown inline
  TransientRetries,        \* transientRetries
  MaxStuckPasses           \* maxStuckPasses

Served == UNION {Listing[i] : i \in DOMAIN Listing}

ASSUME ReviewsAssumption ==
  /\ Listing # <<>> /\ Listing \in Seq(SUBSET Served) /\ IsFiniteSet(Served) /\ NoId \subseteq Served
  /\ {PageSize, Identities, MaxStuckPasses} \subseteq Nat \ {0} /\ TransientRetries \in Nat
  /\ Caps \subseteq Nat \ {0} /\ Counts \subseteq Nat /\ Inlines \subseteq SUBSET Served

VARIABLES
  cfg,           \* [cap, reported, proxies, inline] of this place and run
  where, stage,  \* control: what comes next, and in which stage
  late,          \* the budget has run out
  rows, orphans, \* reviewSet: the reviews with an id, how many without
  token, seen,   \* rpcCursor: 0 is the first page
  pages, budget, rereads,      \* report.RPCPages, budgetPages, report.Restarts
  attempt, rotated,             \* fetchOnePage's
  cur, retired,  \* identityPool
  panel, stuck,  \* the reviews scrolled past so far, the passes that found none
  last, report,  \* stageOutcome of the RPC stages; the settled report
  given, looped  \* history: tokens handed out in this reading; one was handed out twice

reviewVars == <<cfg, where, stage, late, rows, orphans, token, seen, pages, budget, rereads,
                attempt, rotated, cur, retired, panel, stuck, last, report, given, looped>>
cursor == <<token, seen>>
pool == <<cur, retired>>
drift == <<given, looped>>
tries == <<attempt, rotated>>
kept == <<rows, orphans>>
dom == <<panel, stuck>>

Open == [reason |-> "open", detail |-> "none"]
Unsettled == [reason |-> "open", detail |-> "none", collected |-> {}, complete |-> FALSE]

Configs == [cap : Caps, reported : Counts, proxies : BOOLEAN, inline : Inlines]

ReviewsInit ==
  /\ cfg \in Configs
  /\ where = "start" /\ stage = "none" /\ late = FALSE
  /\ rows = {} /\ orphans = 0 /\ token = 0 /\ seen = {}
  /\ pages = 0 /\ budget = 0 /\ rereads = 0 /\ attempt = 0 /\ rotated = FALSE
  /\ cur = 1 % Identities /\ retired = {} /\ panel = {} /\ stuck = 0
  /\ last = Open /\ report = Unsettled /\ looped = FALSE /\ given = {}

Least(a, b) == IF a <= b THEN a ELSE b
Most(a, b) == IF a >= b THEN a ELSE b

\* reviewPageBudget, for pages of PageSize.
PageBudget ==
  LET ceiling == Most(1, cfg.cap \div PageSize)
      whole == (cfg.reported + PageSize - 1) \div PageSize
  IN  IF cfg.reported = 0 THEN ceiling ELSE Least(ceiling, whole + 2 + Most(1, whole \div 20))

\* What the set may hold after reading R: a new row past the cap is refused.
Added(R) ==
  LET new == (R \ NoId) \ rows
  IN  {rows \cup S : S \in kSubset(Least(Cardinality(new), cfg.cap - Cardinality(rows)), new)}
AddedOrphans(R) == Least(cfg.cap, orphans + Cardinality(R \cap NoId))

(* TRUE when the reviews told apart are at least as many as the listing says. *)
\* Faulty variant: the reviews without an id are counted too.
ReachesWithOrphans(ids) == Cardinality(ids) + orphans >= cfg.reported
Reaches(ids) == Cardinality(ids) >= cfg.reported
-----------------------------------------------------------------------------
(* How a stage and a collection end. *)

StageEnds(reason, detail) ==
  /\ last' = [reason |-> reason, detail |-> detail] /\ where' = "next"
  /\ UNCHANGED <<cfg, stage, late, rereads, budget, cursor, tries, dom, report>>

Finish(o) ==
  /\ where' = "merge"
  /\ report' = [Unsettled EXCEPT
       !.reason = IF cfg.reported = 0 /\ o.reason = "exhausted" THEN "count_unknown" ELSE o.reason,
       !.detail = o.detail]

\* The listing reports no reviews and shows none.
NoReviews ==
  /\ where = "start" /\ cfg.reported = 0 /\ cfg.inline = {}
  /\ Finish([reason |-> "no_reviews", detail |-> "none"])
  /\ UNCHANGED <<cfg, stage, late, kept, cursor, pages, budget, rereads, tries, pool, dom, last, drift>>

\* PlaceJob.Process: the inline reviews are counted in, and the report is settled.
Merge ==
  /\ where = "merge" /\ where' = "over"
  /\ LET ids == rows \cup (cfg.inline \ NoId)
         known == cfg.reported > 0 /\ Reaches(ids)
         reason == IF report.reason = "exhausted" /\ known THEN "done" ELSE report.reason
     IN  report' = [report EXCEPT !.reason = reason, !.collected = ids,
                      !.detail = IF reason = "done" THEN "none" ELSE @,
                      !.complete = (reason = "done" /\ known) \/ (reason = "no_reviews" /\ ids = {})]
  /\ UNCHANGED <<cfg, stage, late, kept, cursor, pages, budget, rereads, tries, pool, dom, last, drift>>

TimeUp ==
  /\ ~late /\ late' = TRUE
  /\ UNCHANGED <<cfg, where, stage, kept, cursor, pages, budget, rereads, tries, pool, dom, last, report, drift>>
-----------------------------------------------------------------------------
(* run: the stages in turn. *)

BeginStage(name) ==
  /\ stage' = name /\ where' = "turn" /\ budget' = PageBudget
  /\ UNCHANGED <<cfg, late, kept, cursor, pages, rereads, tries, pool, dom, last, report, drift>>

BeginBrowser == where = "start" /\ BeginStage("rpc_browser")

\* What another route would not mend.
Final == {"exhausted", "cap", "budget", "parse_error"}

BeginHTTP ==
  /\ where = "next" /\ stage = "rpc_browser" /\ last.reason \notin Final /\ cfg.proxies
  /\ BeginStage("rpc_http")

NeedMore == IF cfg.reported > 0 THEN ~Reaches(rows) ELSE last.reason # "exhausted"

RoutesDone == where = "next" /\ (stage = "rpc_http" \/ last.reason \in Final \/ ~cfg.proxies)

BeginDOM ==
  /\ RoutesDone /\ last.reason \notin {"cap", "budget"} /\ NeedMore /\ ~late
  /\ stage' = "dom" /\ where' = "scroll"
  /\ UNCHANGED <<cfg, late, kept, cursor, pages, budget, rereads, tries, pool, dom, last, report, drift>>

NoDOM ==
  /\ RoutesDone /\ (last.reason \in {"cap", "budget"} \/ ~NeedMore \/ late)
  /\ Finish(last)
  /\ UNCHANGED <<cfg, stage, late, kept, cursor, pages, budget, rereads, tries, pool, dom, last, drift>>
-----------------------------------------------------------------------------
(* runRPCStage: one page after another. *)

Turn ==
  /\ where = "turn"
  /\ IF late THEN StageEnds("budget", "none")
     ELSE IF pages >= budget THEN StageEnds("exhausted", "page budget reached")
     ELSE /\ where' = "asked" /\ attempt' = 0 /\ rotated' = FALSE
          /\ UNCHANGED <<cfg, stage, late, budget, rereads, cursor, dom, last, report>>
  /\ UNCHANGED <<kept, pages, pool, drift>>

\* The address of the page does not name the place.
NoURL ==
  /\ where = "turn" /\ ~late /\ StageEnds("error", "none")
  /\ UNCHANGED <<kept, pages, pool, drift>>

\* Faulty variant: the tokens of the first reading are remembered.
StartOverRemembering ==
  /\ rereads = 0 /\ rereads' = rereads + 1 /\ budget' = budget + pages
  /\ token' = 0 /\ UNCHANGED seen /\ given' = {}
  /\ where' = "turn" /\ UNCHANGED <<cfg, stage, late, tries, dom, last, report>>
\* Once, the listing is read again from the start as the identity in use.
StartOver ==
  /\ rereads = 0 /\ rereads' = rereads + 1 /\ budget' = budget + pages
  /\ token' = 0 /\ seen' = {} /\ given' = {}
  /\ where' = "turn" /\ UNCHANGED <<cfg, stage, late, tries, dom, last, report>>

\* A page that could not be read after all: a token may be bound to the identity
\* it was handed to.
PageFails(reason) ==
  /\ where = "asked"
  /\ \/ rotated /\ token # 0 /\ StartOver
     \/ ~(rotated /\ token # 0 /\ rereads = 0) /\ StageEnds(reason, "none") /\ UNCHANGED given
  /\ UNCHANGED <<kept, pages, pool, looped>>

\* The page after this one, or (drift) one already handed out.
NextTokens == (IF token + 1 < Len(Listing) THEN {token + 1} ELSE {0}) \cup given

PageRead(next) ==
  /\ where = "asked" /\ next \in NextTokens
  /\ pages' = pages + 1
  /\ rows' \in Added(Listing[token + 1]) /\ orphans' = AddedOrphans(Listing[token + 1])
  /\ looped' = (looped \/ next \in given) /\ given' = given \cup {next}
  /\ IF Cardinality(rows') >= cfg.cap THEN StageEnds("cap", "none")
     ELSE IF next = 0 \/ next \in seen THEN StageEnds("exhausted", "none")
     ELSE /\ token' = next /\ seen' = seen \cup {next} /\ where' = "turn"
          /\ UNCHANGED <<cfg, stage, late, budget, rereads, tries, dom, last, report>>
  /\ UNCHANGED pool
-----------------------------------------------------------------------------
(* fetchOnePage's failures, and the identities. *)

\* How far ahead of the one in use the identities not yet retired are.
Fresh == {k \in 1..Identities : (cur + k) % Identities \notin retired \cup {cur}}

\* Faulty variant: the identity left is not retired.
RotateUnretired ==
  /\ stage = "rpc_http" /\ Fresh # {}
  /\ UNCHANGED retired /\ cur' = (cur + Min(Fresh)) % Identities
  /\ rotated' = TRUE /\ attempt' = 0
  /\ UNCHANGED <<cfg, where, stage, late, budget, rereads, cursor, dom, last, report>>
Rotate ==
  /\ stage = "rpc_http" /\ Fresh # {}
  /\ retired' = retired \cup {cur} /\ cur' = (cur + Min(Fresh)) % Identities
  /\ rotated' = TRUE /\ attempt' = 0
  /\ UNCHANGED <<cfg, where, stage, late, budget, rereads, cursor, dom, last, report>>

\* rotate() that finds no other identity.
RotateFails ==
  /\ stage = "rpc_http" => Fresh = {}
  /\ retired' = (IF stage = "rpc_http" THEN retired \cup {cur} ELSE retired) /\ UNCHANGED cur

Refusal(detail) == StageEnds("blocked", IF stage = "rpc_http" THEN detail ELSE "none")

Refused ==
  /\ where = "asked"
  /\ \/ ~late /\ Rotate
     \/ ~late /\ RotateFails /\ Refusal("every identity refused")
     \/ late /\ Refusal("every identity refused") /\ UNCHANGED <<cur, retired>>
  /\ UNCHANGED <<kept, pages, drift>>

Transient ==
  /\ where = "asked"
  /\ \/ late /\ StageEnds("budget", "none") /\ UNCHANGED <<cur, retired>>
     \/ /\ ~late /\ attempt < TransientRetries /\ attempt' = attempt + 1
        /\ UNCHANGED <<cfg, where, stage, late, budget, rereads, cursor, rotated, dom, last, report, cur, retired>>
     \/ ~late /\ attempt >= TransientRetries /\ Rotate
     \/ ~late /\ attempt >= TransientRetries /\ RotateFails /\ StageEnds("error", "none")
  /\ UNCHANGED <<kept, pages, drift>>
-----------------------------------------------------------------------------
(* The panel is scrolled until it shows no more. *)

NetNew(P) == (P \ NoId) \ rows

\* domShouldStop
PanelDone(P, n) ==
  \/ Cardinality(P) >= cfg.cap
  \/ cfg.reported > 0 /\ Reaches(rows \cup NetNew(P))
  \/ n >= MaxStuckPasses

DomReason ==
  IF late THEN "budget" ELSE IF Cardinality(rows') >= cfg.cap THEN "cap" ELSE "exhausted"

\* The scrolled reviews are added and the collection ends.
Scrolled(P) ==
  /\ rows' \in Added(P) /\ orphans' = AddedOrphans(P)
  /\ IF late \/ Cardinality(rows') >= cfg.cap \/ (cfg.reported > 0 /\ Reaches(rows'))
     THEN Finish([reason |-> DomReason, detail |-> "none"])
     ELSE Finish(IF last.reason = "exhausted" THEN [last EXCEPT !.detail = "none"] ELSE last)

Pass(shown) ==
  /\ where = "scroll" /\ shown \subseteq Served \ panel /\ Cardinality(panel \cup shown) <= cfg.cap
  /\ panel' = panel \cup shown
  /\ stuck' = IF shown = {} THEN stuck + 1 ELSE 0
  /\ IF PanelDone(panel', stuck') THEN Scrolled(panel')
     ELSE UNCHANGED <<where, kept, report>>
  /\ UNCHANGED <<cfg, stage, late, cursor, pages, budget, rereads, tries, pool, last, drift>>

\* The context ends, or the loop's own time or number of passes.
GivesUp ==
  /\ where = "scroll" /\ Scrolled(panel)
  /\ UNCHANGED <<cfg, stage, late, cursor, pages, budget, rereads, tries, pool, dom, last, drift>>
-----------------------------------------------------------------------------
Collecting ==
  \/ NoReviews \/ BeginBrowser \/ BeginHTTP \/ BeginDOM \/ NoDOM \/ Merge
  \/ Turn \/ NoURL \/ PageFails("error") \/ PageFails("parse_error") \/ Refused \/ Transient
  \/ \E next \in 0..Len(Listing) : PageRead(next)
  \/ \E shown \in SUBSET Served : Pass(shown)
  \/ GivesUp

ReviewsNext == Collecting \/ TimeUp

(* The collector runs in the job's goroutine.  That each request is answered or  *)
(* gives up is assumed: pageRPC.fetchPage passes no deadline to the browser.     *)
ReviewsSpec == ReviewsInit /\ [][ReviewsNext]_reviewVars /\ WF_reviewVars(Collecting)
-----------------------------------------------------------------------------
Over == where = "over"

(* A collection that calls itself complete of a listing whose count is no less *)
(* than what Google serves has every review served, whatever was read twice:   *)
(* the removal detection rests on it (reviewset.go:18-20).                     *)
CompleteIsWhole == Over /\ report.complete /\ cfg.reported >= Cardinality(Served) => report.collected = Served

(* A reading that ended because the pages ran out has every review of every    *)
(* page, across retries, identities and a restart                              *)
(* (review_report.go:8-10), unless Google handed out a page token twice.       *)
ExhaustedReadsAll ==
  last.reason = "exhausted" /\ last.detail = "none" /\ ~looped => Served \ NoId \subseteq rows

(* Every collection ends, whatever Google answers.                             *)
CollectionEnds == where # "start" ~> Over

\* How far a collection has come: what it is at, and how much of that is done.
Stretch ==
  CASE where = "start" -> 0
    [] where \in {"turn", "asked"} -> IF stage = "rpc_http" THEN 3 ELSE 1
    [] where = "next" -> IF stage = "rpc_http" THEN 4 ELSE 2
    [] where = "scroll" -> 5
    [] where = "merge" -> 6
    [] OTHER -> 7
Effort == <<Stretch, rereads, pages, IF where = "asked" THEN 1 ELSE 0,
            Cardinality(retired), attempt, Cardinality(panel), stuck>>
MostEffort == <<7, 1, 2 * PageBudget, 1, Identities, TransientRetries, cfg.cap, MaxStuckPasses>>

(* A collection asks for no more than twice its budget of pages, starts over   *)
(* once, and tries no identity, request or pass more often than it may         *)
(* (reviews.go:25-29, review_collector.go's limits), whatever Google answers.  *)
EffortIsBounded == \A i \in 1..8 : Effort[i] \in 0..MostEffort[i]

\* A step forward: something grows, and all that counts for more stays.
Advances == \E i \in 1..8 : Effort'[i] > Effort[i] /\ \A j \in 1..(i - 1) : Effort'[j] = Effort[j]

(* But for the clock, every step goes forward: no answer, refusal, rotation or *)
(* restart brings a collection back to where it was, so that with the bounds   *)
(* above it has finitely many steps to make.                                   *)
NeverBack == [][late' = late => Advances]_reviewVars

(* No identity that was refused, or failed for good, is asked again            *)
(* (identityPool.rotate).                                                      *)
RetiredStaysOut == where = "asked" /\ stage = "rpc_http" => cur \notin retired
=============================================================================
