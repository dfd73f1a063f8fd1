----------------------------- MODULE BlockGuard -----------------------------
(***************************************************************************)
(* The back-off the browsers of one process share when Google refuses      *)
(* pages (gmaps/blockguard.go), and the pages that wait for it.  Time is   *)
(* kept as what is left of it; the counts the dashboard shows are left     *)
(* out, and so are refusals in a row past those that still double.         *)
(***************************************************************************)
EXTENDS Integers

CONSTANTS
  Browser,
  Base,          \* blockBackoffBase
  Longest,       \* blockBackoffMax
  MostDoublings  \* of the back-off, with the refusals in a row

ASSUME BlockGuardAssumption ==
  /\ Base \in Nat \ {0} /\ Longest \in Nat \ {0} /\ MostDoublings \in Nat /\ Base <= Longest
  /\ \A n \in 0..MostDoublings : Base * 2^n \in Nat  \* no shift overflows

VARIABLES
  hold,          \* until, as time from now
  consecutive,
  page,          \* what each browser is doing
  wait,          \* how long each browser's timer still runs
  since          \* history: time since the last refusal, up to Longest

guardVars == <<hold, consecutive, page, wait, since>>

GuardInit ==
  /\ hold = 0 /\ consecutive = 0 /\ since = Longest
  /\ page = [b \in Browser |-> "idle"] /\ wait = [b \in Browser |-> 0]

Smaller(a, b) == IF a <= b THEN a ELSE b
Larger(a, b) == IF a >= b THEN a ELSE b
Sooner(t) == Larger(t - 1, 0)

\* The back-off after n refusals in a row.
Backoff(n) == Smaller(Base * 2^Smaller(n - 1, MostDoublings), Longest)

\* Wait, with the lock held: the timer is set to what is left now.
Ask(b) ==
  /\ page[b] = "idle"
  /\ page' = [page EXCEPT ![b] = IF hold = 0 THEN "loading" ELSE "waiting"]
  /\ wait' = [wait EXCEPT ![b] = hold]
  /\ UNCHANGED <<hold, consecutive, since>>

Wake(b) ==
  /\ page[b] = "waiting" /\ wait[b] = 0
  /\ page' = [page EXCEPT ![b] = "loading"]
  /\ UNCHANGED <<hold, consecutive, wait, since>>

\* The job's context ends while it waits.
Cancelled(b) ==
  /\ page[b] = "waiting"
  /\ page' = [page EXCEPT ![b] = "idle"] /\ wait' = [wait EXCEPT ![b] = 0]
  /\ UNCHANGED <<hold, consecutive, since>>

Done(b) == page[b] = "loading" /\ page' = [page EXCEPT ![b] = "idle"] /\ UNCHANGED wait

\* Faulty variant: a refusal during a back-off leaves it as it is.
RefusedOnce(b) ==
  /\ Done(b)
  /\ consecutive' = Smaller(consecutive + 1, MostDoublings + 1)
  /\ hold' = (IF hold > 0 THEN hold ELSE Backoff(consecutive')) /\ since' = 0
\* The page came back refused, by its response or by what it says.
PageRefused(b) ==
  /\ Done(b)
  /\ consecutive' = Smaller(consecutive + 1, MostDoublings + 1)
  /\ hold' = Larger(hold, Backoff(consecutive')) /\ since' = 0

\* The page loaded: a run of refusals is over, the back-off is not.
PageLoaded(b) == Done(b) /\ consecutive' = 0 /\ UNCHANGED <<hold, since>>

\* Neither: the page did not come, or is something else.
PageFailed(b) == Done(b) /\ UNCHANGED <<hold, consecutive, since>>

Elapse ==
  /\ hold' = Sooner(hold) /\ wait' = [b \in Browser |-> Sooner(wait[b])]
  /\ since' = Smaller(since + 1, Longest)
  /\ UNCHANGED <<consecutive, page>>

GuardNext ==
  \/ \E b \in Browser : Ask(b) \/ Wake(b) \/ Cancelled(b) \/ PageRefused(b) \/ PageLoaded(b) \/ PageFailed(b)
  \/ Elapse

GuardSpec == GuardInit /\ [][GuardNext]_guardVars
-----------------------------------------------------------------------------
(* Back-offs stay between what the refusals in a row call for and the longest  *)
(* (blockguard.go:35-36), whichever browsers' refusals and loads arrive in     *)
(* between, and however late: nothing shortens one that is running.            *)
HoldsBack ==
  /\ hold \in 0..Longest
  /\ consecutive > 0 => hold + since >= Backoff(consecutive)
=============================================================================
