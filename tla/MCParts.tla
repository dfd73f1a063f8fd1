------------------------------ MODULE MCParts ------------------------------
(***************************************************************************)
(* Seven parts that share no state, for TLC: a behaviour is one of one of  *)
(* them, and the others stay as they begin.  Their states add up instead   *)
(* of multiplying, and what is found of a part is found of it alone.       *)
(***************************************************************************)
EXTENDS Reviews, BlockGuard, JobProvider, ResultBuffer, Provisioning, AdminAccount, RateLimit

CONSTANTS
  r1, r2, r3, n1, seed, found, other

\* Three pages; one review of the second carries no id.
ThreePages == <<{r1}, {r2, n1}, {r3}>>
SomeInline == {{}, {r1}}

\* One job found by a seed, and another seed.
FoundBy == [j \in Job |-> IF j = found THEN seed ELSE j]

\* Bound: a second secret and a second set of codes are followed where nobody overlapped or strayed.
SecondInOrder == overlap \/ strayed => made < 2 /\ sets < 2

VARIABLE part

vars == <<part, reviewVars, guardVars, jobVars, bufferVars, provVars, accountVars, limitVars>>

Init ==
  /\ part \in {"reviews", "guard", "jobs", "results", "wizard", "account", "limit"}
  /\ ReviewsInit /\ GuardInit /\ JobInit /\ BufferInit /\ ProvInit /\ AccountInit /\ LimitInit
  /\ part # "reviews" => cfg = CHOOSE c \in Configs : TRUE

\* What stays as it is when one part moves.
Only(p) ==
  /\ part = p /\ UNCHANGED part
  /\ p # "reviews" => UNCHANGED reviewVars
  /\ p # "guard" => UNCHANGED guardVars
  /\ p # "jobs" => UNCHANGED jobVars
  /\ p # "results" => UNCHANGED bufferVars
  /\ p # "wizard" => UNCHANGED provVars
  /\ p # "account" => UNCHANGED accountVars
  /\ p # "limit" => UNCHANGED limitVars

Next ==
  \/ ReviewsNext /\ Only("reviews")
  \/ GuardNext /\ Only("guard")
  \/ JobNext /\ Only("jobs")
  \/ BufferNext /\ Only("results")
  \/ ProvNext /\ Only("wizard")
  \/ AccountNext /\ SecondInOrder' /\ Only("account")
  \/ LimitNext /\ Only("limit")

Spec == Init /\ [][Next]_vars
=============================================================================
