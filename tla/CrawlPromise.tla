---------------------------- MODULE CrawlPromise ----------------------------
(***************************************************************************)
(* What the exit monitor promises about a crawl, without its counters.     *)
(* Work is outstanding from when it is found until it is accounted for;    *)
(* only outstanding work finds more. The monitor announces the end of the  *)
(* crawl only when no work is outstanding.                                 *)
(***************************************************************************)
CONSTANT Work      \* searches and places

VARIABLES
  outstanding,     \* work found and not yet accounted for
  announced,       \* the monitor has called the cancel function
  calledOff        \* the crawl was stopped from outside

vars == <<outstanding, announced, calledOff>>

Init ==
  /\ outstanding # {}
  /\ outstanding \subseteq Work
  /\ announced = FALSE
  /\ calledOff = FALSE

\* A piece of work that is still outstanding turns up more of it.
Find ==
  \E w \in outstanding, new \in SUBSET Work :
    /\ outstanding' = outstanding \cup new
    /\ UNCHANGED <<announced, calledOff>>

Account ==
  \E finished \in SUBSET outstanding :
    /\ outstanding' = outstanding \ finished
    /\ UNCHANGED <<announced, calledOff>>

Announce ==
  /\ outstanding = {}
  /\ ~ calledOff
  /\ announced' = TRUE
  /\ UNCHANGED <<outstanding, calledOff>>

CallOff ==
  /\ ~ announced
  /\ calledOff' = TRUE
  /\ UNCHANGED <<outstanding, announced>>

Next == Find \/ Account \/ Announce \/ CallOff

Spec == Init /\ [][Next]_vars
=============================================================================
