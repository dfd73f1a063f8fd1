------------------------------ MODULE RateLimit ------------------------------
(***************************************************************************)
(* The limit on attempts to log in: a counter of a fixed window, in one    *)
(* row, that each check starts or raises in one statement                  *)
(* (ratelimit/postgres).  Time is kept as ages.  A check takes the time    *)
(* before its statement runs, and other checks may run in between.         *)
(***************************************************************************)
EXTENDS Integers, FiniteSetsExt, Functions

CONSTANTS
  Request,
  Limit, Window,  \* of Check
  MaxDelay        \* bound: between taking the time and running the statement

ASSUME RateLimitAssumption ==
  {Limit, Window} \subseteq Nat \ {0} /\ MaxDelay \in Nat /\ MaxDelay < Window

VARIABLES
  counter, start, \* the row: the count (0: no row), the age of window_start
  now,            \* the age of the time each request has taken, or -1
  denied,         \* the check that has just run was refused
  allowed         \* history: checks allowed since a reset, by their age

limitVars == <<counter, start, now, denied, allowed>>

Ages == 0..(Window + MaxDelay - 1)
Oldest == Window + MaxDelay

LimitInit ==
  /\ counter = 0 /\ start = 0 /\ now = [r \in Request |-> -1]
  /\ denied = FALSE /\ allowed = [a \in Ages |-> 0]

TakeTime(r) ==
  /\ now[r] = -1 /\ now' = [now EXCEPT ![r] = 0] /\ denied' = FALSE
  /\ UNCHANGED <<counter, start, allowed>>

NoRow(r) == counter = 0 \/ start - now[r] >= Window
Counted(r) == denied' = (counter' > Limit) /\ now' = [now EXCEPT ![r] = -1]
             /\ allowed' = IF denied' THEN allowed ELSE [allowed EXCEPT ![0] = @ + 1]

\* Faulty variant: every check starts the window anew.
CheckExtends(r) ==
  /\ now[r] # -1 /\ start' = now[r]
  /\ counter' = (IF NoRow(r) THEN 1 ELSE Min({counter + 1, Limit + 1}))
  /\ Counted(r)
\* A count past the limit says no more than one past it.
Check(r) ==
  /\ now[r] # -1
  /\ IF NoRow(r) THEN counter' = 1 /\ start' = now[r]
     ELSE counter' = Min({counter + 1, Limit + 1}) /\ UNCHANGED start
  /\ Counted(r)

\* A login is complete.
Reset ==
  /\ counter # 0 /\ counter' = 0 /\ start' = 0 /\ denied' = FALSE
  /\ allowed' = [a \in Ages |-> 0] /\ UNCHANGED now

Later ==
  /\ \A r \in Request : now[r] < MaxDelay
  /\ start' = IF counter = 0 THEN 0 ELSE Min({start + 1, Oldest})
  /\ now' = [r \in Request |-> IF now[r] = -1 THEN -1 ELSE now[r] + 1]
  /\ allowed' = [a \in Ages |-> IF a = 0 THEN 0 ELSE allowed[a - 1]]
  /\ denied' = FALSE /\ UNCHANGED counter

LimitNext == (\E r \in Request : TakeTime(r) \/ Check(r)) \/ Reset \/ Later
LimitSpec == LimitInit /\ [][LimitNext]_limitVars
-----------------------------------------------------------------------------
AllowedWithin(time) == SumFunctionOnSet(allowed, {a \in Ages : a < time})

(* Nobody is shut out for longer than a window: a check is refused only when   *)
(* as many as the limit were allowed within the last one, and refusals do not  *)
(* prolong it; and since the count was last reset no more than twice the limit *)
(* are allowed while one window gives way to the next, however late the checks *)
(* run (ratelimit/postgres/postgres.go:28-64).                                 *)
LimitHolds ==
  /\ denied => AllowedWithin(Window + MaxDelay) >= Limit
  /\ AllowedWithin(Window - MaxDelay) <= 2 * Limit
=============================================================================
