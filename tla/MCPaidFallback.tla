--------------------------- MODULE MCPaidFallback ---------------------------
(* PaidFallback for TLC: the backends are interchangeable. *)
EXTENDS PaidFallback, TLC

Backends == Permutations(Backend)

\* Bound: a process dies, and two collections write one result, on the first day only; a second
\* day without either.
TroubleOnTheFirstDay == crashes > 0 \/ rewritten # {} => clock < Day
=============================================================================
