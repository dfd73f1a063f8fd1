----------------------------- MODULE MCOutreach -----------------------------
(* Instances of Outreach for TLC. *)
EXTENDS Outreach, TLC

CONSTANTS a, b, c, s1, s2, h1, h2

\* One business with everything, one without a usable number; a row cut short,
\* a row the reader gives up on.
Whole(l) == [kind |-> "whole", lead |-> l,
             facts |-> [email |-> TRUE, phone |-> l = a, reviews |-> 1, category |-> c]]
Torn(l, kind) == [Whole(l) EXCEPT !.kind = kind]

TwoLeadFiles == {<<Whole(a), Torn(b, "short"), Whole(b)>>, <<Whole(b), Torn(a, "broken"), Whole(a)>>}
TwoRoutes == [cat \in Category |-> {s1, s2}]
Handlers == Permutations(Request)
=============================================================================
