---------------------------- MODULE MCWebRunner ----------------------------
(* Small instances of WebRunner for TLC. *)
EXTENDS WebRunner, TLC

CONSTANTS j1, j2, p1, p2, h1

OneJob    == {j1}
TwoJobs   == {j1, j2}
OnePlace  == {p1}
TwoPlaces == {p1, p2}
OneHandler == {h1}
JobSymmetry == Permutations(TwoJobs)

(* Either a second job, or up to two of a restart, a window, a failing write, a delete and a rerun. *)
Troubles == restarts + windows + faults + deletes
SecondJobOrTrouble == IF \E j \in Job : row[j] = "none" THEN Troubles + reruns <= 2 ELSE Troubles = 0
=============================================================================
