---------------------------- MODULE MCScrapeJobs ----------------------------
(* Instances of ScrapeJobs for TLC.                                        *)
EXTENDS ScrapeJobs, TLC
CONSTANTS j1, j2, l1, l2
JobSymmetry == Permutations({j1, j2}) \cup Permutations({l1, l2})
=============================================================================
