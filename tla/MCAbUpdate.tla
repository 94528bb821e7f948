----------------------------- MODULE MCAbUpdate -----------------------------
(* AbUpdate for TLC: two OTA threads, two images.                          *)
EXTENDS AbUpdate, FiniteSets, TLC

\* Threads and images are interchangeable in every definition of AbUpdate.
Symmetry == Permutations(Workers) \cup Permutations(Images)

\* Bound of the runs: behaviours are followed up to the first state with two
\* kinds of hazard; every property but two is void after the first kind.
OneHazard == Cardinality(hazards) <= 1
=============================================================================
