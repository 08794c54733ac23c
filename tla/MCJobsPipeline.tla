--------------------------- MODULE MCJobsPipeline ---------------------------
(* Small instances of JobsPipeline for TLC: triggers of one kind are       *)
(* interchangeable.                                                        *)
EXTENDS JobsPipeline, TLC

Symmetry == Permutations(CronRuns) \cup Permutations(DevRequests)
=============================================================================
