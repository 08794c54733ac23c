----------------------- MODULE MCCourseInstancesSync -----------------------
(* Small instances of CourseInstancesSync for TLC. *)
EXTENDS CourseInstancesSync, TLC

Symmetry == Permutations(Runs) \cup Permutations(Programs) \cup Permutations(Avails)
============================================================================
