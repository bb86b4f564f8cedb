--------------------------- MODULE MCThreadPool ---------------------------
(* Instances of ThreadPool for TLC. *)
EXTENDS ThreadPool, TLC

(* Tasks, clients other than Main and indices are interchangeable only     *)
(* within the sets the constants do not single out.                        *)
Perms == Permutations(HasJob \intersect HasComplete)
=============================================================================
