----------------------------- MODULE MCJobManager -----------------------------
(***************************************************************************)
(* Small instances of JobManager: which jobs, environments and workers TLC *)
(* explores, and the permutations it may treat as the same state.          *)
(***************************************************************************)
EXTENDS JobManager, TLC

\* Ids, environments and workers are only compared with one another.
Symmetry == Permutations(Job) \cup Permutations(Env) \cup Permutations(Worker)
===============================================================================
