----------------------------- MODULE Operations -----------------------------
(***************************************************************************)
(* Guest operations, and the run that issues them and cleans up after them. *)
(* GuestOperations has the records, the artifacts and every process at      *)
(* work on them; RunCell one run from its request to its report, in which a *)
(* guest operation is one step.                                             *)
(***************************************************************************)
EXTENDS GuestOperations

CONSTANTS MaxCopies, MaxOthers, NoReport

VARIABLES
  req, pc, copied, cell, ops, foreign, exit, failure, report, answered, unknown, byRun, others

run_vars == <<req, pc, copied, cell, ops, foreign, exit, failure, report, answered, unknown,
              byRun, others>>

ASSUME CopiesAssumption == MaxCopies \in Nat

Run == INSTANCE RunCell

\* A run's report tells the truth about its cell, its result and its
\* operations (run_cell_observed_with_job, cleanup_failed_run).
ReportIsTrue == Run!ReportIsTrue

\* A run destroys its cell only when nothing of anybody's is open on it, none
\* of its own actions may still have an effect, and the policy allows it
\* (destroy_cell_for_run).
CleanupIsSafe == Run!CleanupIsSafe
=============================================================================
