---------------------------- MODULE MCOperations ----------------------------
(***************************************************************************)
(* Guest operations and runs, on small instances.  A behaviour is one of   *)
(* two: processes that work on operation records and artifacts, or one run *)
(* from its request to its report.  part says which; the other rests in an *)
(* initial state.                                                          *)
(***************************************************************************)
EXTENDS Operations, TLC

VARIABLE part   \* "operations" or "run"

AnyRequest ==
  [job |-> TRUE, copies |-> 1, artifacts |-> TRUE, keep |-> FALSE, keepOnFailure |-> FALSE]

MCInit ==
  /\ part \in {"operations", "run"}
  /\ part = "run" \/ req = AnyRequest
  /\ Init /\ Run!Init

MCNext ==
  \/ part = "operations" /\ Next /\ UNCHANGED <<part, run_vars>>
  \/ part = "run" /\ Run!Next /\ UNCHANGED <<part, vars>>

MCSpec == MCInit /\ [][MCNext]_<<part, vars, run_vars>>

Symmetry == Permutations(Processes)
=============================================================================
