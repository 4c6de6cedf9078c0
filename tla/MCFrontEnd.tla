----------------------------- MODULE MCFrontEnd -----------------------------
(***************************************************************************)
(* What a user meets, on small instances.  A behaviour is one of four: a   *)
(* command from its line to its exit code, a shell session, status reports *)
(* on a cell others work on, or the validation of an acceptance receipt    *)
(* and of edited copies of it.  part says which; the others rest in an     *)
(* initial state.                                                          *)
(***************************************************************************)
EXTENDS CommandLine

CONSTANTS MaxChanges, MaxEdits

VARIABLES
  part,   \* "command", "shell", "status" or "receipt"
  pc, line, flag, op, loose, foreign, late, last, end, told, code,
  rec, vm, cell_op, holder, avail, changes, step, seen, guidance,
  doc, report, edits

-----------------------------------------------------------------------------
(***************************************************************************)
(* Each command with the choices that matter to it.                        *)
(***************************************************************************)

Base == [verb |-> "doctor", json |-> FALSE, quiet |-> FALSE, explicit |-> None,
         config |-> "hyperv", owner |-> "hyperv", secret |-> TRUE, plan_only |-> FALSE,
         keep |-> FALSE, code |-> 0, verdict |-> TRUE]

Plain == {"doctor", "status", "state_check", "provider_list", "job_plan", "dependencies",
          "unregister", "completion", "reconcile_all", "gc", "image_list", "list", "prune",
          "operation_list", "operation_inspect", "operation_reconcile"}

Judged == {"receipt", "image_validate", "image_candidate", "image_inspect"}

Choosing == {"image_add", "image_candidate", "image_validate", "create"}

Owned == {"inspect", "reconcile", "start", "stop", "destroy", "exec", "copy_in", "copy_out",
          "artifact_collect", "artifact_inspect", "shell", "image_inspect"}

MCCommands ==
  {[Base EXCEPT !.verb = v, !.json = j] : v \in Plain, j \in BOOLEAN}
  \cup {[Base EXCEPT !.verb = v, !.json = j, !.verdict = b] :
          v \in Judged, j \in BOOLEAN, b \in BOOLEAN}
  \cup {[Base EXCEPT !.verb = v, !.explicit = x, !.config = c, !.verdict = b] :
          v \in Choosing, x \in Providers \cup {None}, c \in Providers, b \in BOOLEAN}
  \cup {[Base EXCEPT !.verb = v, !.json = j, !.config = c, !.owner = o, !.secret = s] :
          v \in Owned, j \in BOOLEAN, c \in Providers, o \in Providers, s \in BOOLEAN}
  \cup {[Base EXCEPT !.verb = "shell", !.code = k] : k \in {1, 256}}
  \cup {[Base EXCEPT !.verb = v, !.json = o[1], !.quiet = o[2], !.explicit = x[1], !.secret = x[2],
                     !.plan_only = k[1], !.keep = k[2], !.code = k[3]] :
          v \in {"run", "job_run"}, o \in {<<TRUE, FALSE>>, <<FALSE, FALSE>>, <<FALSE, TRUE>>},
          x \in {<<None, TRUE>>, <<"qemu", FALSE>>},
          k \in {<<TRUE, FALSE, 7>>, <<FALSE, TRUE, 0>>, <<FALSE, FALSE, 7>>, <<FALSE, FALSE, 256>>,
                 <<FALSE, TRUE, -1>>}}

-----------------------------------------------------------------------------
\* Exit codes on both sides of a byte.
Codes == {0, 1, 256, -1}

Shell == INSTANCE ShellSession WITH exit <- code

shell_vars == <<pc, line, flag, op, loose, foreign, late, last, end, told, code>>

Status == INSTANCE StatusReport WITH op <- cell_op, pc <- step, report <- guidance

status_vars == <<rec, vm, cell_op, holder, avail, changes, step, seen, guidance>>

Receipt == INSTANCE AcceptanceReceipt

receipt_vars == <<doc, report, edits>>

MCInit ==
  /\ part \in {"command", "shell", "status", "receipt"}
  /\ part = "command" \/ cmd = Base
  /\ part = "status" \/ avail = TRUE
  /\ part = "receipt" \/ doc = Receipt!Preflight
  /\ Init /\ Shell!Init /\ Status!Init /\ Receipt!Init

MCNext ==
  \/ part = "command" /\ Next /\ UNCHANGED <<part, shell_vars, status_vars, receipt_vars>>
  \/ part = "shell" /\ Shell!Next /\ UNCHANGED <<part, vars, status_vars, receipt_vars>>
  \/ part = "status" /\ Status!Next /\ UNCHANGED <<part, vars, shell_vars, receipt_vars>>
  \/ part = "receipt" /\ Receipt!Next /\ UNCHANGED <<part, vars, shell_vars, status_vars>>

MCSpec == MCInit /\ [][MCNext]_<<part, vars, shell_vars, status_vars, receipt_vars>>

\* A shell session stops over a command whose outcome is not known and names it,
\* runs no line entered after Ctrl-C, and hides no failure (run_shell).
SessionStops == Shell!SessionStops

\* What a status report says of a cell's cleanup is safe to act upon
\* (status_report, cleanup_guidance).
GuidanceIsSafe == Status!GuidanceIsSafe

\* A receipt is read one way only: no relabelling turns a preflight into a receipt
\* that passes (validate_acceptance_receipt_bytes).
NoRelabelling == part = "receipt" => Receipt!NoRelabelling
=============================================================================
