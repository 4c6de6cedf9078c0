------------------------------- MODULE RunCell -------------------------------
(***************************************************************************)
(* vmcell run: create a cell, start it, copy files in, run the command,    *)
(* collect artifacts and clean up, with the report it ends in.  Every step *)
(* takes the mutation lock for itself, so other commands on the same cell  *)
(* run between any two of them; an observer may cancel after each.         *)
(*                                                                         *)
(* Lifecycle verbs and guest operations are atomic here, as the lock makes *)
(* them for other commands; what they do inside is in CellEngine and       *)
(* GuestOperations.                                                        *)
(***************************************************************************)
EXTENDS Naturals, FiniteSets

CONSTANTS
  MaxCopies,   \* copy-in actions of a job, at most
  MaxOthers,   \* commands of other processes, at most
  NoReport     \* the run has not ended yet

\* The guest actions of a run; a copy is known by its position.
Copies == 1 .. MaxCopies
Actions == {<<"copy", i>> : i \in Copies} \cup {<<"exec", 0>>, <<"artifact", 0>>}

Exec == <<"exec", 0>>
Artifact == <<"artifact", 0>>

\* The journal record of an action: open in one of the nonterminal phases, or
\* closed.
Open == {"intent", "active", "committed"}

Requests == [job : BOOLEAN, copies : 0 .. MaxCopies, artifacts : BOOLEAN,
             keep : BOOLEAN, keepOnFailure : BOOLEAN]

VARIABLES
  req,       \* the request: cleanup policy and, for a job, its actions
  pc,        \* the next step of the run
  copied,    \* copies done so far
  cell,      \* the durable state of the run's cell
  ops,       \* ops[a]: the record of action a of this run
  foreign,   \* the record of another command's operation on the cell
  exit,      \* the command's exit code once known
  failure,   \* the failure being cleaned up: stage and ambiguity
  report,    \* what the run answered
  answered,  \* history: the actions that returned Ok to the run
  unknown,   \* history: an action of the run failed with unknown effect
  byRun,     \* history: the run itself destroyed the cell
  others     \* how many commands of others have run

vars == <<req, pc, copied, cell, ops, foreign, exit, failure, report, answered,
          unknown, byRun, others>>

history == <<answered, unknown, byRun, others>>

NoFailure == [stage |-> "None", ambiguous |-> FALSE]

\* Only a job has copies and artifacts.
Init ==
  /\ req \in {r \in Requests : ~r.job => r.copies = 0 /\ ~r.artifacts}
  /\ pc = "validate"
  /\ copied = 0
  /\ cell = "absent"
  /\ ops = [a \in Actions |-> "none"]
  /\ foreign = "none"
  /\ exit = "none"
  /\ failure = NoFailure
  /\ report = NoReport
  /\ answered = {}
  /\ unknown = FALSE
  /\ byRun = FALSE
  /\ others = 0

-----------------------------------------------------------------------------
(***************************************************************************)
(* Reports                                                                 *)
(***************************************************************************)

\* JobOperationManifest: emitted for a job once its cell has started.
Operations == IF req.job THEN answered ELSE {}

\* run_cell_error, or the success report when there is no failure.
Answer(stage, disposition, result) ==
  /\ pc' = "done"
  /\ report' = [stage |-> stage, cleanup |-> disposition, result |-> result,
                operations |-> Operations]

\* A failed step goes to cleanup_failed_run.
FailAt(stage, ambiguous) ==
  /\ pc' = "cleanup"
  /\ failure' = [stage |-> stage, ambiguous |-> ambiguous]

\* The observer is told; Cancel ends the run at this safe checkpoint.
Observe(next) ==
  \/ pc' = next /\ UNCHANGED failure
  \/ FailAt("Interrupted", FALSE)

-----------------------------------------------------------------------------
(***************************************************************************)
(* The lifecycle steps of a run                                            *)
(***************************************************************************)

\* The command, the readiness policy, the cell spec, and the plan against the
\* host, the image and the provider as they are now.
ValidateRequest ==
  /\ pc = "validate"
  /\ \/ Answer("RequestValidation", "NothingCreated", FALSE)
     \/ pc' = "create" /\ UNCHANGED report
  /\ UNCHANGED <<req, copied, cell, ops, foreign, exit, failure, history>>

\* create_cell_with_id fails before or after its intent is durable, or with its
\* last save in place but reported as failed.
CreateCell ==
  /\ pc = "create"
  /\ \/ cell' = "stopped" /\ Observe("start")
     \/ /\ cell' \in {"absent", "partial", "stopped"}
        /\ \E stage \in {"ImageValidation", "CellCreation"} : FailAt(stage, FALSE)
  /\ UNCHANGED <<req, copied, ops, foreign, exit, report, history>>

\* The copies in order, then the command.
AfterStart(i) == IF i < req.copies THEN "copy" ELSE "exec"

StartCell ==
  /\ pc = "start"
  /\ \/ /\ cell \in {"stopped", "running"}
        /\ cell' = "running"
        /\ Observe(AfterStart(0))
     \/ /\ cell' \in IF cell = "stopped" THEN {"stopped", "running"} ELSE {cell}
        /\ FailAt("ProviderStart", FALSE)
  /\ UNCHANGED <<req, copied, ops, foreign, exit, report, history>>

-----------------------------------------------------------------------------
(***************************************************************************)
(* Guest actions of a run                                                  *)
(***************************************************************************)

NoOpenOperation == foreign \notin Open /\ \A a \in Actions : ops[a] \notin Open

\* run_guest_operation accepts the action.
Admitted == cell = "running" /\ NoOpenOperation

\* What an action leaves: a closed record when the error is definite; an open
\* one, or one closed by a save that was reported as failed, when it is not.
Indefinite(a) ==
  {"intent", "active", "completed"} \cup (IF a = Artifact THEN {"committed"} ELSE {})

\* The action is refused before its intent is recorded.
Refused == UNCHANGED <<ops, answered, unknown>>

FailsDefinitely(a) ==
  /\ Admitted
  /\ ops' = [ops EXCEPT ![a] = "failed"]
  /\ UNCHANGED <<answered, unknown>>

FailsUnknown(a) ==
  /\ Admitted
  /\ \E r \in Indefinite(a) : ops' = [ops EXCEPT ![a] = r]
  /\ unknown' = TRUE
  /\ UNCHANGED answered

Succeeds(a) ==
  /\ Admitted
  /\ ops' = [ops EXCEPT ![a] = "completed"]
  /\ answered' = answered \cup {a}
  /\ UNCHANGED unknown

\* copy_into_guest_for_job and collect_artifacts_for_job: an error is ambiguous
\* when an intent was recorded and the error is not definite.
JobAction(a, stage, next) ==
  \/ Succeeds(a) /\ Observe(next)
  \/ Refused /\ FailAt(stage, FALSE)
  \/ FailsDefinitely(a) /\ FailAt(stage, FALSE)
  \/ FailsUnknown(a) /\ FailAt(stage, TRUE)

CopyIn ==
  /\ pc = "copy"
  /\ copied' = copied + 1
  /\ JobAction(<<"copy", copied + 1>>, "GuestCopyIn", AfterStart(copied + 1))
  /\ UNCHANGED <<req, cell, foreign, exit, report, byRun, others>>

\* The command.  Here every error that is not definite is ambiguous, also one
\* that came before the intent; a cancel at GuestReady leaves the operation
\* transport-active.
ExecStep ==
  /\ pc = "exec"
  /\ \/ /\ Succeeds(Exec)
        /\ exit' \in {"zero", "nonzero"}
        /\ Observe(IF req.artifacts THEN "artifact" ELSE "finish")
     \/ /\ \/ Refused /\ \E amb \in BOOLEAN : FailAt("GuestReadiness", amb)
           \/ /\ FailsDefinitely(Exec)
              /\ \E s \in {"GuestReadiness", "GuestExecution"} : FailAt(s, FALSE)
           \/ /\ FailsUnknown(Exec)
              /\ \E s \in {"GuestReadiness", "GuestExecution", "Interrupted"} :
                   FailAt(s, TRUE)
        /\ UNCHANGED exit
  /\ UNCHANGED <<req, copied, cell, foreign, report, byRun, others>>

CollectArtifacts ==
  /\ pc = "artifact"
  /\ JobAction(Artifact, "ArtifactCollection", "finish")
  /\ UNCHANGED <<req, copied, cell, foreign, exit, report, byRun, others>>

-----------------------------------------------------------------------------
(***************************************************************************)
(* Cleanup                                                                 *)
(***************************************************************************)

\* The command's result goes into every report after it completed.
HasResult == exit # "none"

\* Mutant: a create that failed is taken to have left nothing.
MutantCleanupFailedRun ==
  /\ pc = "cleanup"
  /\ IF failure.stage \in {"ImageValidation", "CellCreation"}
     THEN Answer(failure.stage, "NothingCreated", HasResult)
     ELSE pc' = "destroy" /\ UNCHANGED report
  /\ UNCHANGED <<req, copied, cell, ops, foreign, exit, failure, history>>

\* cleanup_failed_run up to the destroy: the cell's record is read without the
\* lock, then the policy, then the ambiguity decide.
CleanupFailedRun ==
  /\ pc = "cleanup"
  /\ \/ Answer(failure.stage, "Failed", HasResult)    \* the record is unreadable
     \/ /\ cell = "absent"
        /\ Answer(failure.stage, "NothingCreated", HasResult)
     \/ /\ cell # "absent" /\ req.keep
        /\ Answer(failure.stage, "RetainedByRequest", HasResult)
     \/ /\ cell # "absent" /\ ~req.keep /\ req.keepOnFailure
        /\ Answer(failure.stage, "RetainedOnFailure", HasResult)
     \/ /\ cell # "absent" /\ ~req.keep /\ ~req.keepOnFailure /\ failure.ambiguous
        /\ Answer(failure.stage, "RefusedAmbiguous", HasResult)
     \/ /\ cell # "absent" /\ ~req.keep /\ ~req.keepOnFailure /\ ~failure.ambiguous
        /\ pc' = "destroy" /\ UNCHANGED report
  /\ UNCHANGED <<req, copied, cell, ops, foreign, exit, failure, history>>

\* Mutant: only the run's own operations keep it from destroying the cell.
MutantDestroyForRun ==
  /\ pc = "destroy"
  /\ \A a \in Actions : ops[a] \notin Open
  /\ cell' = "destroyed"
  /\ byRun' = (byRun \/ cell # "destroyed")
  /\ Answer(failure.stage, "Destroyed", HasResult)
  /\ UNCHANGED <<req, copied, ops, foreign, exit, failure, answered, unknown, others>>

\* destroy_cell_for_run under the lock.  It refuses while any operation on the
\* cell is open; destroying a destroyed cell succeeds.  A failed destroy may
\* have gone part of the way, or all of it when the save of the tombstone took
\* effect and was reported as failed: a StateError, so the disposition is Failed.
\* Otherwise its error decides the disposition.  Without an earlier failure the
\* report is the run's own, or that of stage Cleanup.
DestroyForRun ==
  /\ pc = "destroy"
  /\ \/ /\ ~NoOpenOperation
        /\ Answer(IF failure = NoFailure THEN "Cleanup" ELSE failure.stage,
                  "RefusedAmbiguous", HasResult)
        /\ UNCHANGED <<cell, byRun>>
     \/ /\ NoOpenOperation
        /\ cell' = "destroyed"
        /\ byRun' = (byRun \/ cell # "destroyed")
        /\ Answer(failure.stage, "Destroyed", HasResult)
     \/ /\ \/ cell' = cell
           \/ NoOpenOperation /\ cell # "destroyed" /\ cell' \in {"partial", "destroyed"}
        /\ byRun' = (byRun \/ (cell' # cell /\ cell' = "destroyed"))
        /\ \E d \in {"RefusedAmbiguous", "Failed"} :
             /\ cell' # cell /\ cell' = "destroyed" => d = "Failed"
             /\ Answer(IF failure = NoFailure THEN "Cleanup" ELSE failure.stage, d,
                       HasResult)
  /\ UNCHANGED <<req, copied, ops, foreign, exit, failure, answered, unknown, others>>

\* The policy after a command that completed.
Finish ==
  /\ pc = "finish"
  /\ \/ req.keep /\ Answer("None", "RetainedByRequest", HasResult)
     \/ /\ ~req.keep /\ req.keepOnFailure /\ exit = "nonzero"
        /\ Answer("None", "RetainedOnFailure", HasResult)
     \/ /\ ~req.keep /\ ~(req.keepOnFailure /\ exit = "nonzero")
        /\ pc' = "destroy" /\ UNCHANGED report
  /\ UNCHANGED <<req, copied, cell, ops, foreign, exit, failure, history>>

-----------------------------------------------------------------------------
(***************************************************************************)
(* Other commands on the same cell                                         *)
(***************************************************************************)

Other == others < MaxOthers /\ others' = others + 1

mine == <<req, pc, copied, exit, failure, report, answered, unknown, byRun>>

OtherStartsOrStops ==
  /\ Other /\ cell \in {"stopped", "running"}
  /\ cell' = IF cell = "stopped" THEN "running" ELSE "stopped"
  /\ UNCHANGED <<mine, ops, foreign>>

\* An explicit destroy does not look at guest operations.
OtherDestroys ==
  /\ Other /\ cell \notin {"absent", "destroyed"}
  /\ cell' = "destroyed"
  /\ UNCHANGED <<mine, ops, foreign>>

OtherOperates ==
  /\ Other /\ Admitted
  /\ foreign' \in {"intent", "active", "completed", "failed"}
  /\ UNCHANGED <<mine, ops, cell>>

\* reconcile_guest_operation closes intents and committed artifacts only.
Reconciled(r) ==
  CASE r = "intent" -> "failed" [] r = "committed" -> "completed" [] OTHER -> r

OtherReconciles ==
  /\ Other
  /\ ops' = [a \in Actions |-> Reconciled(ops[a])]
  /\ foreign' = Reconciled(foreign)
  /\ UNCHANGED <<mine, cell>>

RunStep ==
  \/ ValidateRequest \/ CreateCell \/ StartCell \/ CopyIn \/ ExecStep
  \/ CollectArtifacts \/ CleanupFailedRun \/ DestroyForRun \/ Finish

Next ==
  \/ RunStep
  \/ OtherStartsOrStops \/ OtherDestroys \/ OtherOperates \/ OtherReconciles

Spec == Init /\ [][Next]_vars

-----------------------------------------------------------------------------
(***************************************************************************)
(* Properties                                                              *)
(***************************************************************************)

\* A report tells the truth, whatever others did during the cleanup, and also
\* after a cancel or a failed cleanup: nothing_created means there is no record,
\* destroyed that it is a tombstone, and retained or refused that the run
\* destroyed nothing; failed leaves it open, because the save of the tombstone
\* may take effect and still be reported as failed.  The result is there exactly
\* when the command completed, and the operations are exactly the actions of a
\* job that completed.
ReportIsTrue ==
  report # NoReport =>
    /\ report.cleanup = "NothingCreated" => cell = "absent"
    /\ report.cleanup = "Destroyed" => cell = "destroyed"
    /\ byRun => report.cleanup \in {"Destroyed", "Failed"}
    /\ report.result <=> Exec \in answered
    /\ report.operations = IF req.job THEN answered ELSE {}
    /\ \A a \in report.operations : ops[a] = "completed"

\* A run destroys its cell only when no operation is open on it, anybody's, when
\* none of its own actions may still have an effect, also if somebody reconciled
\* the record in between, and when --keep and --keep-on-failure allow it.
CleanupIsSafe ==
  [][byRun' /\ ~byRun =>
       /\ NoOpenOperation /\ ~unknown
       /\ ~req.keep
       /\ req.keepOnFailure => failure = NoFailure /\ exit = "zero"]_vars

-----------------------------------------------------------------------------
(***************************************************************************)
(* The inductive invariant behind the two properties                       *)
(***************************************************************************)

Records == Open \cup {"none", "completed", "failed"}

TypeOK ==
  /\ req \in Requests
  /\ pc \in {"validate", "create", "start", "copy", "exec", "artifact", "finish", "cleanup",
             "destroy", "done"}
  /\ copied \in Nat
  /\ cell \in {"absent", "partial", "stopped", "running", "destroyed"}
  /\ ops \in [Actions -> Records]
  /\ exit \in {"none", "zero", "nonzero"}
  /\ answered \subseteq Actions

\* An action that returned Ok to the run is behind it and closed for good.
AnsweredIsDone ==
  /\ HasResult <=> Exec \in answered
  /\ pc \in {"artifact", "finish"} => HasResult
  /\ pc \in {"validate", "create", "start", "copy", "exec"} => ~HasResult
  /\ pc \in {"validate", "create", "start", "copy", "exec", "artifact"} => Artifact \notin answered
  /\ \A i \in Copies : <<"copy", i>> \in answered => i <= copied
  /\ pc \in {"validate", "create", "start"} => copied = 0
  /\ pc = "copy" => copied < req.copies
  /\ \A a \in answered : ops[a] = "completed"

\* What cleanup knows: a run that goes on has not failed, an action of unknown
\* effect is a failure that is marked ambiguous, and the destroy step is only
\* reached when the policy allows it.
CleanupKnows ==
  /\ pc \in {"validate", "create"} => cell = "absent"
  /\ pc \notin {"cleanup", "destroy", "done"} => failure = NoFailure
  /\ unknown => pc = "done" \/ (pc = "cleanup" /\ failure.ambiguous)
  /\ pc = "destroy" =>
       /\ ~req.keep
       /\ req.keepOnFailure => failure = NoFailure /\ exit = "zero"

\* The report is made once, and stays true.
ReportStands ==
  /\ pc # "done" => report = NoReport /\ ~byRun
  /\ pc = "done" =>
       /\ report.cleanup = "NothingCreated" => cell = "absent"
       /\ report.cleanup = "Destroyed" => cell = "destroyed"
       /\ byRun => report.cleanup \in {"Destroyed", "Failed"}
       /\ report.result <=> HasResult
       /\ report.operations = Operations

RunInv == TypeOK /\ AnsweredIsDone /\ CleanupKnows /\ ReportStands

=============================================================================
