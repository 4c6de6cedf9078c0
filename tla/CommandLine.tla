----------------------------- MODULE CommandLine -----------------------------
(***************************************************************************)
(* One vmcell process, from its parsed arguments to its exit code.  What a *)
(* command does is a sequence of steps, each of which touches resources    *)
(* and may fail with certain errors; the engine's operations are steps     *)
(* here and modules of their own elsewhere.  Around the steps the console  *)
(* may deliver Ctrl-C and the reader of standard output may go away.       *)
(***************************************************************************)
EXTENDS ErrorClasses, Sequences, SequencesExt

CONSTANTS
  Commands,   \* the command lines considered
  Host,       \* the operating system: "windows" or "linux"
  None        \* no provider, no error, no exit code yet

VARIABLES
  cmd,      \* the parsed command, and what it will meet in the world
  todo,     \* the steps not yet taken
  touched,  \* what the steps taken so far have touched
  via,      \* the provider the engine was built with
  cell,     \* the cell of this run: "none", "live" or "gone"
  effect,   \* what is known of effects in the guest: "none", "done", "unknown"
  fail,     \* the error the command failed with
  wrapped,  \* the error is a RunCellError, with plan, cell and operation
  guard,    \* the console handler is installed
  pressed,  \* Ctrl-C was seen by the handler
  stdout,   \* "open" or "closed"
  docs,     \* documents written to standard output
  envs,     \* error envelopes written to standard error
  exit      \* the exit code; Killed when the console ended the process

run_vars == <<cell, effect, guard, pressed>>
out_vars == <<stdout, docs, envs, exit>>
vars == <<cmd, todo, touched, via, fail, wrapped, run_vars, out_vars>>

Providers == {"hyperv", "qemu"}

Verbs ==
  {"doctor", "status", "state_check", "completion", "receipt", "provider_list", "job_plan",
   "image_add", "image_candidate", "image_validate", "image_list", "image_inspect",
   "dependencies", "unregister", "create", "run", "job_run", "list", "inspect", "start", "stop",
   "destroy", "reconcile", "reconcile_all", "exec", "shell", "copy_in", "copy_out",
   "artifact_collect", "artifact_inspect", "prune", "operation_list", "operation_inspect",
   "operation_reconcile", "gc"}

\* The arguments that steer a command, and below them what it will meet: the
\* provider recorded for its cell or image, the exit code of the guest
\* command, the judgement of the image or receipt.
Command ==
  [verb : Verbs, json : BOOLEAN, quiet : BOOLEAN, explicit : Providers \cup {None},
   config : Providers, secret : BOOLEAN, plan_only : BOOLEAN, keep : BOOLEAN,
   owner : Providers, code : Int, verdict : BOOLEAN]

Panic  == 101

\* The console ended the process: no exit code of its own.
Killed == -1

-----------------------------------------------------------------------------
(***************************************************************************)
(* The steps of each command                                               *)
(***************************************************************************)

\* The commands answered before the configuration is read.
FrontArms ==
  [completion |-> IF cmd.json THEN <<"refuse">> ELSE <<"emit">>,
   receipt    |-> <<"receipt", "emit">>]

\* The commands that need no engine.
LocalArms ==
  [doctor      |-> <<"probe", "emit">>,
   status      |-> <<"probe", "read", "inspect", "read", "emit">>,
   state_check |-> <<"read", "emit">>,
   provider_list |-> <<"probe", "emit">>,
   job_plan    |-> <<"spec", "image", "plan", "emit">>]

\* The registry alone answers: no provider is selected.
RegistryArms ==
  [dependencies |-> <<"read", "emit">>,
   unregister   |-> <<"forget", "emit">>]

\* One engine per provider, one after the other; what the first has done is
\* not reported when the second fails.
BothArms ==
  [reconcile_all |-> <<"hyperv", "inspect", "qemu", "inspect", "emit">>,
   gc            |-> <<"hyperv", "change", "qemu", "change", "emit">>]

ImageArms ==
  [image_add      |-> <<"choose", "change", "emit">>,
   image_candidate |-> <<"choose", "inspect", "emit">>,
   image_validate |-> <<IF cmd.explicit = None THEN "variant" ELSE "choose", "inspect", "emit">>,
   image_list     |-> <<"hyperv", "read", "emit">>,
   image_inspect  |-> IF cmd.json THEN <<"variant", "read", "emit">>
                      ELSE <<"variant", "read", "inspect", "write">>]

CreateArm == [create |-> <<"choose", "change", "emit">>]

CellArms ==
  [list    |-> <<"hyperv", "read", "emit">>,
   inspect |-> <<"route", "inspect">> \o (IF cmd.json THEN <<>> ELSE <<"read">>) \o <<"emit">>,
   reconcile |-> <<"route", "inspect">> \o (IF cmd.json THEN <<>> ELSE <<"read">>) \o <<"emit">>,
   start   |-> <<"route", "change", "emit">>,
   stop    |-> <<"route", "change", "emit">>,
   destroy |-> <<"route", "change", "emit">>]

\* The engine checks the command and the limits, after the password was read
\* and before it takes the lock.
ExecArm == [exec |-> <<"route", "stdin", "check", "admit", "act", "emit">>]

\* The file is read before the operation is recorded.
CopyArms ==
  [copy_in  |-> <<"route", "stdin", "check", "source", "admit", "act", "emit">>,
   copy_out |-> <<"route", "stdin", "check", "admit", "act", "emit">>]

\* A session speaks to the console only, and to Hyper-V Windows cells only.
ShellArm ==
  IF cmd.json THEN <<"refuse">>
  ELSE <<"config", "route", "windows", "inspect", "idle", "guard", "console", "stdin",
         "admit", "session">>

ArtifactArms ==
  [artifact_collect |-> <<"route", "stdin", "check", "admit", "act", "emit">>,
   artifact_inspect |-> <<"route", "read", "emit">>,
   prune            |-> <<"hyperv", "forget", "emit">>]

OperationArms ==
  [operation_list   |-> <<"hyperv", "read", "emit">>,
   operation_inspect |-> <<"hyperv", "read", "emit">>,
   operation_reconcile |-> <<"hyperv", "forget", "emit">>]

\* The plan goes to standard error first, the progress along with the run.
Noted(steps, note) == IF cmd.json \/ cmd.quiet THEN steps ELSE note \o steps

Result == IF cmd.json THEN <<"emit">> ELSE Noted(<<"write">>, <<"finish">>)

\* Mutant: the credentials are read before the plan is made.
RunArmEager ==
  <<"limits", "stdin", "image", "plan">>
    \o (IF cmd.plan_only THEN <<"emit">>
        ELSE Noted(<<"guard", "check", "revalidate", "create", "boot", "admit", "exec",
                     "cleanup">>, <<"note">>)
               \o Result)

\* run_cell checks the command, the readiness policy and the cell spec, and then
\* the plan against the image and the provider once more.  What it checks again
\* further on, for the same values, is no step of its own.
RunArm ==
  <<"limits", "image", "plan">>
    \o (IF cmd.plan_only THEN <<"emit">>
        ELSE Noted(<<"guard", "stdin", "check", "revalidate", "create", "boot", "admit", "exec",
                     "cleanup">>, <<"note">>)
               \o Result)

JobRunArm ==
  <<"spec", "image", "plan">>
    \o (IF cmd.plan_only THEN <<"emit">>
        ELSE <<"bind">>
               \o Noted(<<"guard", "stdin", "check", "revalidate", "create", "boot", "source",
                          "admit", "copy", "admit", "exec", "admit", "collect", "cleanup">>,
                        <<"note">>)
               \o Result)

\* run: the order in which the command is told apart.
Steps ==
  CASE cmd.verb = "shell" -> ShellArm
    [] cmd.verb \in DOMAIN FrontArms -> FrontArms[cmd.verb]
    [] cmd.verb = "run" -> <<"config">> \o RunArm
    [] cmd.verb = "job_run" -> <<"config">> \o JobRunArm
    [] OTHER -> <<"config">>
         \o (LocalArms @@ RegistryArms @@ BothArms @@ ImageArms @@ CreateArm @@ CellArms
              @@ ExecArm @@ CopyArms @@ ArtifactArms @@ OperationArms)[cmd.verb]

-----------------------------------------------------------------------------
(***************************************************************************)
(* What a step touches, and how it may fail                                *)
(***************************************************************************)

\* A password is read for PowerShell Direct when the flag asks for it.
Touches(step) ==
  CASE step = "receipt" -> {"stdin"}
    [] step = "stdin" -> IF via # "qemu" /\ cmd.secret THEN {"stdin"} ELSE {}
    [] step = "config" -> {"config"}
    [] step \in {"read", "image", "route", "variant", "idle"} -> {"state"}
    [] step = "probe" -> {"provider"}
    [] step = "plan" -> {"provider"}
    [] step \in {"inspect", "revalidate"} -> {"state", "provider"}
    [] step = "forget" -> {"state", "write"}
    [] step \in {"change", "admit", "create", "boot", "cleanup"} -> {"state", "provider", "write"}
    [] step \in {"act", "copy", "exec", "collect", "session"} ->
         {"state", "provider", "write", "guest"}
    [] step \in {"spec", "bind", "source"} -> {"files"}
    [] OTHER -> {}

\* Errors of a read of the state directory; readers take no lock.
Read == Family("state") \ {<<"state", "MutationBusy">>, <<"state", "AlreadyExists">>}

\* Before a guest operation is recorded: provider, lock, cell, earlier operations.
Admission == Family("state") \cup Family("provider") \cup Family("engine")

\* Once the transport is active the lock is held and the provider was there.
Action ==
  Family("guest") \cup Family("provider") \cup Read
    \cup {<<"engine", "OwnershipNotProven">>, <<"engine", "ProviderDrift">>,
          <<"engine", "Integrity">>, <<"engine", "LifecycleConflict">>}

Input == {<<"input", "CliInputError">>}
OtherIo == {<<"other", "Io">>}

\* read_credentials: PowerShell Direct needs a user and a password line, the
\* QEMU guest agent refuses both; run_credential_error renames the error.
CredentialErrors ==
  LET wrong == (via = "qemu") = cmd.secret
      run   == cmd.verb \in {"run", "job_run"}
  IN  IF wrong THEN IF run THEN {<<"engine", "InvalidCellRequest">>} ELSE Input
      ELSE IF via = "qemu" THEN {}
      ELSE IF run THEN {<<"engine", "InvalidCellRequest">>, <<"guest", "InvalidRequest">>,
                        <<"guest", "Transport">>}
      ELSE Input \cup OtherIo \cup {<<"guest", "InvalidRequest">>}

\* The request itself: readiness, timeouts, sizes and counts; the command; the
\* cell spec of a run.
RequestErrors ==
  {<<"engine", "InvalidCellRequest">>}
    \cup (IF cmd.verb \in {"run", "job_run", "exec"} THEN {<<"guest", "InvalidRequest">>} ELSE {})
    \cup (IF cmd.verb \in {"run", "job_run"} THEN {<<"engine", "UnsupportedProvider">>} ELSE {})

\* The image or the provider is no longer as it was planned with.
RevalidationErrors ==
  Read \cup {<<"selection", v>> :
               v \in {"PlanDrift", "ContradictoryCapabilityEvidence", "ProviderUnavailable",
                      "AcceleratorUnavailable", "ArchitectureMismatch", "UnsupportedGuestTransport",
                      "UndocumentedCombination", "UnsupportedCombination"}}

\* A step that must fail has no other way out.
MustFail(step) ==
  \/ step = "refuse"
  \/ step = "stdin" /\ (via = "qemu") = cmd.secret
  \/ step = "windows" /\ via # "hyperv"
  \/ step = "guard" /\ cmd.verb = "shell" /\ Host # "windows"

Errors(step) ==
  CASE step \in {"refuse", "windows"} -> Input
    [] step = "receipt" -> OtherIo
    [] step = "config" -> Family("config")
    [] step = "limits" -> {<<"engine", "InvalidCellRequest">>}
    [] step = "spec" -> Family("spec")
    [] step \in {"read", "image", "route"} -> Read
    [] step = "variant" -> Read \cup Input \cup {<<"engine", "ImageIntegrity">>}
    [] step = "plan" -> Family("selection")
    [] step = "bind" -> {<<"engine", "InvalidCellRequest">>, <<"selection", "PlanDrift">>}
    [] step \in {"note", "finish"} -> OtherIo
    [] step = "console" -> Input \cup OtherIo
    [] step = "guard" -> IF cmd.verb = "shell" THEN Input
                         ELSE IF Host = "windows" THEN {<<"engine", "InvalidCellRequest">>}
                         ELSE {}
    [] step = "stdin" -> CredentialErrors
    [] step = "check" -> RequestErrors
    [] step = "revalidate" -> RevalidationErrors
    [] step = "source" -> {<<"guest", "PathViolation">>, <<"guest", "PartialCopy">>}
    [] step = "idle" -> Read \cup {<<"engine", "LifecycleConflict">>}
    [] step = "inspect" -> Read \cup Family("provider") \cup Family("engine")
    [] step = "forget" -> Family("state") \cup {<<"engine", "ImageInUse">>}
    [] step \in {"change", "admit", "create", "boot", "cleanup"} -> Admission
    [] step \in {"act", "copy", "exec", "collect", "session"} -> Action
    [] OTHER -> {}

-----------------------------------------------------------------------------
Head1 == Head(todo)

Working(step) == exit = None /\ fail = None /\ todo # <<>> /\ Head1 = step

Busy == exit = None /\ fail = None /\ todo # <<>>

RunVerbs == {"run", "job_run"}

\* The provider a step selects: the one asked for or configured for a new
\* image or cell, the recorded one for what exists, the planned one for a run.
provider_for_command(step) ==
  CASE step \in {"hyperv", "qemu"} -> {step}
    [] step = "choose" -> {IF cmd.explicit = None THEN cmd.config ELSE cmd.explicit}
    [] step \in {"route", "variant"} -> {cmd.owner}
    [] step = "plan" -> IF cmd.explicit = None THEN Providers ELSE {cmd.explicit}
    [] OTHER -> {via}

\* A step that succeeds.  The handler exists on Windows only.
Step ==
  /\ Busy
  /\ Head1 \notin {"emit", "write"}
  /\ ~MustFail(Head1)
  /\ todo' = Tail(todo)
  /\ touched' = touched \cup Touches(Head1)
  /\ via' \in provider_for_command(Head1)
  /\ cell' = CASE Head1 = "create" -> "live"
               [] Head1 = "cleanup" /\ ~cmd.keep -> "gone"
               [] OTHER -> cell
  /\ effect' = IF Head1 \in {"act", "copy", "exec", "collect", "session"} THEN "done" ELSE effect
  /\ guard' = (guard \/ (Head1 = "guard" /\ Host = "windows"))
  /\ UNCHANGED <<cmd, fail, wrapped, pressed, out_vars>>

\* Mutant: the error is reported as a plain engine error.
Unwrapped(step) == step = "limits"

\* The errors of these steps of a run carry its report.
IsRunCellError(step) ==
  cmd.verb \in RunVerbs
    /\ step \in {"limits", "guard", "stdin", "check", "revalidate", "create", "boot", "source",
                 "admit", "copy", "exec", "collect", "cleanup"}

\* A run that fails or is cancelled, also right before its own cleanup, destroys
\* the cell unless it must keep it, and that may fail too; without a cell there
\* is nothing to destroy.  Leaving the arm removes the handler.
FailWith(e) ==
  /\ fail' = e
  /\ wrapped' = IsRunCellError(Head1)
  /\ touched' = touched \cup Touches(Head1)
  /\ effect' = IF Head1 \in {"act", "copy", "exec", "collect", "session"}
                    /\ e \notin guest_failure_class
               THEN "unknown" ELSE effect
  /\ cell' \in CASE Head1 = "create" -> {"none", "live"} \cup (IF cmd.keep THEN {} ELSE {"gone"})
                 [] cell = "live" /\ IsRunCellError(Head1) /\ ~cmd.keep -> {"live", "gone"}
                 [] OTHER -> {cell}
  /\ guard' = FALSE
  /\ UNCHANGED <<cmd, todo, via, pressed, out_vars>>

Fail == Busy /\ \E e \in Errors(Head1) : FailWith(e)

\* The observer of a run reports Ctrl-C at the next boundary; in exec that is
\* when the guest is ready, with the transport already active.
Cancel ==
  /\ Busy
  /\ pressed /\ cmd.verb \in RunVerbs
  /\ Head1 \in {"boot", "source", "exec", "admit", "cleanup"}
  /\ FailWith(<<"engine", "LifecycleConflict">>)

-----------------------------------------------------------------------------
(***************************************************************************)
(* Output and exit                                                         *)
(***************************************************************************)

\* Mutant: the exit code of the guest is cut to eight bits.
Truncated(code) == code % 256

guest_exit_status(code) == IF code \in 0 .. 255 THEN code ELSE 1

\* A judgement is printed like any result; only the exit code tells it is bad.
Judges ==
  \/ cmd.verb \in {"receipt", "image_validate", "image_candidate"}
  \/ cmd.verb = "image_inspect" /\ ~cmd.json

\* A session that Ctrl-C ended exits with 130 whatever its last command gave.
FinalCode ==
  CASE cmd.verb \in RunVerbs /\ ~cmd.plan_only -> {guest_exit_status(cmd.code)}
    [] cmd.verb = "shell" ->
         {guest_exit_status(cmd.code)} \cup (IF pressed THEN {130} ELSE {})
    [] Judges -> {IF cmd.verdict THEN 0 ELSE CliExitCode.integrity}
    [] OTHER -> {0}

\* emit: println! and expect panic when nobody reads standard output.
Emit ==
  /\ Working("emit")
  /\ todo' = Tail(todo)
  /\ IF stdout = "open" THEN docs' = docs + 1 /\ exit' = exit ELSE docs' = docs /\ exit' = Panic
  /\ UNCHANGED <<cmd, touched, via, fail, wrapped, run_vars, stdout, envs>>

\* The human result of a run and of image inspect: a failed write is an error.
Write ==
  /\ Working("write")
  /\ IF stdout = "open"
     THEN /\ docs' = docs + 1
          /\ todo' = Tail(todo)
          /\ UNCHANGED <<cmd, touched, via, fail, wrapped, run_vars, stdout, envs, exit>>
     ELSE FailWith(<<"other", "Io">>)

Finish ==
  /\ exit = None /\ fail = None /\ todo = <<>>
  /\ exit' \in FinalCode
  /\ UNCHANGED <<cmd, todo, touched, via, fail, wrapped, run_vars, stdout, docs, envs>>

\* emit_error: one envelope or one line, and the category's exit code.
EmitError ==
  /\ exit = None /\ fail # None
  /\ envs' = envs + 1
  /\ exit' = ExitCodeOf(fail)
  /\ UNCHANGED <<cmd, todo, touched, via, fail, wrapped, run_vars, stdout, docs>>

-----------------------------------------------------------------------------
(***************************************************************************)
(* The console and the reader of standard output                           *)
(***************************************************************************)

\* Ctrl-C sets the flag while the handler is installed and ends the process otherwise.
Press ==
  /\ exit = None
  /\ IF guard THEN pressed' = TRUE /\ exit' = exit ELSE pressed' = pressed /\ exit' = Killed
  /\ UNCHANGED <<cmd, todo, touched, via, fail, wrapped, cell, effect, guard, stdout, docs, envs>>

CloseStdout ==
  /\ exit = None /\ stdout = "open"
  /\ stdout' = "closed"
  /\ UNCHANGED <<cmd, todo, touched, via, fail, wrapped, run_vars, docs, envs, exit>>

Init ==
  /\ cmd \in Commands
  /\ todo = Steps
  /\ touched = {} /\ via = None /\ cell = "none" /\ effect = "none"
  /\ fail = None /\ wrapped = FALSE /\ guard = FALSE /\ pressed = FALSE
  /\ stdout = "open" /\ docs = 0 /\ envs = 0 /\ exit = None

Next == Step \/ Fail \/ Cancel \/ Emit \/ Write \/ Finish \/ EmitError \/ Press \/ CloseStdout

Spec == Init /\ [][Next]_vars

-----------------------------------------------------------------------------
(***************************************************************************)
(* Properties                                                              *)
(***************************************************************************)

\* A command answers truthfully.  An exit code of 0 means that every step was
\* taken, nothing failed, what was judged is good and the command of a run ended
\* with 0 (guest_exit_status never turns another code into 0); a failure exits
\* with a code of the taxonomy, never with 0 or 1.  With --json a process that
\* exits by itself has written exactly one document or one error envelope.
ExitTruth ==
  /\ exit = 0 =>
       /\ fail = None /\ todo = <<>>
       /\ (cmd.verb \in RunVerbs /\ ~cmd.plan_only) \/ cmd.verb = "shell" => cmd.code = 0
       /\ Judges => cmd.verdict
  /\ fail # None /\ exit \notin {None, Killed} => exit \in 2 .. 14
  /\ cmd.json /\ exit \notin {None, Killed, Panic} => docs + envs = 1

\* An error labelled retryable never hides work: nothing in the guest has an
\* unknown outcome (docs/cli-json-contract.md: "it never authorizes replay of a
\* timeout, partial copy, unknown guest operation, or ownership failure").
RetryableIsSafe ==
  fail \in RetryableErrors => effect # "unknown" /\ Category(fail) # "ownership"

\* Every check that can refuse a command, before or after the password.
Checks ==
  {"config", "limits", "spec", "image", "plan", "bind", "route", "windows", "idle", "stdin",
   "check", "revalidate"}

\* A command decides before it acts.  A password is read, the state or a provider
\* changed and a guest touched only when configuration, limits, spec, image, plan,
\* bound inputs and the route to the owner are behind ("before reading guest
\* credentials or beginning lifecycle mutation", docs/run-selection.md).  The
\* command, the cell spec and the plan are checked again after the password; what
\* refuses there, too, leaves no cell and nothing changed (NothingCreated, stage
\* RequestValidation).  What exists is acted upon through the provider it is
\* recorded with, whatever the configuration prefers.
ChecksFirst ==
  /\ touched \cap {"stdin", "write", "guest"} # {} =>
       ToSet(todo) \cap (Checks \ {"stdin", "check", "revalidate"}) = {}
  /\ fail # None /\ Head1 \in Checks => touched \cap {"write", "guest"} = {} /\ cell = "none"
  /\ /\ cmd.verb \in {"inspect", "reconcile", "start", "stop", "destroy", "exec", "shell", "copy_in",
                      "copy_out", "artifact_collect", "artifact_inspect"}
     /\ touched \cap {"provider", "write", "guest"} # {}
     => via = cmd.owner

\* A cell that a run leaves behind is never left in silence: the JSON error of a
\* run that fails names it, and on Windows Ctrl-C never ends the process in the
\* middle of a run, before its failure was taken down.
LeftCellIsNamed ==
  cell = "live" => /\ fail # None /\ cmd.json => wrapped
                   /\ exit = Killed => fail # None

=============================================================================
