---------------------------- MODULE ErrorClasses ----------------------------
(***************************************************************************)
(* How the command line classifies an error: its category, the exit code   *)
(* that goes with the category, and whether the same request may be tried  *)
(* again.  An error is the innermost one: the engine, and a failed run,    *)
(* answer with the class of the error they wrap.                           *)
(***************************************************************************)
EXTENDS Integers

\* One field per category; the exit codes 0 (success), 1 and 101 are no category's.
CliExitCode ==
  [invalid_input |-> 2, not_found |-> 3, conflict |-> 4, unavailable |-> 5,
   ownership |-> 6, contention |-> 7, timeout |-> 8, integrity |-> 9, internal |-> 10,
   recovery_required |-> 11, resource_limit |-> 12, authentication |-> 13,
   unsupported |-> 14]

classify_run_selection_error ==
  [ProviderUnavailable |-> "unavailable", AcceleratorUnavailable |-> "unavailable",
   Ambiguous |-> "conflict", ContradictoryCapabilityEvidence |-> "integrity",
   PlanDrift |-> "integrity", TcgRequiresExplicitOptIn |-> "invalid_input",
   ImpossibleProviderAccelerator |-> "invalid_input", UnsupportedHost |-> "unsupported",
   UnsupportedHostArchitecture |-> "unsupported", UndocumentedCombination |-> "unsupported",
   UnsupportedGuestTransport |-> "unsupported",
   IncompatibleImageVariant |-> "unsupported", ArchitectureMismatch |-> "unsupported",
   UnsupportedCombination |-> "unsupported"]

classify_config_error ==
  [NotFound |-> "invalid_input", UnsupportedSchema |-> "integrity",
   UnsafePath |-> "invalid_input", TooLarge |-> "invalid_input", Json |-> "invalid_input",
   InvalidValue |-> "invalid_input", Io |-> "internal"]

classify_job_spec_error ==
  [NotFound |-> "invalid_input", UnsupportedSchema |-> "integrity",
   UnsafePath |-> "invalid_input", TooLarge |-> "invalid_input",
   InvalidEncoding |-> "invalid_input", Toml |-> "invalid_input",
   InvalidValue |-> "invalid_input", Io |-> "internal"]

classify_engine_error ==
  [UnsupportedProvider |-> "unsupported", ProviderUnavailable |-> "unavailable",
   InvalidCellRequest |-> "invalid_input", LifecycleConflict |-> "conflict",
   Integrity |-> "integrity", InvalidImage |-> "invalid_input",
   ImageIntegrity |-> "integrity", ImageConflict |-> "conflict",
   ImageInUse |-> "conflict", OwnershipNotProven |-> "ownership",
   ProviderDrift |-> "ownership", UnexpectedPowerState |-> "conflict"]

classify_state_error ==
  [NotFound |-> "not_found", AlreadyExists |-> "conflict", MutationBusy |-> "contention",
   UnsafeRuntimePath |-> "integrity", IdentityMismatch |-> "integrity",
   UnsupportedSchema |-> "integrity", UpgradeRequired |-> "integrity",
   Json |-> "integrity", Io |-> "internal"]

classify_provider_error ==
  [Unsupported |-> "unsupported", Command |-> "unavailable", Timeout |-> "timeout",
   OutputLimit |-> "resource_limit", InvalidResponse |-> "integrity",
   NotFound |-> "not_found", Collision |-> "conflict", OwnershipChanged |-> "ownership",
   Authority |-> "ownership"]

classify_guest_error ==
  [NotImplemented |-> "unsupported", InvalidRequest |-> "invalid_input",
   PathViolation |-> "invalid_input", OwnershipChanged |-> "ownership",
   GuestNotReady |-> "unavailable", AuthenticationFailed |-> "authentication",
   SessionFailed |-> "unavailable", Transport |-> "unavailable", Timeout |-> "timeout",
   OutputLimit |-> "resource_limit", InvalidResponse |-> "integrity",
   PartialCopy |-> "recovery_required"]

\* The order in which the concrete type of an error is tried; an error of no
\* known type (a failed write to a terminal) is internal.
classify_cli_error ==
  [selection |-> classify_run_selection_error, config |-> classify_config_error,
   spec |-> classify_job_spec_error, engine |-> classify_engine_error,
   state |-> classify_state_error, provider |-> classify_provider_error,
   guest |-> classify_guest_error, input |-> [CliInputError |-> "invalid_input"],
   other |-> [Io |-> "internal"]]

Family(f) == {<<f, v>> : v \in DOMAIN classify_cli_error[f]}

Error == UNION {Family(f) : f \in DOMAIN classify_cli_error}

Category(e) == classify_cli_error[e[1]][e[2]]

ExitCodeOf(e) == CliExitCode[Category(e)]

\* Mutant: everything that is merely unavailable may be tried again.
RetryAllUnavailable == {e \in Error : Category(e) \in {"unavailable", "contention"}}

\* The only classifications with retryable = true.
RetryableErrors ==
  {<<"selection", "ProviderUnavailable">>, <<"selection", "AcceleratorUnavailable">>,
   <<"engine", "ProviderUnavailable">>, <<"state", "MutationBusy">>,
   <<"guest", "GuestNotReady">>}

\* The failures of a guest action after which its outcome is known: nothing
\* was done in the guest.
guest_failure_class ==
  {<<"guest", "GuestNotReady">>, <<"guest", "AuthenticationFailed">>,
   <<"guest", "SessionFailed">>, <<"guest", "OwnershipChanged">>,
   <<"guest", "PathViolation">>, <<"guest", "InvalidRequest">>,
   <<"engine", "OwnershipNotProven">>, <<"engine", "ProviderDrift">>}

=============================================================================
