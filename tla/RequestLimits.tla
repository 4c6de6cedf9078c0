---------------------------- MODULE RequestLimits ----------------------------
(***************************************************************************)
(* The limits of a run.  They are written down several times: in the user's *)
(* configuration loader, in the job document's validation, in the checks    *)
(* before a run starts, and in the checks of the guest actions, which only  *)
(* happen once the cell exists.  A limit that an early check forgets is a   *)
(* cell created, started and thrown away.                                   *)
(***************************************************************************)
EXTENDS Naturals, FiniteSets

CONSTANTS
  None,      \* a value that is left out
  Documents, \* job documents
  Configs,   \* the defaults section of the user's configuration
  Flags      \* the flags of `vmcell run`

\* What a document may say; the configuration and the flags say less.
RunFields == {"cpu", "memory", "readiness", "action"}
FlagFields == RunFields \cup {"ttl", "output", "program"}
JobFields == FlagFields \cup {"provider", "accelerator", "allow_tcg", "copies", "copy_timeout",
               "copy_bytes", "artifacts", "artifact_timeout", "artifact_bytes"}

\* The states of a file that is to be read: the configuration, or the document.
Files == {"missing", "link", "shared", "large", "garbled", "good"}

ASSUME LimitsAssumption ==
  /\ \A d \in Documents : DOMAIN d = JobFields
  /\ \A c \in Configs : DOMAIN c = RunFields
  /\ \A f \in Flags : DOMAIN f = FlagFields

VARIABLES
  path,     \* "job" or "run"
  file,     \* the state of the document, or of the configuration
  named,    \* the file was named on the command line
  doc,      \* the document, or the flags
  config,   \* the configuration
  value,    \* the effective values
  plan,     \* provider and accelerator selected
  stage,    \* the next check
  cell,     \* the cell exists
  refused   \* the stage that refused, or None

vars == <<path, file, named, doc, config, value, plan, stage, cell, refused>>

-----------------------------------------------------------------------------
(***************************************************************************)
(* The values                                                              *)
(***************************************************************************)

MAX_CPU_COUNT    == 64
MIN_MEMORY_MIB   == 512
MAX_MEMORY_MIB   == 1048576
MAX_TTL_SECONDS  == 31536000
MAX_ACTION_TIMEOUT_SECONDS == 3600
MAX_OUTPUT_BYTES == 16777216
MAX_COPY_BYTES   == 67108864
MAX_JOB_COPY_IN_FILES    == 16
MAX_ARTIFACT_FILES       == 16
MAX_ARTIFACT_FILE_BYTES  == 67108864
MAX_ARTIFACT_TOTAL_BYTES == 1073741824

DefaultCell    == [cpu |-> 2, memory |-> 4096]
DefaultTimeout == [readiness |-> 120, action |-> 300]
DefaultOutput  == 1048576

\* What leaving the field out means; a document has to give cpu, memory and program.
JobDefault ==
  [f \in JobFields |->
     CASE f \in {"cpu", "memory"}       -> DefaultCell[f]
       [] f \in {"readiness", "action"} -> DefaultTimeout[f]
       [] f \in {"copy_timeout", "artifact_timeout"} -> DefaultTimeout.action
       [] f = "output"         -> DefaultOutput
       [] f = "copy_bytes"     -> MAX_COPY_BYTES
       [] f = "artifact_bytes" -> MAX_ARTIFACT_FILE_BYTES
       [] f \in {"copies", "artifacts"} -> 0
       [] f = "allow_tcg"      -> FALSE
       [] OTHER -> None]

OrElse(x, y) == IF x = None THEN y ELSE x

\* What the configuration says; without a file it says nothing.
Configured(f) == IF file = "missing" THEN None ELSE config[f]

\* Mutant: the configuration only counts where there is no default.
EffectiveDefault(f) ==
  OrElse(doc[f], OrElse(JobDefault[f], IF f \in RunFields THEN Configured(f) ELSE None))

\* A flag, else the configuration, else the default.
EffectiveFlag(f) ==
  OrElse(doc[f], OrElse(IF f \in RunFields THEN Configured(f) ELSE None, JobDefault[f]))

-----------------------------------------------------------------------------
(***************************************************************************)
(* The checks                                                              *)
(***************************************************************************)

Timeout(t) == t \in 1 .. MAX_ACTION_TIMEOUT_SECONDS

\* validate_cell_resources, and the same limits in the configuration and the document
CellResources(v) ==
  /\ v.cpu >= 1 /\ v.cpu <= MAX_CPU_COUNT
  /\ v.memory >= MIN_MEMORY_MIB /\ v.memory <= MAX_MEMORY_MIB
  /\ v.ttl = None \/ (v.ttl >= 1 /\ v.ttl <= MAX_TTL_SECONDS)

\* A configuration is an ordinary private file reached without links, small and
\* well formed; only one that nobody named may be missing.
Readable == file = "good" \/ (file = "missing" /\ ~named)

\* The same for a job document, which has to be there.
DocumentReadable == file = "good"

\* resolve_config: each value that is given
Resolves ==
  file = "missing" \/
  /\ config.cpu = None \/ (config.cpu >= 1 /\ config.cpu <= MAX_CPU_COUNT)
  /\ config.memory = None \/ (config.memory >= MIN_MEMORY_MIB /\ config.memory <= MAX_MEMORY_MIB)
  /\ \A f \in {"readiness", "action"} : config[f] = None \/ (config[f] >= 1 /\ config[f] <= 3600)

\* GuestCommand::validate
GuestCommandValid(v) ==
  /\ v.program = "ok"
  /\ Timeout(v.action)
  /\ v.output >= 1 /\ v.output <= MAX_OUTPUT_BYTES

\* validate_accelerator_intent
AcceleratorIntent(v) ==
  /\ ~(v.provider = "hyperv" /\ v.accelerator # None)
  /\ (v.accelerator = "tcg") = v.allow_tcg

\* What a document says of its copies and artifacts
CopiesValid(v) ==
  /\ v.copies <= MAX_JOB_COPY_IN_FILES
  /\ v.copies > 0 => Timeout(v.copy_timeout) /\ v.copy_bytes >= 1 /\ v.copy_bytes <= MAX_COPY_BYTES

ArtifactsValid(v) ==
  /\ v.artifacts <= MAX_ARTIFACT_FILES
  /\ Timeout(v.artifact_timeout)
  /\ v.artifact_bytes >= 1 /\ v.artifact_bytes <= MAX_ARTIFACT_FILE_BYTES
  /\ v.artifacts * v.artifact_bytes <= MAX_ARTIFACT_TOTAL_BYTES

\* Mutant: the timeout of a copy is left to the copy.
JobSpecShort(v) ==
  /\ CellResources(v) /\ Timeout(v.readiness) /\ Timeout(v.action)
  /\ v.output >= 1 /\ v.output <= MAX_OUTPUT_BYTES
  /\ AcceleratorIntent(v) /\ GuestCommandValid(v)
  /\ v.copies <= MAX_JOB_COPY_IN_FILES /\ v.copy_bytes >= 1 /\ v.copy_bytes <= MAX_COPY_BYTES
  /\ ArtifactsValid(v)

\* TryFrom<RawJobSpec> for JobSpec
JobSpecValid(v) ==
  /\ CellResources(v) /\ Timeout(v.readiness) /\ Timeout(v.action)
  /\ v.output >= 1 /\ v.output <= MAX_OUTPUT_BYTES
  /\ AcceleratorIntent(v) /\ GuestCommandValid(v)
  /\ CopiesValid(v) /\ ArtifactsValid(v)

\* The readiness policy asks the guest every two seconds, or less if less time is given.
PollInterval(t) == IF t < 2 THEN t ELSE 2

\* validate_readiness_policy
ReadinessPolicy(t) == t # 0 /\ t <= MAX_ACTION_TIMEOUT_SECONDS /\ PollInterval(t) <= t

\* validate_cell_spec, for the selected provider
CellSpecValid(v) ==
  /\ plan.provider = "hyperv" => plan.accelerator = None
  /\ plan.accelerator \in {None, "whpx", "kvm", "hvf", "tcg"}
  /\ CellResources(v)

\* validate_guest_timeout_and_size
TimeoutAndSize(t, n) == t # 0 /\ t <= MAX_ACTION_TIMEOUT_SECONDS /\ n # 0 /\ n <= MAX_COPY_BYTES

\* collect_artifacts_with_kind
CollectValid(v) ==
  /\ TimeoutAndSize(v.artifact_timeout, v.artifact_bytes) /\ ReadinessPolicy(v.readiness)
  /\ v.artifacts # 0 /\ v.artifacts <= MAX_ARTIFACT_FILES
  /\ v.artifact_bytes * v.artifacts <= MAX_ARTIFACT_TOTAL_BYTES

-----------------------------------------------------------------------------
(***************************************************************************)
(* The stages                                                              *)
(***************************************************************************)

Pass(ok, at, next) ==
  /\ stage = at
  /\ IF ok THEN stage' = next /\ refused' = refused ELSE stage' = "over" /\ refused' = at
  /\ UNCHANGED <<path, file, named, doc, config>>

\* load_job_spec: the file, then what it has to give
Load ==
  /\ path = "job"
  /\ Pass(DocumentReadable /\ \A f \in {"cpu", "memory", "program"} : doc[f] # None, "start", "spec")
  /\ value' = [f \in JobFields |-> OrElse(doc[f], JobDefault[f])]
  /\ UNCHANGED <<plan, cell>>

ValidateSpec ==
  path = "job" /\ Pass(JobSpecValid(value), "spec", "plan") /\ UNCHANGED <<value, plan, cell>>

\* load_config
LoadConfig ==
  /\ path = "run" /\ Pass(Readable /\ Resolves, "start", "merge")
  /\ UNCHANGED <<value, plan, cell>>

Merge ==
  /\ stage = "merge"
  /\ value' = [f \in JobFields |-> IF f \in FlagFields THEN EffectiveFlag(f) ELSE JobDefault[f]]
  /\ stage' = "resources" /\ UNCHANGED <<path, file, named, doc, config, plan, cell, refused>>

\* validate_run_resources, before anything is probed
Resources == Pass(CellResources(value), "resources", "plan") /\ UNCHANGED <<value, plan, cell>>

\* Provider and accelerator are selected (module RunSelection).
Select ==
  /\ stage = "plan"
  /\ \E p \in {"hyperv", "qemu"}, a \in {None, "whpx", "kvm", "hvf", "tcg"} :
       /\ value.provider \in {None, p}
       /\ (p = "hyperv") = (a = None)
       /\ value.accelerator \in {None, a} /\ (a = "tcg") = value.allow_tcg
       /\ plan' = [provider |-> p, accelerator |-> a]
  /\ stage' = "validate" /\ UNCHANGED <<path, file, named, doc, config, value, cell, refused>>

\* Binding the inputs of a job reads them within their limit; then the engine
\* looks at the whole request before it creates anything.
Validate ==
  /\ Pass(/\ value.copies > 0 => value.copy_bytes # 0 /\ value.copy_bytes <= MAX_COPY_BYTES
          /\ GuestCommandValid(value) /\ ReadinessPolicy(value.readiness)
          /\ CellSpecValid(value), "validate", "copy")
  /\ cell' = (stage' = "copy")
  /\ UNCHANGED <<value, plan>>

CopyIn ==
  /\ Pass(value.copies > 0 => /\ TimeoutAndSize(value.copy_timeout, value.copy_bytes)
                              /\ ReadinessPolicy(value.readiness), "copy", "exec")
  /\ UNCHANGED <<value, plan, cell>>

Exec ==
  /\ Pass(GuestCommandValid(value) /\ ReadinessPolicy(value.readiness), "exec", "collect")
  /\ UNCHANGED <<value, plan, cell>>

\* No artifact action for a document that names no artifact.
Collect ==
  /\ Pass(value.artifacts > 0 => CollectValid(value), "collect", "over")
  /\ UNCHANGED <<value, plan, cell>>

Init ==
  /\ path \in {"job", "run"} /\ file \in Files /\ named \in BOOLEAN
  /\ path = "job" => named
  /\ doc \in (IF path = "job" THEN Documents ELSE Flags)
  /\ config \in (IF path = "run" THEN Configs ELSE {[f \in RunFields |-> None]})
  /\ value = JobDefault /\ plan = None /\ stage = "start" /\ cell = FALSE /\ refused = None

Next == Load \/ ValidateSpec \/ LoadConfig \/ Merge \/ Resources \/ Select \/ Validate \/ CopyIn \/ Exec
          \/ Collect

Spec == Init /\ [][Next]_vars

-----------------------------------------------------------------------------
(***************************************************************************)
(* Properties                                                              *)
(***************************************************************************)

\* A limit never refuses a run whose cell exists already: what the early checks
\* let through, the checks of the copies, the command and the collection accept.
\* A job document that passed its validation is not refused by any limit at all.
NothingLate ==
  refused # None => ~cell /\ (path = "job" => refused \in {"start", "spec"})

\* A configuration that exists is obeyed or refused at once, never passed over: a
\* run that creates a cell uses every value the file gives and no flag overrides,
\* and a run that is refused later has a flag out of bounds, so neither the
\* configuration nor a default can be the reason.
ConfigObeyed ==
  path = "run" =>
    /\ cell /\ (file # "missing" \/ named) =>
         file = "good" /\ \A f \in RunFields : doc[f] = None /\ config[f] # None => value[f] = config[f]
    /\ refused \notin {None, "start"} =>
         \/ doc.cpu # None /\ (doc.cpu < 1 \/ doc.cpu > MAX_CPU_COUNT)
         \/ doc.memory # None /\ (doc.memory < MIN_MEMORY_MIB \/ doc.memory > MAX_MEMORY_MIB)
         \/ doc.ttl # None /\ (doc.ttl < 1 \/ doc.ttl > MAX_TTL_SECONDS)
         \/ \E f \in {"readiness", "action"} : doc[f] # None /\ ~Timeout(doc[f])
         \/ doc.program # "ok"
         \/ doc.output # None /\ (doc.output < 1 \/ doc.output > MAX_OUTPUT_BYTES)
=============================================================================
