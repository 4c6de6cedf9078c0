----------------------------- MODULE MCRequests -----------------------------
(***************************************************************************)
(* What happens to a request before its command runs, on small instances.  *)
(* A behaviour is one of three: a job document or a set of flags on its    *)
(* way through the limits, the selection of provider and accelerator, or   *)
(* the inputs of a job from binding to copying.  part says which; the      *)
(* others rest in an initial state.                                        *)
(***************************************************************************)
EXTENDS RequestLimits

CONSTANTS
  MaxChanges, NSources, NCopies, MaxBytes, MaxEdits, Host, Guest

VARIABLES
  part,   \* "limits", "selection" or "inputs"
  host, facts, image, intent, phase, chosen, error, seen, made, changes,
  order, target, overwrite, names, inodes, edits, pc, at, handle, held, bound, born, ops, guest,
  fail

-----------------------------------------------------------------------------
(***************************************************************************)
(* Every limit from both sides: documents, configurations and flags that   *)
(* give at most two values, each on, next to or beyond a boundary.         *)
(***************************************************************************)

Around(lo, hi) == {lo - 1, lo, hi, hi + 1}

Boundary ==
  [f \in JobFields |->
     CASE f = "cpu"        -> Around(1, MAX_CPU_COUNT)
       [] f = "memory"     -> Around(MIN_MEMORY_MIB, MAX_MEMORY_MIB)
       [] f = "ttl"        -> Around(1, MAX_TTL_SECONDS)
       [] f = "output"     -> Around(1, MAX_OUTPUT_BYTES)
       [] f = "copies"     -> {1, MAX_JOB_COPY_IN_FILES, MAX_JOB_COPY_IN_FILES + 1}
       [] f = "copy_bytes" -> Around(1, MAX_COPY_BYTES)
       [] f = "artifacts"  -> {1, MAX_ARTIFACT_FILES, MAX_ARTIFACT_FILES + 1}
       [] f = "artifact_bytes" -> Around(1, MAX_ARTIFACT_FILE_BYTES)
       [] f = "provider"    -> {"hyperv", "qemu"}
       [] f = "accelerator" -> {"kvm", "tcg"}
       [] f = "allow_tcg"   -> {TRUE}
       [] f = "program"     -> {"blank"}
       [] OTHER -> Around(1, MAX_ACTION_TIMEOUT_SECONDS)]

\* What is given unless something else is.
PlainDocument ==
  [f \in JobFields |-> CASE f = "cpu" -> 2 [] f = "memory" -> 4096 [] f = "program" -> "ok"
                         [] OTHER -> None]

PlainFlags == [f \in FlagFields |-> IF f = "program" THEN "ok" ELSE None]

Givings(base, fields) ==
  UNION {{[[base EXCEPT ![f] = v] EXCEPT ![g] = w] :
            v \in Boundary[f] \cup {None}, w \in Boundary[g]} : f \in fields, g \in fields}

MCDocuments == {PlainDocument} \cup Givings(PlainDocument, JobFields)

MCFlags == {f \in {PlainFlags} \cup Givings(PlainFlags, FlagFields) : f.program # None}

MCConfigs ==
  UNION {{[[h \in RunFields |-> None] EXCEPT ![f] = v] : v \in Boundary[f] \cup {None}} :
           f \in RunFields}

-----------------------------------------------------------------------------
(***************************************************************************)
(* Three hosts, images with one variant or two, and every intent.          *)
(***************************************************************************)

Hosts == {[os |-> "windows", arch |-> "x86_64"], [os |-> "linux", arch |-> "x86_64"],
          [os |-> "macos", arch |-> "aarch64"]}

Images == [os : {"windows", "linux"}, arch : {"x86_64", "aarch64"},
           variants : {<<"hyperv">>, <<"qemu">>, <<"hyperv", "qemu">>, <<"qemu", "qemu">>}]

Intents == [provider : {"hyperv", "qemu", None}, config : {"hyperv", "qemu", None},
            accelerator : {None, "auto", "whpx", "kvm", "hvf", "tcg"}, allow_tcg : BOOLEAN]

Selection == INSTANCE RunSelection WITH plan <- chosen, cell <- made

selection_vars == <<host, facts, image, intent, phase, chosen, error, seen, made, changes>>

-----------------------------------------------------------------------------
(***************************************************************************)
(* Two copy actions of two files; contents that fill the limit, fall short *)
(* of it and exceed it; destinations that differ in the name, only in the  *)
(* letter case, or only in the separator.                                  *)
(***************************************************************************)

Contents == {<<1, 1>>, <<2, 2>>, <<1>>, <<1, 1, 1>>}

Spellings ==
  {<<"a", "lower", "/">>, <<"a", "lower", "\\">>, <<"a", "upper", "/">>, <<"b", "lower", "/">>}

Inputs == INSTANCE JobInputs WITH seen <- held, cell <- born

input_vars == <<order, target, overwrite, names, inodes, edits, pc, at, handle, held, bound, born,
                ops, guest, fail>>

-----------------------------------------------------------------------------
\* A file that cannot be read stops everything, whatever it would have said;
\* which input and which destination comes first does not matter, and neither
\* does what the second input holds at first: the first one holds everything.
MCInit ==
  /\ part \in {"limits", "selection", "inputs"}
  /\ \/ part = "limits"
     \/ /\ part # "limits" /\ path = "job" /\ file = "good" /\ named = TRUE
        /\ doc = PlainDocument
  /\ \/ part = "selection"
     \/ /\ part # "selection" /\ host = [os |-> "linux", arch |-> "x86_64"]
        /\ image = CHOOSE i \in Images : TRUE
        /\ intent = CHOOSE i \in Intents : TRUE
        /\ facts = CHOOSE f \in Selection!Facts(host) : TRUE
  /\ \/ part = "inputs"
     \/ /\ part # "inputs" /\ order = [i \in 1 .. NCopies |-> 1]
        /\ target = [i \in 1 .. NCopies |-> <<"a", "lower", "/">>] /\ overwrite = TRUE
        /\ inodes = [i \in Inputs!Inodes |-> IF i \in Inputs!Sources THEN <<1>> ELSE None]
  /\ Init /\ Selection!Init /\ Inputs!Init
  /\ file \in {"good", "missing"} \/ doc \in {PlainDocument, PlainFlags}
  /\ order[1] = 1 /\ target[1] = <<"a", "lower", "/">>
  /\ part = "inputs" => inodes[2] = <<2, 2>>

MCNext ==
  \/ part = "limits" /\ Next /\ UNCHANGED <<part, selection_vars, input_vars>>
  \/ part = "selection" /\ Selection!Next /\ UNCHANGED <<part, vars, input_vars>>
  \/ part = "inputs" /\ Inputs!Next /\ UNCHANGED <<part, vars, selection_vars>>

MCSpec == MCInit /\ [][MCNext]_<<part, vars, selection_vars, input_vars>>

\* The plan is the preferred one of the paths that would work, a refusal means
\* that there is none, and a fresh plan holds (select_run, revalidate).
PlanIsBest == part = "selection" => Selection!PlanIsBest

\* Provider and accelerator are the ones asked for, in the plan and in the VM.
NoFallback == Selection!NoFallback

\* A job works with the inputs it bound before its cell was created
\* (bind_job_inputs, read_job_copy_source).
OnlyBoundInputs == Inputs!OnlyBoundInputs
=============================================================================
