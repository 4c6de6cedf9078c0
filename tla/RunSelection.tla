----------------------------- MODULE RunSelection -----------------------------
(***************************************************************************)
(* Which provider, accelerator and guest transport a run uses.  A plan is  *)
(* resolved from the host, the image record, the probes of the providers   *)
(* and what the user asked for; it is revalidated when the run begins, and *)
(* the provider chooses the accelerator once more when it creates the VM.  *)
(* In between the host and the image registry go on changing.              *)
(***************************************************************************)
EXTENDS Naturals, Sequences, FiniteSets, SequencesExt, Functions

CONSTANTS
  Hosts,       \* the hosts considered
  Images,      \* the image records that may be registered under the id
  Intents,     \* what the user may ask for
  MaxChanges,  \* bound on changes of the host and the registry during a run
  None         \* nothing asked for, no record, no plan

Providers == {"hyperv", "qemu"}

\* What a host offers: the state of Hyper-V and of the QEMU binaries, the
\* accelerators QEMU was built with, and whether /dev/kvm can be opened.
Facts(host) ==
  [hyperv   : IF host.os = "windows" THEN {"ready", "unavailable", "probe_failed"}
              ELSE {"unsupported_host"},
   qemu     : {"ready", "unavailable", "probe_failed"},
   compiled : SUBSET {"tcg", CASE host.os = "windows" -> "whpx"
                               [] host.os = "linux"   -> "kvm"
                               [] host.os = "macos"   -> "hvf"},
   kvm      : IF host.os = "linux" THEN BOOLEAN ELSE {TRUE}]

VARIABLES
  host,     \* the platform
  facts,    \* what it offers now
  image,    \* the record registered now, or None
  intent,   \* what the user asked for
  phase,    \* how far the run is
  plan,     \* the plan, or None
  error,    \* why the run was refused, or None
  seen,     \* the image and the facts the plan was made from
  cell,     \* what was created, or None
  changes   \* changes so far

vars == <<host, facts, image, intent, phase, plan, error, seen, cell, changes>>

-----------------------------------------------------------------------------
(***************************************************************************)
(* The support matrix                                                      *)
(***************************************************************************)

Row(os, provider, accelerator, guest, transport, status) ==
  [host_os |-> os, host_arch |-> "x86_64", provider |-> provider,
   accelerator |-> accelerator, guest_os |-> guest, guest_arch |-> "x86_64",
   transport |-> transport, status |-> status]

\* Mutant: a row for a transport the provider does not have.
WideMatrix == {
  Row("windows", "hyperv", "hyper-v", "windows", "powershell-direct", "untested"),
  Row("windows", "qemu", "whpx", "windows", "qga", "untested"),
  Row("linux", "qemu", "kvm", "linux", "qga", "untested")}

SupportMatrix == {
  Row("windows", "hyperv", "hyper-v", "windows", "powershell-direct", "untested"),
  Row("windows", "hyperv", "whpx", "windows", "powershell-direct", "unsupported"),
  Row("windows", "qemu", "whpx", "windows", "qga", "unsupported"),
  Row("windows", "qemu", "whpx", "linux", "qga", "untested"),
  Row("windows", "qemu", "whpx", "linux", "ssh", "unsupported"),
  Row("windows", "qemu", "tcg", "linux", "qga", "development-only"),
  Row("linux", "qemu", "kvm", "windows", "qga", "unsupported"),
  Row("linux", "qemu", "kvm", "linux", "qga", "untested"),
  Row("linux", "qemu", "kvm", "linux", "ssh", "unsupported"),
  Row("linux", "qemu", "tcg", "linux", "qga", "development-only")}

\* combination_is_possible: what can work at all, whatever the matrix says.
CombinationIsPossible(k) ==
  /\ \/ k.provider = "hyperv" /\ k.host_os = "windows" /\ k.accelerator = "hyper-v"
     \/ k.provider = "qemu" /\ <<k.accelerator, k.host_os>> \in
          {<<"whpx", "windows">>, <<"kvm", "linux">>, <<"hvf", "macos">>}
     \/ k.provider = "qemu" /\ k.accelerator = "tcg"
  /\ k.accelerator # "tcg" => k.host_arch = k.guest_arch
  /\ <<k.provider, k.guest_os, k.transport>> \in
       {<<"hyperv", "windows", "powershell-direct">>, <<"qemu", "linux", "qga">>}

-----------------------------------------------------------------------------
(***************************************************************************)
(* Probes                                                                  *)
(***************************************************************************)

NativeAccelerator(os) ==
  CASE os = "windows" -> "whpx" [] os = "linux" -> "kvm" [] os = "macos" -> "hvf"

Unavailable(status) ==
  [status |-> status, hardware |-> FALSE, accelerators |-> {}, guest_os |-> {},
   guest_arch |-> {}, transports |-> {}]

HypervProbe(h, f) ==
  IF f.hyperv # "ready" THEN Unavailable(f.hyperv)
  ELSE [status |-> "ready", hardware |-> TRUE, accelerators |-> {"hyper-v"},
        guest_os |-> {"windows", "linux"}, guest_arch |-> {h.arch},
        transports |-> {"powershell-direct"}]

\* filter_usable_accelerators: KVM counts only if its device can be opened.
UsableAccelerators(f) == {a \in f.compiled : a = "kvm" => f.kvm}

QemuProbe(h, f) ==
  IF f.qemu # "ready" THEN Unavailable(f.qemu)
  ELSE [status |-> "ready", hardware |-> NativeAccelerator(h.os) \in UsableAccelerators(f),
        accelerators |-> UsableAccelerators(f), guest_os |-> {"windows", "linux"},
        guest_arch |-> {h.arch}, transports |-> {"qga"}]

Probes(h, f) == [p \in Providers |-> IF p = "hyperv" THEN HypervProbe(h, f) ELSE QemuProbe(h, f)]

\* validate_probe_snapshots: what a probe says agrees with itself.
SnapshotValid(p, probe) ==
  IF probe.status # "ready" THEN probe = Unavailable(probe.status)
  ELSE IF p = "hyperv" THEN probe.accelerators = {"hyper-v"} /\ probe.hardware
  ELSE /\ "hyper-v" \notin probe.accelerators
       /\ probe.hardware = (probe.accelerators \cap {"whpx", "kvm", "hvf"} # {})

-----------------------------------------------------------------------------
(***************************************************************************)
(* Resolution                                                              *)
(***************************************************************************)

\* The provider the run is confined to, or None; an accelerator is QEMU's.
SelectedProvider(i) ==
  CASE i.provider # None -> i.provider
    [] i.provider = None /\ i.accelerator # None -> "qemu"
    [] i.provider = None /\ i.accelerator = None -> i.config

\* Mutant: TCG is a fallback for an accelerator that is not there.
AcceleratorOrTcg(p, h, i) ==
  CASE p = "hyperv" -> "hyper-v"
    [] p = "qemu" /\ i.accelerator \notin {None, "auto"} -> i.accelerator
    [] p = "qemu" /\ i.accelerator \in {None, "auto"} ->
         IF NativeAccelerator(h.os) \in UsableAccelerators(facts) THEN NativeAccelerator(h.os)
         ELSE "tcg"

AcceleratorFor(p, h, i) ==
  CASE p = "hyperv" -> "hyper-v"
    [] p = "qemu" /\ i.accelerator \notin {None, "auto"} -> i.accelerator
    [] p = "qemu" /\ i.accelerator \in {None, "auto"} -> NativeAccelerator(h.os)

\* The rows of the matrix for this host, image, provider and accelerator.
MatchingRows(h, img, p, a) ==
  {r \in SupportMatrix :
     /\ r.host_os = h.os /\ r.host_arch = h.arch
     /\ r.provider = p /\ r.accelerator = a
     /\ r.guest_os = img.os /\ r.guest_arch = img.arch}

\* The providers of the image that the selection leaves.
Remaining(img, i) ==
  {p \in Range(img.variants) : SelectedProvider(i) \in {None, p}}

\* What the probe of a provider says against it, in the order it is asked.
ProbeRejects(h, img, p, probe, a) ==
  IF img.arch # h.arch THEN {"architecture"}
  ELSE IF probe.status # "ready" THEN {"provider"}
  ELSE IF img.os \notin probe.guest_os THEN {"guest_os"}
  ELSE IF img.arch \notin probe.guest_arch THEN {"architecture"}
  ELSE IF a \notin probe.accelerators THEN {"accelerator"}
  ELSE IF MatchingRows(h, img, p, a) = {} THEN {"undocumented"}
  ELSE {}

Candidates(h, img, pr, i) ==
  UNION {LET a == AcceleratorFor(p, h, i) IN
         IF ProbeRejects(h, img, p, pr[p], a) # {} THEN {}
         ELSE {r \in MatchingRows(h, img, p, a) :
                 r.status # "unsupported" /\ r.transport \in pr[p].transports} :
         p \in Remaining(img, i)}

Rejections(h, img, pr, i) ==
  UNION {LET a == AcceleratorFor(p, h, i)
             by == ProbeRejects(h, img, p, pr[p], a)
         IN IF by # {} THEN by
            ELSE {IF r.status = "unsupported" THEN "unsupported" ELSE "transport" :
                    r \in MatchingRows(h, img, p, a)} :
         p \in Remaining(img, i)}

\* rejection_error: the most telling of the reasons.
RejectionError(rejected) ==
  LET order  == <<"architecture", "provider", "accelerator", "transport",
                  "unsupported", "undocumented">>
      first  == SelectInSeq(order, LAMBDA r : r \in rejected)
  IN IF first = 0 THEN "incompatible_image_variant" ELSE order[first]

\* native_provider_rank
Rank(h, p) == IF (h.os = "windows") = (p = "hyperv") THEN 0 ELSE 1

\* resolve_run_execution_plan: a row of the matrix, or an error.
Resolve(h, img, pr, i) ==
  LET cands == Candidates(h, img, pr, i)
      best  == {r \in cands : \A q \in cands : Rank(h, r.provider) <= Rank(h, q.provider)}
      Fail(e) == [plan |-> None, error |-> e]
  IN IF \E p \in Providers : ~SnapshotValid(p, pr[p]) THEN Fail("contradictory")
     ELSE IF (i.accelerator = "tcg") # i.allow_tcg THEN Fail("tcg_opt_in")
     ELSE IF i.provider = "hyperv" /\ i.accelerator # None THEN Fail("impossible")
     ELSE IF ~IsInjective(img.variants) THEN Fail("ambiguous")
     ELSE IF Remaining(img, i) = {} THEN Fail("incompatible_image_variant")
     ELSE IF cands = {} THEN Fail(RejectionError(Rejections(h, img, pr, i)))
     ELSE IF Cardinality(best) # 1 THEN Fail("ambiguous")
     ELSE [plan |-> CHOOSE r \in best : TRUE, error |-> None]

\* revalidate_run_execution_plan, with what revalidate_run_request loads for
\* it: the record and the probe of now.
Revalidate(p, h, img, probe) ==
  IF img = None THEN "not_found"
  ELSE IF \/ p.guest_os # img.os \/ p.guest_arch # img.arch
          \/ Cardinality({k \in DOMAIN img.variants : img.variants[k] = p.provider}) # 1
       THEN "drift"
  ELSE IF ~SnapshotValid(p.provider, probe) THEN "contradictory"
  ELSE IF probe.status # "ready" THEN "provider"
  ELSE IF p.accelerator \notin probe.accelerators THEN "accelerator"
  ELSE IF p.guest_arch \notin probe.guest_arch THEN "architecture"
  ELSE IF p.guest_os \notin probe.guest_os \/ p.transport \notin probe.transports
       THEN "transport"
  ELSE IF p \notin SupportMatrix THEN "undocumented"
  ELSE IF p.status = "unsupported" THEN "unsupported"
  ELSE "ok"

\* select_accelerator: what QEMU gives a VM that is asked to be created.
SelectAccelerator(h, f, asked, allow_tcg) ==
  LET usable == UsableAccelerators(f) IN
  CASE asked = "tcg" /\ allow_tcg /\ "tcg" \in usable -> "tcg"
    [] asked \in {"auto", NativeAccelerator(h.os)} /\ NativeAccelerator(h.os) \in usable ->
         NativeAccelerator(h.os)
    [] OTHER -> None

-----------------------------------------------------------------------------
(***************************************************************************)
(* A run                                                                   *)
(***************************************************************************)

Init ==
  /\ host \in Hosts
  /\ facts \in Facts(host)
  /\ image \in Images
  /\ intent \in Intents
  /\ phase = "begin"
  /\ plan = None /\ error = None /\ seen = None /\ cell = None
  /\ changes = 0

Plan ==
  /\ phase = "begin"
  /\ LET r == Resolve(host, image, Probes(host, facts), intent) IN
       /\ plan' = r.plan /\ error' = r.error
       /\ phase' = IF r.plan = None THEN "refused" ELSE "planned"
  /\ seen' = [image |-> image, facts |-> facts]
  /\ UNCHANGED <<host, facts, image, intent, cell, changes>>

\* run_cell checks the plan before it begins.
RevalidateRequest ==
  /\ phase = "planned"
  /\ LET r == Revalidate(plan, host, image, Probes(host, facts)[plan.provider]) IN
       /\ phase' = IF r = "ok" THEN "valid" ELSE "refused"
       /\ error' = IF r = "ok" THEN None ELSE r
  /\ UNCHANGED <<host, facts, image, intent, plan, seen, cell, changes>>

\* create_cell probes the provider, loads the record again, and has the VM made
\* with the accelerator of the plan.
Create ==
  /\ phase = "valid"
  /\ LET probe == Probes(host, facts)[plan.provider]
         got   == IF plan.provider = "hyperv" THEN "hyper-v"
                  ELSE SelectAccelerator(host, facts, plan.accelerator, plan.accelerator = "tcg")
         fits  == /\ probe.status = "ready"
                  /\ image # None
                  /\ Cardinality({k \in DOMAIN image.variants :
                                    image.variants[k] = plan.provider}) = 1
                  /\ got # None
     IN IF fits
        THEN /\ phase' = "created" /\ UNCHANGED error
             /\ cell' = [image |-> image, provider |-> plan.provider, accelerator |-> got]
        ELSE phase' = "refused" /\ error' = "create" /\ UNCHANGED cell
  /\ UNCHANGED <<host, facts, image, intent, plan, seen, changes>>

\* The host changes: a service, a binary, a device.
HostChanges ==
  /\ phase \in {"planned", "valid"} /\ changes < MaxChanges
  /\ facts' \in Facts(host) \ {facts}
  /\ changes' = changes + 1
  /\ UNCHANGED <<host, image, intent, phase, plan, error, seen, cell>>

\* The image is unregistered, or registered anew under the same id.
ImageChanges ==
  /\ phase \in {"planned", "valid"} /\ changes < MaxChanges
  /\ image' \in (Images \cup {None}) \ {image}
  /\ changes' = changes + 1
  /\ UNCHANGED <<host, facts, intent, phase, plan, error, seen, cell>>

Next == Plan \/ RevalidateRequest \/ Create \/ HostChanges \/ ImageChanges

Spec == Init /\ [][Next]_vars

-----------------------------------------------------------------------------
(***************************************************************************)
(* Properties                                                              *)
(***************************************************************************)

\* The paths that would work: possible at all, offered by the host as it was
\* seen, declared by the matrix, of the image, and what the user asked for.
\* Nothing is said of the order in which they are looked at.
Workable ==
  {r \in SupportMatrix :
     LET probe == Probes(host, seen.facts)[r.provider] IN
     /\ CombinationIsPossible(r) /\ r.status # "unsupported"
     /\ r.host_os = host.os /\ r.host_arch = host.arch
     /\ r.guest_os = seen.image.os /\ r.guest_arch = seen.image.arch
     /\ r.provider \in Range(seen.image.variants)
     /\ probe.status = "ready" /\ r.accelerator \in probe.accelerators
     /\ SelectedProvider(intent) \in {None, r.provider}
     /\ IF intent.accelerator \in {None, "auto"} THEN r.accelerator # "tcg"
        ELSE r.accelerator = intent.accelerator}

\* The plan is the preferred one of the paths that would work; a request that is
\* consistent in itself is refused only if there is none; and a plan is not
\* refused afterwards while nothing has changed.
PlanIsBest ==
  /\ phase = "planned" =>
       plan \in Workable /\ \A q \in Workable : Rank(host, plan.provider) <= Rank(host, q.provider)
  /\ phase = "refused" /\ plan = None
       /\ error \notin {"contradictory", "tcg_opt_in", "impossible", "ambiguous"} => Workable = {}
  /\ phase = "refused" /\ plan # None => changes > 0

\* Nothing falls back: the provider and the accelerator the user, or the
\* configuration, named are the ones used, TCG is used only if both options ask
\* for it, in the plan and in the VM, and what is created is what was planned.
NoFallback ==
  /\ \A r \in {plan, cell} \ {None} :
       /\ SelectedProvider(intent) \in {None, r.provider}
       /\ intent.accelerator \notin {None, "auto"} => r.accelerator = intent.accelerator
       /\ r.accelerator = "tcg" => intent.allow_tcg /\ intent.accelerator = "tcg"
  /\ cell # None => cell.provider = plan.provider /\ cell.accelerator = plan.accelerator

=============================================================================
