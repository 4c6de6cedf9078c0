----------------------------- MODULE CellEngine -----------------------------
(***************************************************************************)
(* The lifecycle engine of vmcell: create, start, stop, destroy and garbage *)
(* collection of cells, run by several processes that share one state root *)
(* and one hypervisor.  Every operation holds the mutation lock from its   *)
(* first durable read to its return, and is a sequence of steps between    *)
(* which the process can die: reads of the provider, provider verbs, and   *)
(* atomic replacements of the cell's manifest.                             *)
(*                                                                         *)
(* A manifest is reduced to its lifecycle state, its phase and the         *)
(* recorded provider id; a VM to what the ownership proofs compare.        *)
(***************************************************************************)
EXTENDS Naturals, FiniteSets

CONSTANTS
  Cells,       \* CellIds; each is used by at most one create
  Processes,   \* vmcell invocations sharing the state root
  VmIds,       \* provider ids (GUIDs), never reused by the provider
  NoProcess,   \* the mutation lock is free
  NoCell,      \* an idle process works on no cell
  NoId,        \* no provider id is recorded
  NoVm,        \* no VM has this id
  NoMarker,    \* the marker of a VM nobody has claimed
  Foreign,     \* a name, marker or creator that is not a cell of this root
  Provider,    \* "hyperv" or "qemu"
  MaxDrift,    \* bound on the changes made behind vmcell's back
  MaxOrphans   \* bound on the provider verbs that outlive their process

ASSUME DistinctAssumption ==
  /\ NoProcess \notin Processes
  /\ NoCell \notin Cells
  /\ NoId \notin VmIds
  /\ NoMarker \notin Cells /\ Foreign \notin Cells /\ NoMarker # Foreign

ASSUME ProviderAssumption == Provider \in {"hyperv", "qemu"}

ASSUME BoundAssumption == MaxDrift \in Nat /\ MaxOrphans \in Nat

States == {"Absent", "Creating", "Stopped", "Running", "Failed",
           "Destroying", "Destroyed"}

Phases == {"None", "IntentRecorded", "OverlayCreated", "ProviderObjectCreated",
           "ProviderObjectClaimed", "Ready", "Destroying",
           "DestroyingProvisioning", "Destroyed"}

Records == [state : States, phase : Phases, id : VmIds \cup {NoId}]

NoRecord == [state |-> "Absent", phase |-> "None", id |-> NoId]

IntentRecord == [state |-> "Creating", phase |-> "IntentRecorded", id |-> NoId]

\* A VM as the ownership proofs see it.  shape stands for its paths, disk,
\* memory, CPU count and adapters: as created, as configured, with adapters
\* no step of create leaves ("rewired"), or with another path, disk or memory
\* size ("drifted").  origin is history: the cell whose create made the VM.
Vms == [name   : Cells \cup {Foreign},
        marker : Cells \cup {NoMarker, Foreign},
        shape  : {"fresh", "configured", "rewired", "drifted"},
        power  : {"off", "running", "paused", "other"},
        origin : Cells \cup {Foreign}]

ASSUME NoVmAssumption == NoVm \notin Vms

\* A cell's runtime directory: its configuration directory without or with
\* the overlay, or a root that has lost (or never had) that directory.
Runtimes == {"absent", "partial", "prepared", "overlay"}

Verbs == {"create_overlay", "create_vm", "claim_vm", "configure_vm",
          "start_vm", "stop_vm", "remove_vm"}

Labels == Verbs \cup
  {"idle", "save_intent", "prepare_runtime", "check_name", "save_overlay",
   "save_id", "inspect_new", "save_claimed", "save_ready", "fail_record",
   "start_inspect", "start_verify", "save_running",
   "stop_inspect", "stop_verify", "save_stopped",
   "gc_next", "destroy_load", "destroy_prove", "save_recovered",
   "save_destroying", "reinspect", "verify_removed", "verify_absent",
   "remove_runtime", "save_destroyed"}

VARIABLES
  lock,      \* the holder of the mutation lock
  job,       \* job[p]: what process p is doing, in memory only
  cell,      \* cell[c]: the durable manifest
  runtime,   \* runtime[c]: the runtime directory of c
  vms,       \* vms[v]: the provider's VM with id v
  used,      \* the ids the provider has ever handed out
  ttl,       \* ttl[c]: "none", "live" or "expired"
  inflight,  \* the cells with a nonterminal guest operation on record
  orphans,   \* verbs still running in a provider process whose vmcell died
  drift      \* how often the environment has interfered

vars == <<lock, job, cell, runtime, vms, used, ttl, inflight, orphans, drift>>

host == <<runtime, vms, used>>
aside == <<ttl, inflight, orphans, drift>>

Idle == [op |-> "none", cell |-> NoCell, pc |-> "idle", rec |-> NoRecord,
         seen |-> NoVm, todo |-> {}]

Jobs == [op   : {"none", "create", "start", "stop", "destroy", "gc"},
         cell : Cells \cup {NoCell},
         pc   : Labels,
         rec  : Records,
         seen : Vms \cup {NoVm},
         todo : SUBSET Cells]

\* Types of the state: manifests, VMs, runtime directories and what each process remembers.
TypeOK ==
  /\ lock \in Processes \cup {NoProcess}
  /\ job \in [Processes -> Jobs]
  /\ cell \in [Cells -> Records]
  /\ runtime \in [Cells -> Runtimes]
  /\ vms \in [VmIds -> Vms \cup {NoVm}]
  /\ used \in SUBSET VmIds
  /\ ttl \in [Cells -> {"none", "live", "expired"}]
  /\ inflight \in SUBSET Cells
  /\ orphans \in SUBSET [verb : Verbs, cell : Cells, id : VmIds \cup {NoId},
                         seen : Vms \cup {NoVm}]
  /\ drift \in 0 .. MaxDrift

Init ==
  /\ lock = NoProcess
  /\ job = [p \in Processes |-> Idle]
  /\ cell = [c \in Cells |-> NoRecord]
  /\ runtime = [c \in Cells |-> "absent"]
  /\ vms = [v \in VmIds |-> NoVm]
  /\ used = {}
  /\ ttl = [c \in Cells |-> "none"]
  /\ inflight = {}
  /\ orphans = {}
  /\ drift = 0

-----------------------------------------------------------------------------
(***************************************************************************)
(* Ownership proofs                                                        *)
(***************************************************************************)

\* prove_creation_identity: a VM that is still being provisioned.
ProveCreation(c, vm, requireMarker) ==
  /\ vm.name = c
  /\ vm.marker \in IF requireMarker THEN {c} ELSE {NoMarker, c}
  /\ vm.shape \in {"fresh", "configured"}
  /\ vm.power = "off"

\* prove_destroy_identity: CPU and adapters may be in any intermediate state.
ProveDestroy(c, vm) ==
  /\ vm.name = c
  /\ vm.marker = c
  /\ vm.shape # "drifted"

\* prove_ownership: the VM is exactly the configured one.
ProveOwnership(c, vm) ==
  /\ vm.name = c
  /\ vm.marker = c
  /\ vm.shape = "configured"

\* Mutant: adapters and CPU count are not compared.
MutantExactOwned(c, r) ==
  r.state # "Destroyed" /\ r.id # NoId /\ vms[r.id] # NoVm /\ ProveDestroy(c, vms[r.id])

\* exact_owned_vm: the recorded id names a VM of exactly this cell.
ExactOwned(c, r) ==
  /\ r.state # "Destroyed"
  /\ r.id # NoId
  /\ vms[r.id] # NoVm
  /\ ProveOwnership(c, vms[r.id])

NameOccupied(c) == \E v \in VmIds : vms[v] # NoVm /\ vms[v].name = c

\* pin_cell_runtime_for: the root and the configuration directory both open.
RuntimePins(c) == runtime[c] \in {"prepared", "overlay"}

\* The power states start_cell starts from.
Startable == IF Provider = "qemu" THEN {"off", "paused"} ELSE {"off"}

-----------------------------------------------------------------------------
(***************************************************************************)
(* Provider verbs.  A verb compares the VM with the snapshot s the engine  *)
(* proved and then acts, under the provider's own mutex: one step.         *)
(***************************************************************************)

\* Hyper-V creates a VM with one adapter and the default CPU count; QEMU
\* writes the requested shape at once.
CreatedVm(c) ==
  [name |-> c, marker |-> NoMarker,
   shape |-> IF Provider = "qemu" THEN "configured" ELSE "fresh",
   power |-> "off", origin |-> c]

\* Mutant: a verb does not compare the VM with the snapshot again.
MutantAccepts(verb, c, v, s) ==
  CASE verb = "create_overlay" -> runtime[c] = "prepared"
    [] verb = "create_vm" -> ~ NameOccupied(c) /\ RuntimePins(c)
    [] OTHER -> v # NoId /\ vms[v] # NoVm

Accepts(verb, c, v, s) ==
  CASE verb = "create_overlay" -> runtime[c] = "prepared"
    [] verb = "create_vm" -> ~ NameOccupied(c) /\ RuntimePins(c)
    [] verb = "claim_vm" ->
         /\ v # NoId /\ vms[v] # NoVm /\ s # NoVm
         /\ vms[v].marker \in {s.marker, c}
         /\ [vms[v] EXCEPT !.marker = s.marker] = s
         /\ vms[v].power = "off"
    [] verb = "configure_vm" ->
         /\ v # NoId /\ vms[v] # NoVm /\ s # NoVm
         /\ vms[v].shape \in {s.shape, "configured"}
         /\ [vms[v] EXCEPT !.shape = s.shape] = s
         /\ vms[v].power = "off"
    [] OTHER -> v # NoId /\ s # NoVm /\ vms[v] = s

\* What an accepted verb does; v is the id the provider chooses for a new VM.
Effect(verb, c, v) ==
  \/ /\ verb = "create_overlay"
     /\ runtime' = [runtime EXCEPT ![c] = "overlay"]
     /\ UNCHANGED <<vms, used>>
  \/ /\ verb = "create_vm"
     /\ v \in VmIds \ used
     /\ vms' = [vms EXCEPT ![v] = CreatedVm(c)]
     /\ used' = used \cup {v}
     /\ UNCHANGED runtime
  \/ /\ verb = "claim_vm"
     /\ vms' = [vms EXCEPT ![v].marker = c]
     /\ UNCHANGED <<runtime, used>>
  \/ /\ verb = "configure_vm"
     /\ vms' = [vms EXCEPT ![v].shape = "configured"]
     /\ UNCHANGED <<runtime, used>>
  \/ /\ verb = "start_vm"
     /\ vms' = [vms EXCEPT ![v].power = "running"]
     /\ UNCHANGED <<runtime, used>>
  \/ /\ verb = "stop_vm"
     /\ vms' = [vms EXCEPT ![v].power = "off"]
     /\ UNCHANGED <<runtime, used>>
  \/ /\ verb = "remove_vm"
     /\ vms' = [vms EXCEPT ![v] = NoVm]
     /\ UNCHANGED <<runtime, used>>

\* QEMU can leave a spawned VM paused when resuming it fails.
LeftPaused(verb, v) ==
  /\ Provider = "qemu" /\ verb = "start_vm"
  /\ vms' = [vms EXCEPT ![v].power = "paused"]
  /\ UNCHANGED <<runtime, used>>

-----------------------------------------------------------------------------
(***************************************************************************)
(* Steps of an operation                                                   *)
(***************************************************************************)

At(p, l) == lock = p /\ job[p].pc = l

Go(p, l) == job' = [job EXCEPT ![p].pc = l] /\ UNCHANGED lock

\* Continue at l with in-memory record r and VM snapshot s.
GoWith(p, l, r, s) ==
  /\ job' = [job EXCEPT ![p] = [@ EXCEPT !.pc = l, !.rec = r, !.seen = s]]
  /\ UNCHANGED lock

\* The operation returns: the lock guard is dropped, unless gc goes on with
\* its next cell.
Return(p) ==
  IF job[p].op = "gc"
  THEN GoWith(p, "gc_next", NoRecord, NoVm)
  ELSE job' = [job EXCEPT ![p] = Idle] /\ lock' = NoProcess

\* save_cell_with_mutation: one atomic replacement of the manifest.
Save(p, r) == cell' = [cell EXCEPT ![job[p].cell] = r]

\* Acquire the mutation lock and load the manifest of c.
Acquire(p, op, c, l, r) ==
  /\ lock = NoProcess
  /\ job[p] = Idle
  /\ lock' = p
  /\ job' = [job EXCEPT ![p] = [Idle EXCEPT !.op = op, !.cell = c, !.pc = l,
                                            !.rec = r]]

\* Call a provider verb on the VM v: it acts or refuses, and what it did may
\* still be reported as an error (a timeout, an unreadable response).
Call(p, verb, v, ok, error) ==
  LET c == job[p].cell
  IN  /\ At(p, verb)
      /\ \/ /\ Accepts(verb, c, v, job[p].seen)
            /\ Effect(verb, c, v)
            /\ ok \/ error
         \/ /\ Accepts(verb, c, v, job[p].seen)
            /\ LeftPaused(verb, v)
            /\ error
         \/ UNCHANGED host /\ error
      /\ UNCHANGED aside

-----------------------------------------------------------------------------
(***************************************************************************)
(* create_cell_with_id                                                     *)
(***************************************************************************)

\* Mutant: the intent is not saved before the runtime is prepared.
MutantCreateCell(p, c) ==
  /\ cell[c] = NoRecord
  /\ Acquire(p, "create", c, "prepare_runtime", IntentRecord)
  /\ UNCHANGED <<cell, host, aside>>

CreateCell(p, c) ==
  /\ cell[c] = NoRecord
  /\ Acquire(p, "create", c, "save_intent", IntentRecord)
  /\ \E t \in {"none", "live"} : ttl' = [ttl EXCEPT ![c] = t]
  /\ UNCHANGED <<cell, host, inflight, orphans, drift>>

\* A save of the in-memory record with a new phase, then on to l.
SavePhase(p, from, phase, l) ==
  LET r == [job[p].rec EXCEPT !.phase = phase]
  IN  /\ At(p, from)
      /\ Save(p, r)
      /\ GoWith(p, l, r, job[p].seen)
      /\ UNCHANGED <<host, aside>>

SaveIntent(p) == SavePhase(p, "save_intent", "IntentRecorded", "prepare_runtime")

\* Two directories are created in turn; an error can leave only the first.
PrepareRuntime(p) ==
  /\ At(p, "prepare_runtime")
  /\ \/ /\ runtime' = [runtime EXCEPT ![job[p].cell] = "prepared"]
        /\ Go(p, "check_name") \/ Go(p, "fail_record")
     \/ /\ runtime' = [runtime EXCEPT ![job[p].cell] = "partial"]
        /\ Go(p, "fail_record")
     \/ UNCHANGED runtime /\ Go(p, "fail_record")
  /\ UNCHANGED <<cell, vms, used, aside>>

CheckName(p) ==
  /\ At(p, "check_name")
  /\ Go(p, IF NameOccupied(job[p].cell) THEN "fail_record" ELSE "create_overlay")
  /\ UNCHANGED <<cell, host, aside>>

CreateOverlay(p) ==
  /\ Call(p, "create_overlay", NoId, Go(p, "save_overlay"), Go(p, "fail_record"))
  /\ UNCHANGED cell

SaveOverlay(p) == SavePhase(p, "save_overlay", "OverlayCreated", "create_vm")

CreateVm(p) ==
  /\ \E v \in VmIds :
       Call(p, "create_vm", v,
            GoWith(p, "save_id", [job[p].rec EXCEPT !.id = v], NoVm),
            Go(p, "fail_record"))
  /\ UNCHANGED cell

\* Mutant: the phase is saved without the id.
MutantSaveId(p) ==
  /\ At(p, "save_id")
  /\ Save(p, [job[p].rec EXCEPT !.phase = "ProviderObjectCreated", !.id = NoId])
  /\ Return(p)
  /\ UNCHANGED <<host, aside>>

SaveId(p) == SavePhase(p, "save_id", "ProviderObjectCreated", "inspect_new")

InspectNew(p) ==
  LET r == job[p].rec
  IN  /\ At(p, "inspect_new")
      /\ IF vms[r.id] # NoVm /\ ProveCreation(job[p].cell, vms[r.id], FALSE)
         THEN GoWith(p, "claim_vm", r, vms[r.id])
         ELSE Go(p, "fail_record")
      /\ UNCHANGED <<cell, host, aside>>

\* claim_vm, called by create and by the recovery of an interrupted create.
ClaimVm(p) ==
  LET r == job[p].rec
      l == IF job[p].op = "create" THEN "save_claimed" ELSE "save_recovered"
  IN  /\ Call(p, "claim_vm", r.id,
              /\ ProveCreation(job[p].cell, vms'[r.id], TRUE)
              /\ GoWith(p, l, r, vms'[r.id]),
              IF job[p].op = "create" THEN Go(p, "fail_record") ELSE Return(p))
      /\ UNCHANGED cell

SaveClaimed(p) ==
  SavePhase(p, "save_claimed", "ProviderObjectClaimed", "configure_vm")

ConfigureVm(p) ==
  LET r == job[p].rec
  IN  /\ Call(p, "configure_vm", r.id,
              /\ ProveOwnership(job[p].cell, vms'[r.id])
              /\ Go(p, "save_ready"),
              Go(p, "fail_record"))
      /\ UNCHANGED cell

\* The last save of create, start or stop: write the record and return.
SaveLast(p, from, state, phase) ==
  /\ At(p, from)
  /\ Save(p, [job[p].rec EXCEPT !.state = state, !.phase = phase])
  /\ Return(p)
  /\ UNCHANGED <<host, aside>>

SaveReady(p) == SaveLast(p, "save_ready", "Stopped", "Ready")

FailRecord(p) == SaveLast(p, "fail_record", "Failed", job[p].rec.phase)

-----------------------------------------------------------------------------
(***************************************************************************)
(* start_cell and stop_cell                                                *)
(***************************************************************************)

\* Mutant: start does not ask for the lifecycle state.
MutantStartCell(p, c) ==
  /\ cell[c] # NoRecord
  /\ Acquire(p, "start", c, "start_inspect", cell[c])
  /\ UNCHANGED <<cell, host, aside>>

StartCell(p, c) ==
  /\ cell[c].state \in {"Stopped", "Running"}
  /\ Acquire(p, "start", c, "start_inspect", cell[c])
  /\ UNCHANGED <<cell, host, aside>>

StartInspect(p) ==
  LET r  == job[p].rec
      vm == vms[r.id]
      c  == job[p].cell
  IN  /\ At(p, "start_inspect")
      /\ \/ ExactOwned(c, r) /\ vm.power = "running" /\ Go(p, "save_running")
         \/ /\ ExactOwned(c, r) /\ vm.power \in Startable /\ RuntimePins(c)
            /\ GoWith(p, "start_vm", r, vm)
         \/ /\ ~ (/\ ExactOwned(c, r)
                  /\ \/ vm.power = "running"
                     \/ vm.power \in Startable /\ RuntimePins(c))
            /\ Return(p)
      /\ UNCHANGED <<cell, host, aside>>

StartVm(p) ==
  /\ Call(p, "start_vm", job[p].rec.id, Go(p, "start_verify"), Return(p))
  /\ UNCHANGED cell

StartVerify(p) ==
  LET r == job[p].rec
  IN  /\ At(p, "start_verify")
      /\ IF ExactOwned(job[p].cell, r) /\ vms[r.id].power = "running"
         THEN Go(p, "save_running") ELSE Return(p)
      /\ UNCHANGED <<cell, host, aside>>

SaveRunning(p) == SaveLast(p, "save_running", "Running", "Ready")

StopCell(p, c) ==
  /\ cell[c].state \in {"Stopped", "Running"}
  /\ Acquire(p, "stop", c, "stop_inspect", cell[c])
  /\ UNCHANGED <<cell, host, aside>>

StopInspect(p) ==
  LET r  == job[p].rec
      vm == vms[r.id]
      c  == job[p].cell
  IN  /\ At(p, "stop_inspect")
      /\ \/ ExactOwned(c, r) /\ vm.power = "off" /\ Go(p, "save_stopped")
         \/ /\ ExactOwned(c, r) /\ vm.power = "running" /\ RuntimePins(c)
            /\ GoWith(p, "stop_vm", r, vm)
         \/ /\ ~ (/\ ExactOwned(c, r)
                  /\ \/ vm.power = "off"
                     \/ vm.power = "running" /\ RuntimePins(c))
            /\ Return(p)
      /\ UNCHANGED <<cell, host, aside>>

\* stop_vm, called by stop and by destroy.
StopVm(p) ==
  /\ Call(p, "stop_vm", job[p].rec.id,
          Go(p, IF job[p].op = "stop" THEN "stop_verify" ELSE "reinspect"),
          Return(p))
  /\ UNCHANGED cell

StopVerify(p) ==
  LET r == job[p].rec
  IN  /\ At(p, "stop_verify")
      /\ IF ExactOwned(job[p].cell, r) /\ vms[r.id].power = "off"
         THEN Go(p, "save_stopped") ELSE Return(p)
      /\ UNCHANGED <<cell, host, aside>>

SaveStopped(p) == SaveLast(p, "save_stopped", "Stopped", "Ready")

-----------------------------------------------------------------------------
(***************************************************************************)
(* destroy_cell, destroy_cell_for_run and gc_expired_at                    *)
(***************************************************************************)

DestroyCell(p, c) ==
  /\ cell[c] # NoRecord
  /\ Acquire(p, "destroy", c, "destroy_load", cell[c])
  /\ UNCHANGED <<cell, host, aside>>

DestroyCellForRun(p, c) == c \notin inflight /\ DestroyCell(p, c)

\* evaluated_at is one timestamp: the cells expired then are gc's work list.
GcExpired(p) ==
  /\ lock = NoProcess
  /\ job[p] = Idle
  /\ lock' = p
  /\ job' = [job EXCEPT ![p] =
               [Idle EXCEPT !.op = "gc", !.pc = "gc_next",
                            !.todo = {c \in Cells : /\ cell[c] # NoRecord
                                                    /\ ttl[c] = "expired"}]]
  /\ UNCHANGED <<cell, host, aside>>

\* Mutant: gc does not look for nonterminal guest operations.
MutantGcNext(p) ==
  /\ At(p, "gc_next")
  /\ \/ /\ job[p].todo = {}
        /\ job' = [job EXCEPT ![p] = Idle]
        /\ lock' = NoProcess
     \/ \E c \in job[p].todo :
          /\ job' = [job EXCEPT ![p] = [@ EXCEPT !.todo = @ \ {c}, !.cell = c,
                                                 !.rec = cell[c],
                                                 !.pc = "destroy_load"]]
          /\ UNCHANGED lock
  /\ UNCHANGED <<cell, host, aside>>

GcNext(p) ==
  /\ At(p, "gc_next")
  /\ \/ /\ job[p].todo = {}
        /\ job' = [job EXCEPT ![p] = Idle]
        /\ lock' = NoProcess
     \/ \E c \in job[p].todo :
          /\ job' = [job EXCEPT ![p] =
                       [job[p] EXCEPT !.todo = job[p].todo \ {c},
                                      !.cell = c,
                                      !.rec = cell[c],
                                      !.pc = IF c \in inflight THEN "gc_next"
                                             ELSE "destroy_load"]]
          /\ UNCHANGED lock
  /\ UNCHANGED <<cell, host, aside>>

\* Mutant: a cell without a recorded id counts as one whose VM is gone.
MutantDestroyLoad(p) ==
  LET r == job[p].rec
      c == job[p].cell
  IN  /\ At(p, "destroy_load")
      /\ \/ r.state = "Destroyed" /\ Return(p)
         \/ r.state # "Destroyed" /\ r.id = NoId /\ Go(p, "verify_absent")
         \/ /\ r.state # "Destroyed" /\ r.id # NoId
            /\ \/ vms[r.id] = NoVm /\ Go(p, "verify_absent")
               \/ /\ vms[r.id] # NoVm /\ RuntimePins(c)
                  /\ GoWith(p, "destroy_prove", r, vms[r.id])
      /\ UNCHANGED <<cell, host, aside>>

\* A tombstone is only re-examined; a cell whose id was never recorded stays
\* quarantined; otherwise the recorded id decides how to go on.
DestroyLoad(p) ==
  LET r == job[p].rec
      c == job[p].cell
  IN  /\ At(p, "destroy_load")
      /\ \/ (r.state = "Destroyed" \/ r.id = NoId) /\ Return(p)
         \/ /\ r.state # "Destroyed" /\ r.id # NoId
            /\ \/ vms[r.id] = NoVm /\ Go(p, "verify_absent")
               \/ /\ vms[r.id] # NoVm /\ RuntimePins(c)
                  /\ GoWith(p, "destroy_prove", r, vms[r.id])
      /\ UNCHANGED <<cell, host, aside>>

\* Mutant: an interrupted destroy always asks for the configured VM.
MutantDestroyProve(p) ==
  LET r  == job[p].rec
      c  == job[p].cell
      vm == job[p].seen
      unclaimed == r.phase = "ProviderObjectCreated"
      proved ==
        \/ unclaimed /\ ProveCreation(c, vm, FALSE)
        \/ r.phase = "ProviderObjectClaimed" /\ ProveCreation(c, vm, TRUE)
        \/ /\ r.phase \in {"Ready", "Destroying", "DestroyingProvisioning"}
           /\ ProveOwnership(c, vm)
  IN  /\ At(p, "destroy_prove")
      /\ \/ proved /\ Go(p, IF unclaimed THEN "claim_vm" ELSE "save_destroying")
         \/ ~ proved /\ Return(p)
      /\ UNCHANGED <<cell, host, aside>>

\* Each phase has its own proof; a VM created but not yet claimed is claimed.
DestroyProve(p) ==
  LET r  == job[p].rec
      c  == job[p].cell
      vm == job[p].seen
      unclaimed == r.phase = "ProviderObjectCreated"
      proved ==
        \/ unclaimed /\ ProveCreation(c, vm, FALSE)
        \/ r.phase = "ProviderObjectClaimed" /\ ProveCreation(c, vm, TRUE)
        \/ r.phase = "DestroyingProvisioning" /\ ProveDestroy(c, vm)
        \/ r.phase \in {"Ready", "Destroying"} /\ ProveOwnership(c, vm)
  IN  /\ At(p, "destroy_prove")
      /\ \/ proved /\ Go(p, IF unclaimed THEN "claim_vm" ELSE "save_destroying")
         \/ ~ proved /\ Return(p)
      /\ UNCHANGED <<cell, host, aside>>

SaveRecovered(p) ==
  SavePhase(p, "save_recovered", "ProviderObjectClaimed", "save_destroying")

MutantSaveDestroyingAs(p, phase) ==
  LET r == [job[p].rec EXCEPT !.state = "Destroying", !.phase = phase]
  IN  /\ At(p, "save_destroying")
      /\ Save(p, r)
      /\ GoWith(p, IF job[p].seen.power = "off" THEN "remove_vm" ELSE "stop_vm",
                r, job[p].seen)
      /\ UNCHANGED <<host, aside>>

\* Mutant: a VM that is not fully configured is recorded like a usable one.
MutantSaveDestroyingOnePhase(p) == MutantSaveDestroyingAs(p, "Destroying")

SaveDestroying(p) ==
  LET r == [job[p].rec EXCEPT
              !.state = "Destroying",
              !.phase = IF @ \in {"ProviderObjectClaimed", "DestroyingProvisioning"}
                        THEN "DestroyingProvisioning" ELSE "Destroying"]
  IN  /\ At(p, "save_destroying")
      /\ Save(p, r)
      /\ GoWith(p, IF job[p].seen.power = "off" THEN "remove_vm" ELSE "stop_vm",
                r, job[p].seen)
      /\ UNCHANGED <<host, aside>>

Reinspect(p) ==
  LET r  == job[p].rec
      vm == vms[r.id]
  IN  /\ At(p, "reinspect")
      /\ IF vm # NoVm /\ ProveDestroy(job[p].cell, vm) /\ vm.power = "off"
         THEN GoWith(p, "remove_vm", r, vm) ELSE Return(p)
      /\ UNCHANGED <<cell, host, aside>>

RemoveVm(p) ==
  /\ At(p, "remove_vm")
  /\ ProveDestroy(job[p].cell, job[p].seen)
  /\ Call(p, "remove_vm", job[p].rec.id, Go(p, "verify_removed"), Return(p))
  /\ UNCHANGED cell

VerifyRemoved(p) ==
  LET r == job[p].rec
  IN  /\ At(p, "verify_removed")
      /\ IF vms[r.id] = NoVm /\ ~ NameOccupied(job[p].cell)
         THEN Go(p, "remove_runtime") ELSE Return(p)
      /\ UNCHANGED <<cell, host, aside>>

\* The recorded VM is gone already: an earlier destroy was interrupted.
VerifyAbsent(p) ==
  LET c == job[p].cell
  IN  /\ At(p, "verify_absent")
      /\ \/ NameOccupied(c) /\ Return(p)
         \/ ~ NameOccupied(c) /\ runtime[c] = "absent" /\ Go(p, "save_destroyed")
         \/ ~ NameOccupied(c) /\ RuntimePins(c) /\ Go(p, "remove_runtime")
         \/ ~ NameOccupied(c) /\ runtime[c] = "partial" /\ Return(p)
      /\ UNCHANGED <<cell, host, aside>>

\* remove_dir_all deletes entry by entry, in directory order: interrupted or
\* failing, it leaves any part of the tree behind.
RemoveRuntime(p) ==
  LET c == job[p].cell
  IN  /\ At(p, "remove_runtime")
      /\ \/ /\ RuntimePins(c)
            /\ runtime' = [runtime EXCEPT ![c] = "absent"]
            /\ Go(p, "save_destroyed")
         \/ /\ RuntimePins(c)
            /\ \E left \in {"prepared", "partial"} :
                 runtime' = [runtime EXCEPT ![c] = left]
            /\ Return(p)
         \/ UNCHANGED runtime /\ Return(p)
      /\ UNCHANGED <<cell, vms, used, aside>>

SaveDestroyed(p) == SaveLast(p, "save_destroyed", "Destroyed", "Destroyed")

-----------------------------------------------------------------------------
(***************************************************************************)
(* Failures and the environment                                            *)
(***************************************************************************)

\* Any durable read, save or provider query can return an error: the
\* operation returns and leaves everything as it is.  A save that took effect
\* but was reported as failed is the save followed by this step.
ReturnError(p) ==
  /\ lock = p /\ job[p].pc # "gc_next"
  /\ Return(p)
  /\ UNCHANGED <<cell, host, aside>>

\* The process dies: the OS releases its lock.  A Hyper-V verb runs in a
\* PowerShell process that is not killed with it.
Crash(p) ==
  /\ lock = p
  /\ lock' = NoProcess
  /\ job' = [job EXCEPT ![p] = Idle]
  /\ \/ UNCHANGED orphans
     \/ /\ job[p].pc \in Verbs /\ Provider = "hyperv"
        /\ Cardinality(orphans) < MaxOrphans
        /\ orphans' = orphans \cup
             {[verb |-> job[p].pc, cell |-> job[p].cell, id |-> job[p].rec.id,
               seen |-> job[p].seen]}
  /\ UNCHANGED <<cell, host, ttl, inflight, drift>>

\* A verb that outlived its process acts, or finds its precondition gone.
OrphanVerb(o) ==
  /\ orphans' = orphans \ {o}
  /\ \/ /\ Accepts(o.verb, o.cell, o.id, o.seen)
        /\ \E v \in IF o.verb = "create_vm" THEN VmIds ELSE {o.id} :
             Effect(o.verb, o.cell, v)
     \/ UNCHANGED host
  /\ UNCHANGED <<lock, job, cell, ttl, inflight, drift>>

\* Somebody else changes, removes or creates a VM.
Interfere ==
  /\ drift < MaxDrift
  /\ drift' = drift + 1
  /\ \E v \in VmIds :
       \/ /\ vms[v] # NoVm
          /\ \E vm \in Vms : /\ vm.origin = vms[v].origin
                             /\ vms' = [vms EXCEPT ![v] = vm]
          /\ UNCHANGED used
       \/ /\ vms[v] # NoVm
          /\ vms' = [vms EXCEPT ![v] = NoVm]
          /\ UNCHANGED used
       \/ /\ v \notin used
          /\ \E vm \in Vms : /\ vm.origin = Foreign
                             /\ vms' = [vms EXCEPT ![v] = vm]
          /\ used' = used \cup {v}
  /\ UNCHANGED <<lock, job, cell, runtime, ttl, inflight, orphans>>

\* Time passes the expires_at of c.
Expire(c) ==
  /\ ttl[c] = "live"
  /\ ttl' = [ttl EXCEPT ![c] = "expired"]
  /\ UNCHANGED <<lock, job, cell, host, inflight, orphans, drift>>

\* A guest operation, which holds the lock throughout, ends nonterminal.
GuestOperationInterrupted(c) ==
  /\ lock = NoProcess
  /\ cell[c].state = "Running" /\ cell[c].phase = "Ready"
  /\ ExactOwned(c, cell[c]) /\ vms[cell[c].id].power = "running"
  /\ c \notin inflight
  /\ inflight' = inflight \cup {c}
  /\ UNCHANGED <<lock, job, cell, host, ttl, orphans, drift>>

\* The operator reconciles the guest operation, also under the lock.
GuestOperationReconciled(c) ==
  /\ lock = NoProcess
  /\ c \in inflight
  /\ inflight' = inflight \ {c}
  /\ UNCHANGED <<lock, job, cell, host, ttl, orphans, drift>>

-----------------------------------------------------------------------------

Begin(p) ==
  \/ \E c \in Cells : \/ CreateCell(p, c)
                      \/ StartCell(p, c)
                      \/ StopCell(p, c)
                      \/ DestroyCell(p, c)
                      \/ DestroyCellForRun(p, c)
  \/ GcExpired(p)

CreateStep(p) ==
  \/ SaveIntent(p) \/ PrepareRuntime(p) \/ CheckName(p) \/ CreateOverlay(p)
  \/ SaveOverlay(p) \/ CreateVm(p) \/ SaveId(p) \/ InspectNew(p)
  \/ SaveClaimed(p) \/ ConfigureVm(p) \/ SaveReady(p) \/ FailRecord(p)

PowerStep(p) ==
  \/ StartInspect(p) \/ StartVm(p) \/ StartVerify(p) \/ SaveRunning(p)
  \/ StopInspect(p) \/ StopVerify(p) \/ SaveStopped(p)

DestroyStep(p) ==
  \/ GcNext(p) \/ DestroyLoad(p) \/ DestroyProve(p) \/ SaveRecovered(p)
  \/ SaveDestroying(p) \/ Reinspect(p) \/ RemoveVm(p) \/ VerifyRemoved(p)
  \/ VerifyAbsent(p) \/ RemoveRuntime(p) \/ SaveDestroyed(p)

Step(p) == CreateStep(p) \/ PowerStep(p) \/ DestroyStep(p) \/ ClaimVm(p) \/ StopVm(p)

Environment ==
  \/ \E o \in orphans : OrphanVerb(o)
  \/ Interfere
  \/ \E c \in Cells : \/ Expire(c)
                      \/ GuestOperationInterrupted(c)
                      \/ GuestOperationReconciled(c)

Next ==
  \/ \E p \in Processes : Begin(p) \/ Step(p) \/ ReturnError(p) \/ Crash(p)
  \/ Environment

Spec == Init /\ [][Next]_vars

-----------------------------------------------------------------------------
(***************************************************************************)
(* reconcile_record: what inspect and status report for a cell             *)
(***************************************************************************)

PowerMatches(state, power) ==
  \/ state = "Stopped" /\ power = "off"
  \/ state = "Running" /\ power = "running"
  \/ state \in {"Creating", "Destroying", "Failed"}

Reconciliation(c) ==
  LET r  == cell[c]
      vm == vms[r.id]
  IN  CASE r.state = "Destroyed" ->
             IF \/ r.id # NoId /\ vm # NoVm
                \/ NameOccupied(c)
                \/ runtime[c] # "absent"
             THEN "OwnershipMismatch" ELSE "Destroyed"
        [] r.state # "Destroyed" /\ r.id = NoId ->
             IF NameOccupied(c) THEN "UnprovenProviderObject" ELSE "ManifestOnly"
        [] r.state # "Destroyed" /\ r.id # NoId ->
             CASE vm = NoVm -> "ProviderMissing"
               [] vm # NoVm /\ \/ /\ r.phase \in {"ProviderObjectCreated",
                                                  "ProviderObjectClaimed"}
                                  /\ ProveCreation(c, vm,
                                       \/ r.phase = "ProviderObjectClaimed"
                                       \/ vm.marker = c)
                               \/ /\ r.phase = "DestroyingProvisioning"
                                  /\ ProveDestroy(c, vm) -> "Provisioning"
               [] OTHER ->
                    IF ~ ProveOwnership(c, vm) THEN "OwnershipMismatch"
                    ELSE IF ~ PowerMatches(r.state, vm.power) THEN "StateDrift"
                    ELSE "ExactOwned"

-----------------------------------------------------------------------------
(***************************************************************************)
(* Safety                                                                  *)
(***************************************************************************)

\* Only the holder of the mutation lock is inside an operation, and the
\* record it works on is the manifest on disk, except for the one change it
\* is about to save: acquire_mutation_lock makes every read-modify-write of
\* a manifest atomic with respect to other processes.
LockedRecordIsCurrent ==
  \A p \in Processes :
    /\ job[p].pc # "idle" => lock = p
    /\ job[p].pc \notin {"idle", "gc_next", "save_intent", "save_id"} =>
         job[p].rec = cell[job[p].cell]

\* A tombstone means that nothing is left: destroy_cell_locked writes
\* Destroyed only after the VM it created and the runtime directory are gone,
\* and no delayed verb brings either back.
TombstoneMeansReleased ==
  \A c \in Cells : cell[c].state = "Destroyed" =>
    /\ runtime[c] = "absent"
    /\ \A v \in VmIds : vms[v] # NoVm => vms[v].origin # c

\* Every VM the engine made is accounted for: its id is on record, or the
\* cell stays in the pre-id quarantine that destroy_cell_locked refuses.
EveryVmAccountedFor ==
  \A v \in VmIds : vms[v] # NoVm /\ vms[v].origin \in Cells =>
    LET r == cell[vms[v].origin]
    IN  \/ r.id = v
        \/ /\ r.id = NoId
           /\ r.phase = "OverlayCreated"
           /\ r.state \in {"Creating", "Failed"}

\* The runtime directory outlives the recorded VM: remove_cell_runtime runs
\* only after the provider has confirmed that the VM is gone.
RuntimeOutlivesVm ==
  \A c \in Cells :
    cell[c].id # NoId /\ vms[cell[c].id] # NoVm => RuntimePins(c)

\* The durable record is one the recovery code understands: a usable cell is
\* Ready, an id is recorded exactly from ProviderObjectCreated on, and both
\* destroying phases go with Destroying.
ManifestConsistent ==
  \A c \in Cells :
    LET r == cell[c]
    IN  /\ r.id = NoId <=> r.phase \in {"None", "IntentRecorded", "OverlayCreated"}
        /\ r.state = "Absent" <=> r.phase = "None"
        /\ r.state \in {"Stopped", "Running"} <=> r.phase = "Ready"
        /\ r.state = "Destroying" <=>
             r.phase \in {"Destroying", "DestroyingProvisioning"}
        /\ r.state = "Destroyed" <=> r.phase = "Destroyed"

\* Crashes, errors and delayed verbs alone never make a cell look foreign to
\* inspect: only interference does.
OwnershipNeverLost ==
  drift = 0 => \A c \in Cells : Reconciliation(c) # "OwnershipMismatch"

-----------------------------------------------------------------------------
(***************************************************************************)
(* What a step may never do.  A step of the engine or of one of its        *)
(* delayed verbs leaves drift alone; interference does not.                *)
(***************************************************************************)

Own(c, v) == cell[c].id = v /\ vms[v] # NoVm /\ vms[v].origin = c

\* No verb of the engine, delayed or not, changes a VM other than the one the
\* cell's own create made and whose id is durably recorded; it removes one
\* only while the manifest says Destroying and the VM is off.
VerbsTouchOnlyRecordedVms ==
  [][drift' = drift =>
       \A v \in VmIds : vms[v] # NoVm /\ vms'[v] # vms[v] =>
         \E c \in Cells :
           /\ Own(c, v)
           /\ vms'[v] = NoVm => /\ cell[c].state = "Destroying"
                                /\ vms[v].power = "off"]_vars

\* The engine never powers on a VM that is not exactly as configured (marked,
\* without adapters) for a usable cell.
StartsOnlyConfiguredVms ==
  [][drift' = drift =>
       \A v \in VmIds :
         vms[v] # NoVm /\ vms[v].power # "running"
           /\ vms'[v] # NoVm /\ vms'[v].power = "running" =>
         \E c \in Cells : Own(c, v) /\ ProveOwnership(c, vms[v])]_vars

\* How far the phase of a manifest is.
Rank(phase) ==
  CASE phase = "None" -> 0
    [] phase = "IntentRecorded" -> 1
    [] phase = "OverlayCreated" -> 2
    [] phase = "ProviderObjectCreated" -> 3
    [] phase = "ProviderObjectClaimed" -> 4
    [] phase = "Ready" -> 5
    [] phase \in {"Destroying", "DestroyingProvisioning"} -> 6
    [] phase = "Destroyed" -> 7

\* Durable progress is monotonic: no crash, retry or late save moves a
\* manifest back to an earlier phase, replaces a recorded provider id or
\* rewrites a tombstone.
ManifestNeverRegresses ==
  [][\A c \in Cells :
       /\ Rank(cell[c].phase) <= Rank(cell'[c].phase)
       /\ cell[c].id # NoId => cell'[c].id = cell[c].id
       /\ cell[c].state = "Destroyed" => cell'[c] = cell[c]
       /\ Rank(cell[c].phase) >= 6 => cell'[c].state \in {"Destroying", "Destroyed"}
    ]_vars

\* gc changes only cells that were expired and had no guest operation in
\* flight: neither their manifest, their runtime nor their VM.
GcSparesLiveCells ==
  [][\A p \in Processes, c \in Cells :
       /\ lock = p /\ job[p].op = "gc" /\ job'[p] # job[p]
       /\ \/ cell'[c] # cell[c]
          \/ runtime'[c] # runtime[c]
          \/ \E v \in VmIds : Own(c, v) /\ vms'[v] # vms[v]
       => ttl[c] = "expired" /\ c \notin inflight]_vars

-----------------------------------------------------------------------------
(***************************************************************************)
(* The engine implements the lifecycle promise.                            *)
(***************************************************************************)

Status(c) ==
  CASE cell[c].state = "Absent" -> "new"
    [] cell[c].state = "Destroyed" -> "gone"
    [] cell[c].state = "Destroying" -> "retiring"
    [] cell[c].state \in {"Stopped", "Running"} -> "usable"
    [] cell[c].state \in {"Creating", "Failed"} ->
         IF cell[c].id = NoId THEN "intent" ELSE "identified"

Held(c) ==
  (IF runtime[c] # "absent" THEN {"runtime"} ELSE {}) \cup
  (IF \E v \in VmIds : vms[v] # NoVm /\ vms[v].origin = c THEN {"vm"} ELSE {})

Lifecycle == INSTANCE CellLifecycle WITH
  status <- [c \in Cells |-> Status(c)],
  held <- [c \in Cells |-> Held(c)],
  interference <- drift

\* Every step of the engine is a step the lifecycle promise allows.
ImplementsLifecycle == Lifecycle!LifecycleSpec

-----------------------------------------------------------------------------
(***************************************************************************)
(* Core lifecycle validation, and the convergence of destroy               *)
(***************************************************************************)

\* validate_transition
ValidTransitions ==
  {<<"Creating", "Stopped">>, <<"Creating", "Failed">>,
   <<"Stopped", "Running">>, <<"Stopped", "Destroying">>,
   <<"Running", "Stopped">>, <<"Running", "Destroying">>, <<"Running", "Failed">>,
   <<"Failed", "Destroying">>,
   <<"Destroying", "Destroyed">>, <<"Destroying", "Failed">>}

\* docs/image-and-cell-model.md:119: no durable state change bypasses
\* validate_transition.  (It does not hold: destroy_cell_locked never asks.)
DurableTransitionsValidated ==
  [][\A c \in Cells :
       cell[c] # NoRecord /\ cell'[c].state # cell[c].state =>
         <<cell[c].state, cell'[c].state>> \in ValidTransitions]_vars

\* The steps destroy takes.  Two share a stage when what the first does to the VM
\* lasts, so that no retry comes to it again.
DestroyStages ==
  {{"destroy_load"}, {"destroy_prove"}, {"claim_vm"}, {"save_recovered"},
   {"save_destroying"}, {"stop_vm", "reinspect"}, {"remove_vm", "verify_removed"},
   {"verify_absent"}, {"remove_runtime"}, {"save_destroyed"}}

\* The successful outcome of a step of a stage.
Succeed(p, stage) ==
  /\ job[p].pc \in stage /\ job[p].op = "destroy"
  /\ Step(p)
  /\ job[p].pc = "save_destroyed" \/ job'[p] # Idle

\* A process that runs an operation keeps running it; the operator keeps
\* retrying destroy; and no stage of destroy fails for ever if it can succeed.
Fairness ==
  /\ \A p \in Processes : WF_vars(Step(p))
  /\ \A c \in Cells : SF_vars(\E p \in Processes : DestroyCell(p, c))
  /\ \A s \in DestroyStages : SF_vars(\E p \in Processes : Succeed(p, s))

FairSpec == Spec /\ Fairness

\* Once its provider id is durable, a cell can be destroyed whatever crash or
\* error interrupted create or an earlier destroy, unless an interrupted
\* removal of the runtime directory took its configuration directory first.
DestroyConverges ==
  \A c \in Cells :
    cell[c].id # NoId ~> cell[c].state = "Destroyed" \/ runtime[c] = "partial"

\* docs/adr/0004-m1-ownership-and-provider-mutation.md:38, "Exact-owned destroy
\* is idempotent": a destroy that has begun can be completed by retrying.  (It
\* does not hold: pin_cell_runtime_for insists on the configuration directory.)
DestroyRetryCompletes ==
  \A c \in Cells : cell[c].state = "Destroying" ~> cell[c].state = "Destroyed"
=============================================================================
