-------------------------- MODULE CellEngineSteps ---------------------------
(***************************************************************************)
(* The inductive invariant of CellEngine, and the steps of its operations: *)
(* those that only change what the lock holder remembers, those that save a*)
(* manifest and those that change the host all keep it.                    *)
(***************************************************************************)
EXTENDS CellEngine, TLAPS

\* Only the holder of the lock is inside an operation.
LockInv ==
  \A p \in Processes : /\ lock = p <=> job[p] # Idle
                       /\ job[p] # Idle => job[p].pc # "idle"

NoVmOf(c) == \A v \in VmIds : vms[v] # NoVm => vms[v].origin # c

NoCreateOrphan(c) ==
  \A o \in orphans : o.verb \in {"create_overlay", "create_vm"} => o.cell # c

Unidentified(r, phase) == r.state = "Creating" /\ r.phase = phase /\ r.id = NoId

\* What a process in the middle of create knows at each step.
Creating(op, pc, c, r) ==
  /\ pc = "save_intent" =>
       op = "create" /\ Unidentified(r, "IntentRecorded") /\ cell[c] = NoRecord
  /\ pc \in {"prepare_runtime", "check_name", "create_overlay", "save_overlay"} =>
       op = "create" /\ Unidentified(r, "IntentRecorded")
  /\ pc = "create_vm" => op = "create" /\ Unidentified(r, "OverlayCreated")
  /\ pc \in {"save_intent", "prepare_runtime", "check_name", "create_overlay",
               "save_overlay", "create_vm"} => NoVmOf(c)
  /\ pc = "save_id" =>
       /\ op = "create"
       /\ Unidentified(cell[c], "OverlayCreated")
       /\ r.phase = "OverlayCreated"
       /\ r.id \in used
       /\ \A v \in VmIds : vms[v] # NoVm /\ vms[v].origin = c => v = r.id
       /\ RuntimePins(c)
  /\ pc \in {"inspect_new", "save_claimed"} =>
       op = "create" /\ r.phase = "ProviderObjectCreated"
  /\ pc \in {"configure_vm", "save_ready"} =>
       op = "create" /\ r.phase = "ProviderObjectClaimed"
  /\ pc = "fail_record" => op = "create"
  /\ op = "create" => NoCreateOrphan(c) /\ r.state = "Creating"

\* The same for start and stop.
Switching(op, pc, c, r) ==
  /\ pc \in {"start_inspect", "start_vm", "start_verify", "save_running"} => op = "start"
  /\ pc \in {"stop_inspect", "stop_verify", "save_stopped"} => op = "stop"
  /\ op \in {"start", "stop"} => r.state \in {"Stopped", "Running"}

\* The same for destroy and gc.
Destroying(op, pc, c, r) ==
  /\ pc = "claim_vm" =>
       op \in {"create", "destroy", "gc"} /\ r.phase = "ProviderObjectCreated"
  /\ pc = "save_recovered" => r.phase = "ProviderObjectCreated"
  /\ pc \in {"destroy_load", "destroy_prove", "save_recovered", "save_destroying",
               "reinspect", "remove_vm", "verify_removed", "verify_absent",
               "remove_runtime", "save_destroyed", "gc_next"} =>
       op \in {"destroy", "gc"}
  /\ pc \in {"destroy_prove", "save_destroying", "verify_absent",
               "remove_runtime", "save_destroyed"} =>
       r.id # NoId /\ r.state # "Destroyed"
  /\ pc = "save_destroying" =>
       r.phase \in {"ProviderObjectClaimed", "DestroyingProvisioning",
                        "Ready", "Destroying"}
  /\ pc \in {"reinspect", "remove_vm", "verify_removed"} => r.state = "Destroying"
  /\ pc = "stop_vm" => \/ op = "stop"
                       \/ op \in {"destroy", "gc"} /\ r.state = "Destroying"
  /\ pc \in {"verify_absent", "remove_runtime", "save_destroyed"} =>
       vms[r.id] = NoVm
  /\ pc = "save_destroyed" => runtime[c] = "absent"

Working(op, pc, c, r) ==
  /\ op # "none"
  /\ pc # "gc_next" => c \in Cells
  /\ pc \notin {"gc_next", "save_intent", "save_id"} => r = cell[c]
  /\ Creating(op, pc, c, r) /\ Switching(op, pc, c, r) /\ Destroying(op, pc, c, r)

Works(p) == Working(job[p].op, job[p].pc, job[p].cell, job[p].rec)

ControlInv == \A p \in Processes : job[p] # Idle => Works(p)

\* Ids on record and ids of VMs have been handed out.
IdsInv ==
  /\ \A c \in Cells : cell[c].id # NoId => cell[c].id \in used
  /\ \A v \in VmIds : vms[v] # NoVm => v \in used

\* A cell nobody has created owns nothing.
FreshInv == \A c \in Cells : cell[c] = NoRecord => NoVmOf(c) /\ NoCreateOrphan(c)

\* A delayed create verb belongs to a cell that stays in quarantine.
OrphanInv ==
  \A o \in orphans :
    o.verb \in {"create_overlay", "create_vm"} =>
      /\ cell[o.cell].id = NoId
      /\ cell[o.cell].state \in {"Creating", "Failed"}
      /\ o.verb = "create_vm" => cell[o.cell].phase = "OverlayCreated"

HostInv ==
  /\ IdsInv /\ FreshInv /\ OrphanInv
  /\ ManifestConsistent /\ EveryVmAccountedFor
  /\ TombstoneMeansReleased /\ RuntimeOutlivesVm

IInv == TypeOK /\ LockInv /\ ControlInv /\ HostInv

-----------------------------------------------------------------------------
(***************************************************************************)
(* Steps of the lock holder                                                *)
(***************************************************************************)

\* A step that leaves p working with the lock, which was p's or free, keeps
\* the lock discipline and, if p works correctly, everybody works correctly.
LEMMA HolderStep ==
  ASSUME IInv, NEW p \in Processes, lock \in {p, NoProcess}, NEW j \in Jobs,
         j.pc # "idle",
         job' = [job EXCEPT ![p] = j], lock' = p
  PROVE  /\ job' \in [Processes -> Jobs]
         /\ lock' \in Processes \cup {NoProcess}
         /\ LockInv'
         /\ job'[p] = j
         /\ Works(p)' => ControlInv'
<1>1. job \in [Processes -> Jobs]
  BY Zenon DEF IInv, TypeOK
<1>2. job'[p] = j /\ \A q \in Processes \ {p} : job'[q] = job[q]
  BY <1>1, Zenon
<1>3. \A q \in Processes \ {p} : job[q] = Idle
  BY DistinctAssumption, Zenon DEF IInv, LockInv
<1>4. j # Idle
  BY DEF Idle
<1>5. LockInv'
  BY <1>2, <1>3, <1>4, Zenon DEF LockInv, Idle
<1>6. job' \in [Processes -> Jobs]
  BY <1>1, Zenon
<1>7. Works(p)' => ControlInv'
  BY <1>2, <1>3, <1>4, Zenon DEF ControlInv, Idle
<1> QED
  BY <1>2, <1>5, <1>6, <1>7, Zenon

\* Go and GoWith are such steps.
LEMMA GoStep ==
  ASSUME IInv, NEW p \in Processes, lock = p, NEW l \in Labels, l # "idle",
         Go(p, l)
  PROVE  /\ job' \in [Processes -> Jobs]
         /\ lock' \in Processes \cup {NoProcess}
         /\ LockInv'
         /\ job'[p].op = job[p].op /\ job'[p].cell = job[p].cell
         /\ job'[p].pc = l /\ job'[p].rec = job[p].rec
         /\ Works(p)' => ControlInv'
<1> DEFINE j == [job[p] EXCEPT !.pc = l]
<1>1. /\ j \in Jobs /\ j.op = job[p].op /\ j.cell = job[p].cell
      /\ j.pc = l /\ j.rec = job[p].rec
  BY ZenonT(30) DEF IInv, TypeOK, Jobs
<1>2. job' = [job EXCEPT ![p] = j] /\ lock' = lock
  BY Zenon DEF Go
<1> HIDE DEF j
<1> QED
  BY ZenonT(30), <1>1, <1>2, HolderStep

\* GoWith is such a step too; it replaces the remembered record.
LEMMA GoWithStep ==
  ASSUME IInv, NEW p \in Processes, lock = p, NEW l \in Labels, l # "idle",
         NEW r \in Records, NEW s \in Vms \cup {NoVm},
         GoWith(p, l, r, s)
  PROVE  /\ job' \in [Processes -> Jobs]
         /\ lock' \in Processes \cup {NoProcess}
         /\ LockInv'
         /\ job'[p].op = job[p].op /\ job'[p].cell = job[p].cell
         /\ job'[p].pc = l /\ job'[p].rec = r
         /\ Works(p)' => ControlInv'
<1> DEFINE j == [job[p] EXCEPT !.pc = l, !.rec = r, !.seen = s]
<1>1. /\ j \in Jobs /\ j.op = job[p].op /\ j.cell = job[p].cell
      /\ j.pc = l /\ j.rec = r
  BY ZenonT(30) DEF IInv, TypeOK, Jobs
<1>2. job' = [job EXCEPT ![p] = j] /\ lock' = lock
  BY Zenon DEF GoWith
<1> HIDE DEF j
<1> QED
  BY ZenonT(30), <1>1, <1>2, HolderStep

\* Returning releases the lock, or goes on with gc's next cell; either way the
\* process claims nothing about any cell any more.
LEMMA ReturnStep ==
  ASSUME IInv, NEW p \in Processes, lock = p, Return(p)
  PROVE  /\ job' \in [Processes -> Jobs]
         /\ lock' \in Processes \cup {NoProcess}
         /\ LockInv'
         /\ ControlInv'
<1>1. CASE job[p].op = "gc"
  <2>1. GoWith(p, "gc_next", NoRecord, NoVm)
    BY <1>1, Zenon DEF Return
  <2>2. "gc_next" \in Labels /\ NoRecord \in Records
    BY Zenon DEF Labels, NoRecord, Records, States, Phases
  <2>3. job'[p].op = "gc" /\ job'[p].pc = "gc_next"
    BY <1>1, <2>1, <2>2, GoWithStep, Zenon
  <2>4. Works(p)'
    BY <2>3, Zenon DEF Works, Working, Creating, Switching, Destroying
  <2> QED
    BY <2>1, <2>2, <2>4, GoWithStep, Zenon
<1>2. CASE job[p].op # "gc"
  <2>1. job' = [job EXCEPT ![p] = Idle] /\ lock' = NoProcess
    BY <1>2, Zenon DEF Return
  <2>2. job \in [Processes -> Jobs]
    BY Zenon DEF IInv, TypeOK
  <2>3. Idle \in Jobs
    BY Zenon DEF Idle, Jobs, NoRecord, Records, States, Phases, Labels
  <2>4. \A q \in Processes : job'[q] = Idle
    BY <2>1, <2>2, Zenon DEF IInv, LockInv
  <2>5. LockInv'
    BY <2>1, <2>4, DistinctAssumption, Zenon DEF LockInv, Idle
  <2>6. ControlInv'
    BY <2>4, Zenon DEF ControlInv, Idle
  <2> QED
    BY <2>1, <2>2, <2>3, <2>5, <2>6, Zenon
<1> QED
  BY <1>1, <1>2, Zenon

-----------------------------------------------------------------------------
(***************************************************************************)
(* Steps that only change what the lock holder remembers                   *)
(***************************************************************************)

\* The host and the manifests do not move: HostInv is kept.
LEMMA Unchanged ==
  ASSUME IInv, UNCHANGED <<cell, host, aside>>
  PROVE  /\ HostInv'
         /\ job' \in [Processes -> Jobs] /\ lock' \in Processes \cup {NoProcess}
              => TypeOK'
<1> USE DEF host, aside
<1>1. HostInv'
  BY DEF IInv, HostInv, IdsInv, FreshInv, OrphanInv, ManifestConsistent,
         EveryVmAccountedFor, TombstoneMeansReleased, RuntimeOutlivesVm,
         NoVmOf, NoCreateOrphan, RuntimePins
<1>2. job' \in [Processes -> Jobs] /\ lock' \in Processes \cup {NoProcess} => TypeOK'
  BY Zenon DEF IInv, TypeOK
<1> QED
  BY SMTT(30), <1>1, <1>2

\* A return that touches neither host nor manifests keeps the invariant.
LEMMA PureReturn ==
  ASSUME IInv, NEW p \in Processes, lock = p, Return(p),
         UNCHANGED <<cell, host, aside>>
  PROVE  IInv'
BY ReturnStep, Unchanged, Zenon DEF IInv

\* What a process knows stays true while nothing changes.
LEMMA WorkingUnchanged ==
  ASSUME UNCHANGED <<cell, host, aside>>,
         NEW op, NEW l, NEW c, NEW r, Working(op, l, c, r)
  PROVE  Working(op, l, c, r)'
BY Zenon DEF Working, Creating, Switching, Destroying, NoVmOf, NoCreateOrphan,
       RuntimePins, host, aside

\* So does a step to label l, if the process knows what l asks for.
LEMMA PureGo ==
  ASSUME IInv, NEW p \in Processes, lock = p, NEW l \in Labels, l # "idle",
         Go(p, l), Working(job[p].op, l, job[p].cell, job[p].rec),
         UNCHANGED <<cell, host, aside>>
  PROVE  IInv'
<1>1. Works(p)'
  BY GoStep, WorkingUnchanged DEF Works
<1> QED
  BY <1>1, GoStep, Unchanged, Zenon DEF IInv

\* And a step that also replaces the remembered record and snapshot.
LEMMA PureGoWith ==
  ASSUME IInv, NEW p \in Processes, lock = p, NEW l \in Labels, l # "idle",
         NEW r \in Records, NEW s \in Vms \cup {NoVm},
         GoWith(p, l, r, s), Working(job[p].op, l, job[p].cell, r),
         UNCHANGED <<cell, host, aside>>
  PROVE  IInv'
<1>1. Works(p)'
  BY GoWithStep, WorkingUnchanged DEF Works
<1> QED
  BY <1>1, GoWithStep, Unchanged, Zenon DEF IInv

\* What is known of the lock holder at label l.
LEMMA AtFacts ==
  ASSUME IInv, NEW p \in Processes, NEW l, At(p, l)
  PROVE  /\ lock = p /\ job[p].pc = l
         /\ job[p] \in Jobs /\ job[p].rec \in Records
         /\ job[p].seen \in Vms \cup {NoVm}
         /\ Working(job[p].op, l, job[p].cell, job[p].rec)
<1>1. job[p] # Idle
  BY Zenon DEF At, IInv, LockInv
<1>2. Works(p)
  BY <1>1, Zenon DEF IInv, ControlInv
<1>3. job[p] \in Jobs
  BY SMTT(30) DEF IInv, TypeOK
<1> QED
  BY <1>2, <1>3, Zenon DEF At, Works, Jobs

\* create looks the name up: nothing changes.
LEMMA CheckNameInv ==
  ASSUME IInv, NEW p \in Processes, CheckName(p)
  PROVE  IInv'
<1>1. /\ At(p, "check_name")
      /\ UNCHANGED <<cell, host, aside>>
      /\ \/ Go(p, "fail_record")
         \/ Go(p, "create_overlay")
  BY Zenon DEF CheckName
<1>2. Working(job[p].op, "check_name", job[p].cell, job[p].rec)
  BY SMTT(30), <1>1, AtFacts
<1>3. /\ Working(job[p].op, "fail_record", job[p].cell, job[p].rec)
      /\ Working(job[p].op, "create_overlay", job[p].cell, job[p].rec)
  BY SMTT(90), <1>2 DEF Working, Creating, Switching, Destroying
<1> QED
  BY <1>1, <1>3, AtFacts, PureGo, Zenon DEF Labels, Verbs

\* create proves the new VM before claiming it.
LEMMA InspectNewInv ==
  ASSUME IInv, NEW p \in Processes, InspectNew(p)
  PROVE  IInv'
<1> DEFINE r == job[p].rec
<1>1. /\ At(p, "inspect_new")
      /\ UNCHANGED <<cell, host, aside>>
      /\ \/ Go(p, "fail_record")
         \/ vms[r.id] # NoVm /\ GoWith(p, "claim_vm", r, vms[r.id])
  BY ZenonT(30) DEF InspectNew
<1>2. Working(job[p].op, "inspect_new", job[p].cell, r)
  BY <1>1, AtFacts, Zenon
<1>3. /\ Working(job[p].op, "fail_record", job[p].cell, r)
      /\ Working(job[p].op, "claim_vm", job[p].cell, r)
  BY ZenonT(30), <1>2 DEF Working, Creating, Switching, Destroying
<1>4. r = cell[job[p].cell] /\ job[p].cell \in Cells /\ r.phase = "ProviderObjectCreated"
  BY ZenonT(30), <1>2 DEF Working, Creating
<1>5. r.id \in VmIds /\ r \in Records
  BY <1>1, <1>4, AtFacts, Zenon DEF IInv, HostInv, ManifestConsistent, Records
<1>6. vms[r.id] \in Vms \cup {NoVm}
  BY SMTT(30), <1>5 DEF IInv, TypeOK
<1> QED
  BY ZenonT(30), <1>1, <1>3, <1>5, <1>6, AtFacts, PureGo, PureGoWith DEF Labels, Verbs

\* start_cell compares the recorded VM with the manifest.
LEMMA StartInspectInv ==
  ASSUME IInv, NEW p \in Processes, StartInspect(p)
  PROVE  IInv'
<1> DEFINE r == job[p].rec
<1>1. /\ At(p, "start_inspect")
      /\ UNCHANGED <<cell, host, aside>>
      /\ \/ Go(p, "save_running")
         \/ r.id # NoId /\ GoWith(p, "start_vm", r, vms[r.id])
         \/ Return(p)
  BY ZenonT(30) DEF StartInspect, ExactOwned
<1>2. Working(job[p].op, "start_inspect", job[p].cell, r) /\ r \in Records
  BY SMTT(30), <1>1, AtFacts
<1>3. /\ Working(job[p].op, "save_running", job[p].cell, r)
      /\ Working(job[p].op, "start_vm", job[p].cell, r)
  BY ZenonT(30), <1>2 DEF Working, Creating, Switching, Destroying
<1>4. r.id # NoId => vms[r.id] \in Vms \cup {NoVm}
  BY SMTT(30), <1>2 DEF IInv, TypeOK, Records
<1> QED
  BY ZenonT(30), <1>1, <1>2, <1>3, <1>4, AtFacts, PureGo, PureGoWith, PureReturn DEF Labels, Verbs

\* start_cell verifies the running VM.
LEMMA StartVerifyInv ==
  ASSUME IInv, NEW p \in Processes, StartVerify(p)
  PROVE  IInv'
<1>1. /\ At(p, "start_verify")
      /\ UNCHANGED <<cell, host, aside>>
      /\ Go(p, "save_running") \/ Return(p)
  BY Zenon DEF StartVerify
<1>2. Working(job[p].op, "start_verify", job[p].cell, job[p].rec)
  BY SMTT(30), <1>1, AtFacts
<1>3. Working(job[p].op, "save_running", job[p].cell, job[p].rec)
  BY ZenonT(30), <1>2 DEF Working, Creating, Switching, Destroying
<1> QED
  BY SMTT(30), <1>1, <1>3, AtFacts, PureGo, PureReturn DEF Labels

\* stop_cell compares the recorded VM with the manifest.
LEMMA StopInspectInv ==
  ASSUME IInv, NEW p \in Processes, StopInspect(p)
  PROVE  IInv'
<1> DEFINE r == job[p].rec
<1>1. /\ At(p, "stop_inspect")
      /\ UNCHANGED <<cell, host, aside>>
      /\ \/ Go(p, "save_stopped")
         \/ r.id # NoId /\ GoWith(p, "stop_vm", r, vms[r.id])
         \/ Return(p)
  BY ZenonT(30) DEF StopInspect, ExactOwned
<1>2. Working(job[p].op, "stop_inspect", job[p].cell, r) /\ r \in Records
  BY ZenonT(30), <1>1, AtFacts
<1>3. Working(job[p].op, "save_stopped", job[p].cell, r)
  BY ZenonT(30), <1>2 DEF Working, Creating, Switching, Destroying
<1>4. Working(job[p].op, "stop_vm", job[p].cell, r)
  <2>1. job[p].op = "stop"
    BY SMTT(30), <1>2 DEF Working, Switching
  <2>2. Creating(job[p].op, "stop_vm", job[p].cell, r)
    BY <2>1, Zenon DEF Creating
  <2>3. Destroying(job[p].op, "stop_vm", job[p].cell, r)
    BY SMTT(30), <2>1 DEF Destroying
  <2>4. Switching(job[p].op, "stop_vm", job[p].cell, r)
    BY SMTT(30), <1>2 DEF Working, Switching
  <2> QED
    BY SMTT(30), <1>2, <2>1, <2>2, <2>3, <2>4 DEF Working
<1>5. r.id # NoId => vms[r.id] \in Vms \cup {NoVm}
  BY SMTT(30), <1>2 DEF IInv, TypeOK, Records
<1> QED
  BY ZenonT(30), <1>1, <1>2, <1>3, <1>4, <1>5, AtFacts, PureGo, PureGoWith, PureReturn DEF Labels, Verbs

\* stop_cell verifies the stopped VM.
LEMMA StopVerifyInv ==
  ASSUME IInv, NEW p \in Processes, StopVerify(p)
  PROVE  IInv'
<1>1. /\ At(p, "stop_verify")
      /\ UNCHANGED <<cell, host, aside>>
      /\ Go(p, "save_stopped") \/ Return(p)
  BY Zenon DEF StopVerify
<1>2. Working(job[p].op, "stop_verify", job[p].cell, job[p].rec)
  BY SMTT(30), <1>1, AtFacts
<1>3. Working(job[p].op, "save_stopped", job[p].cell, job[p].rec)
  BY ZenonT(30), <1>2 DEF Working, Creating, Switching, Destroying
<1> QED
  BY SMTT(30), <1>1, <1>3, AtFacts, PureGo, PureReturn DEF Labels

\* destroy_cell_locked chooses how to go on; a VM that is gone stays gone,
\* for its id is used.
LEMMA DestroyLoadInv ==
  ASSUME IInv, NEW p \in Processes, DestroyLoad(p)
  PROVE  IInv'
<1> DEFINE r == job[p].rec
<1>1. /\ At(p, "destroy_load")
      /\ UNCHANGED <<cell, host, aside>>
      /\ \/ Return(p)
         \/ /\ r.state # "Destroyed" /\ r.id # NoId /\ vms[r.id] = NoVm
            /\ Go(p, "verify_absent")
         \/ /\ r.state # "Destroyed" /\ r.id # NoId
            /\ GoWith(p, "destroy_prove", r, vms[r.id])
  BY ZenonT(30) DEF DestroyLoad
<1>2. Working(job[p].op, "destroy_load", job[p].cell, r) /\ r \in Records
  BY ZenonT(30), <1>1, AtFacts
<1>3. r.state # "Destroyed" /\ r.id # NoId =>
        /\ Working(job[p].op, "destroy_prove", job[p].cell, r)
        /\ vms[r.id] = NoVm => Working(job[p].op, "verify_absent", job[p].cell, r)
  BY ZenonT(30), <1>2 DEF Working, Creating, Switching, Destroying
<1>4. r.id # NoId => vms[r.id] \in Vms \cup {NoVm}
  BY ZenonT(30), <1>2 DEF IInv, TypeOK, Records
<1> QED
  BY ZenonT(30), <1>1, <1>2, <1>3, <1>4, AtFacts, PureGo, PureGoWith, PureReturn DEF Labels, Verbs

\* destroy_cell_locked proves the VM as the phase demands.
LEMMA DestroyProveInv ==
  ASSUME IInv, NEW p \in Processes, DestroyProve(p)
  PROVE  IInv'
<1> DEFINE r == job[p].rec
<1>1. /\ At(p, "destroy_prove")
      /\ UNCHANGED <<cell, host, aside>>
      /\ \/ Return(p)
         \/ r.phase = "ProviderObjectCreated" /\ Go(p, "claim_vm")
         \/ /\ r.phase \in {"ProviderObjectClaimed", "DestroyingProvisioning",
                            "Ready", "Destroying"}
            /\ Go(p, "save_destroying")
  BY ZenonT(30) DEF DestroyProve
<1>2. Working(job[p].op, "destroy_prove", job[p].cell, r)
  BY SMTT(30), <1>1, AtFacts
<1>3. /\ r.phase = "ProviderObjectCreated" =>
           Working(job[p].op, "claim_vm", job[p].cell, r)
      /\ r.phase \in {"ProviderObjectClaimed", "DestroyingProvisioning",
                      "Ready", "Destroying"} =>
           Working(job[p].op, "save_destroying", job[p].cell, r)
  BY ZenonT(30), <1>2 DEF Working, Creating, Switching, Destroying
<1> QED
  BY ZenonT(30), <1>1, <1>3, AtFacts, PureGo, PureReturn DEF Labels, Verbs

\* destroy_cell_locked proves the stopped VM again.
LEMMA ReinspectInv ==
  ASSUME IInv, NEW p \in Processes, Reinspect(p)
  PROVE  IInv'
<1> DEFINE r == job[p].rec
<1>1. /\ At(p, "reinspect")
      /\ UNCHANGED <<cell, host, aside>>
      /\ Return(p) \/ GoWith(p, "remove_vm", r, vms[r.id])
  BY ZenonT(30) DEF Reinspect
<1>2. Working(job[p].op, "reinspect", job[p].cell, r) /\ r \in Records
  BY SMTT(30), <1>1, AtFacts
<1>3. Working(job[p].op, "remove_vm", job[p].cell, r)
  BY ZenonT(30), <1>2 DEF Working, Creating, Switching, Destroying
<1>4. r = cell[job[p].cell] /\ job[p].cell \in Cells /\ r.state = "Destroying"
  BY ZenonT(30), <1>2 DEF Working, Destroying
<1>5. r.id \in VmIds
  BY <1>2, <1>4, Zenon DEF IInv, HostInv, ManifestConsistent, Records
<1>6. vms[r.id] \in Vms \cup {NoVm}
  BY SMTT(30), <1>5 DEF IInv, TypeOK
<1> QED
  BY ZenonT(30), <1>1, <1>2, <1>3, <1>6, AtFacts, PureGoWith, PureReturn DEF Labels, Verbs

\* destroy_cell_locked confirms the removal before it touches the runtime.
LEMMA VerifyRemovedInv ==
  ASSUME IInv, NEW p \in Processes, VerifyRemoved(p)
  PROVE  IInv'
<1> DEFINE r == job[p].rec
<1>1. /\ At(p, "verify_removed")
      /\ UNCHANGED <<cell, host, aside>>
      /\ Return(p) \/ (vms[r.id] = NoVm /\ Go(p, "remove_runtime"))
  BY SMTT(30) DEF VerifyRemoved
<1>2. Working(job[p].op, "verify_removed", job[p].cell, r) /\ r \in Records
  BY SMTT(30), <1>1, AtFacts
<1>3. r = cell[job[p].cell] /\ job[p].cell \in Cells /\ r.state = "Destroying"
  BY SMTT(30), <1>2 DEF Working, Destroying
<1>4. r.id # NoId
  BY SMTT(30), <1>2, <1>3 DEF IInv, HostInv, ManifestConsistent, Records
<1>5. vms[r.id] = NoVm => Working(job[p].op, "remove_runtime", job[p].cell, r)
  BY ZenonT(30), <1>2, <1>4 DEF Working, Creating, Switching, Destroying
<1> QED
  BY SMTT(30), <1>1, <1>5, AtFacts, PureGo, PureReturn DEF Labels

\* The VM is absent already: destroy_cell_locked goes on with the runtime.
LEMMA VerifyAbsentInv ==
  ASSUME IInv, NEW p \in Processes, VerifyAbsent(p)
  PROVE  IInv'
<1> DEFINE c == job[p].cell
<1>1. /\ At(p, "verify_absent")
      /\ UNCHANGED <<cell, host, aside>>
      /\ \/ Return(p)
         \/ runtime[c] = "absent" /\ Go(p, "save_destroyed")
         \/ Go(p, "remove_runtime")
  BY SMTT(30) DEF VerifyAbsent
<1>2. Working(job[p].op, "verify_absent", c, job[p].rec)
  BY SMTT(30), <1>1, AtFacts
<1>3. /\ Working(job[p].op, "remove_runtime", c, job[p].rec)
      /\ runtime[c] = "absent" => Working(job[p].op, "save_destroyed", c, job[p].rec)
  BY ZenonT(30), <1>2 DEF Working, Creating, Switching, Destroying
<1> QED
  BY ZenonT(30), <1>1, <1>3, AtFacts, PureGo, PureReturn DEF Labels

\* gc_expired_at takes its next cell with the manifest as it is now.
LEMMA GcNextInv ==
  ASSUME IInv, NEW p \in Processes, GcNext(p)
  PROVE  IInv'
<1>1. /\ At(p, "gc_next")
      /\ UNCHANGED <<cell, host, aside>>
  BY ZenonT(30) DEF GcNext
<1>2. Working(job[p].op, "gc_next", job[p].cell, job[p].rec) /\ job[p] \in Jobs
  BY <1>1, AtFacts, Zenon
<1>3. CASE job' = [job EXCEPT ![p] = Idle] /\ lock' = NoProcess
  <2>1. job \in [Processes -> Jobs] /\ Idle \in Jobs
    BY ZenonT(30) DEF IInv, TypeOK, Idle, Jobs, NoRecord, Records, States, Phases, Labels
  <2>2. \A q \in Processes : job'[q] = Idle
    BY SMTT(30), <1>1, <1>3, <2>1 DEF IInv, LockInv, At
  <2>3. LockInv' /\ ControlInv'
    BY SMTT(30), <1>3, <2>2, DistinctAssumption DEF LockInv, ControlInv, Idle
  <2> QED
    BY SMTT(30), <1>1, <1>3, <2>1, <2>3, Unchanged DEF IInv
<1>4. ASSUME NEW c \in job[p].todo,
             job' = [job EXCEPT ![p] =
                       [job[p] EXCEPT !.todo = job[p].todo \ {c},
                                      !.cell = c,
                                      !.rec = cell[c],
                                      !.pc = IF c \in inflight THEN "gc_next"
                                             ELSE "destroy_load"]],
             lock' = lock
      PROVE  IInv'
  <2> DEFINE l == IF c \in inflight THEN "gc_next" ELSE "destroy_load"
             j == [job[p] EXCEPT !.todo = job[p].todo \ {c}, !.cell = c,
                                 !.rec = cell[c], !.pc = l]
  <2>1. c \in Cells /\ cell[c] \in Records
    BY <1>2, Zenon DEF Jobs, IInv, TypeOK
  <2>2. l \in Labels /\ l # "idle"
    BY Zenon DEF Labels
  <2>3. j \in Jobs /\ j.op = job[p].op /\ j.cell = c /\ j.pc = l /\ j.rec = cell[c]
    BY ZenonT(30), <1>2, <2>1, <2>2 DEF Jobs
  <2>4. job' = [job EXCEPT ![p] = j]
    BY <1>4, Zenon
  <2>5. Working(job[p].op, l, c, cell[c])
    BY ZenonT(30), <1>2, <2>1 DEF Working, Creating, Switching, Destroying
  <2> HIDE DEF j
  <2>6. job'[p] = j /\ lock = p
    BY ZenonT(30), <1>1, <1>4, <2>2, <2>3, <2>4, HolderStep, AtFacts
  <2>7. Works(p)'
    BY ZenonT(30), <1>1, <2>3, <2>5, <2>6, WorkingUnchanged DEF Works
  <2> QED
    BY ZenonT(30), <1>1, <1>4, <2>2, <2>3, <2>4, <2>6, <2>7, HolderStep, Unchanged DEF IInv
<1> QED
  BY ZenonT(30), <1>3, <1>4 DEF GcNext

\* An error return leaves everything as it is.
LEMMA ReturnErrorInv ==
  ASSUME IInv, NEW p \in Processes, ReturnError(p)
  PROVE  IInv'
BY PureReturn, Zenon DEF ReturnError

-----------------------------------------------------------------------------
(***************************************************************************)
(* Beginning an operation                                                  *)
(***************************************************************************)

\* Taking the free lock makes p the only worker.
LEMMA AcquireStep ==
  ASSUME IInv, NEW p \in Processes,
         NEW op \in {"create", "start", "stop", "destroy"}, NEW c \in Cells,
         NEW l \in Labels, l # "idle", NEW r \in Records,
         Acquire(p, op, c, l, r)
  PROVE  /\ job' \in [Processes -> Jobs]
         /\ lock' \in Processes \cup {NoProcess}
         /\ LockInv'
         /\ job'[p].op = op /\ job'[p].cell = c
         /\ job'[p].pc = l /\ job'[p].rec = r
         /\ Works(p)' => ControlInv'
<1> DEFINE j == [Idle EXCEPT !.op = op, !.cell = c, !.pc = l, !.rec = r]
<1>1. j \in Jobs /\ j.op = op /\ j.cell = c /\ j.pc = l /\ j.rec = r
  BY ZenonT(30) DEF Idle, Jobs
<1>2. lock = NoProcess /\ job' = [job EXCEPT ![p] = j] /\ lock' = p
  BY Zenon DEF Acquire
<1> HIDE DEF j
<1> QED
  BY ZenonT(30), <1>1, <1>2, HolderStep

\* create starts for a cell nobody has created: it owns nothing.
LEMMA CreateCellInv ==
  ASSUME IInv, NEW p \in Processes, NEW c \in Cells, CreateCell(p, c)
  PROVE  IInv'
<1>1. IntentRecord \in Records
  BY SMTT(30) DEF IntentRecord, Records, States, Phases
<1>2. Acquire(p, "create", c, "save_intent", IntentRecord)
  BY SMTT(30) DEF CreateCell
<1>3. UNCHANGED <<cell, runtime, vms, used, inflight, orphans, drift>>
  BY SMTT(30) DEF CreateCell, host
<1>4. /\ cell[c] = NoRecord
      /\ ttl' \in [Cells -> {"none", "live", "expired"}]
  BY SMTT(30) DEF CreateCell, IInv, TypeOK
<1>5. HostInv'
  BY ZenonT(30), <1>3 DEF IInv, HostInv, IdsInv, FreshInv, OrphanInv, ManifestConsistent,
              EveryVmAccountedFor, TombstoneMeansReleased, RuntimeOutlivesVm,
              NoVmOf, NoCreateOrphan, RuntimePins
<1>6. NoVmOf(c)' /\ NoCreateOrphan(c)'
  BY ZenonT(30), <1>3, <1>4 DEF IInv, HostInv, FreshInv, NoVmOf, NoCreateOrphan
<1>7. "save_intent" \in Labels
  BY SMTT(30) DEF Labels
<1>8. Works(p)'
  <2>1. /\ job'[p].op = "create" /\ job'[p].cell = c
        /\ job'[p].pc = "save_intent" /\ job'[p].rec = IntentRecord
    BY SMTT(30), <1>1, <1>2, <1>7, AcquireStep
  <2>2. Creating("create", "save_intent", c, IntentRecord)'
    BY ZenonT(30), <1>3, <1>4, <1>6 DEF Creating, IntentRecord, Unidentified
  <2>3. Switching("create", "save_intent", c, IntentRecord)'
    BY SMTT(30) DEF Switching
  <2>4. Destroying("create", "save_intent", c, IntentRecord)'
    BY SMTT(30) DEF Destroying
  <2>5. Working("create", "save_intent", c, IntentRecord)'
    BY SMTT(30), <2>2, <2>3, <2>4 DEF Working
  <2> QED
    BY SMTT(30), <2>1, <2>5 DEF Works
<1> QED
  BY ZenonT(30), <1>1, <1>2, <1>3, <1>4, <1>5, <1>7, <1>8, AcquireStep DEF IInv, TypeOK

\* start, stop and destroy begin by loading the manifest.
LEMMA LoadInv ==
  ASSUME IInv, NEW p \in Processes, NEW c \in Cells,
         NEW op \in {"start", "stop", "destroy"},
         NEW l \in Labels, l # "idle",
         Acquire(p, op, c, l, cell[c]), Working(op, l, c, cell[c]),
         UNCHANGED <<cell, host, aside>>
  PROVE  IInv'
<1>1. cell[c] \in Records
  BY Zenon DEF IInv, TypeOK
<1>2. PICK r \in Records : r = cell[c]
  BY <1>1, Zenon
<1>3. Acquire(p, op, c, l, r) /\ Working(op, l, c, r)
  BY SMTT(30), <1>2
<1>4. /\ job'[p].op = op /\ job'[p].cell = c
      /\ job'[p].pc = l /\ job'[p].rec = r
      /\ job' \in [Processes -> Jobs]
      /\ lock' \in Processes \cup {NoProcess}
      /\ LockInv'
      /\ Works(p)' => ControlInv'
  <2>1. op \in {"create", "start", "stop", "destroy"}
    BY Zenon
  <2> QED
    BY SMTT(30), <1>3, <2>1, AcquireStep
<1>5. Working(op, l, c, r)'
  BY ZenonT(30), <1>3, WorkingUnchanged
<1>6. Works(p)'
  BY ZenonT(30), <1>4, <1>5 DEF Works
<1> QED
  BY ZenonT(30), <1>4, <1>6, Unchanged DEF IInv

\* start_cell begins.
LEMMA StartCellInv ==
  ASSUME IInv, NEW p \in Processes, NEW c \in Cells, StartCell(p, c)
  PROVE  IInv'
<1>1. Working("start", "start_inspect", c, cell[c])
  BY ZenonT(30) DEF StartCell, Working, Creating, Switching, Destroying
<1> QED
  BY <1>1, LoadInv, Zenon DEF StartCell, Labels

\* stop_cell begins.
LEMMA StopCellInv ==
  ASSUME IInv, NEW p \in Processes, NEW c \in Cells, StopCell(p, c)
  PROVE  IInv'
<1>1. Working("stop", "stop_inspect", c, cell[c])
  BY ZenonT(30) DEF StopCell, Working, Creating, Switching, Destroying
<1> QED
  BY SMTT(30), <1>1, LoadInv DEF StopCell, Labels

\* destroy_cell begins.
LEMMA DestroyCellInv ==
  ASSUME IInv, NEW p \in Processes, NEW c \in Cells, DestroyCell(p, c)
  PROVE  IInv'
<1>1. Working("destroy", "destroy_load", c, cell[c])
  BY ZenonT(30) DEF Working, Creating, Switching, Destroying
<1> QED
  BY SMTT(30), <1>1, LoadInv DEF DestroyCell, Labels

\* gc_expired_at begins.
LEMMA GcExpiredInv ==
  ASSUME IInv, NEW p \in Processes, GcExpired(p)
  PROVE  IInv'
<1> DEFINE todo == {c \in Cells : cell[c] # NoRecord /\ ttl[c] = "expired"}
           j == [Idle EXCEPT !.op = "gc", !.pc = "gc_next", !.todo = todo]
<1>1. /\ job' = [job EXCEPT ![p] = j] /\ lock = NoProcess /\ lock' = p
      /\ UNCHANGED <<cell, host, aside>>
  BY Zenon DEF GcExpired
<1>2. todo \in SUBSET Cells
  BY Zenon
<1> HIDE DEF todo
<1>3. j \in Jobs /\ j.op = "gc" /\ j.pc = "gc_next"
  BY ZenonT(30), <1>2 DEF Idle, Jobs, NoRecord, Records, States, Phases, Labels
<1> HIDE DEF j
<1>4. job'[p] = j
  BY ZenonT(30), <1>1, <1>3, HolderStep
<1>5. Works(p)'
  BY ZenonT(30), <1>3, <1>4 DEF Works, Working, Creating, Switching, Destroying
<1> QED
  BY ZenonT(30), <1>1, <1>3, <1>5, HolderStep, Unchanged DEF IInv

-----------------------------------------------------------------------------
(***************************************************************************)
(* Steps that save a manifest                                              *)
(***************************************************************************)

\* The manifest r alone is one ManifestConsistent allows.
Consistent(r) ==
  /\ r.id = NoId <=> r.phase \in {"None", "IntentRecorded", "OverlayCreated"}
  /\ r.state = "Absent" <=> r.phase = "None"
  /\ r.state \in {"Stopped", "Running"} <=> r.phase = "Ready"
  /\ r.state = "Destroying" <=> r.phase \in {"Destroying", "DestroyingProvisioning"}
  /\ r.state = "Destroyed" <=> r.phase = "Destroyed"

\* The conditions under which saving r for c keeps the host invariant.
MaySave(c, r) ==
  /\ r.state # "Absent" /\ Consistent(r)
  /\ r.id # NoId => r.id \in used
  /\ NoCreateOrphan(c)
  /\ \A v \in VmIds : vms[v] # NoVm /\ vms[v].origin = c =>
       \/ r.id = v
       \/ r.id = NoId /\ r.phase = "OverlayCreated" /\ r.state \in {"Creating", "Failed"}
  /\ r.state = "Destroyed" => runtime[c] = "absent" /\ NoVmOf(c)
  /\ r.id # NoId /\ vms[r.id] # NoVm => RuntimePins(c)

\* A save that MaySave allows keeps HostInv.
LEMMA SaveStep ==
  ASSUME IInv, NEW c \in Cells, NEW r \in Records, MaySave(c, r),
         cell' = [cell EXCEPT ![c] = r], UNCHANGED <<host, aside>>
  PROVE  /\ HostInv'
         /\ cell'[c] = r
         /\ job' \in [Processes -> Jobs] /\ lock' \in Processes \cup {NoProcess}
              => TypeOK'
<1> USE DEF host, aside
<1>1. cell \in [Cells -> Records]
  BY Zenon DEF IInv, TypeOK
<1>2. cell'[c] = r /\ \A d \in Cells \ {c} : cell'[d] = cell[d]
  BY <1>1, SMTT(30)
<1>3. cell' \in [Cells -> Records]
  BY <1>1, SMTT(30)
<1>4. IdsInv'
  BY <1>2 DEF IInv, HostInv, IdsInv, MaySave
<1>5. FreshInv'
  BY <1>2 DEF IInv, HostInv, FreshInv, MaySave, NoRecord, NoVmOf, NoCreateOrphan
<1>6. OrphanInv'
  <2> SUFFICES ASSUME NEW o \in orphans, o.verb \in {"create_overlay", "create_vm"}
               PROVE  /\ cell'[o.cell].id = NoId
                      /\ cell'[o.cell].state \in {"Creating", "Failed"}
                      /\ o.verb = "create_vm" => cell'[o.cell].phase = "OverlayCreated"
    BY Zenon DEF OrphanInv
  <2>1. o.cell \in Cells /\ o.cell # c
    BY SMTT(30) DEF IInv, TypeOK, MaySave, NoCreateOrphan
  <2> QED
    BY <1>2, <2>1, Zenon DEF IInv, HostInv, OrphanInv
<1>7. ManifestConsistent'
  BY SMTT(30), <1>2 DEF IInv, HostInv, ManifestConsistent, MaySave, Consistent
<1>8. EveryVmAccountedFor'
  BY <1>2, SMTT(30) DEF IInv, HostInv, EveryVmAccountedFor, MaySave
<1>9. TombstoneMeansReleased'
  BY <1>2, Zenon DEF IInv, HostInv, TombstoneMeansReleased, MaySave, NoVmOf
<1>10. RuntimeOutlivesVm'
  BY <1>2, Zenon DEF IInv, HostInv, RuntimeOutlivesVm, MaySave, RuntimePins
<1> QED
  BY SMTT(30), <1>2, <1>3, <1>4, <1>5, <1>6, <1>7, <1>8, <1>9, <1>10 DEF IInv, HostInv, TypeOK

\* A cell whose id is on record may be saved with that id until it is buried.
LEMMA MaySaveIdentified ==
  ASSUME IInv, NEW c \in Cells, NEW r \in Records, cell[c].id # NoId,
         r.id = cell[c].id, r.state \notin {"Absent", "Destroyed"}, Consistent(r)
  PROVE  MaySave(c, r)
<1>1. NoCreateOrphan(c)
  BY Zenon DEF IInv, HostInv, OrphanInv, NoCreateOrphan
<1>2. r.id \in used
  BY Zenon DEF IInv, HostInv, IdsInv
<1>3. \A v \in VmIds : vms[v] # NoVm /\ vms[v].origin = c => r.id = v
  BY Zenon DEF IInv, HostInv, EveryVmAccountedFor
<1>4. vms[r.id] # NoVm => RuntimePins(c)
  BY Zenon DEF IInv, HostInv, RuntimeOutlivesVm
<1> QED
  BY <1>1, <1>2, <1>3, <1>4, Zenon DEF MaySave

\* A save that is followed by another step of the same operation.
LEMMA SaveGoInv ==
  ASSUME IInv, NEW p \in Processes, lock = p, NEW l \in Labels,
         l \notin {"idle", "save_intent", "save_id", "gc_next"},
         NEW r \in Records, NEW s \in Vms \cup {NoVm},
         NEW c \in Cells, c = job[p].cell, NEW op, op = job[p].op, op # "none",
         GoWith(p, l, r, s), Save(p, r), UNCHANGED <<host, aside>>,
         MaySave(c, r),
         Creating(op, l, c, r), Switching(op, l, c, r), Destroying(op, l, c, r)
  PROVE  IInv'
<1>1. cell' = [cell EXCEPT ![c] = r]
  BY Zenon DEF Save
<1>2. cell'[c] = r /\ HostInv'
  BY ZenonT(30), <1>1, SaveStep
<1>3. Creating(op, l, c, r)' /\ Switching(op, l, c, r)' /\ Destroying(op, l, c, r)'
  BY ZenonT(30) DEF Creating, Switching, Destroying, NoVmOf, NoCreateOrphan, host, aside
<1>4. Working(op, l, c, r)'
  BY SMTT(30), <1>2, <1>3 DEF Working
<1>5. /\ job'[p].op = op /\ job'[p].pc = l /\ job'[p].cell = c /\ job'[p].rec = r
      /\ job' \in [Processes -> Jobs] /\ lock' \in Processes \cup {NoProcess}
      /\ LockInv' /\ (Works(p)' => ControlInv')
  BY ZenonT(60), GoWithStep
<1>6. Works(p)'
  BY SMTT(30), <1>4, <1>5 DEF Works
<1>7. TypeOK'
  BY ZenonT(30), <1>1, <1>5, SaveStep
<1> QED
  BY <1>2, <1>5, <1>6, <1>7, Zenon DEF IInv

\* A save after which the operation returns.
LEMMA SaveReturnInv ==
  ASSUME IInv, NEW p \in Processes, lock = p, NEW r \in Records,
         NEW c \in Cells, c = job[p].cell,
         Return(p), Save(p, r), UNCHANGED <<host, aside>>, MaySave(c, r)
  PROVE  IInv'
<1>1. cell' = [cell EXCEPT ![c] = r]
  BY Zenon DEF Save
<1> QED
  BY ZenonT(30), <1>1, SaveStep, ReturnStep DEF IInv

\* The intent is saved before anything exists.
LEMMA SaveIntentInv ==
  ASSUME IInv, NEW p \in Processes, SaveIntent(p)
  PROVE  IInv'
<1> DEFINE c == job[p].cell
           op == job[p].op
           r == [job[p].rec EXCEPT !.phase = "IntentRecorded"]
<1>1. /\ At(p, "save_intent") /\ Save(p, r)
      /\ GoWith(p, "prepare_runtime", r, job[p].seen)
      /\ UNCHANGED <<host, aside>>
  BY Zenon DEF SaveIntent, SavePhase
<1>2. /\ Working(op, "save_intent", c, job[p].rec) /\ lock = p
      /\ job[p].rec \in Records /\ job[p].seen \in Vms \cup {NoVm}
  BY SMTT(30), <1>1, AtFacts
<1>3. c \in Cells /\ op = "create" /\ NoVmOf(c) /\ NoCreateOrphan(c)
      /\ Unidentified(job[p].rec, "IntentRecorded")
  BY <1>2, Zenon DEF Working, Creating
<1>4. r \in Records /\ Unidentified(r, "IntentRecorded")
  BY <1>2, <1>3, Zenon DEF Records, Phases, Unidentified
<1> HIDE DEF r
<1>5. MaySave(c, r)
  BY SMTT(30), <1>3, <1>4 DEF MaySave, Consistent, Unidentified, NoVmOf
<1>6. /\ Creating(op, "prepare_runtime", c, r)
      /\ Switching(op, "prepare_runtime", c, r)
      /\ Destroying(op, "prepare_runtime", c, r)
  BY SMTT(30), <1>3, <1>4 DEF Creating, Switching, Destroying, Unidentified
<1> QED
  BY ZenonT(30), <1>1, <1>2, <1>3, <1>4, <1>5, <1>6, SaveGoInv DEF Labels

\* OverlayCreated is saved: the VM has not been requested yet.
LEMMA SaveOverlayInv ==
  ASSUME IInv, NEW p \in Processes, SaveOverlay(p)
  PROVE  IInv'
<1> DEFINE c == job[p].cell
           op == job[p].op
           r == [job[p].rec EXCEPT !.phase = "OverlayCreated"]
<1>1. /\ At(p, "save_overlay") /\ Save(p, r)
      /\ GoWith(p, "create_vm", r, job[p].seen)
      /\ UNCHANGED <<host, aside>>
  BY Zenon DEF SaveOverlay, SavePhase
<1>2. /\ Working(op, "save_overlay", c, job[p].rec) /\ lock = p
      /\ job[p].rec \in Records /\ job[p].seen \in Vms \cup {NoVm}
  BY SMTT(30), <1>1, AtFacts
<1>3. c \in Cells /\ op = "create" /\ NoVmOf(c) /\ NoCreateOrphan(c)
      /\ Unidentified(job[p].rec, "IntentRecorded")
  BY <1>2, Zenon DEF Working, Creating
<1>4. r \in Records /\ Unidentified(r, "OverlayCreated")
  BY SMTT(30), <1>2, <1>3 DEF Records, Phases, Unidentified
<1> HIDE DEF r
<1>5. MaySave(c, r)
  BY SMTT(30), <1>3, <1>4 DEF MaySave, Consistent, Unidentified, NoVmOf
<1>6. /\ Creating(op, "create_vm", c, r)
      /\ Switching(op, "create_vm", c, r)
      /\ Destroying(op, "create_vm", c, r)
  BY SMTT(30), <1>3, <1>4 DEF Creating, Switching, Destroying, Unidentified
<1> QED
  BY ZenonT(30), <1>1, <1>2, <1>3, <1>4, <1>5, <1>6, SaveGoInv DEF Labels, Verbs

\* The provider id is saved: the VM leaves the quarantine.
LEMMA SaveIdInv ==
  ASSUME IInv, NEW p \in Processes, SaveId(p)
  PROVE  IInv'
<1> DEFINE c == job[p].cell
           op == job[p].op
           r == [job[p].rec EXCEPT !.phase = "ProviderObjectCreated"]
<1>1. /\ At(p, "save_id") /\ Save(p, r)
      /\ GoWith(p, "inspect_new", r, job[p].seen)
      /\ UNCHANGED <<host, aside>>
  BY SMTT(30) DEF SaveId, SavePhase
<1>2. /\ Working(op, "save_id", c, job[p].rec) /\ lock = p
      /\ job[p].rec \in Records /\ job[p].seen \in Vms \cup {NoVm}
  BY SMTT(30), <1>1, AtFacts
<1>3. /\ c \in Cells /\ op = "create" /\ NoCreateOrphan(c) /\ RuntimePins(c)
      /\ job[p].rec.state = "Creating" /\ job[p].rec.id \in used
      /\ \A v \in VmIds : vms[v] # NoVm /\ vms[v].origin = c => v = job[p].rec.id
  BY <1>2, Zenon DEF Working, Creating
<1>4. /\ r \in Records /\ r.state = "Creating" /\ r.phase = "ProviderObjectCreated"
      /\ r.id = job[p].rec.id
  BY <1>2, <1>3, Zenon DEF Records, Phases
<1>5. r.id # NoId
  BY SMTT(30), <1>3, <1>4, DistinctAssumption DEF IInv, TypeOK
<1> HIDE DEF r
<1>6. MaySave(c, r)
  BY SMTT(30), <1>3, <1>4, <1>5 DEF MaySave, Consistent
<1>7. /\ Creating(op, "inspect_new", c, r)
      /\ Switching(op, "inspect_new", c, r)
      /\ Destroying(op, "inspect_new", c, r)
  BY SMTT(30), <1>3, <1>4 DEF Creating, Switching, Destroying
<1> QED
  BY ZenonT(30), <1>1, <1>2, <1>3, <1>4, <1>6, <1>7, SaveGoInv DEF Labels

\* ProviderObjectClaimed is saved by create.
LEMMA SaveClaimedInv ==
  ASSUME IInv, NEW p \in Processes, SaveClaimed(p)
  PROVE  IInv'
<1> DEFINE c == job[p].cell
           op == job[p].op
           r == [job[p].rec EXCEPT !.phase = "ProviderObjectClaimed"]
<1>1. /\ At(p, "save_claimed") /\ Save(p, r)
      /\ GoWith(p, "configure_vm", r, job[p].seen)
      /\ UNCHANGED <<host, aside>>
  BY Zenon DEF SaveClaimed, SavePhase
<1>2. /\ Working(op, "save_claimed", c, job[p].rec) /\ lock = p
      /\ job[p].rec \in Records /\ job[p].seen \in Vms \cup {NoVm}
  BY SMTT(30), <1>1, AtFacts
<1>3. /\ c \in Cells /\ job[p].rec = cell[c]
      /\ cell[c].phase = "ProviderObjectCreated"
      /\ op = "create" /\ cell[c].state = "Creating" /\ NoCreateOrphan(c)
  BY SMTT(30), <1>2 DEF Working, Creating, Switching, Destroying
<1>4. cell[c].id # NoId /\ cell[c].state \in {"Creating", "Failed"}
  BY SMTT(30), <1>2, <1>3 DEF IInv, HostInv, ManifestConsistent, Records, States
<1>5. /\ r \in Records /\ r.state = cell[c].state /\ r.id = cell[c].id
      /\ r.phase = "ProviderObjectClaimed"
  BY SMTT(30), <1>2, <1>3 DEF Records, Phases
<1> HIDE DEF r
<1>6. Consistent(r)
  BY SMTT(30), <1>4, <1>5 DEF Consistent
<1>7. MaySave(c, r)
  BY SMTT(30), <1>3, <1>4, <1>5, <1>6, MaySaveIdentified
<1>8. /\ Creating(op, "configure_vm", c, r)
      /\ Switching(op, "configure_vm", c, r)
      /\ Destroying(op, "configure_vm", c, r)
  BY SMTT(30), <1>3, <1>4, <1>5 DEF Creating, Switching, Destroying
<1> QED
  BY ZenonT(30), <1>1, <1>2, <1>3, <1>5, <1>7, <1>8, SaveGoInv DEF Labels, Verbs

\* ProviderObjectClaimed is saved by the recovery in destroy.
LEMMA SaveRecoveredInv ==
  ASSUME IInv, NEW p \in Processes, SaveRecovered(p)
  PROVE  IInv'
<1> DEFINE c == job[p].cell
           op == job[p].op
           r == [job[p].rec EXCEPT !.phase = "ProviderObjectClaimed"]
<1>1. /\ At(p, "save_recovered") /\ Save(p, r)
      /\ GoWith(p, "save_destroying", r, job[p].seen)
      /\ UNCHANGED <<host, aside>>
  BY Zenon DEF SaveRecovered, SavePhase
<1>2. /\ Working(op, "save_recovered", c, job[p].rec) /\ lock = p
      /\ job[p].rec \in Records /\ job[p].seen \in Vms \cup {NoVm}
  BY SMTT(30), <1>1, AtFacts
<1>3. /\ c \in Cells /\ job[p].rec = cell[c]
      /\ cell[c].phase = "ProviderObjectCreated"
      /\ op \in {"destroy", "gc"}
  BY SMTT(30), <1>2 DEF Working, Creating, Switching, Destroying
<1>4. cell[c].id # NoId /\ cell[c].state \in {"Creating", "Failed"}
  BY SMTT(30), <1>2, <1>3 DEF IInv, HostInv, ManifestConsistent, Records, States
<1>5. /\ r \in Records /\ r.state = cell[c].state /\ r.id = cell[c].id
      /\ r.phase = "ProviderObjectClaimed"
  BY SMTT(30), <1>2, <1>3 DEF Records, Phases
<1> HIDE DEF r
<1>6. Consistent(r)
  BY <1>4, <1>5, Zenon DEF Consistent
<1>7. MaySave(c, r)
  BY SMTT(30), <1>3, <1>4, <1>5, <1>6, MaySaveIdentified
<1>8. /\ Creating(op, "save_destroying", c, r)
      /\ Switching(op, "save_destroying", c, r)
      /\ Destroying(op, "save_destroying", c, r)
  BY SMTT(30), <1>3, <1>4, <1>5 DEF Creating, Switching, Destroying
<1> QED
  BY ZenonT(30), <1>1, <1>2, <1>3, <1>5, <1>7, <1>8, SaveGoInv DEF Labels, Verbs

\* One of the two destroying phases is saved.
LEMMA SaveDestroyingInv ==
  ASSUME IInv, NEW p \in Processes, SaveDestroying(p)
  PROVE  IInv'
<1> DEFINE c == job[p].cell
           op == job[p].op
           phase == IF job[p].rec.phase \in {"ProviderObjectClaimed",
                                             "DestroyingProvisioning"}
                    THEN "DestroyingProvisioning" ELSE "Destroying"
           r == [job[p].rec EXCEPT !.state = "Destroying", !.phase = phase]
           l == IF job[p].seen.power = "off" THEN "remove_vm" ELSE "stop_vm"
<1>1. /\ At(p, "save_destroying") /\ Save(p, r)
      /\ GoWith(p, l, r, job[p].seen)
      /\ UNCHANGED <<host, aside>>
  BY Zenon DEF SaveDestroying
<1>2. /\ Working(op, "save_destroying", c, job[p].rec) /\ lock = p
      /\ job[p].rec \in Records /\ job[p].seen \in Vms \cup {NoVm}
  BY SMTT(30), <1>1, AtFacts
<1>3. /\ c \in Cells /\ job[p].rec = cell[c] /\ cell[c].id # NoId
      /\ op \in {"destroy", "gc"}
  BY SMTT(30), <1>2 DEF Working, Destroying
<1>4. /\ r \in Records /\ r.state = "Destroying" /\ r.id = cell[c].id
      /\ r.phase \in {"Destroying", "DestroyingProvisioning"}
  BY ZenonT(30), <1>2, <1>3 DEF Records, Phases, States
<1>5. l \in {"remove_vm", "stop_vm"}
  BY Zenon
<1> HIDE DEF r, l
<1>6. Consistent(r)
  BY <1>3, <1>4, Zenon DEF Consistent
<1>7. MaySave(c, r)
  BY <1>3, <1>4, <1>6, MaySaveIdentified, Zenon
<1>8. Creating(op, l, c, r) /\ Switching(op, l, c, r) /\ Destroying(op, l, c, r)
  BY ZenonT(30), <1>3, <1>4, <1>5 DEF Creating, Switching, Destroying
<1> QED
  BY ZenonT(30), <1>1, <1>2, <1>3, <1>4, <1>5, <1>7, <1>8, SaveGoInv DEF Labels, Verbs

\* The last save of create, start and stop makes an identified cell usable.
LEMMA SaveUsableInv ==
  ASSUME IInv, NEW p \in Processes, NEW from, NEW state \in {"Stopped", "Running"},
         SaveLast(p, from, state, "Ready"), from \notin {"gc_next", "save_intent", "save_id"},
         job[p].rec.phase \in {"ProviderObjectClaimed", "Ready"}
  PROVE  IInv'
<1> DEFINE c == job[p].cell
           r == [job[p].rec EXCEPT !.state = state, !.phase = "Ready"]
<1>1. At(p, from) /\ Save(p, r) /\ Return(p) /\ UNCHANGED <<host, aside>>
  BY Zenon DEF SaveLast
<1>2. /\ Working(job[p].op, from, c, job[p].rec) /\ lock = p
      /\ job[p].rec \in Records
  BY SMTT(30), <1>1, AtFacts
<1>3. c \in Cells /\ job[p].rec = cell[c]
  BY SMTT(30), <1>2 DEF Working
<1>4. cell[c].id # NoId
  BY <1>3, Zenon DEF IInv, HostInv, ManifestConsistent
<1>5. r \in Records /\ r.state = state /\ r.phase = "Ready" /\ r.id = cell[c].id
  BY ZenonT(30), <1>2, <1>3 DEF Records, Phases, States
<1> HIDE DEF r
<1>6. Consistent(r)
  BY <1>4, <1>5, Zenon DEF Consistent
<1>7. MaySave(c, r)
  BY <1>3, <1>4, <1>5, <1>6, MaySaveIdentified, Zenon
<1> QED
  BY <1>1, <1>2, <1>3, <1>5, <1>7, SaveReturnInv, Zenon

\* create publishes the cell.
LEMMA SaveReadyInv ==
  ASSUME IInv, NEW p \in Processes, SaveReady(p)
  PROVE  IInv'
<1>1. At(p, "save_ready")
  BY SMTT(30) DEF SaveReady, SaveLast
<1>2. job[p].rec.phase = "ProviderObjectClaimed"
  BY SMTT(30), <1>1, AtFacts DEF Working, Creating
<1> QED
  BY <1>2, SaveUsableInv, SMTT(30) DEF SaveReady

\* start and stop only work on a cell that is already usable.
LEMMA UsableIsReady ==
  ASSUME IInv, NEW p \in Processes, NEW l, At(p, l), job[p].op \in {"start", "stop"},
         l \notin {"gc_next", "save_intent", "save_id"}
  PROVE  job[p].rec.phase = "Ready"
<1>1. Working(job[p].op, l, job[p].cell, job[p].rec)
  BY SMTT(30), AtFacts
<1>2. /\ job[p].cell \in Cells /\ job[p].rec = cell[job[p].cell]
      /\ job[p].rec.state \in {"Stopped", "Running"}
  BY <1>1, Zenon DEF Working, Switching
<1> QED
  BY SMTT(30), <1>2 DEF IInv, HostInv, ManifestConsistent

\* start_cell saves Running.
LEMMA SaveRunningInv ==
  ASSUME IInv, NEW p \in Processes, SaveRunning(p)
  PROVE  IInv'
<1>1. At(p, "save_running")
  BY SMTT(30) DEF SaveRunning, SaveLast
<1>2. job[p].op = "start"
  BY SMTT(30), <1>1, AtFacts DEF Working, Switching
<1> QED
  BY <1>1, <1>2, UsableIsReady, SaveUsableInv, Zenon DEF SaveRunning

\* stop_cell saves Stopped.
LEMMA SaveStoppedInv ==
  ASSUME IInv, NEW p \in Processes, SaveStopped(p)
  PROVE  IInv'
<1>1. At(p, "save_stopped")
  BY SMTT(30) DEF SaveStopped, SaveLast
<1>2. job[p].op = "stop"
  BY SMTT(30), <1>1, AtFacts DEF Working, Switching
<1> QED
  BY <1>1, <1>2, UsableIsReady, SaveUsableInv, Zenon DEF SaveStopped

\* fail_record keeps phase and id, and with them what is known of the VM.
LEMMA FailRecordInv ==
  ASSUME IInv, NEW p \in Processes, FailRecord(p)
  PROVE  IInv'
<1> DEFINE c == job[p].cell
           r == [job[p].rec EXCEPT !.state = "Failed", !.phase = job[p].rec.phase]
<1>1. At(p, "fail_record") /\ Save(p, r) /\ Return(p) /\ UNCHANGED <<host, aside>>
  BY Zenon DEF FailRecord, SaveLast
<1>2. /\ Working(job[p].op, "fail_record", c, job[p].rec) /\ lock = p
      /\ job[p].rec \in Records
  BY SMTT(30), <1>1, AtFacts
<1>3. /\ c \in Cells /\ job[p].rec = cell[c] /\ cell[c].state = "Creating"
      /\ NoCreateOrphan(c)
  BY ZenonT(30), <1>2 DEF Working, Creating
<1>4. r \in Records /\ r.state = "Failed" /\ r.phase = cell[c].phase /\ r.id = cell[c].id
  BY ZenonT(30), <1>2, <1>3 DEF Records, States
<1> HIDE DEF r
<1>5. Consistent(r)
  BY <1>3, <1>4, Zenon DEF IInv, HostInv, ManifestConsistent, Consistent
<1>6. MaySave(c, r)
  <2>1. r.id # NoId => r.id \in used
    BY SMTT(30), <1>3, <1>4 DEF IInv, HostInv, IdsInv
  <2>2. \A v \in VmIds : vms[v] # NoVm /\ vms[v].origin = c =>
          r.id = v \/ (r.id = NoId /\ r.phase = "OverlayCreated")
    BY ZenonT(30), <1>3, <1>4 DEF IInv, HostInv, EveryVmAccountedFor
  <2>3. r.id # NoId /\ vms[r.id] # NoVm => RuntimePins(c)
    BY ZenonT(30), <1>3, <1>4 DEF IInv, HostInv, RuntimeOutlivesVm
  <2> QED
    BY ZenonT(30), <1>3, <1>4, <1>5, <2>1, <2>2, <2>3 DEF MaySave
<1> QED
  BY SMTT(30), <1>1, <1>2, <1>3, <1>4, <1>6, SaveReturnInv

\* The tombstone is saved: VM and runtime are known to be gone.
LEMMA SaveDestroyedInv ==
  ASSUME IInv, NEW p \in Processes, SaveDestroyed(p)
  PROVE  IInv'
<1> DEFINE c == job[p].cell
           r == [job[p].rec EXCEPT !.state = "Destroyed", !.phase = "Destroyed"]
<1>1. At(p, "save_destroyed") /\ Save(p, r) /\ Return(p) /\ UNCHANGED <<host, aside>>
  BY Zenon DEF SaveDestroyed, SaveLast
<1>2. /\ Working(job[p].op, "save_destroyed", c, job[p].rec) /\ lock = p
      /\ job[p].rec \in Records
  BY SMTT(30), <1>1, AtFacts
<1>3. /\ c \in Cells /\ job[p].rec = cell[c] /\ cell[c].id # NoId
      /\ vms[cell[c].id] = NoVm /\ runtime[c] = "absent"
  BY ZenonT(30), <1>2 DEF Working, Destroying
<1>4. r \in Records /\ r.state = "Destroyed" /\ r.phase = "Destroyed" /\ r.id = cell[c].id
  BY ZenonT(30), <1>2, <1>3 DEF Records, States, Phases
<1> HIDE DEF r
<1>5. NoCreateOrphan(c) /\ r.id \in used
  BY ZenonT(30), <1>3, <1>4 DEF IInv, HostInv, OrphanInv, IdsInv, NoCreateOrphan
<1>6. NoVmOf(c)
  BY ZenonT(30), <1>3 DEF IInv, HostInv, EveryVmAccountedFor, NoVmOf
<1>7. MaySave(c, r)
  BY ZenonT(30), <1>3, <1>4, <1>5, <1>6 DEF MaySave, Consistent, NoVmOf
<1> QED
  BY ZenonT(30), <1>1, <1>2, <1>3, <1>4, <1>7, SaveReturnInv

-----------------------------------------------------------------------------
(***************************************************************************)
(* Steps that change the host.  orphans may shrink: the step may be that   *)
(* of a delayed verb.                                                      *)
(***************************************************************************)

\* The VM v becomes x: it is removed, or its origin does not change.
VmChange(v, x) ==
  /\ v \in VmIds /\ vms[v] # NoVm
  /\ x = NoVm \/ (x \in Vms /\ x.origin = vms[v].origin)
  /\ vms' = [vms EXCEPT ![v] = x]
  /\ UNCHANGED <<runtime, used>>

\* Changing or removing a VM keeps HostInv.
LEMMA VmChangeHost ==
  ASSUME IInv, NEW v, NEW x, VmChange(v, x), UNCHANGED cell, orphans' \subseteq orphans
  PROVE  /\ HostInv'
         /\ vms' \in [VmIds -> Vms \cup {NoVm}]
<1>1. vms \in [VmIds -> Vms \cup {NoVm}] /\ v \in VmIds
  BY Zenon DEF IInv, TypeOK, VmChange
<1>2. vms'[v] = x /\ \A w \in VmIds \ {v} : vms'[w] = vms[w]
  BY <1>1, Zenon DEF VmChange
<1>3. vms' \in [VmIds -> Vms \cup {NoVm}]
  BY <1>1, Zenon DEF VmChange
<1>4. \A w \in VmIds : vms'[w] # NoVm => vms[w] # NoVm /\ vms'[w].origin = vms[w].origin
  BY <1>2, Zenon DEF VmChange
<1>5. UNCHANGED <<cell, runtime, used>>
  BY Zenon DEF VmChange
<1>6. IdsInv'
  BY <1>4, <1>5, Zenon DEF IInv, HostInv, IdsInv
<1>7. FreshInv'
  BY <1>4, <1>5, Zenon DEF IInv, HostInv, FreshInv, NoVmOf, NoCreateOrphan
<1>8. OrphanInv'
  BY <1>5, Zenon DEF IInv, HostInv, OrphanInv
<1>9. ManifestConsistent'
  BY <1>5, Zenon DEF IInv, HostInv, ManifestConsistent
<1>10. EveryVmAccountedFor'
  BY <1>4, <1>5, Zenon DEF IInv, HostInv, EveryVmAccountedFor
<1>11. TombstoneMeansReleased'
  BY <1>4, <1>5, Zenon DEF IInv, HostInv, TombstoneMeansReleased
<1>12. RuntimeOutlivesVm'
  <2> SUFFICES ASSUME NEW c \in Cells, cell[c].id # NoId, vms'[cell[c].id] # NoVm
               PROVE  RuntimePins(c)
    BY <1>5, Zenon DEF RuntimeOutlivesVm, RuntimePins
  <2>1. cell[c].id \in VmIds
    BY Zenon DEF IInv, TypeOK, Records
  <2> QED
    BY <1>4, <2>1, Zenon DEF IInv, HostInv, RuntimeOutlivesVm
<1> QED
  BY <1>3, <1>6, <1>7, <1>8, <1>9, <1>10, <1>11, <1>12, Zenon DEF HostInv

\* Changing or removing a VM falsifies nothing a process knows.
LEMMA VmChangeWorking ==
  ASSUME IInv, NEW v, NEW x, VmChange(v, x), UNCHANGED cell, orphans' \subseteq orphans,
         NEW op, NEW l, NEW c, NEW r \in Records, Working(op, l, c, r)
  PROVE  Working(op, l, c, r)'
<1>1. vms \in [VmIds -> Vms \cup {NoVm}] /\ v \in VmIds
  BY Zenon DEF IInv, TypeOK, VmChange
<1>2. vms'[v] = x /\ \A w \in VmIds \ {v} : vms'[w] = vms[w]
  BY <1>1, Zenon DEF VmChange
<1>3. \A w \in VmIds : vms'[w] # NoVm => vms[w] # NoVm /\ vms'[w].origin = vms[w].origin
  BY <1>2, Zenon DEF VmChange
<1>4. UNCHANGED <<cell, runtime, used>>
  BY SMTT(30) DEF VmChange
<1>5. Creating(op, l, c, r)'
  BY <1>3, <1>4, SMTT(30) DEF Working, Creating, NoVmOf, NoCreateOrphan, RuntimePins, Unidentified
<1>6. Switching(op, l, c, r)'
  BY Zenon DEF Working, Switching
<1>7. Destroying(op, l, c, r)'
  <2>1. ASSUME r.id # NoId, vms[r.id] = NoVm
        PROVE  vms'[r.id] = NoVm
    BY <1>3, <2>1, Zenon DEF Records
  <2>2. ASSUME l \in {"verify_absent", "remove_runtime", "save_destroyed"}
        PROVE  vms'[r.id] = NoVm
    BY <2>1, <2>2, Zenon DEF Working, Destroying
  <2> QED
    BY <1>4, <2>2, SMTT(30) DEF Working, Destroying
<1> QED
  BY <1>4, <1>5, <1>6, <1>7, Zenon DEF Working

\* A VM with a new id appears for a cell in pre-id quarantine.
VmCreation(c, v) ==
  /\ c \in Cells /\ v \in VmIds \ used
  /\ cell[c].id = NoId /\ cell[c].phase = "OverlayCreated"
  /\ cell[c].state \in {"Creating", "Failed"}
  /\ vms' = [vms EXCEPT ![v] = CreatedVm(c)]
  /\ used' = used \cup {v}
  /\ UNCHANGED runtime

\* The VM create_vm makes is a VM of its cell.
LEMMA CreatedVmType ==
  ASSUME NEW c \in Cells
  PROVE  CreatedVm(c) \in Vms /\ CreatedVm(c).origin = c /\ CreatedVm(c) # NoVm
<1>1. CreatedVm(c) \in Vms /\ CreatedVm(c).origin = c
  BY Zenon DEF CreatedVm, Vms
<1> QED
  BY <1>1, NoVmAssumption, Zenon

\* Creating it keeps HostInv.
LEMMA VmCreationHost ==
  ASSUME IInv, NEW c, NEW v, VmCreation(c, v), UNCHANGED cell, orphans' \subseteq orphans
  PROVE  /\ HostInv'
         /\ vms' \in [VmIds -> Vms \cup {NoVm}] /\ used' \in SUBSET VmIds
<1>1. vms \in [VmIds -> Vms \cup {NoVm}] /\ v \in VmIds /\ c \in Cells
  BY Zenon DEF IInv, TypeOK, VmCreation
<1>2. /\ vms'[v] # NoVm /\ vms'[v].origin = c
      /\ \A w \in VmIds \ {v} : vms'[w] = vms[w]
  BY <1>1, CreatedVmType, Zenon DEF VmCreation
<1>3. vms' \in [VmIds -> Vms \cup {NoVm}] /\ used' \in SUBSET VmIds
  BY <1>1, CreatedVmType, SMTT(30) DEF VmCreation, IInv, TypeOK
<1>4. UNCHANGED <<cell, runtime>> /\ used' = used \cup {v}
  BY Zenon DEF VmCreation
<1>5. IdsInv'
  BY <1>2, <1>4, Zenon DEF IInv, HostInv, IdsInv
<1>6. FreshInv'
  BY SMTT(30), <1>1, <1>2, <1>4 DEF IInv, HostInv, FreshInv, NoVmOf, NoCreateOrphan, VmCreation, NoRecord
<1>7. OrphanInv' /\ ManifestConsistent'
  BY SMTT(30), <1>4 DEF IInv, HostInv, OrphanInv, ManifestConsistent
<1>8. EveryVmAccountedFor'
  BY <1>1, <1>2, <1>4, SMTT(30) DEF IInv, HostInv, EveryVmAccountedFor, VmCreation
<1>9. TombstoneMeansReleased'
  BY <1>1, <1>2, <1>4 DEF IInv, HostInv, TombstoneMeansReleased, VmCreation
<1>10. RuntimeOutlivesVm'
  <2> SUFFICES ASSUME NEW d \in Cells, cell[d].id # NoId, vms'[cell[d].id] # NoVm
               PROVE  RuntimePins(d)
    BY <1>4, Zenon DEF RuntimeOutlivesVm, RuntimePins
  <2>1. cell[d].id \in VmIds /\ cell[d].id \in used
    BY Zenon DEF IInv, TypeOK, Records, HostInv, IdsInv
  <2>2. cell[d].id # v
    BY <2>1, Zenon DEF VmCreation
  <2> QED
    BY <1>2, <2>1, <2>2, Zenon DEF IInv, HostInv, RuntimeOutlivesVm
<1> QED
  BY <1>3, <1>5, <1>6, <1>7, <1>8, <1>9, <1>10, Zenon DEF HostInv

\* Creating it falsifies nothing a process knows, unless that process is
\* creating the same cell.
LEMMA VmCreationWorking ==
  ASSUME IInv, NEW c, NEW v, VmCreation(c, v), UNCHANGED cell, orphans' \subseteq orphans,
         NEW op, NEW l, NEW d, NEW r \in Records, Working(op, l, d, r),
         op = "create" /\ l # "fail_record" => d # c
  PROVE  Working(op, l, d, r)'
<1>1. vms \in [VmIds -> Vms \cup {NoVm}] /\ v \in VmIds /\ c \in Cells
  BY Zenon DEF IInv, TypeOK, VmCreation
<1>2. /\ vms'[v] # NoVm /\ vms'[v].origin = c
      /\ \A w \in VmIds \ {v} : vms'[w] = vms[w]
  BY <1>1, CreatedVmType, SMTT(30) DEF VmCreation
<1>3. UNCHANGED <<cell, runtime>> /\ used' = used \cup {v}
  BY SMTT(30) DEF VmCreation
<1>4. Creating(op, l, d, r)'
  BY <1>1, <1>2, <1>3, ZenonT(30) DEF Working, Creating, NoVmOf, NoCreateOrphan, RuntimePins, Unidentified
<1>5. Switching(op, l, d, r)'
  BY SMTT(30) DEF Working, Switching
<1>6. Destroying(op, l, d, r)'
  <2>1. ASSUME l \in {"verify_absent", "remove_runtime", "save_destroyed"}
        PROVE  vms'[r.id] = NoVm
    <3>1. d \in Cells /\ r = cell[d] /\ r.id # NoId /\ vms[r.id] = NoVm
      BY <2>1, Zenon DEF Working, Destroying
    <3>2. r.id \in VmIds /\ r.id # v
      BY <3>1, Zenon DEF Records, IInv, HostInv, IdsInv, VmCreation
    <3> QED
      BY <1>2, <3>1, <3>2, ZenonT(30)
  <2> QED
    BY <1>3, <2>1, ZenonT(30) DEF Working, Destroying
<1> QED
  BY <1>3, <1>4, <1>5, <1>6, SMTT(30) DEF Working

\* The runtime directory of c becomes x; it keeps what a recorded VM needs.
RuntimeChange(c, x) ==
  /\ c \in Cells /\ x \in Runtimes
  /\ cell[c].state # "Destroyed"
  /\ cell[c].id # NoId /\ vms[cell[c].id] # NoVm => x \in {"prepared", "overlay"}
  /\ runtime' = [runtime EXCEPT ![c] = x]
  /\ UNCHANGED <<vms, used>>

\* Changing the runtime directory keeps HostInv.
LEMMA RuntimeChangeHost ==
  ASSUME IInv, NEW c, NEW x, RuntimeChange(c, x), UNCHANGED cell, orphans' \subseteq orphans
  PROVE  /\ HostInv'
         /\ runtime' \in [Cells -> Runtimes]
<1>1. runtime \in [Cells -> Runtimes] /\ c \in Cells
  BY SMTT(30) DEF IInv, TypeOK, RuntimeChange
<1>2. runtime'[c] = x /\ \A d \in Cells \ {c} : runtime'[d] = runtime[d]
  BY <1>1, Zenon DEF RuntimeChange
<1>3. runtime' \in [Cells -> Runtimes]
  BY <1>1, SMTT(30) DEF RuntimeChange
<1>4. UNCHANGED <<cell, vms, used>>
  BY SMTT(30) DEF RuntimeChange
<1>5. IdsInv' /\ FreshInv' /\ OrphanInv' /\ ManifestConsistent' /\ EveryVmAccountedFor'
  BY <1>4, SMTT(30) DEF IInv, HostInv, IdsInv, FreshInv, NoVmOf, NoCreateOrphan, OrphanInv,
              ManifestConsistent, EveryVmAccountedFor
<1>6. TombstoneMeansReleased'
  BY <1>2, <1>4 DEF IInv, HostInv, TombstoneMeansReleased, RuntimeChange
<1>7. RuntimeOutlivesVm'
  BY <1>2, <1>4, SMTT(30) DEF IInv, HostInv, RuntimeOutlivesVm, RuntimePins, RuntimeChange
<1> QED
  BY <1>3, <1>5, <1>6, <1>7, Zenon DEF HostInv

\* It falsifies nothing a process knows, unless that process is about to
\* record the id or the tombstone of the same cell.
LEMMA RuntimeChangeWorking ==
  ASSUME IInv, NEW c, NEW x, RuntimeChange(c, x), UNCHANGED cell, orphans' \subseteq orphans,
         NEW op, NEW l, NEW d, NEW r \in Records, Working(op, l, d, r),
         l = "save_id" => d # c,
         l = "save_destroyed" /\ d = c => x = "absent"
  PROVE  Working(op, l, d, r)'
<1>1. runtime \in [Cells -> Runtimes] /\ c \in Cells
  BY Zenon DEF IInv, TypeOK, RuntimeChange
<1>2. runtime'[c] = x /\ \A e \in Cells \ {c} : runtime'[e] = runtime[e]
  BY <1>1, Zenon DEF RuntimeChange
<1>3. UNCHANGED <<cell, vms, used>>
  BY SMTT(30) DEF RuntimeChange
<1>4. Creating(op, l, d, r)'
  BY <1>2, <1>3, SMTT(30) DEF Working, Creating, NoVmOf, NoCreateOrphan, RuntimePins, Unidentified
<1>5. Switching(op, l, d, r)' /\ Destroying(op, l, d, r)'
  BY SMTT(30), <1>2, <1>3 DEF Working, Switching, Destroying
<1> QED
  BY <1>3, <1>4, <1>5, SMTT(30) DEF Working

-----------------------------------------------------------------------------
(***************************************************************************)
(* Operations that change the host                                         *)
(***************************************************************************)

\* prepare_cell_runtime works for a cell without a VM.
LEMMA PrepareRuntimeInv ==
  ASSUME IInv, NEW p \in Processes, PrepareRuntime(p)
  PROVE  IInv'
<1> DEFINE c == job[p].cell
           op == job[p].op
           r == job[p].rec
<1>1. /\ At(p, "prepare_runtime")
      /\ Go(p, "check_name") \/ Go(p, "fail_record")
      /\ UNCHANGED <<cell, vms, used, orphans, ttl, inflight, drift>>
  BY Zenon DEF PrepareRuntime, aside
<1>2. Working(op, "prepare_runtime", c, r) /\ lock = p /\ r \in Records
  BY SMTT(30), <1>1, AtFacts
<1>3. /\ c \in Cells /\ cell[c].id = NoId /\ cell[c].state = "Creating"
  BY <1>2, ZenonT(30) DEF Working, Creating, Unidentified
<1>4. PICK l \in {"check_name", "fail_record"} : Go(p, l)
  BY SMTT(30), <1>1
<1>5. Working(op, l, c, r) /\ l \in Labels /\ l # "idle"
  BY <1>2, ZenonT(30) DEF Working, Creating, Switching, Destroying, Labels
<1>6. \E x \in Runtimes : runtime' = [runtime EXCEPT ![c] = x]
  <2>1. runtime = [runtime EXCEPT ![c] = runtime[c]] /\ runtime[c] \in Runtimes
    BY <1>3, SMTT(30) DEF IInv, TypeOK
  <2> QED
    BY <1>1, <2>1, Zenon DEF Runtimes, PrepareRuntime
<1>7. PICK x \in Runtimes : RuntimeChange(c, x)
  BY ZenonT(30), <1>1, <1>3, <1>6 DEF RuntimeChange
<1>8. Works(p)'
  BY SMTT(30), <1>2, <1>4, <1>5, <1>7, <1>1, GoStep, RuntimeChangeWorking DEF Works
<1>9. TypeOK'
  BY SMTT(30), <1>1, <1>2, <1>4, <1>5, <1>7, GoStep, RuntimeChangeHost DEF IInv, TypeOK
<1> QED
  BY <1>1, <1>2, <1>4, <1>5, <1>7, <1>8, <1>9, GoStep, RuntimeChangeHost, ZenonT(30) DEF IInv

\* A verb other than create changes at most the VM it names.
VmVerbs == {"claim_vm", "configure_vm", "start_vm", "stop_vm", "remove_vm"}

\* An accepted verb other than create changes or removes the VM it names.
LEMMA VerbEffect ==
  ASSUME IInv, NEW verb \in VmVerbs, NEW c \in Cells, NEW v \in VmIds \cup {NoId}, NEW s,
         Accepts(verb, c, v, s), Effect(verb, c, v) \/ LeftPaused(verb, v)
  PROVE  \E x : VmChange(v, x)
<1>1. v # NoId /\ vms[v] # NoVm
  BY Zenon DEF Accepts, VmVerbs
<1>2. v \in VmIds /\ vms[v] \in Vms
  BY <1>1, Zenon DEF IInv, TypeOK
<1>3. /\ UNCHANGED <<runtime, used>>
      /\ \/ vms' = [vms EXCEPT ![v].marker = c]
         \/ vms' = [vms EXCEPT ![v].shape = "configured"]
         \/ \E w \in {"running", "off", "paused"} : vms' = [vms EXCEPT ![v].power = w]
         \/ vms' = [vms EXCEPT ![v] = NoVm]
  BY Zenon DEF Effect, LeftPaused, VmVerbs
<1>4. CASE vms' = [vms EXCEPT ![v].marker = c]
  <2> DEFINE x == [vms[v] EXCEPT !.marker = c]
  <2>1. x \in Vms /\ x.origin = vms[v].origin
    BY <1>2, Zenon DEF Vms
  <2>2. vms' = [vms EXCEPT ![v] = x]
    BY <1>4, Zenon
  <2> QED
    BY ZenonT(30), <1>1, <1>2, <1>3, <2>1, <2>2 DEF VmChange
<1>5. CASE vms' = [vms EXCEPT ![v].shape = "configured"]
  <2> DEFINE x == [vms[v] EXCEPT !.shape = "configured"]
  <2>1. x \in Vms /\ x.origin = vms[v].origin
    BY <1>2, Zenon DEF Vms
  <2>2. vms' = [vms EXCEPT ![v] = x]
    BY <1>5, Zenon
  <2> QED
    BY ZenonT(30), <1>1, <1>2, <1>3, <2>1, <2>2 DEF VmChange
<1>6. ASSUME NEW w \in {"running", "off", "paused"}, vms' = [vms EXCEPT ![v].power = w]
      PROVE  \E x : VmChange(v, x)
  <2> DEFINE x == [vms[v] EXCEPT !.power = w]
  <2>1. x \in Vms /\ x.origin = vms[v].origin
    BY <1>2, Zenon DEF Vms
  <2>2. vms' = [vms EXCEPT ![v] = x]
    BY <1>6, Zenon
  <2> QED
    BY ZenonT(30), <1>1, <1>2, <1>3, <2>1, <2>2 DEF VmChange
<1>7. CASE vms' = [vms EXCEPT ![v] = NoVm]
  BY ZenonT(30), <1>1, <1>2, <1>3, <1>7 DEF VmChange
<1> QED
  BY <1>3, <1>4, <1>5, <1>6, <1>7, Zenon

\* What a call of such a verb does to the host.
HostAfterVerb == (\E v, x : VmChange(v, x)) \/ UNCHANGED host

\* Such a call keeps HostInv.
LEMMA AfterVerb ==
  ASSUME IInv, HostAfterVerb, UNCHANGED <<cell, aside>>
  PROVE  /\ HostInv'
         /\ job' \in [Processes -> Jobs] /\ lock' \in Processes \cup {NoProcess}
              => TypeOK'
<1>1. CASE UNCHANGED host
  BY SMTT(30), <1>1, Unchanged
<1>2. ASSUME NEW v, NEW x, VmChange(v, x)
      PROVE  HostInv' /\ vms' \in [VmIds -> Vms \cup {NoVm}] /\ UNCHANGED <<runtime, used>>
  BY ZenonT(30), <1>2, VmChangeHost DEF VmChange, aside
<1> QED
  BY <1>1, <1>2, Zenon DEF HostAfterVerb, IInv, TypeOK, aside

\* Such a call falsifies nothing a process knows.
LEMMA AfterVerbWorking ==
  ASSUME IInv, HostAfterVerb, UNCHANGED <<cell, aside>>,
         NEW op, NEW l, NEW c, NEW r \in Records, Working(op, l, c, r)
  PROVE  Working(op, l, c, r)'
<1>1. CASE UNCHANGED host
  BY <1>1, WorkingUnchanged, Zenon
<1>2. ASSUME NEW v, NEW x, VmChange(v, x)
      PROVE  Working(op, l, c, r)'
  BY SMTT(30), <1>2, VmChangeWorking DEF aside
<1> QED
  BY <1>1, <1>2, Zenon DEF HostAfterVerb

\* A call followed by the return keeps the invariant.
LEMMA VerbReturn ==
  ASSUME IInv, NEW p \in Processes, lock = p, HostAfterVerb,
         UNCHANGED <<cell, aside>>, Return(p)
  PROVE  IInv'
BY SMTT(30), AfterVerb, ReturnStep DEF IInv

\* A call followed by a step to label l keeps the invariant.
LEMMA VerbGo ==
  ASSUME IInv, NEW p \in Processes, lock = p, HostAfterVerb,
         UNCHANGED <<cell, aside>>, NEW l \in Labels, l # "idle", Go(p, l),
         Working(job[p].op, l, job[p].cell, job[p].rec)
  PROVE  IInv'
<1>1. job[p].rec \in Records
  BY SMTT(30) DEF IInv, TypeOK, Jobs
<1>2. job'[p].op = job[p].op /\ job'[p].pc = l /\ job'[p].cell = job[p].cell
      /\ job'[p].rec = job[p].rec
  BY SMTT(30), GoStep
<1>3. Works(p)'
  BY SMTT(30), <1>1, <1>2, AfterVerbWorking DEF Works
<1> QED
  BY SMTT(30), <1>3, AfterVerb, GoStep DEF IInv

\* The same with a new snapshot.
LEMMA VerbGoWith ==
  ASSUME IInv, NEW p \in Processes, lock = p, HostAfterVerb,
         UNCHANGED <<cell, aside>>, NEW l \in Labels, l # "idle",
         NEW s \in Vms \cup {NoVm}, GoWith(p, l, job[p].rec, s),
         Working(job[p].op, l, job[p].cell, job[p].rec)
  PROVE  IInv'
<1>1. job[p].rec \in Records
  BY SMTT(30) DEF IInv, TypeOK, Jobs
<1>2. job'[p].op = job[p].op /\ job'[p].pc = l /\ job'[p].cell = job[p].cell
      /\ job'[p].rec = job[p].rec
  BY ZenonT(30), <1>1, GoWithStep
<1>3. Works(p)'
  BY <1>1, <1>2, AfterVerbWorking, Zenon DEF Works
<1> QED
  BY ZenonT(30), <1>1, <1>3, AfterVerb, GoWithStep DEF IInv

\* A call of such a verb changes at most its VM, whatever it reports.
LEMMA CallEffect ==
  ASSUME IInv, NEW p \in Processes, NEW verb \in VmVerbs, At(p, verb),
         NEW v \in VmIds \cup {NoId},
         \/ /\ Accepts(verb, job[p].cell, v, job[p].seen)
            /\ Effect(verb, job[p].cell, v) \/ LeftPaused(verb, v)
         \/ UNCHANGED host
  PROVE  HostAfterVerb
<1>1. job[p].cell \in Cells
  BY ZenonT(30), AtFacts DEF Working, VmVerbs
<1> QED
  BY SMTT(30), <1>1, VerbEffect DEF HostAfterVerb

\* claim_vm, in create and in destroy.
LEMMA ClaimVmInv ==
  ASSUME IInv, NEW p \in Processes, ClaimVm(p)
  PROVE  IInv'
<1> DEFINE r == job[p].rec
           l == IF job[p].op = "create" THEN "save_claimed" ELSE "save_recovered"
<1>1. /\ At(p, "claim_vm") /\ UNCHANGED <<cell, aside>>
      /\ \/ /\ Accepts("claim_vm", job[p].cell, r.id, job[p].seen)
            /\ Effect("claim_vm", job[p].cell, r.id) \/ LeftPaused("claim_vm", r.id)
         \/ UNCHANGED host
      /\ \/ GoWith(p, l, r, vms'[r.id])
         \/ job[p].op = "create" /\ Go(p, "fail_record")
         \/ Return(p)
  BY ZenonT(30) DEF ClaimVm, Call
<1>2. Working(job[p].op, "claim_vm", job[p].cell, r) /\ lock = p /\ r \in Records
  BY ZenonT(30), <1>1, AtFacts
<1>3. HostAfterVerb
  BY ZenonT(30), <1>1, <1>2, CallEffect DEF VmVerbs, Records
<1>4. r = cell[job[p].cell] /\ job[p].cell \in Cells /\ r.phase = "ProviderObjectCreated"
  BY ZenonT(30), <1>2 DEF Working, Destroying
<1>5. r.id \in VmIds
  BY ZenonT(30), <1>2, <1>4 DEF IInv, HostInv, ManifestConsistent, Records
<1>6. vms'[r.id] \in Vms \cup {NoVm}
  BY ZenonT(30), <1>1, <1>3, <1>5, AfterVerb, VmChangeHost DEF HostAfterVerb, IInv, TypeOK, host, aside
<1>7. Working(job[p].op, l, job[p].cell, r) /\ l \in Labels /\ l # "idle"
  BY ZenonT(30), <1>2, <1>4 DEF Working, Creating, Switching, Destroying, Labels
<1>8. job[p].op = "create" => Working(job[p].op, "fail_record", job[p].cell, r)
  BY ZenonT(30), <1>2 DEF Working, Creating, Switching, Destroying
<1> HIDE DEF l
<1>9. CASE GoWith(p, l, r, vms'[r.id])
  BY ZenonT(30), <1>1, <1>2, <1>3, <1>6, <1>7, <1>9, VerbGoWith
<1>10. CASE job[p].op = "create" /\ Go(p, "fail_record")
  BY ZenonT(30), <1>1, <1>2, <1>3, <1>8, <1>10, VerbGo DEF Labels
<1> QED
  BY ZenonT(30), <1>1, <1>2, <1>3, <1>9, <1>10, VerbReturn

\* configure_vm, in create.
LEMMA ConfigureVmInv ==
  ASSUME IInv, NEW p \in Processes, ConfigureVm(p)
  PROVE  IInv'
<1> DEFINE r == job[p].rec
<1>1. /\ At(p, "configure_vm") /\ UNCHANGED <<cell, aside>>
      /\ \/ /\ Accepts("configure_vm", job[p].cell, r.id, job[p].seen)
            /\ Effect("configure_vm", job[p].cell, r.id) \/ LeftPaused("configure_vm", r.id)
         \/ UNCHANGED host
      /\ Go(p, "save_ready") \/ Go(p, "fail_record")
  BY ZenonT(30) DEF ConfigureVm, Call
<1>2. Working(job[p].op, "configure_vm", job[p].cell, r) /\ lock = p /\ r \in Records
  BY ZenonT(30), <1>1, AtFacts
<1>3. HostAfterVerb
  BY ZenonT(30), <1>1, <1>2, CallEffect DEF VmVerbs, Records
<1>4. /\ Working(job[p].op, "save_ready", job[p].cell, r)
      /\ Working(job[p].op, "fail_record", job[p].cell, r)
  BY ZenonT(30), <1>2 DEF Working, Creating, Switching, Destroying
<1> QED
  BY SMTT(30), <1>1, <1>2, <1>3, <1>4, VerbGo DEF Labels

\* start_vm, in start_cell.
LEMMA StartVmInv ==
  ASSUME IInv, NEW p \in Processes, StartVm(p)
  PROVE  IInv'
<1> DEFINE r == job[p].rec
<1>1. /\ At(p, "start_vm") /\ UNCHANGED <<cell, aside>>
      /\ \/ /\ Accepts("start_vm", job[p].cell, r.id, job[p].seen)
            /\ Effect("start_vm", job[p].cell, r.id) \/ LeftPaused("start_vm", r.id)
         \/ UNCHANGED host
      /\ Go(p, "start_verify") \/ Return(p)
  BY SMTT(30) DEF StartVm, Call
<1>2. Working(job[p].op, "start_vm", job[p].cell, r) /\ lock = p /\ r \in Records
  BY ZenonT(30), <1>1, AtFacts
<1>3. HostAfterVerb
  BY ZenonT(30), <1>1, <1>2, CallEffect DEF VmVerbs, Records
<1>4. Working(job[p].op, "start_verify", job[p].cell, r)
  BY ZenonT(30), <1>2 DEF Working, Creating, Switching, Destroying
<1> QED
  BY SMTT(30), <1>1, <1>2, <1>3, <1>4, VerbGo, VerbReturn DEF Labels

\* stop_vm, in stop_cell and in destroy.
LEMMA StopVmInv ==
  ASSUME IInv, NEW p \in Processes, StopVm(p)
  PROVE  IInv'
<1> DEFINE r == job[p].rec
<1>1. /\ At(p, "stop_vm") /\ UNCHANGED <<cell, aside>>
      /\ \/ /\ Accepts("stop_vm", job[p].cell, r.id, job[p].seen)
            /\ Effect("stop_vm", job[p].cell, r.id) \/ LeftPaused("stop_vm", r.id)
         \/ UNCHANGED host
      /\ \/ job[p].op = "stop" /\ Go(p, "stop_verify")
         \/ job[p].op # "stop" /\ Go(p, "reinspect")
         \/ Return(p)
  BY ZenonT(30) DEF StopVm, Call
<1>2. Working(job[p].op, "stop_vm", job[p].cell, r) /\ lock = p /\ r \in Records
  BY ZenonT(30), <1>1, AtFacts
<1>3. HostAfterVerb
  BY ZenonT(30), <1>1, <1>2, CallEffect DEF VmVerbs, Records
<1>4. /\ job[p].op = "stop" => Working(job[p].op, "stop_verify", job[p].cell, r)
      /\ job[p].op # "stop" => Working(job[p].op, "reinspect", job[p].cell, r)
  BY ZenonT(30), <1>2 DEF Working, Creating, Switching, Destroying
<1> QED
  BY ZenonT(30), <1>1, <1>2, <1>3, <1>4, VerbGo, VerbReturn DEF Labels

\* remove_vm, in destroy.
LEMMA RemoveVmInv ==
  ASSUME IInv, NEW p \in Processes, RemoveVm(p)
  PROVE  IInv'
<1> DEFINE r == job[p].rec
<1>1. /\ At(p, "remove_vm") /\ UNCHANGED <<cell, aside>>
      /\ \/ /\ Accepts("remove_vm", job[p].cell, r.id, job[p].seen)
            /\ Effect("remove_vm", job[p].cell, r.id) \/ LeftPaused("remove_vm", r.id)
         \/ UNCHANGED host
      /\ Go(p, "verify_removed") \/ Return(p)
  BY SMTT(30) DEF RemoveVm, Call
<1>2. Working(job[p].op, "remove_vm", job[p].cell, r) /\ lock = p /\ r \in Records
  BY ZenonT(30), <1>1, AtFacts
<1>3. HostAfterVerb
  BY ZenonT(30), <1>1, <1>2, CallEffect DEF VmVerbs, Records
<1>4. Working(job[p].op, "verify_removed", job[p].cell, r)
  BY ZenonT(30), <1>2 DEF Working, Creating, Switching, Destroying
<1> QED
  BY SMTT(30), <1>1, <1>2, <1>3, <1>4, VerbGo, VerbReturn DEF Labels

\* create_overlay, for a cell without a VM.
LEMMA CreateOverlayInv ==
  ASSUME IInv, NEW p \in Processes, CreateOverlay(p)
  PROVE  IInv'
<1> DEFINE c == job[p].cell
           op == job[p].op
           r == job[p].rec
<1>1. /\ At(p, "create_overlay") /\ UNCHANGED <<cell, aside>>
      /\ Go(p, "save_overlay") \/ Go(p, "fail_record")
      /\ \/ runtime' = [runtime EXCEPT ![c] = "overlay"] /\ UNCHANGED <<vms, used>>
         \/ UNCHANGED host
  BY SMTT(30) DEF CreateOverlay, Call, Effect, LeftPaused
<1>2. Working(op, "create_overlay", c, r) /\ lock = p /\ r \in Records
  BY ZenonT(30), <1>1, AtFacts
<1>3. c \in Cells /\ cell[c].id = NoId /\ cell[c].state = "Creating"
  BY ZenonT(30), <1>2 DEF Working, Creating, Unidentified
<1>4. PICK l \in {"save_overlay", "fail_record"} : Go(p, l)
  BY SMTT(30), <1>1
<1>5. Working(op, l, c, r) /\ l \in Labels /\ l # "idle"
  BY ZenonT(30), <1>2 DEF Working, Creating, Switching, Destroying, Labels
<1>6. CASE UNCHANGED host
  BY SMTT(30), <1>1, <1>2, <1>4, <1>5, <1>6, PureGo
<1>7. CASE runtime' = [runtime EXCEPT ![c] = "overlay"] /\ UNCHANGED <<vms, used>>
  <2>1. RuntimeChange(c, "overlay")
    BY <1>3, <1>7, Zenon DEF RuntimeChange, Runtimes
  <2>2. UNCHANGED <<cell, orphans, ttl, inflight, drift>>
    BY SMTT(30), <1>1 DEF aside
  <2>3. Works(p)'
    BY ZenonT(30), <1>2, <1>4, <1>5, <2>1, <2>2, GoStep, RuntimeChangeWorking DEF Works
  <2>4. TypeOK'
    BY ZenonT(30), <1>2, <1>4, <1>5, <2>1, <2>2, GoStep, RuntimeChangeHost DEF IInv, TypeOK, RuntimeChange
  <2> QED
    BY ZenonT(30), <1>2, <1>4, <1>5, <2>1, <2>2, <2>3, <2>4, GoStep, RuntimeChangeHost DEF IInv
<1> QED
  BY SMTT(30), <1>1, <1>6, <1>7

\* create_vm: no other VM and no delayed create of this cell exists, so the
\* new id is the only one the next save has to record.
LEMMA CreateVmInv ==
  ASSUME IInv, NEW p \in Processes, CreateVm(p)
  PROVE  IInv'
<1> DEFINE c == job[p].cell
           op == job[p].op
           r == job[p].rec
<1>1. PICK v \in VmIds :
        Call(p, "create_vm", v, GoWith(p, "save_id", [r EXCEPT !.id = v], NoVm),
             Go(p, "fail_record"))
  BY SMTT(30) DEF CreateVm
<1> DEFINE n == [r EXCEPT !.id = v]
<1>2. /\ At(p, "create_vm") /\ UNCHANGED <<cell, aside>>
      /\ \/ /\ RuntimePins(c) /\ v \in VmIds \ used
            /\ vms' = [vms EXCEPT ![v] = CreatedVm(c)]
            /\ used' = used \cup {v} /\ UNCHANGED runtime
            /\ GoWith(p, "save_id", n, NoVm) \/ Go(p, "fail_record")
         \/ UNCHANGED host /\ Go(p, "fail_record")
  BY <1>1, Zenon DEF CreateVm, Call, Accepts, Effect, LeftPaused
<1>3. Working(op, "create_vm", c, r) /\ lock = p /\ r \in Records
  BY SMTT(30), <1>2, AtFacts
<1>4. /\ c \in Cells /\ r = cell[c] /\ Unidentified(cell[c], "OverlayCreated")
      /\ NoVmOf(c) /\ NoCreateOrphan(c) /\ op = "create"
  BY ZenonT(30), <1>3 DEF Working, Creating
<1>5. Working(op, "fail_record", c, r) /\ "fail_record" \in Labels
  BY ZenonT(30), <1>3 DEF Working, Creating, Switching, Destroying, Labels
<1>6. CASE UNCHANGED host /\ Go(p, "fail_record")
  BY SMTT(30), <1>2, <1>3, <1>5, <1>6, PureGo
<1>7. CASE /\ RuntimePins(c) /\ v \in VmIds \ used
           /\ vms' = [vms EXCEPT ![v] = CreatedVm(c)]
           /\ used' = used \cup {v} /\ UNCHANGED runtime
           /\ GoWith(p, "save_id", n, NoVm) \/ Go(p, "fail_record")
  <2>1. VmCreation(c, v)
    BY <1>4, <1>7, Zenon DEF VmCreation, Unidentified
  <2>2. UNCHANGED <<cell, orphans, ttl, inflight, drift>>
    BY SMTT(30), <1>2 DEF aside
  <2>3. /\ HostInv'
        /\ job' \in [Processes -> Jobs] /\ lock' \in Processes \cup {NoProcess} => TypeOK'
    BY ZenonT(30), <2>1, <2>2, VmCreationHost DEF IInv, TypeOK, VmCreation
  <2>4. CASE Go(p, "fail_record")
    <3>1. Works(p)'
      BY ZenonT(30), <1>3, <1>5, <2>1, <2>2, <2>4, GoStep, VmCreationWorking DEF Works
    <3> QED
      BY ZenonT(30), <1>3, <1>5, <2>3, <2>4, <3>1, GoStep DEF IInv
  <2>5. CASE GoWith(p, "save_id", n, NoVm)
    <3>1. n \in Records /\ n.id = v /\ n.phase = "OverlayCreated" /\ n.state = "Creating"
      BY <1>3, <1>4, Zenon DEF Records, Unidentified
    <3>2. "save_id" \in Labels
      BY SMTT(30) DEF Labels
    <3> HIDE DEF n
    <3>3. /\ job'[p].op = "create" /\ job'[p].cell = c /\ job'[p].pc = "save_id"
          /\ job'[p].rec = n
      BY ZenonT(30), <1>3, <1>4, <2>5, <3>1, <3>2, GoWithStep
    <3>4. \A w \in VmIds : vms'[w] # NoVm /\ vms'[w].origin = c => w = v
      BY ZenonT(30), <1>4, <2>1 DEF VmCreation, NoVmOf, IInv, TypeOK
    <3>5. /\ runtime'[c] \in {"prepared", "overlay"} /\ v \in used'
          /\ Unidentified(cell'[c], "OverlayCreated")
          /\ \A o \in orphans' : o.verb \in {"create_overlay", "create_vm"} => o.cell # c
      BY ZenonT(30), <1>4, <1>7, <2>2 DEF RuntimePins, NoCreateOrphan
    <3>6. Works(p)'
      BY ZenonT(30), <1>4, <3>1, <3>3, <3>4, <3>5 DEF Works, Working, Creating, Switching, Destroying,
                                          RuntimePins, NoCreateOrphan
    <3> QED
      BY ZenonT(30), <1>3, <2>3, <2>5, <3>1, <3>2, <3>6, GoWithStep DEF IInv
  <2> QED
    BY SMTT(30), <1>7, <2>4, <2>5
<1> QED
  BY <1>2, <1>6, <1>7, Zenon

\* remove_cell_runtime runs when the recorded VM is gone.
LEMMA RemoveRuntimeInv ==
  ASSUME IInv, NEW p \in Processes, RemoveRuntime(p)
  PROVE  IInv'
<1> DEFINE c == job[p].cell
           op == job[p].op
           r == job[p].rec
<1>1. /\ At(p, "remove_runtime") /\ UNCHANGED <<cell, vms, used, aside>>
      /\ \/ runtime' = [runtime EXCEPT ![c] = "absent"] /\ Go(p, "save_destroyed")
         \/ /\ \E x \in {"prepared", "partial"} : runtime' = [runtime EXCEPT ![c] = x]
            /\ Return(p)
         \/ UNCHANGED runtime /\ Return(p)
  BY SMTT(30) DEF RemoveRuntime
<1>2. Working(op, "remove_runtime", c, r) /\ lock = p /\ r \in Records
  BY SMTT(30), <1>1, AtFacts
<1>3. /\ c \in Cells /\ cell[c].id # NoId /\ cell[c].state # "Destroyed"
      /\ vms[cell[c].id] = NoVm /\ r = cell[c]
  BY ZenonT(30), <1>2 DEF Working, Destroying
<1>4. UNCHANGED <<cell, vms, used, orphans, ttl, inflight, drift>>
  BY SMTT(30), <1>1 DEF aside
<1>5. ASSUME NEW x \in Runtimes, runtime' = [runtime EXCEPT ![c] = x]
      PROVE  /\ RuntimeChange(c, x) /\ HostInv'
             /\ job' \in [Processes -> Jobs] /\ lock' \in Processes \cup {NoProcess}
                  => TypeOK'
  <2>1. RuntimeChange(c, x)
    BY ZenonT(30), <1>3, <1>4, <1>5 DEF RuntimeChange
  <2> QED
    BY SMTT(30), <1>4, <2>1, RuntimeChangeHost DEF IInv, TypeOK
<1>6. CASE runtime' = [runtime EXCEPT ![c] = "absent"] /\ Go(p, "save_destroyed")
  <2>1. "absent" \in Runtimes /\ "save_destroyed" \in Labels
    BY SMTT(30) DEF Runtimes, Labels
  <2>2. runtime'[c] = "absent"
    BY ZenonT(30), <1>3, <1>6 DEF IInv, TypeOK
  <2>3. /\ job'[p].op = op /\ job'[p].cell = c /\ job'[p].pc = "save_destroyed"
        /\ job'[p].rec = r
    BY SMTT(90), <1>2, <1>6, <2>1, GoStep
  <2>4. Works(p)'
    BY ZenonT(30), <1>2, <1>3, <1>4, <2>2, <2>3 DEF Works, Working, Creating, Switching, Destroying,
                                        NoCreateOrphan
  <2> QED
    BY ZenonT(30), <1>2, <1>5, <1>6, <2>1, <2>4, GoStep DEF IInv
<1>7. ASSUME NEW x \in {"prepared", "partial"}, runtime' = [runtime EXCEPT ![c] = x],
             Return(p)
      PROVE  IInv'
  BY ZenonT(30), <1>2, <1>5, <1>7, ReturnStep DEF IInv, Runtimes
<1>8. CASE UNCHANGED runtime /\ Return(p)
  BY <1>1, <1>2, <1>8, PureReturn, Zenon DEF host
<1> QED
  BY SMTT(30), <1>1, <1>6, <1>7, <1>8
=============================================================================
