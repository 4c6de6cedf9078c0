-------------------------- MODULE CellEngineProofs --------------------------
(***************************************************************************)
(* Crashes and the environment keep the invariant of CellEngine; with the  *)
(* steps of CellEngineSteps, the theorems about it, for any number of cells,*)
(* processes, provider ids, interferences and delayed verbs.  Then what a  *)
(* step does to the host, the manifests and the processes, and with it     *)
(* whose VM a verb may touch.                                              *)
(***************************************************************************)
EXTENDS CellEngineSteps

\* A step of the environment leaves the processes where they are.
LEMMA BystanderStep ==
  ASSUME IInv, UNCHANGED <<lock, job>>,
         \A q \in Processes : job[q] # Idle => Works(q)'
  PROVE  /\ LockInv' /\ ControlInv'
         /\ job' \in [Processes -> Jobs] /\ lock' \in Processes \cup {NoProcess}
BY Zenon DEF IInv, TypeOK, LockInv, ControlInv

\* Facts about a process that is inside an operation.
LEMMA BusyFacts ==
  ASSUME IInv, NEW q \in Processes, job[q] # Idle
  PROVE  /\ Working(job[q].op, job[q].pc, job[q].cell, job[q].rec)
         /\ job[q].rec \in Records
BY Zenon DEF IInv, ControlInv, Works, TypeOK, Jobs

\* Nothing depends on a delayed verb that is dropped.
LEMMA FewerOrphans ==
  ASSUME IInv, UNCHANGED <<cell, host>>, orphans' \subseteq orphans
  PROVE  /\ HostInv'
         /\ \A op, l, c, r : Working(op, l, c, r) => Working(op, l, c, r)'
<1> USE DEF host
<1>1. HostInv'
  BY DEF IInv, HostInv, IdsInv, FreshInv, OrphanInv, ManifestConsistent,
         EveryVmAccountedFor, TombstoneMeansReleased, RuntimeOutlivesVm,
         NoVmOf, NoCreateOrphan, RuntimePins
<1>2. ASSUME NEW op, NEW l, NEW c, NEW r, Working(op, l, c, r)
      PROVE  Working(op, l, c, r)'
  <2>1. Creating(op, l, c, r)'
    BY <1>2, Zenon DEF Working, Creating, NoVmOf, NoCreateOrphan, RuntimePins, Unidentified
  <2>2. Switching(op, l, c, r)' /\ Destroying(op, l, c, r)'
    BY <1>2, Zenon DEF Working, Switching, Destroying
  <2> QED
    BY SMTT(30), <1>2, <2>1, <2>2 DEF Working
<1> QED
  BY SMTT(30), <1>1, <1>2

\* Time passes.
LEMMA ExpireInv ==
  ASSUME IInv, NEW c \in Cells, Expire(c)
  PROVE  IInv'
<1>1. UNCHANGED <<lock, job, cell, host, orphans, inflight, drift>>
  BY Zenon DEF Expire
<1>2. \A q \in Processes : job[q] # Idle => Works(q)'
  BY <1>1, BusyFacts, FewerOrphans, Zenon DEF Works
<1>3. ttl' \in [Cells -> {"none", "live", "expired"}]
  BY Zenon DEF IInv, TypeOK, Expire
<1>4. TypeOK'
  BY <1>1, <1>3, Zenon DEF IInv, TypeOK, host
<1> QED
  BY <1>1, <1>2, <1>4, BystanderStep, FewerOrphans, Zenon DEF IInv

\* Guest operations come and go.
LEMMA InflightInv ==
  ASSUME IInv, inflight' \in SUBSET Cells,
         UNCHANGED <<lock, job, cell, host, ttl, orphans, drift>>
  PROVE  IInv'
<1>1. \A q \in Processes : job[q] # Idle => Works(q)'
  BY BusyFacts, FewerOrphans, Zenon DEF Works
<1>2. TypeOK'
  BY Zenon DEF IInv, TypeOK, host
<1> QED
  BY <1>1, <1>2, BystanderStep, FewerOrphans, Zenon DEF IInv

\* A guest operation is left nonterminal.
LEMMA GuestOperationInterruptedInv ==
  ASSUME IInv, NEW c \in Cells, GuestOperationInterrupted(c)
  PROVE  IInv'
<1>1. /\ inflight' \in SUBSET Cells
      /\ UNCHANGED <<lock, job, cell, host, ttl, orphans, drift>>
  BY Zenon DEF GuestOperationInterrupted, IInv, TypeOK
<1> QED
  BY <1>1, InflightInv, Zenon

\* A guest operation is reconciled.
LEMMA GuestOperationReconciledInv ==
  ASSUME IInv, NEW c \in Cells, GuestOperationReconciled(c)
  PROVE  IInv'
<1>1. /\ inflight' \in SUBSET Cells
      /\ UNCHANGED <<lock, job, cell, host, ttl, orphans, drift>>
  BY Zenon DEF GuestOperationReconciled, IInv, TypeOK
<1> QED
  BY <1>1, InflightInv, Zenon

\* A crash leaves a create verb behind only for a cell in quarantine.
LEMMA CrashInv ==
  ASSUME IInv, NEW p \in Processes, Crash(p)
  PROVE  IInv'
<1> DEFINE o == [verb |-> job[p].pc, cell |-> job[p].cell, id |-> job[p].rec.id,
                 seen |-> job[p].seen]
<1>1. /\ lock = p /\ lock' = NoProcess /\ job' = [job EXCEPT ![p] = Idle]
      /\ UNCHANGED <<cell, host, ttl, inflight, drift>>
      /\ orphans' = orphans \/ (job[p].pc \in Verbs /\ orphans' = orphans \cup {o})
  BY Zenon DEF Crash
<1>2. job \in [Processes -> Jobs] /\ job[p] # Idle
  BY <1>1, Zenon DEF IInv, TypeOK, LockInv
<1>3. Idle \in Jobs
  BY Zenon DEF Idle, Jobs, NoRecord, Records, States, Phases, Labels
<1>4. \A q \in Processes : job'[q] = Idle
  BY SMTT(30), <1>1, <1>2 DEF IInv, LockInv
<1>5. LockInv' /\ ControlInv'
  BY <1>1, <1>4, DistinctAssumption, Zenon DEF LockInv, ControlInv, Idle
<1>6. Working(job[p].op, job[p].pc, job[p].cell, job[p].rec) /\ job[p].rec \in Records
  BY SMTT(30), <1>2, BusyFacts
<1>7. ASSUME job[p].pc \in Verbs
      PROVE  /\ job[p].cell \in Cells
             /\ job[p].rec = cell[job[p].cell]
  BY SMTT(30), <1>6, <1>7 DEF Working, Verbs
<1>8. ASSUME job[p].pc \in {"create_overlay", "create_vm"}
      PROVE  /\ cell[job[p].cell].id = NoId
             /\ cell[job[p].cell].state = "Creating"
             /\ job[p].pc = "create_vm" => cell[job[p].cell].phase = "OverlayCreated"
  BY <1>6, <1>7, <1>8, SMTT(30) DEF Working, Creating, Unidentified, Verbs
<1>9. HostInv'
  <2> USE DEF host
  <2>1. ASSUME NEW q \in orphans', q.verb \in {"create_overlay", "create_vm"}
        PROVE  /\ cell[q.cell].id = NoId
               /\ cell[q.cell].state \in {"Creating", "Failed"}
               /\ q.verb = "create_vm" => cell[q.cell].phase = "OverlayCreated"
    <3>1. CASE q \in orphans
      BY SMTT(30), <2>1, <3>1 DEF IInv, HostInv, OrphanInv
    <3>2. CASE q = o
      <4>1. q.verb = job[p].pc /\ q.cell = job[p].cell
        BY SMTT(30), <3>2
      <4> QED
        BY SMTT(30), <1>8, <2>1, <4>1
    <3> QED
      BY <1>1, <3>1, <3>2, Zenon
  <2> HIDE DEF o
  <2>2. OrphanInv'
    BY SMTT(30), <1>1, <2>1 DEF OrphanInv
  <2>5. FreshInv'
    <3> SUFFICES ASSUME NEW c \in Cells, cell[c] = NoRecord
                 PROVE  NoVmOf(c) /\ NoCreateOrphan(c)'
      BY <1>1, Zenon DEF FreshInv, NoVmOf
    <3>1. NoVmOf(c)
      BY Zenon DEF IInv, HostInv, FreshInv
    <3>2. cell[c].state = "Absent"
      BY DEF NoRecord
    <3>3. NoCreateOrphan(c)'
      BY SMTT(30), <2>1, <3>2 DEF NoCreateOrphan
    <3> QED
      BY SMTT(30), <3>1, <3>3
  <2>3. IdsInv' /\ ManifestConsistent' /\ EveryVmAccountedFor'
    BY SMTT(30), <1>1 DEF IInv, HostInv, IdsInv, ManifestConsistent, EveryVmAccountedFor
  <2>4. TombstoneMeansReleased' /\ RuntimeOutlivesVm'
    BY SMTT(30), <1>1 DEF IInv, HostInv, TombstoneMeansReleased, RuntimeOutlivesVm, RuntimePins
  <2> QED
    BY SMTT(30), <2>2, <2>3, <2>4, <2>5 DEF HostInv
<1>10. TypeOK'
  <2>1. job[p].pc \in Verbs =>
          o \in [verb : Verbs, cell : Cells, id : VmIds \cup {NoId}, seen : Vms \cup {NoVm}]
    BY <1>2, <1>7, Zenon DEF Jobs, Records
  <2> QED
    BY SMTT(30), <1>1, <1>2, <1>3, <2>1 DEF IInv, TypeOK, host
<1> QED
  BY <1>5, <1>9, <1>10, Zenon DEF IInv

\* A delayed verb acts on a VM it can still prove, on the overlay or the new
\* VM of a cell in quarantine, or not at all.
LEMMA OrphanVerbInv ==
  ASSUME IInv, NEW o \in orphans, OrphanVerb(o)
  PROVE  IInv'
<1>1. /\ UNCHANGED <<lock, job, cell, ttl, inflight, drift>>
      /\ orphans' \subseteq orphans
  BY Zenon DEF OrphanVerb
<1>2. /\ o.verb \in Verbs /\ o.cell \in Cells /\ o.id \in VmIds \cup {NoId}
      /\ orphans' \in SUBSET [verb : Verbs, cell : Cells, id : VmIds \cup {NoId},
                              seen : Vms \cup {NoVm}]
  BY SMTT(30), <1>1 DEF IInv, TypeOK
<1>3. CASE UNCHANGED host
  <2>1. \A q \in Processes : job[q] # Idle => Works(q)'
    BY SMTT(30), <1>1, <1>3, BusyFacts, FewerOrphans DEF Works
  <2>2. TypeOK'
    BY SMTT(30), <1>1, <1>2, <1>3 DEF IInv, TypeOK, host
  <2> QED
    BY SMTT(30), <1>1, <1>3, <2>1, <2>2, BystanderStep, FewerOrphans DEF IInv
<1>4. CASE o.verb \in VmVerbs /\ ~ UNCHANGED host
  <2>1. Accepts(o.verb, o.cell, o.id, o.seen) /\ Effect(o.verb, o.cell, o.id)
    BY <1>4, Zenon DEF OrphanVerb, VmVerbs
  <2>2. PICK x : VmChange(o.id, x)
    BY SMTT(30), <1>2, <1>4, <2>1, VerbEffect
  <2>3. \A q \in Processes : job[q] # Idle => Works(q)'
    BY SMTT(30), <1>1, <2>2, BusyFacts, VmChangeWorking DEF Works
  <2>4. HostInv' /\ TypeOK'
    BY ZenonT(30), <1>1, <1>2, <2>2, VmChangeHost DEF IInv, TypeOK, VmChange
  <2> QED
    BY SMTT(30), <1>1, <2>3, <2>4, BystanderStep DEF IInv
<1>5. CASE o.verb = "create_vm" /\ ~ UNCHANGED host
  <2>1. PICK v \in VmIds : Effect("create_vm", o.cell, v)
    BY SMTT(30), <1>5 DEF OrphanVerb
  <2>2. VmCreation(o.cell, v)
    BY SMTT(30), <1>2, <1>5, <2>1 DEF Effect, VmCreation, IInv, HostInv, OrphanInv
  <2>3. ASSUME NEW q \in Processes, job[q] # Idle
        PROVE  Works(q)'
    <3>1. /\ Working(job[q].op, job[q].pc, job[q].cell, job[q].rec)
          /\ job[q].rec \in Records
      BY SMTT(30), <2>3, BusyFacts
    <3>2. job[q].op = "create" => job[q].cell # o.cell
      BY SMTT(90), <1>5, <3>1 DEF Working, Creating, NoCreateOrphan
    <3> QED
      BY SMTT(30), <1>1, <2>2, <3>1, <3>2, VmCreationWorking DEF Works
  <2>4. HostInv' /\ TypeOK'
    BY ZenonT(30), <1>1, <1>2, <2>2, VmCreationHost DEF IInv, TypeOK, VmCreation
  <2> QED
    BY SMTT(30), <1>1, <2>3, <2>4, BystanderStep DEF IInv
<1>6. CASE o.verb = "create_overlay" /\ ~ UNCHANGED host
  <2>1. Effect("create_overlay", o.cell, o.id)
    BY SMTT(30), <1>6 DEF OrphanVerb
  <2>2. cell[o.cell].id = NoId /\ cell[o.cell].state # "Destroyed"
    BY <1>6, Zenon DEF IInv, HostInv, OrphanInv
  <2>3. RuntimeChange(o.cell, "overlay")
    BY SMTT(30), <1>2, <2>1, <2>2 DEF Effect, RuntimeChange, Runtimes
  <2>4. ASSUME NEW q \in Processes, job[q] # Idle
        PROVE  Works(q)'
    <3>1. /\ Working(job[q].op, job[q].pc, job[q].cell, job[q].rec)
          /\ job[q].rec \in Records
      BY SMTT(30), <2>4, BusyFacts
    <3>2. job[q].pc = "save_id" => job[q].cell # o.cell
      BY SMTT(90), <1>6, <3>1 DEF Working, Creating, NoCreateOrphan
    <3>3. job[q].pc = "save_destroyed" => job[q].cell # o.cell
      BY SMTT(90), <2>2, <3>1 DEF Working, Destroying
    <3> QED
      BY SMTT(90), <1>1, <2>3, <3>1, <3>2, <3>3, RuntimeChangeWorking DEF Works
  <2>5. HostInv' /\ TypeOK'
    BY ZenonT(30), <1>1, <1>2, <2>3, RuntimeChangeHost DEF IInv, TypeOK, RuntimeChange
  <2> QED
    BY SMTT(30), <1>1, <2>4, <2>5, BystanderStep DEF IInv
<1> QED
  BY <1>2, <1>3, <1>4, <1>5, <1>6, Zenon DEF Verbs, VmVerbs

\* A VM made by somebody else belongs to no cell.
LEMMA ForeignVmInv ==
  ASSUME IInv, NEW v \in VmIds, v \notin used, NEW vm \in Vms, vm.origin = Foreign,
         vms' = [vms EXCEPT ![v] = vm], used' = used \cup {v},
         UNCHANGED <<cell, runtime, orphans>>
  PROVE  /\ HostInv' /\ vms' \in [VmIds -> Vms \cup {NoVm}]
         /\ \A op, l, c : \A r \in Records :
              Working(op, l, c, r) => Working(op, l, c, r)'
<1>1. vms \in [VmIds -> Vms \cup {NoVm}]
  BY Zenon DEF IInv, TypeOK
<1>2. /\ vms'[v] = vm /\ vms'[v].origin \notin Cells
      /\ \A w \in VmIds \ {v} : vms'[w] = vms[w]
  BY SMTT(30), <1>1, DistinctAssumption
<1>3. vms' \in [VmIds -> Vms \cup {NoVm}]
  BY <1>1, Zenon
<1>4. /\ IdsInv'
      /\ FreshInv'
      /\ OrphanInv' /\ ManifestConsistent'
  <2>1. IdsInv'
    BY <1>2, Zenon DEF IInv, HostInv, IdsInv
  <2>2. FreshInv'
    BY SMTT(30), <1>2 DEF IInv, HostInv, FreshInv, NoVmOf, NoCreateOrphan
  <2>3. OrphanInv' /\ ManifestConsistent'
    BY Zenon DEF IInv, HostInv, OrphanInv, ManifestConsistent
  <2> QED
    BY SMTT(30), <2>1, <2>2, <2>3
<1>5. EveryVmAccountedFor' /\ TombstoneMeansReleased'
  <2>1. EveryVmAccountedFor'
    BY SMTT(30), <1>2 DEF IInv, HostInv, EveryVmAccountedFor
  <2>2. TombstoneMeansReleased'
    BY SMTT(30), <1>2 DEF IInv, HostInv, TombstoneMeansReleased
  <2> QED
    BY SMTT(30), <2>1, <2>2
<1>6. RuntimeOutlivesVm'
  <2> SUFFICES ASSUME NEW d \in Cells, cell[d].id # NoId, vms'[cell[d].id] # NoVm
               PROVE  RuntimePins(d)
    BY Zenon DEF RuntimeOutlivesVm, RuntimePins
  <2>1. cell[d].id \in VmIds /\ cell[d].id # v
    BY Zenon DEF IInv, TypeOK, Records, HostInv, IdsInv
  <2> QED
    BY SMTT(30), <1>2, <2>1 DEF IInv, HostInv, RuntimeOutlivesVm
<1>7. ASSUME NEW op, NEW l, NEW c, NEW r \in Records, Working(op, l, c, r)
      PROVE  Working(op, l, c, r)'
  <2>1. op = "create" /\ l # "gc_next" => c \in Cells
    BY SMTT(30), <1>7 DEF Working
  <2>2. Creating(op, l, c, r)'
    BY SMTT(30), <1>2, <1>7, <2>1 DEF Working, Creating, NoVmOf, NoCreateOrphan, RuntimePins,
                            Unidentified
  <2>3. Switching(op, l, c, r)'
    BY <1>7, Zenon DEF Working, Switching
  <2>4. ASSUME l \in {"verify_absent", "remove_runtime", "save_destroyed"}
        PROVE  vms'[r.id] = NoVm
    <3>1. c \in Cells /\ r = cell[c] /\ r.id # NoId /\ vms[r.id] = NoVm
      BY SMTT(30), <1>7, <2>4 DEF Working, Destroying
    <3>2. r.id \in VmIds /\ r.id # v
      BY SMTT(30), <3>1 DEF Records, IInv, HostInv, IdsInv
    <3> QED
      BY SMTT(30), <1>2, <3>1, <3>2
  <2>5. Destroying(op, l, c, r)'
    BY <1>7, <2>4, SMTT(30) DEF Working, Destroying
  <2> QED
    BY SMTT(30), <1>7, <2>2, <2>3, <2>5 DEF Working
<1> QED
  BY SMTT(30), <1>3, <1>4, <1>5, <1>6, <1>7 DEF HostInv

\* Interference changes VMs, never their origin.
LEMMA InterfereInv ==
  ASSUME IInv, Interfere
  PROVE  IInv'
<1>1. /\ UNCHANGED <<lock, job, cell, runtime, ttl, inflight, orphans>>
      /\ drift' \in 0 .. MaxDrift
  BY BoundAssumption DEF Interfere, IInv, TypeOK
<1>2. PICK v \in VmIds :
        \/ /\ vms[v] # NoVm
           /\ \E vm \in Vms : /\ vm.origin = vms[v].origin
                              /\ vms' = [vms EXCEPT ![v] = vm]
           /\ UNCHANGED used
        \/ /\ vms[v] # NoVm
           /\ vms' = [vms EXCEPT ![v] = NoVm]
           /\ UNCHANGED used
        \/ /\ v \notin used
           /\ \E vm \in Vms : /\ vm.origin = Foreign
                              /\ vms' = [vms EXCEPT ![v] = vm]
           /\ used' = used \cup {v}
  BY Zenon DEF Interfere
<1>3. ASSUME NEW x, VmChange(v, x)
      PROVE  IInv'
  <2>1. \A q \in Processes : job[q] # Idle => Works(q)'
    BY SMTT(30), <1>1, <1>3, BusyFacts, VmChangeWorking DEF Works
  <2>2. HostInv' /\ TypeOK'
    BY ZenonT(30), <1>1, <1>3, VmChangeHost DEF IInv, TypeOK, VmChange
  <2> QED
    BY SMTT(30), <1>1, <2>1, <2>2, BystanderStep DEF IInv
<1>4. ASSUME v \notin used, NEW vm \in Vms, vm.origin = Foreign,
             vms' = [vms EXCEPT ![v] = vm], used' = used \cup {v}
      PROVE  IInv'
  <2>1. /\ HostInv' /\ vms' \in [VmIds -> Vms \cup {NoVm}]
        /\ \A op, l, c : \A r \in Records :
             Working(op, l, c, r) => Working(op, l, c, r)'
    BY ZenonT(30), <1>1, <1>4, ForeignVmInv
  <2>2. \A q \in Processes : job[q] # Idle => Works(q)'
    BY SMTT(30), <1>1, <2>1, BusyFacts DEF Works
  <2>3. TypeOK'
    BY SMTT(30), <1>1, <1>4, <2>1 DEF IInv, TypeOK
  <2> QED
    BY SMTT(30), <1>1, <2>1, <2>2, <2>3, BystanderStep DEF IInv
<1> QED
  BY SMTT(30), <1>1, <1>2, <1>3, <1>4 DEF VmChange

-----------------------------------------------------------------------------
(***************************************************************************)
(* Results                                                                 *)
(***************************************************************************)

\* The empty state root satisfies the invariant.
LEMMA InitInv == Init => IInv
<1> SUFFICES ASSUME Init PROVE IInv
  BY Zenon
<1>1. TypeOK
  <2>1. Idle \in Jobs /\ NoRecord \in Records
    BY ZenonT(30) DEF Idle, Jobs, NoRecord, Records, States, Phases, Labels
  <2> QED
    BY SMTT(30), <2>1, BoundAssumption DEF Init, TypeOK, Runtimes
<1>2. LockInv /\ ControlInv
  BY DistinctAssumption, Zenon DEF Init, LockInv, ControlInv
<1>3. \A c \in Cells : cell[c] = NoRecord /\ runtime[c] = "absent"
  BY Zenon DEF Init
<1>4. \A v \in VmIds : vms[v] = NoVm
  BY Zenon DEF Init
<1>5. HostInv
  <2>1. IdsInv /\ FreshInv /\ OrphanInv
    BY <1>3, <1>4, Zenon DEF Init, IdsInv, FreshInv, OrphanInv, NoVmOf, NoCreateOrphan, NoRecord
  <2>2. ManifestConsistent
    BY SMTT(30), <1>3 DEF ManifestConsistent, NoRecord
  <2>3. EveryVmAccountedFor /\ TombstoneMeansReleased /\ RuntimeOutlivesVm
    BY <1>3, <1>4 DEF EveryVmAccountedFor, TombstoneMeansReleased, RuntimeOutlivesVm,
                      NoRecord
  <2> QED
    BY SMTT(30), <2>1, <2>2, <2>3 DEF HostInv
<1> QED
  BY <1>1, <1>2, <1>5, Zenon DEF IInv

\* Every step of Next preserves the invariant.
LEMMA NextInv == IInv /\ [Next]_vars => IInv'
<1> SUFFICES ASSUME IInv, [Next]_vars PROVE IInv'
  BY Zenon
<1>1. ASSUME NEW p \in Processes, Begin(p)
      PROVE  IInv'
  BY SMTT(30), <1>1, CreateCellInv, StartCellInv, StopCellInv, DestroyCellInv, GcExpiredInv
     DEF Begin, DestroyCellForRun
<1>2. ASSUME NEW p \in Processes, CreateStep(p)
      PROVE  IInv'
  BY SMTT(30), <1>2, SaveIntentInv, PrepareRuntimeInv, CheckNameInv, CreateOverlayInv,
     SaveOverlayInv, CreateVmInv, SaveIdInv, InspectNewInv, SaveClaimedInv,
     ConfigureVmInv, SaveReadyInv, FailRecordInv
     DEF CreateStep
<1>3. ASSUME NEW p \in Processes, PowerStep(p)
      PROVE  IInv'
  BY SMTT(30), <1>3, StartInspectInv, StartVmInv, StartVerifyInv, SaveRunningInv,
     StopInspectInv, StopVerifyInv, SaveStoppedInv
     DEF PowerStep
<1>4. ASSUME NEW p \in Processes, DestroyStep(p)
      PROVE  IInv'
  BY SMTT(30), <1>4, GcNextInv, DestroyLoadInv, DestroyProveInv, SaveRecoveredInv,
     SaveDestroyingInv, ReinspectInv, RemoveVmInv, VerifyRemovedInv,
     VerifyAbsentInv, RemoveRuntimeInv, SaveDestroyedInv
     DEF DestroyStep
<1>5. ASSUME NEW p \in Processes, Step(p)
      PROVE  IInv'
  BY SMTT(30), <1>2, <1>3, <1>4, <1>5, ClaimVmInv, StopVmInv DEF Step
<1>6. ASSUME Environment
      PROVE  IInv'
  BY SMTT(30), <1>6, OrphanVerbInv, InterfereInv, ExpireInv, GuestOperationInterruptedInv,
     GuestOperationReconciledInv
     DEF Environment
<1>7. CASE UNCHANGED vars
  <2>1. /\ inflight' \in SUBSET Cells
        /\ UNCHANGED <<lock, job, cell, host, ttl, orphans, drift>>
    BY <1>7, Zenon DEF vars, host, IInv, TypeOK
  <2> QED
    BY SMTT(30), <2>1, InflightInv
<1> QED
  BY SMTT(30), <1>1, <1>5, <1>6, <1>7, ReturnErrorInv, CrashInv DEF Next

\* IInv holds throughout every behaviour: it is inductive.
THEOREM Invariance == Spec => []IInv
BY InitInv, NextInv, PTL DEF Spec

\* Every variable keeps its type: no step of the engine, of a delayed verb or
\* of the environment writes a malformed record, VM or job.
THEOREM TypeCorrect == Spec => []TypeOK
<1>1. IInv => TypeOK
  BY Zenon DEF IInv
<1> QED
  BY <1>1, Invariance, PTL

\* Only the lock holder works, and on the manifest as it is on disk: for any
\* number of processes, acquire_mutation_lock serialises the operations.
THEOREM LockSerialises == Spec => []LockedRecordIsCurrent
<1>1. IInv => LockedRecordIsCurrent
  <2> SUFFICES ASSUME IInv, NEW p \in Processes
               PROVE  /\ job[p].pc # "idle" => lock = p
                      /\ job[p].pc \notin {"idle", "gc_next", "save_intent", "save_id"} =>
                           job[p].rec = cell[job[p].cell]
    BY Zenon DEF LockedRecordIsCurrent
  <2>1. job[p].pc # "idle" => job[p] # Idle
    BY DEF Idle
  <2>2. job[p].pc # "idle" => lock = p
    BY <2>1, Zenon DEF IInv, LockInv
  <2>3. job[p].pc # "idle" => Works(p)
    BY SMTT(30), <2>1 DEF IInv, ControlInv
  <2> QED
    BY <2>2, <2>3, Zenon DEF Works, Working
<1> QED
  BY <1>1, Invariance, PTL

\* A tombstone written by destroy_cell_locked means that the cell's VM and its
\* runtime directory are gone, whatever crashed, failed or came late.
THEOREM TombstoneSound == Spec => []TombstoneMeansReleased
<1>1. IInv => TombstoneMeansReleased
  BY Zenon DEF IInv, HostInv
<1> QED
  BY <1>1, Invariance, PTL

\* No VM made by create_vm is ever leaked without a trace: its id is recorded
\* or its cell is in the quarantine that destroy_cell_locked refuses.
THEOREM NoVmLeaks == Spec => []EveryVmAccountedFor
<1>1. IInv => EveryVmAccountedFor
  BY Zenon DEF IInv, HostInv
<1> QED
  BY <1>1, Invariance, PTL

\* remove_cell_runtime never takes the disks of a VM that still exists.
THEOREM DisksOutliveVms == Spec => []RuntimeOutlivesVm
<1>1. IInv => RuntimeOutlivesVm
  BY Zenon DEF IInv, HostInv
<1> QED
  BY <1>1, Invariance, PTL

\* Every manifest that a crash can leave on disk is one destroy_cell_locked
\* and reconcile_record have a case for.
THEOREM ManifestsConsistent == Spec => []ManifestConsistent
<1>1. IInv => ManifestConsistent
  BY Zenon DEF IInv, HostInv
<1> QED
  BY <1>1, Invariance, PTL


-----------------------------------------------------------------------------
(***************************************************************************)
(* Durable progress is monotonic                                           *)
(***************************************************************************)

\* The manifest b may replace the manifest a.
Advances(a, b) ==
  /\ Rank(a.phase) <= Rank(b.phase)
  /\ a.id # NoId => b.id = a.id
  /\ a.state = "Destroyed" => b = a
  /\ Rank(a.phase) >= 6 => b.state \in {"Destroying", "Destroyed"}

\* The ranks of the phases.
LEMMA Ranks ==
  /\ Rank("None") = 0 /\ Rank("IntentRecorded") = 1 /\ Rank("OverlayCreated") = 2
  /\ Rank("ProviderObjectCreated") = 3 /\ Rank("ProviderObjectClaimed") = 4 /\ Rank("Ready") = 5
  /\ Rank("Destroying") = 6 /\ Rank("DestroyingProvisioning") = 6 /\ Rank("Destroyed") = 7
  BY Zenon DEF Rank

\* No manifest has a rank above the tombstone's, and the last ranks are those
\* of a destroy.
LEMMA RankBounds ==
  ASSUME IInv, NEW c \in Cells
  PROVE  /\ Rank(cell[c].phase) \in 0 .. 7
         /\ Rank(cell[c].phase) >= 6 <=> cell[c].state \in {"Destroying", "Destroyed"}
<1>1. cell[c] \in Records /\ cell[c].phase \in Phases
  BY Zenon DEF IInv, TypeOK, Records
<1>2. /\ cell[c].state = "Destroying" <=> cell[c].phase \in {"Destroying", "DestroyingProvisioning"}
      /\ cell[c].state = "Destroyed" <=> cell[c].phase = "Destroyed"
  BY Zenon DEF IInv, HostInv, ManifestConsistent
<1> QED
  BY SMTT(30), <1>1, <1>2, Ranks DEF Phases

\* A step that keeps the manifests, or replaces one by its successor.
LEMMA SaveAdvances ==
  ASSUME IInv, NEW c \in Cells, NEW r, cell' = [cell EXCEPT ![c] = r], Advances(cell[c], r)
  PROVE  \A d \in Cells : Advances(cell[d], cell'[d])
<1>1. cell'[c] = r /\ \A d \in Cells \ {c} : cell'[d] = cell[d]
  BY Zenon DEF IInv, TypeOK
<1>2. \A d \in Cells : Advances(cell[d], cell[d])
  BY SMTT(30), RankBounds DEF Advances
<1> QED
  BY <1>1, <1>2, Zenon

\* The saves of create.
LEMMA CreateAdvances ==
  ASSUME IInv, NEW p \in Processes,
         \/ SaveIntent(p) \/ SaveOverlay(p) \/ SaveId(p) \/ SaveClaimed(p) \/ SaveReady(p) \/ FailRecord(p)
  PROVE  \A d \in Cells : Advances(cell[d], cell'[d])
<1> DEFINE c == job[p].cell
           a == job[p].rec
<1>1. CASE SaveIntent(p)
  <2> DEFINE r == [a EXCEPT !.phase = "IntentRecorded"]
  <2>1. At(p, "save_intent") /\ Save(p, r)
    BY <1>1, Zenon DEF SaveIntent, SavePhase
  <2>2. c \in Cells /\ cell[c] = NoRecord /\ a \in Records
    BY SMTT(30), <2>1, AtFacts DEF Working, Creating
  <2>3. r.phase = "IntentRecorded"
    BY <2>2, Zenon DEF Records
  <2>4. Advances(cell[c], r)
    BY SMTT(30), <2>2, <2>3, Ranks DEF Advances, NoRecord
  <2> QED
    BY <2>1, <2>2, <2>4, SaveAdvances, Zenon DEF Save
<1>2. CASE SaveOverlay(p)
  <2> DEFINE r == [a EXCEPT !.phase = "OverlayCreated"]
  <2>1. At(p, "save_overlay") /\ Save(p, r)
    BY <1>2, Zenon DEF SaveOverlay, SavePhase
  <2>2. c \in Cells /\ cell[c] = a /\ a \in Records /\ Unidentified(a, "IntentRecorded")
    BY SMTT(30), <2>1, AtFacts DEF Working, Creating
  <2>3. r.phase = "OverlayCreated"
    BY <2>2, Zenon DEF Records
  <2>4. Advances(cell[c], r)
    BY SMTT(30), <2>2, <2>3, Ranks DEF Advances, Unidentified
  <2> QED
    BY <2>1, <2>2, <2>4, SaveAdvances, Zenon DEF Save
<1>3. CASE SaveId(p)
  <2> DEFINE r == [a EXCEPT !.phase = "ProviderObjectCreated"]
  <2>1. At(p, "save_id") /\ Save(p, r)
    BY <1>3, Zenon DEF SaveId, SavePhase
  <2>2. c \in Cells /\ a \in Records /\ Unidentified(cell[c], "OverlayCreated")
    BY SMTT(30), <2>1, AtFacts DEF Working, Creating
  <2>3. r.phase = "ProviderObjectCreated"
    BY <2>2, Zenon DEF Records
  <2>4. Advances(cell[c], r)
    BY SMTT(30), <2>2, <2>3, Ranks DEF Advances, Unidentified
  <2> QED
    BY <2>1, <2>2, <2>4, SaveAdvances, Zenon DEF Save
<1>4. CASE SaveClaimed(p)
  <2> DEFINE r == [a EXCEPT !.phase = "ProviderObjectClaimed"]
  <2>1. At(p, "save_claimed") /\ Save(p, r)
    BY <1>4, Zenon DEF SaveClaimed, SavePhase
  <2>2. /\ c \in Cells /\ cell[c] = a /\ a \in Records
        /\ a.state = "Creating" /\ a.phase = "ProviderObjectCreated"
    BY SMTT(30), <2>1, AtFacts DEF Working, Creating
  <2>3. r.phase = "ProviderObjectClaimed" /\ r.id = a.id
    BY <2>2, Zenon DEF Records
  <2>4. Advances(cell[c], r)
    BY SMTT(30), <2>2, <2>3, Ranks DEF Advances
  <2> QED
    BY <2>1, <2>2, <2>4, SaveAdvances, Zenon DEF Save
<1>5. CASE SaveReady(p)
  <2> DEFINE r == [a EXCEPT !.state = "Stopped", !.phase = "Ready"]
  <2>1. At(p, "save_ready") /\ Save(p, r)
    BY <1>5, Zenon DEF SaveReady, SaveLast
  <2>2. /\ c \in Cells /\ cell[c] = a /\ a \in Records
        /\ a.state = "Creating" /\ a.phase = "ProviderObjectClaimed"
    BY SMTT(30), <2>1, AtFacts DEF Working, Creating
  <2>3. r.phase = "Ready" /\ r.id = a.id
    BY <2>2, Zenon DEF Records
  <2>4. Advances(cell[c], r)
    BY SMTT(30), <2>2, <2>3, Ranks DEF Advances
  <2> QED
    BY <2>1, <2>2, <2>4, SaveAdvances, Zenon DEF Save
<1>6. CASE FailRecord(p)
  <2> DEFINE r == [a EXCEPT !.state = "Failed", !.phase = a.phase]
  <2>1. At(p, "fail_record") /\ Save(p, r)
    BY <1>6, Zenon DEF FailRecord, SaveLast
  <2>2. c \in Cells /\ cell[c] = a /\ a \in Records /\ a.state = "Creating"
    BY SMTT(30), <2>1, AtFacts DEF Working, Creating
  <2>3. r.phase = a.phase /\ r.id = a.id
    BY <2>2, Zenon DEF Records
  <2>4. Advances(cell[c], r)
    BY SMTT(30), <2>2, <2>3, RankBounds DEF Advances
  <2> QED
    BY <2>1, <2>2, <2>4, SaveAdvances, Zenon DEF Save
<1> QED
  BY <1>1, <1>2, <1>3, <1>4, <1>5, <1>6, Zenon

\* The saves of start and stop.
LEMMA SwitchAdvances ==
  ASSUME IInv, NEW p \in Processes, SaveRunning(p) \/ SaveStopped(p)
  PROVE  \A d \in Cells : Advances(cell[d], cell'[d])
<1>1. PICK s \in {"Running", "Stopped"}, l \in {"save_running", "save_stopped"} : SaveLast(p, l, s, "Ready")
  BY Zenon DEF SaveRunning, SaveStopped
<1> DEFINE c == job[p].cell
           a == job[p].rec
           r == [a EXCEPT !.state = s, !.phase = "Ready"]
<1>2. At(p, l) /\ Save(p, r)
  BY <1>1, Zenon DEF SaveLast
<1>3. c \in Cells /\ cell[c] = a /\ a \in Records /\ a.state \in {"Stopped", "Running"}
  BY SMTT(30), <1>2, AtFacts DEF Working, Switching
<1>4. a.phase = "Ready"
  BY SMTT(30), <1>3 DEF IInv, HostInv, ManifestConsistent
<1>5. r.phase = "Ready" /\ r.id = a.id
  BY <1>3, Zenon DEF Records
<1>6. Advances(cell[c], r)
  BY SMTT(30), <1>3, <1>4, <1>5, Ranks DEF Advances
<1> QED
  BY <1>2, <1>3, <1>6, SaveAdvances, Zenon DEF Save

\* The saves of destroy.
LEMMA DestroyAdvances ==
  ASSUME IInv, NEW p \in Processes, SaveRecovered(p) \/ SaveDestroying(p) \/ SaveDestroyed(p)
  PROVE  \A d \in Cells : Advances(cell[d], cell'[d])
<1> DEFINE c == job[p].cell
           a == job[p].rec
<1>1. CASE SaveRecovered(p)
  <2> DEFINE r == [a EXCEPT !.phase = "ProviderObjectClaimed"]
  <2>1. At(p, "save_recovered") /\ Save(p, r)
    BY <1>1, Zenon DEF SaveRecovered, SavePhase
  <2>2. c \in Cells /\ cell[c] = a /\ a \in Records /\ a.phase = "ProviderObjectCreated"
    BY SMTT(30), <2>1, AtFacts DEF Working, Destroying
  <2>3. a.state # "Destroyed"
    BY SMTT(30), <2>2 DEF IInv, HostInv, ManifestConsistent
  <2>4. r.phase = "ProviderObjectClaimed" /\ r.id = a.id
    BY <2>2, Zenon DEF Records
  <2>5. Advances(cell[c], r)
    BY SMTT(30), <2>2, <2>3, <2>4, Ranks DEF Advances
  <2> QED
    BY <2>1, <2>2, <2>5, SaveAdvances, Zenon DEF Save
<1>2. CASE SaveDestroying(p)
  <2>1. PICK phase \in {"Destroying", "DestroyingProvisioning"} :
          At(p, "save_destroying") /\ Save(p, [a EXCEPT !.state = "Destroying", !.phase = phase])
    BY <1>2, ZenonT(30) DEF SaveDestroying
  <2> DEFINE r == [a EXCEPT !.state = "Destroying", !.phase = phase]
  <2>2. /\ c \in Cells /\ cell[c] = a /\ a \in Records /\ a.state # "Destroyed"
        /\ a.phase \in {"ProviderObjectClaimed", "DestroyingProvisioning", "Ready", "Destroying"}
    BY SMTT(30), <2>1, AtFacts DEF Working, Destroying
  <2>3. r.phase = phase /\ r.id = a.id /\ r.state = "Destroying"
    BY <2>2, Zenon DEF Records
  <2>4. Advances(cell[c], r)
    BY SMTT(30), <2>2, <2>3, Ranks DEF Advances
  <2> QED
    BY <2>1, <2>2, <2>4, SaveAdvances, Zenon DEF Save
<1>3. CASE SaveDestroyed(p)
  <2> DEFINE r == [a EXCEPT !.state = "Destroyed", !.phase = "Destroyed"]
  <2>1. At(p, "save_destroyed") /\ Save(p, r)
    BY <1>3, Zenon DEF SaveDestroyed, SaveLast
  <2>2. c \in Cells /\ cell[c] = a /\ a \in Records /\ a.state # "Destroyed"
    BY SMTT(30), <2>1, AtFacts DEF Working, Destroying
  <2>3. r.phase = "Destroyed" /\ r.id = a.id /\ r.state = "Destroyed"
    BY <2>2, Zenon DEF Records
  <2>4. Advances(cell[c], r)
    BY SMTT(30), <2>2, <2>3, Ranks, RankBounds DEF Advances
  <2> QED
    BY <2>1, <2>2, <2>4, SaveAdvances, Zenon DEF Save
<1> QED
  BY <1>1, <1>2, <1>3, Zenon

\* Every other step leaves the manifests alone.
LEMMA OthersSaveNothing ==
  ASSUME IInv, UNCHANGED cell
  PROVE  \A d \in Cells : Advances(cell[d], cell'[d])
  BY SMTT(30), RankBounds DEF Advances


\* Only the save steps change a manifest.
LEMMA NextAdvances ==
  ASSUME IInv, [Next]_vars
  PROVE  \A d \in Cells : Advances(cell[d], cell'[d])
<1>1. ASSUME NEW p \in Processes, Begin(p) PROVE UNCHANGED cell
  BY Zenon, <1>1 DEF Begin, CreateCell, StartCell, StopCell, DestroyCell, DestroyCellForRun, GcExpired
<1>2. ASSUME NEW p \in Processes,
             \/ PrepareRuntime(p) \/ CheckName(p) \/ CreateOverlay(p) \/ CreateVm(p) \/ InspectNew(p)
             \/ ConfigureVm(p) \/ ClaimVm(p)
      PROVE  UNCHANGED cell
  BY Zenon, <1>2 DEF PrepareRuntime, CheckName, CreateOverlay, CreateVm, InspectNew, ConfigureVm, ClaimVm
<1>3. ASSUME NEW p \in Processes,
             StartInspect(p) \/ StartVm(p) \/ StartVerify(p) \/ StopInspect(p) \/ StopVerify(p) \/ StopVm(p)
      PROVE  UNCHANGED cell
  BY Zenon, <1>3 DEF StartInspect, StartVm, StartVerify, StopInspect, StopVerify, StopVm
<1>4. ASSUME NEW p \in Processes,
             \/ GcNext(p) \/ DestroyLoad(p) \/ DestroyProve(p) \/ Reinspect(p) \/ RemoveVm(p) \/ VerifyRemoved(p)
             \/ VerifyAbsent(p) \/ RemoveRuntime(p)
      PROVE  UNCHANGED cell
  BY Zenon, <1>4 DEF GcNext, DestroyLoad, DestroyProve, Reinspect, RemoveVm, VerifyRemoved, VerifyAbsent, RemoveRuntime
<1>5. ASSUME NEW p \in Processes, ReturnError(p) \/ Crash(p) PROVE UNCHANGED cell
  BY Zenon, <1>5 DEF ReturnError, Crash
<1>6. ASSUME Environment PROVE UNCHANGED cell
  BY Zenon, <1>6 DEF Environment, OrphanVerb, Interfere, Expire, GuestOperationInterrupted, GuestOperationReconciled
<1>7. ASSUME UNCHANGED vars PROVE UNCHANGED cell
  BY <1>7, Zenon DEF vars
<1>8. ASSUME NEW p \in Processes, Step(p) PROVE \A d \in Cells : Advances(cell[d], cell'[d])
  <2>1. CASE CreateStep(p)
    BY Zenon, <1>2, <2>1, CreateAdvances, OthersSaveNothing DEF CreateStep
  <2>2. CASE PowerStep(p)
    BY Zenon, <1>3, <2>2, SwitchAdvances, OthersSaveNothing DEF PowerStep
  <2>3. CASE DestroyStep(p)
    BY Zenon, <1>4, <2>3, DestroyAdvances, OthersSaveNothing DEF DestroyStep
  <2> QED
    BY Zenon, <1>2, <1>3, <1>8, <2>1, <2>2, <2>3, OthersSaveNothing DEF Step
<1> QED
  BY Zenon, <1>1, <1>5, <1>6, <1>7, <1>8, OthersSaveNothing DEF Next

\* No save of the engine, whatever crashed, was retried or came late before
\* it, moves a manifest back, replaces a recorded provider id or rewrites a
\* tombstone, for any numbers of cells and processes.
THEOREM ProgressIsDurable == Spec => ManifestNeverRegresses
<1>1. ASSUME IInv, [Next]_vars
      PROVE  [\A c \in Cells :
                /\ Rank(cell[c].phase) <= Rank(cell'[c].phase)
                /\ cell[c].id # NoId => cell'[c].id = cell[c].id
                /\ cell[c].state = "Destroyed" => cell'[c] = cell[c]
                /\ Rank(cell[c].phase) >= 6 => cell'[c].state \in {"Destroying", "Destroyed"}]_vars
  BY Zenon, <1>1, NextAdvances DEF Advances
<1> QED
  BY <1>1, Invariance, PTL DEF Spec, ManifestNeverRegresses

-----------------------------------------------------------------------------
(***************************************************************************)
(* Ownership                                                               *)
(***************************************************************************)

\* The phases of a cell that has been usable, and those of a claimed one.
Powered == {"Ready", "Destroying", "DestroyingProvisioning", "Destroyed"}

Claimed == Powered \cup {"ProviderObjectClaimed"}

\* A recorded id names a VM of the cell's own create, or no VM.
RecordedIsOwn ==
  \A c \in Cells : cell[c].id # NoId /\ vms[cell[c].id] # NoVm => vms[cell[c].id].origin = c

\* What was proved of the snapshot s before the verb was called.
Proved(verb, c, s) ==
  /\ verb = "start_vm" /\ s # NoVm => ProveOwnership(c, s)
  /\ verb = "remove_vm" /\ s # NoVm => s.power = "off"

\* What a process remembers of the VM it works on.
Secured(j) ==
  /\ j.pc = "save_id" /\ vms[j.rec.id] # NoVm => vms[j.rec.id].origin = j.cell
  /\ Proved(j.pc, j.cell, j.seen)

\* What holds of a delayed verb until it acts.
Delayed(o) ==
  /\ Proved(o.verb, o.cell, o.seen)
  /\ o.verb \in VmVerbs => o.id # NoId /\ o.id = cell[o.cell].id
  /\ o.verb = "start_vm" => cell[o.cell].phase \in Powered
  /\ o.verb = "remove_vm" => cell[o.cell].state \in {"Destroying", "Destroyed"}

OwnInv ==
  /\ RecordedIsOwn
  /\ \A p \in Processes : Secured(job[p])
  /\ \A o \in orphans : Delayed(o)

-----------------------------------------------------------------------------
(***************************************************************************)
(* What a verb does                                                        *)
(***************************************************************************)

\* The VM v, created for c and recorded by it, becomes x: it is marked,
\* configured, switched on or off, or removed.
Acts(c, v, x) ==
  /\ Own(c, v) /\ VmChange(v, x)
  /\ x = NoVm => cell[c].state = "Destroying" /\ vms[v].power = "off"
  /\ x # NoVm =>
       /\ x.name = vms[v].name
       /\ x.marker \in {vms[v].marker, c}
       /\ x.shape \in {vms[v].shape, "configured"}
       /\ x.power = vms[v].power \/ x.power = "off" \/ cell[c].phase \in Powered
       /\ x.power = "running" /\ vms[v].power # "running" => ProveOwnership(c, vms[v])

\* An accepted verb acts on the VM of its own cell.
LEMMA VerbActs ==
  ASSUME IInv, RecordedIsOwn, NEW verb \in VmVerbs, NEW c \in Cells, cell[c].id # NoId,
         NEW s \in Vms \cup {NoVm}, Proved(verb, c, s),
         verb = "start_vm" => cell[c].phase \in Powered,
         verb = "remove_vm" => cell[c].state \in {"Destroying", "Destroyed"},
         Accepts(verb, c, cell[c].id, s),
         Effect(verb, c, cell[c].id) \/ LeftPaused(verb, cell[c].id)
  PROVE  \E x : Acts(c, cell[c].id, x)
<1> DEFINE v == cell[c].id
<1>1. v \in VmIds /\ vms[v] # NoVm /\ vms[v] \in Vms
  BY Zenon DEF IInv, TypeOK, Records, Accepts, VmVerbs
<1>2. Own(c, v)
  BY <1>1, Zenon DEF RecordedIsOwn, Own
<1> HIDE DEF v
<1>3. \/ verb = "claim_vm" /\ vms' = [vms EXCEPT ![v].marker = c]
      \/ verb = "configure_vm" /\ vms' = [vms EXCEPT ![v].shape = "configured"]
      \/ /\ verb = "start_vm"
         /\ \E w \in {"running", "paused"} : vms' = [vms EXCEPT ![v].power = w]
      \/ verb = "stop_vm" /\ vms' = [vms EXCEPT ![v].power = "off"]
      \/ verb = "remove_vm" /\ vms' = [vms EXCEPT ![v] = NoVm]
  BY Zenon DEF Effect, LeftPaused, VmVerbs, v
<1>4. UNCHANGED <<runtime, used>>
  BY Zenon DEF Effect, LeftPaused, VmVerbs
<1>5. verb \in {"start_vm", "stop_vm", "remove_vm"} => vms[v] = s
  BY Zenon DEF Accepts, v
<1>6. ASSUME verb = "claim_vm", vms' = [vms EXCEPT ![v].marker = c]
      PROVE  Acts(c, v, [vms[v] EXCEPT !.marker = c])
  <2> DEFINE x == [vms[v] EXCEPT !.marker = c]
  <2>1. /\ x \in Vms /\ x.origin = vms[v].origin /\ x.name = vms[v].name
        /\ x.marker = c /\ x.shape = vms[v].shape /\ x.power = vms[v].power
    BY <1>1, Zenon DEF Vms
  <2>2. vms' = [vms EXCEPT ![v] = x] /\ x # NoVm
    BY <1>6, <2>1, NoVmAssumption, Zenon
  <2> HIDE DEF x
  <2>3. Acts(c, v, x)
    BY ZenonT(30), <1>1, <1>2, <1>4, <2>1, <2>2 DEF Acts, VmChange
  <2> QED
    BY <2>3, Zenon DEF x
<1>7. ASSUME verb = "configure_vm", vms' = [vms EXCEPT ![v].shape = "configured"]
      PROVE  Acts(c, v, [vms[v] EXCEPT !.shape = "configured"])
  <2> DEFINE x == [vms[v] EXCEPT !.shape = "configured"]
  <2>1. /\ x \in Vms /\ x.origin = vms[v].origin /\ x.name = vms[v].name
        /\ x.marker = vms[v].marker /\ x.shape = "configured" /\ x.power = vms[v].power
    BY <1>1, Zenon DEF Vms
  <2>2. vms' = [vms EXCEPT ![v] = x] /\ x # NoVm
    BY <1>7, <2>1, NoVmAssumption, Zenon
  <2> HIDE DEF x
  <2>3. Acts(c, v, x)
    BY ZenonT(30), <1>1, <1>2, <1>4, <2>1, <2>2 DEF Acts, VmChange
  <2> QED
    BY <2>3, Zenon DEF x
<1>8. ASSUME NEW w \in {"running", "paused", "off"}, vms' = [vms EXCEPT ![v].power = w],
             w # "off" => verb = "start_vm"
      PROVE  Acts(c, v, [vms[v] EXCEPT !.power = w])
  <2> DEFINE x == [vms[v] EXCEPT !.power = w]
  <2>1. /\ x \in Vms /\ x.origin = vms[v].origin /\ x.name = vms[v].name
        /\ x.marker = vms[v].marker /\ x.shape = vms[v].shape /\ x.power = w
    BY <1>1, Zenon DEF Vms
  <2>2. vms' = [vms EXCEPT ![v] = x] /\ x # NoVm
    BY <1>8, <2>1, NoVmAssumption, Zenon
  <2>3. w # "off" => cell[c].phase \in Powered /\ ProveOwnership(c, vms[v])
    BY <1>1, <1>5, <1>8, Zenon DEF Proved
  <2> HIDE DEF x
  <2>4. Acts(c, v, x)
    BY ZenonT(30), <1>1, <1>2, <1>4, <2>1, <2>2, <2>3 DEF Acts, VmChange
  <2> QED
    BY <2>4, Zenon DEF x
<1>9. ASSUME verb = "remove_vm", vms' = [vms EXCEPT ![v] = NoVm]
      PROVE  Acts(c, v, NoVm)
  <2>1. vms[v].power = "off" /\ cell[c].state \in {"Destroying", "Destroyed"}
    BY <1>1, <1>5, <1>9, Zenon DEF Proved
  <2>2. cell[c].state # "Destroyed"
    BY <1>1, <1>2, Zenon DEF IInv, HostInv, TombstoneMeansReleased, Own
  <2> QED
    BY ZenonT(30), <1>1, <1>2, <1>4, <1>9, <2>1, <2>2 DEF Acts, VmChange
<1>10. \E x : Acts(c, v, x)
  BY <1>3, <1>6, <1>7, <1>8, <1>9, Zenon
<1> QED
  BY <1>10, Zenon DEF v

\* create_cell prepares the runtime directory of c, or its overlay.
TakesRuntime(c, x) ==
  /\ x \in Runtimes \ {"absent"}
  /\ cell[c].id = NoId /\ cell[c].state \in {"Creating", "Failed"}
  /\ runtime' = [runtime EXCEPT ![c] = x]
  /\ UNCHANGED <<vms, used>>

\* destroy removes the runtime directory of c, or a part of it.
FreesRuntime(c, x) ==
  /\ x \in Runtimes /\ RuntimePins(c)
  /\ cell[c].id # NoId /\ cell[c].state # "Destroyed" /\ vms[cell[c].id] = NoVm
  /\ runtime' = [runtime EXCEPT ![c] = x]
  /\ UNCHANGED <<vms, used>>

\* Everything the engine does to the host for the cell c.
HostMove(c) ==
  /\ c \in Cells
  /\ \/ \E x : Acts(c, cell[c].id, x)
     \/ \E v : VmCreation(c, v) /\ RuntimePins(c)
     \/ \E x : TakesRuntime(c, x) \/ FreesRuntime(c, x)

\* The lock holder calls a verb other than create.
VmCall(p, verb) ==
  /\ At(p, verb) /\ UNCHANGED cell
  /\ \/ /\ Accepts(verb, job[p].cell, job[p].rec.id, job[p].seen)
        /\ \/ Effect(verb, job[p].cell, job[p].rec.id)
           \/ LeftPaused(verb, job[p].rec.id)
     \/ UNCHANGED host

\* These are the calls of the engine.
LEMMA VmCalls ==
  ASSUME NEW p \in Processes
  PROVE  /\ ClaimVm(p) => VmCall(p, "claim_vm")
         /\ ConfigureVm(p) => VmCall(p, "configure_vm")
         /\ StartVm(p) => VmCall(p, "start_vm")
         /\ StopVm(p) => VmCall(p, "stop_vm")
         /\ RemoveVm(p) => VmCall(p, "remove_vm")
<1>1. ClaimVm(p) => VmCall(p, "claim_vm")
  BY ZenonT(30) DEF ClaimVm, Call, VmCall
<1>2. ConfigureVm(p) => VmCall(p, "configure_vm")
  BY ZenonT(30) DEF ConfigureVm, Call, VmCall
<1>3. StartVm(p) => VmCall(p, "start_vm")
  BY ZenonT(30) DEF StartVm, Call, VmCall
<1>4. StopVm(p) => VmCall(p, "stop_vm")
  BY ZenonT(30) DEF StopVm, Call, VmCall
<1>5. RemoveVm(p) => VmCall(p, "remove_vm")
  BY ZenonT(30) DEF RemoveVm, Call, VmCall
<1> QED
  BY <1>1, <1>2, <1>3, <1>4, <1>5, Zenon

\* Where a verb is called the provider id is on record, start_vm is called for
\* a usable cell, and remove_vm for one that is being destroyed.
LEMMA CallFacts ==
  ASSUME IInv, NEW p \in Processes, NEW verb \in VmVerbs, At(p, verb)
  PROVE  /\ job[p].cell \in Cells /\ job[p].rec = cell[job[p].cell]
         /\ cell[job[p].cell].id # NoId
         /\ verb = "start_vm" => cell[job[p].cell].phase \in Powered
         /\ verb = "remove_vm" => cell[job[p].cell].state = "Destroying"
<1> DEFINE c == job[p].cell
           r == job[p].rec
<1>1. Working(job[p].op, verb, c, r)
  BY AtFacts, Zenon
<1>2. c \in Cells /\ r = cell[c]
  BY ZenonT(30), <1>1 DEF Working, VmVerbs
<1>3. /\ verb = "claim_vm" => r.phase = "ProviderObjectCreated"
      /\ verb = "configure_vm" => r.phase = "ProviderObjectClaimed"
      /\ verb = "start_vm" => r.state \in {"Stopped", "Running"}
      /\ verb = "stop_vm" => r.state \in {"Stopped", "Running", "Destroying"}
      /\ verb = "remove_vm" => r.state = "Destroying"
  BY ZenonT(30), <1>1 DEF Working, Creating, Switching, Destroying
<1>4. /\ cell[c].id = NoId <=> cell[c].phase \in {"None", "IntentRecorded", "OverlayCreated"}
      /\ cell[c].state \in {"Stopped", "Running"} <=> cell[c].phase = "Ready"
      /\ cell[c].state = "Destroying" <=>
           cell[c].phase \in {"Destroying", "DestroyingProvisioning"}
  BY <1>2, SMTT(30) DEF IInv, HostInv, ManifestConsistent
<1> QED
  BY <1>2, <1>3, <1>4, Zenon DEF VmVerbs, Powered

\* A call touches nothing but the VM of the cell it is made for.
LEMMA CallMoves ==
  ASSUME IInv, OwnInv, NEW p \in Processes, NEW verb \in VmVerbs, VmCall(p, verb)
  PROVE  UNCHANGED host \/ HostMove(job[p].cell)
<1> DEFINE c == job[p].cell
<1>1. /\ c \in Cells /\ job[p].rec = cell[c] /\ cell[c].id # NoId
      /\ verb = "start_vm" => cell[c].phase \in Powered
      /\ verb = "remove_vm" => cell[c].state = "Destroying"
  BY CallFacts, Zenon DEF VmCall
<1>2. Proved(verb, c, job[p].seen) /\ job[p].seen \in Vms \cup {NoVm}
  BY AtFacts, Zenon DEF OwnInv, Secured, VmCall, At
<1>3. RecordedIsOwn
  BY Zenon DEF OwnInv
<1>4. CASE /\ Accepts(verb, c, cell[c].id, job[p].seen)
           /\ Effect(verb, c, cell[c].id) \/ LeftPaused(verb, cell[c].id)
  <2>1. \E x : Acts(c, cell[c].id, x)
    BY ZenonT(30), <1>1, <1>2, <1>3, <1>4, VerbActs
  <2> QED
    BY <1>1, <2>1, Zenon DEF HostMove
<1> QED
  BY <1>1, <1>4, Zenon DEF VmCall

\* create works on the runtime directory and the VM of its own cell, and so
\* does remove_cell_runtime.
LEMMA ResourceMoves ==
  ASSUME IInv, NEW p \in Processes,
         PrepareRuntime(p) \/ CreateOverlay(p) \/ CreateVm(p) \/ RemoveRuntime(p)
  PROVE  UNCHANGED host \/ HostMove(job[p].cell)
<1> DEFINE c == job[p].cell
<1>1. CASE PrepareRuntime(p)
  <2>1. /\ At(p, "prepare_runtime") /\ UNCHANGED <<vms, used>>
        /\ \/ \E x \in {"prepared", "partial"} : runtime' = [runtime EXCEPT ![c] = x]
           \/ UNCHANGED runtime
    BY <1>1, Zenon DEF PrepareRuntime
  <2>2. c \in Cells /\ cell[c].id = NoId /\ cell[c].state = "Creating"
    BY ZenonT(30), <2>1, AtFacts DEF Working, Creating, Unidentified
  <2> QED
    BY ZenonT(30), <2>1, <2>2 DEF HostMove, TakesRuntime, Runtimes, host
<1>2. CASE CreateOverlay(p)
  <2>1. /\ At(p, "create_overlay")
        /\ \/ runtime' = [runtime EXCEPT ![c] = "overlay"] /\ UNCHANGED <<vms, used>>
           \/ UNCHANGED host
    BY <1>2, Zenon DEF CreateOverlay, Call, Effect, LeftPaused
  <2>2. c \in Cells /\ cell[c].id = NoId /\ cell[c].state = "Creating"
    BY ZenonT(30), <2>1, AtFacts DEF Working, Creating, Unidentified
  <2> QED
    BY ZenonT(30), <2>1, <2>2 DEF HostMove, TakesRuntime, Runtimes
<1>3. CASE CreateVm(p)
  <2>1. PICK v \in VmIds :
          Call(p, "create_vm", v, GoWith(p, "save_id", [job[p].rec EXCEPT !.id = v], NoVm),
               Go(p, "fail_record"))
    BY <1>3, Zenon DEF CreateVm
  <2>2. /\ At(p, "create_vm")
        /\ \/ /\ RuntimePins(c) /\ v \in VmIds \ used
              /\ vms' = [vms EXCEPT ![v] = CreatedVm(c)]
              /\ used' = used \cup {v} /\ UNCHANGED runtime
           \/ UNCHANGED host
    BY <2>1, Zenon DEF Call, Accepts, Effect, LeftPaused
  <2>3. c \in Cells /\ Unidentified(cell[c], "OverlayCreated")
    <3>1. Working(job[p].op, "create_vm", c, job[p].rec)
      BY <2>2, AtFacts, Zenon
    <3> QED
      BY ZenonT(30), <3>1 DEF Working, Creating
  <2> QED
    BY ZenonT(30), <2>2, <2>3 DEF HostMove, VmCreation, Unidentified
<1>4. CASE RemoveRuntime(p)
  <2>1. /\ At(p, "remove_runtime") /\ UNCHANGED <<vms, used>>
        /\ \/ /\ RuntimePins(c)
              /\ \E x \in {"absent", "prepared", "partial"} :
                   runtime' = [runtime EXCEPT ![c] = x]
           \/ UNCHANGED runtime
    BY <1>4, Zenon DEF RemoveRuntime
  <2>2. /\ c \in Cells /\ cell[c].id # NoId /\ cell[c].state # "Destroyed"
        /\ vms[cell[c].id] = NoVm
    BY ZenonT(30), <2>1, AtFacts DEF Working, Destroying
  <2> QED
    BY ZenonT(30), <2>1, <2>2 DEF HostMove, FreesRuntime, Runtimes, host
<1> QED
  BY <1>1, <1>2, <1>3, <1>4, Zenon

\* The steps that save a manifest.
SavesManifest(p) ==
  \/ SaveIntent(p) \/ SaveOverlay(p) \/ SaveId(p) \/ SaveClaimed(p) \/ SaveReady(p)
  \/ FailRecord(p) \/ SaveRunning(p) \/ SaveStopped(p)
  \/ SaveRecovered(p) \/ SaveDestroying(p) \/ SaveDestroyed(p)

\* A process changes the host only for the cell it works on, and never in the
\* step in which it saves a manifest.
LEMMA ProcessHost ==
  ASSUME IInv, OwnInv, NEW p \in Processes,
         Begin(p) \/ Step(p) \/ ReturnError(p) \/ Crash(p)
  PROVE  /\ UNCHANGED host \/ (lock = p /\ HostMove(job[p].cell) /\ UNCHANGED cell)
         /\ UNCHANGED cell \/ SavesManifest(p)
         /\ UNCHANGED drift
<1> DEFINE Goal == /\ UNCHANGED host \/ (lock = p /\ HostMove(job[p].cell) /\ UNCHANGED cell)
                   /\ UNCHANGED cell \/ SavesManifest(p)
                   /\ UNCHANGED drift
<1>1. CASE Begin(p)
  BY <1>1, Zenon DEF Begin, CreateCell, StartCell, StopCell, DestroyCell, DestroyCellForRun, GcExpired,
                     aside
<1>2. CASE SavesManifest(p)
  BY <1>2, Zenon DEF SavesManifest, SaveIntent, SaveOverlay, SaveId, SaveClaimed, SaveReady, FailRecord,
                     SaveRunning, SaveStopped, SaveRecovered, SaveDestroying, SaveDestroyed,
                     SavePhase, SaveLast, aside
<1>3. CASE \/ CheckName(p) \/ InspectNew(p) \/ StartInspect(p) \/ StartVerify(p) \/ StopInspect(p)
           \/ StopVerify(p) \/ GcNext(p) \/ DestroyLoad(p) \/ DestroyProve(p) \/ Reinspect(p)
           \/ VerifyRemoved(p) \/ VerifyAbsent(p) \/ ReturnError(p) \/ Crash(p)
  BY <1>3, Zenon DEF CheckName, InspectNew, StartInspect, StartVerify, StopInspect, StopVerify, GcNext,
                     DestroyLoad, DestroyProve, Reinspect, VerifyRemoved, VerifyAbsent, ReturnError,
                     Crash, aside
<1>4. CASE PrepareRuntime(p) \/ CreateOverlay(p) \/ CreateVm(p) \/ RemoveRuntime(p)
  <2>1. lock = p /\ UNCHANGED cell /\ UNCHANGED drift
    BY <1>4, Zenon DEF PrepareRuntime, CreateOverlay, CreateVm, RemoveRuntime, Call, At, aside
  <2> QED
    BY <1>4, <2>1, ResourceMoves, Zenon
<1>5. CASE ClaimVm(p) \/ ConfigureVm(p) \/ StartVm(p) \/ StopVm(p) \/ RemoveVm(p)
  <2>1. PICK verb \in VmVerbs : VmCall(p, verb)
    BY <1>5, VmCalls, Zenon DEF VmVerbs
  <2>2. lock = p /\ UNCHANGED cell
    BY <2>1, Zenon DEF VmCall, At
  <2>3. UNCHANGED drift
    BY <1>5, Zenon DEF ClaimVm, ConfigureVm, StartVm, StopVm, RemoveVm, Call, aside
  <2> QED
    BY <2>1, <2>2, <2>3, CallMoves, Zenon
<1>6. CASE Step(p)
  BY <1>2, <1>3, <1>4, <1>5, <1>6, Zenon DEF Step, CreateStep, PowerStep, DestroyStep, SavesManifest
<1> QED
  BY <1>1, <1>3, <1>6, Zenon

\* A delayed verb changes the host only for the cell whose operation died.
LEMMA OrphanHost ==
  ASSUME IInv, OwnInv, NEW o \in orphans, OrphanVerb(o)
  PROVE  UNCHANGED host \/ HostMove(o.cell)
<1> DEFINE c == o.cell
<1>1. /\ o.verb \in Verbs /\ c \in Cells /\ o.id \in VmIds \cup {NoId}
      /\ o.seen \in Vms \cup {NoVm}
  BY Zenon DEF IInv, TypeOK
<1>2. Delayed(o) /\ RecordedIsOwn
  BY Zenon DEF OwnInv
<1>3. CASE o.verb \in VmVerbs /\ ~ UNCHANGED host
  <2>1. Accepts(o.verb, c, o.id, o.seen) /\ Effect(o.verb, c, o.id)
    BY <1>3, Zenon DEF OrphanVerb, VmVerbs
  <2>2. /\ o.id = cell[c].id /\ cell[c].id # NoId /\ Proved(o.verb, c, o.seen)
        /\ o.verb = "start_vm" => cell[c].phase \in Powered
        /\ o.verb = "remove_vm" => cell[c].state \in {"Destroying", "Destroyed"}
    BY <1>2, <1>3, Zenon DEF Delayed
  <2>3. \E x : Acts(c, cell[c].id, x)
    BY ZenonT(30), <1>1, <1>2, <1>3, <2>1, <2>2, VerbActs
  <2> QED
    BY <1>1, <2>3, Zenon DEF HostMove
<1>4. CASE o.verb \in {"create_overlay", "create_vm"} /\ ~ UNCHANGED host
  <2>1. /\ cell[c].id = NoId /\ cell[c].state \in {"Creating", "Failed"}
        /\ o.verb = "create_vm" => cell[c].phase = "OverlayCreated"
    BY <1>4, Zenon DEF IInv, HostInv, OrphanInv
  <2>2. CASE o.verb = "create_overlay"
    <3>1. runtime' = [runtime EXCEPT ![c] = "overlay"] /\ UNCHANGED <<vms, used>>
      BY <1>4, <2>2, Zenon DEF OrphanVerb, Effect
    <3> QED
      BY ZenonT(30), <1>1, <2>1, <3>1 DEF HostMove, TakesRuntime, Runtimes
  <2>3. CASE o.verb = "create_vm"
    <3>1. RuntimePins(c)
      BY <1>4, <2>3, Zenon DEF OrphanVerb, Accepts
    <3>2. PICK v \in VmIds : Effect("create_vm", c, v)
      BY <1>4, <2>3, Zenon DEF OrphanVerb
    <3>3. VmCreation(c, v)
      BY <1>1, <2>1, <2>3, <3>2, Zenon DEF Effect, VmCreation
    <3> QED
      BY <1>1, <3>1, <3>3, Zenon DEF HostMove
  <2> QED
    BY <1>4, <2>2, <2>3, Zenon
<1> QED
  BY <1>1, <1>3, <1>4, Zenon DEF Verbs, VmVerbs

-----------------------------------------------------------------------------
(***************************************************************************)
(* What a save writes                                                      *)
(***************************************************************************)

\* The manifest r that the save at label l writes over the manifest a.
Succeeds(l, a, r) ==
  \/ /\ l = "save_intent"
     /\ a = NoRecord /\ Unidentified(r, "IntentRecorded")
  \/ /\ l = "save_overlay"
     /\ Unidentified(a, "IntentRecorded") /\ Unidentified(r, "OverlayCreated")
  \/ /\ l = "save_id"
     /\ Unidentified(a, "OverlayCreated")
     /\ r.state = "Creating" /\ r.phase = "ProviderObjectCreated" /\ r.id \in used
  \/ /\ r.id = a.id
     /\ \/ /\ l \in {"save_claimed", "save_recovered"}
           /\ a.phase = "ProviderObjectCreated"
           /\ r.state = a.state /\ r.phase = "ProviderObjectClaimed"
        \/ /\ l = "save_ready"
           /\ a.state = "Creating" /\ a.phase = "ProviderObjectClaimed"
           /\ r.state = "Stopped" /\ r.phase = "Ready"
        \/ /\ l = "fail_record"
           /\ a.state = "Creating"
           /\ r.state = "Failed" /\ r.phase = a.phase
        \/ /\ l \in {"save_running", "save_stopped"}
           /\ a.state \in {"Stopped", "Running"} /\ a.phase = "Ready"
           /\ r.state \in {"Stopped", "Running"} /\ r.phase = "Ready"
        \/ /\ l = "save_destroying"
           /\ a.state # "Destroyed" /\ a.id # NoId
           /\ r.state = "Destroying"
           /\ \/ /\ a.phase \in {"ProviderObjectClaimed", "DestroyingProvisioning"}
                 /\ r.phase = "DestroyingProvisioning"
              \/ a.phase \in {"Ready", "Destroying"} /\ r.phase = "Destroying"
        \/ /\ l = "save_destroyed"
           /\ a.state # "Destroyed" /\ a.id # NoId /\ vms[a.id] = NoVm
           /\ r.state = "Destroyed" /\ r.phase = "Destroyed"

\* The lock holder writes its record with the state s and the phase f.
Writes(p, s, f) ==
  \E r \in Records : /\ cell' = [cell EXCEPT ![job[p].cell] = r]
                     /\ r.state = s /\ r.phase = f /\ r.id = job[p].rec.id

\* SavePhase changes the phase alone, SaveLast the state and the phase.
LEMMA PhaseWritten ==
  ASSUME IInv, NEW p \in Processes, NEW from, NEW phase \in Phases, NEW l,
         SavePhase(p, from, phase, l)
  PROVE  /\ At(p, from) /\ Working(job[p].op, from, job[p].cell, job[p].rec)
         /\ Writes(p, job[p].rec.state, phase)
<1> DEFINE a == job[p].rec
           r == [a EXCEPT !.phase = phase]
<1>1. At(p, from) /\ Save(p, r)
  BY Zenon DEF SavePhase
<1>2. Working(job[p].op, from, job[p].cell, a) /\ a \in Records
  BY <1>1, AtFacts, Zenon
<1>3. r \in Records /\ r.state = a.state /\ r.phase = phase /\ r.id = a.id
  BY <1>2, Zenon DEF Records
<1> QED
  BY ZenonT(30), <1>1, <1>2, <1>3 DEF Writes, Save

LEMMA LastWritten ==
  ASSUME IInv, NEW p \in Processes, NEW from, NEW s \in States, NEW f \in Phases,
         SaveLast(p, from, s, f)
  PROVE  /\ At(p, from) /\ Working(job[p].op, from, job[p].cell, job[p].rec)
         /\ Writes(p, s, f)
<1> DEFINE a == job[p].rec
           r == [a EXCEPT !.state = s, !.phase = f]
<1>1. At(p, from) /\ Save(p, r)
  BY Zenon DEF SaveLast
<1>2. Working(job[p].op, from, job[p].cell, a) /\ a \in Records
  BY <1>1, AtFacts, Zenon
<1>3. r \in Records /\ r.state = s /\ r.phase = f /\ r.id = a.id
  BY <1>2, ZenonT(30) DEF Records
<1> QED
  BY ZenonT(30), <1>1, <1>2, <1>3 DEF Writes, Save

\* The lock holder replaces the manifest of its cell by the one that follows.
Saved(p, l) ==
  /\ At(p, l) /\ job[p].cell \in Cells
  /\ l = "save_destroyed" => runtime[job[p].cell] = "absent"
  /\ \E r \in Records : /\ cell' = [cell EXCEPT ![job[p].cell] = r]
                        /\ Succeeds(l, cell[job[p].cell], r)
                        /\ l = "save_id" => r.id = job[p].rec.id

\* The saves of create.
LEMMA CreateSaved ==
  ASSUME IInv, NEW p \in Processes
  PROVE  /\ SaveIntent(p) => Saved(p, "save_intent")
         /\ SaveOverlay(p) => Saved(p, "save_overlay")
         /\ SaveId(p) => Saved(p, "save_id")
         /\ SaveClaimed(p) => Saved(p, "save_claimed")
         /\ SaveReady(p) => Saved(p, "save_ready")
         /\ FailRecord(p) => Saved(p, "fail_record")
<1> DEFINE c == job[p].cell
           a == job[p].rec
           op == job[p].op
<1>1. ASSUME SaveIntent(p) PROVE Saved(p, "save_intent")
  <2>1. /\ At(p, "save_intent") /\ Working(op, "save_intent", c, a)
        /\ Writes(p, a.state, "IntentRecorded")
    BY <1>1, PhaseWritten, Zenon DEF SaveIntent, Phases
  <2>2. c \in Cells /\ cell[c] = NoRecord /\ Unidentified(a, "IntentRecorded")
    BY ZenonT(30), <2>1 DEF Working, Creating
  <2> QED
    BY ZenonT(30), <2>1, <2>2 DEF Saved, Writes, Succeeds, Unidentified
<1>2. ASSUME SaveOverlay(p) PROVE Saved(p, "save_overlay")
  <2>1. /\ At(p, "save_overlay") /\ Working(op, "save_overlay", c, a)
        /\ Writes(p, a.state, "OverlayCreated")
    BY <1>2, PhaseWritten, Zenon DEF SaveOverlay, Phases
  <2>2. c \in Cells /\ cell[c] = a /\ Unidentified(a, "IntentRecorded")
    BY ZenonT(30), <2>1 DEF Working, Creating
  <2> QED
    BY ZenonT(30), <2>1, <2>2 DEF Saved, Writes, Succeeds, Unidentified
<1>3. ASSUME SaveId(p) PROVE Saved(p, "save_id")
  <2>1. /\ At(p, "save_id") /\ Working(op, "save_id", c, a)
        /\ Writes(p, a.state, "ProviderObjectCreated")
    BY <1>3, PhaseWritten, Zenon DEF SaveId, Phases
  <2>2. /\ c \in Cells /\ Unidentified(cell[c], "OverlayCreated")
        /\ a.state = "Creating" /\ a.id \in used
    BY ZenonT(30), <2>1 DEF Working, Creating
  <2> QED
    BY ZenonT(30), <2>1, <2>2 DEF Saved, Writes, Succeeds
<1>4. ASSUME SaveClaimed(p) PROVE Saved(p, "save_claimed")
  <2>1. /\ At(p, "save_claimed") /\ Working(op, "save_claimed", c, a)
        /\ Writes(p, a.state, "ProviderObjectClaimed")
    BY <1>4, PhaseWritten, Zenon DEF SaveClaimed, Phases
  <2>2. c \in Cells /\ cell[c] = a /\ a.phase = "ProviderObjectCreated"
    BY ZenonT(30), <2>1 DEF Working, Creating
  <2> QED
    BY ZenonT(30), <2>1, <2>2 DEF Saved, Writes, Succeeds
<1>5. ASSUME SaveReady(p) PROVE Saved(p, "save_ready")
  <2>1. /\ At(p, "save_ready") /\ Working(op, "save_ready", c, a)
        /\ Writes(p, "Stopped", "Ready")
    BY <1>5, LastWritten, Zenon DEF SaveReady, States, Phases
  <2>2. /\ c \in Cells /\ cell[c] = a
        /\ a.state = "Creating" /\ a.phase = "ProviderObjectClaimed"
    BY ZenonT(30), <2>1 DEF Working, Creating
  <2> QED
    BY ZenonT(30), <2>1, <2>2 DEF Saved, Writes, Succeeds
<1>6. ASSUME FailRecord(p) PROVE Saved(p, "fail_record")
  <2>1. At(p, "fail_record")
    BY <1>6, Zenon DEF FailRecord, SaveLast
  <2>2. a.phase \in Phases
    BY <2>1, AtFacts, Zenon DEF Records
  <2>3. Working(op, "fail_record", c, a) /\ Writes(p, "Failed", a.phase)
    BY <1>6, <2>2, LastWritten, Zenon DEF FailRecord, States
  <2>4. c \in Cells /\ cell[c] = a /\ a.state = "Creating"
    BY ZenonT(30), <2>3 DEF Working, Creating
  <2> QED
    BY ZenonT(30), <2>1, <2>3, <2>4 DEF Saved, Writes, Succeeds
<1> QED
  BY <1>1, <1>2, <1>3, <1>4, <1>5, <1>6, Zenon

\* The saves of start and stop.
LEMMA SwitchSaved ==
  ASSUME IInv, NEW p \in Processes
  PROVE  /\ SaveRunning(p) => Saved(p, "save_running")
         /\ SaveStopped(p) => Saved(p, "save_stopped")
<1> DEFINE c == job[p].cell
           a == job[p].rec
           op == job[p].op
<1>1. ASSUME NEW l \in {"save_running", "save_stopped"}, NEW s \in {"Running", "Stopped"},
             SaveLast(p, l, s, "Ready")
      PROVE  Saved(p, l)
  <2>1. At(p, l) /\ Working(op, l, c, a) /\ Writes(p, s, "Ready")
    BY <1>1, LastWritten, Zenon DEF States, Phases
  <2>2. c \in Cells /\ cell[c] = a /\ a.state \in {"Stopped", "Running"}
    BY ZenonT(30), <2>1 DEF Working, Switching
  <2>3. a.phase = "Ready"
    BY <2>2, Zenon DEF IInv, HostInv, ManifestConsistent
  <2> QED
    BY ZenonT(30), <2>1, <2>2, <2>3 DEF Saved, Writes, Succeeds
<1> QED
  BY <1>1, Zenon DEF SaveRunning, SaveStopped

\* The saves of destroy.
LEMMA DestroySaved ==
  ASSUME IInv, NEW p \in Processes
  PROVE  /\ SaveRecovered(p) => Saved(p, "save_recovered")
         /\ SaveDestroying(p) => Saved(p, "save_destroying")
         /\ SaveDestroyed(p) => Saved(p, "save_destroyed")
<1> DEFINE c == job[p].cell
           a == job[p].rec
           op == job[p].op
<1>1. ASSUME SaveRecovered(p) PROVE Saved(p, "save_recovered")
  <2>1. /\ At(p, "save_recovered") /\ Working(op, "save_recovered", c, a)
        /\ Writes(p, a.state, "ProviderObjectClaimed")
    BY <1>1, PhaseWritten, Zenon DEF SaveRecovered, Phases
  <2>2. c \in Cells /\ cell[c] = a /\ a.phase = "ProviderObjectCreated"
    BY ZenonT(30), <2>1 DEF Working, Destroying
  <2> QED
    BY ZenonT(30), <2>1, <2>2 DEF Saved, Writes, Succeeds
<1>2. ASSUME SaveDestroying(p) PROVE Saved(p, "save_destroying")
  <2> DEFINE f == IF a.phase \in {"ProviderObjectClaimed", "DestroyingProvisioning"}
                  THEN "DestroyingProvisioning" ELSE "Destroying"
             r == [a EXCEPT !.state = "Destroying", !.phase = f]
  <2>1. At(p, "save_destroying") /\ cell' = [cell EXCEPT ![c] = r]
    BY <1>2, Zenon DEF SaveDestroying, Save
  <2>2. Working(op, "save_destroying", c, a) /\ a \in Records
    BY <2>1, AtFacts, Zenon
  <2>3. /\ c \in Cells /\ cell[c] = a /\ a.state # "Destroyed" /\ a.id # NoId
        /\ a.phase \in {"ProviderObjectClaimed", "DestroyingProvisioning", "Ready", "Destroying"}
    BY ZenonT(30), <2>2 DEF Working, Destroying
  <2>4. f \in Phases
    BY Zenon DEF Phases
  <2> HIDE DEF f
  <2>5. r \in Records /\ r.state = "Destroying" /\ r.phase = f /\ r.id = a.id
    BY <2>2, <2>4, ZenonT(30) DEF Records, States
  <2>6. \/ /\ a.phase \in {"ProviderObjectClaimed", "DestroyingProvisioning"}
           /\ f = "DestroyingProvisioning"
        \/ a.phase \in {"Ready", "Destroying"} /\ f = "Destroying"
    BY <2>3, Zenon DEF f
  <2> HIDE DEF r
  <2> QED
    BY ZenonT(30), <2>1, <2>3, <2>5, <2>6 DEF Saved, Succeeds
<1>3. ASSUME SaveDestroyed(p) PROVE Saved(p, "save_destroyed")
  <2>1. /\ At(p, "save_destroyed") /\ Working(op, "save_destroyed", c, a)
        /\ Writes(p, "Destroyed", "Destroyed")
    BY <1>3, LastWritten, Zenon DEF SaveDestroyed, States, Phases
  <2>2. /\ c \in Cells /\ cell[c] = a /\ a.state # "Destroyed" /\ a.id # NoId
        /\ vms[a.id] = NoVm /\ runtime[c] = "absent"
    BY ZenonT(30), <2>1 DEF Working, Destroying
  <2> QED
    BY ZenonT(30), <2>1, <2>2 DEF Saved, Writes, Succeeds
<1> QED
  BY <1>1, <1>2, <1>3, SMTT(30)

\* Every save writes the manifest that follows the one on disk.
LEMMA SaveFacts ==
  ASSUME IInv, NEW p \in Processes, SavesManifest(p)
  PROVE  \E l : Saved(p, l)
BY ZenonT(30), CreateSaved, SwitchSaved, DestroySaved DEF SavesManifest

-----------------------------------------------------------------------------
(***************************************************************************)
(* What a process goes on with                                             *)
(***************************************************************************)

\* The labels at which something must be known of the VM.
Guarded == {"save_id", "start_vm", "remove_vm", "save_claimed", "save_recovered", "save_ready"}

\* The lock holder returns, or goes on at a label that asks for nothing.
PlainMove(p) ==
  /\ lock = p /\ job[p].pc # "gc_next"
  /\ \/ Return(p)
     \/ \E l \in Labels \ (Guarded \cup {"idle", "gc_next"}) :
          Go(p, l) \/ \E r, s : GoWith(p, l, r, s)

\* Afterwards it is idle, looks for gc's next cell, or works on for the same
\* operation and cell.
LEMMA PlainJob ==
  ASSUME IInv, NEW p \in Processes, PlainMove(p)
  PROVE  /\ \A q \in Processes \ {p} : job'[q] = job[q]
         /\ job'[p].pc \notin Guarded
         /\ \/ job'[p] = Idle
            \/ /\ job'[p].op = job[p].op /\ job'[p].todo = job[p].todo
               /\ job'[p].cell = job[p].cell
<1>1. job \in [Processes -> Jobs] /\ job[p] \in Jobs
  BY Zenon DEF IInv, TypeOK
<1>2. CASE Return(p) /\ job[p].op # "gc"
  BY <1>1, <1>2 DEF Return, Idle, Guarded
<1>3. ASSUME NEW l, l \notin Guarded, NEW r, NEW s, GoWith(p, l, r, s)
      PROVE  /\ \A q \in Processes \ {p} : job'[q] = job[q]
             /\ job'[p].pc = l /\ job'[p].op = job[p].op /\ job'[p].todo = job[p].todo
             /\ job'[p].cell = job[p].cell
  BY <1>1, <1>3, Zenon DEF GoWith, Jobs
<1>4. ASSUME NEW l, l \notin Guarded, Go(p, l)
      PROVE  /\ \A q \in Processes \ {p} : job'[q] = job[q]
             /\ job'[p].pc = l /\ job'[p].op = job[p].op /\ job'[p].todo = job[p].todo
             /\ job'[p].cell = job[p].cell
  BY <1>1, <1>4, SMTT(30) DEF Go, Jobs
<1>5. CASE Return(p) /\ job[p].op = "gc"
  <2>1. GoWith(p, "gc_next", NoRecord, NoVm)
    BY <1>5, Zenon DEF Return
  <2>2. "gc_next" \notin Guarded
    BY Zenon DEF Guarded
  <2> QED
    BY <1>3, <2>1, <2>2, Zenon
<1> QED
  BY ZenonT(30), <1>2, <1>3, <1>4, <1>5 DEF PlainMove

\* What a process knows of the VM whose progress it is about to save.
Finished(j) ==
  /\ j.pc \in {"save_claimed", "save_recovered"} /\ vms[j.rec.id] # NoVm =>
       vms[j.rec.id].marker = j.cell
  /\ j.pc = "save_ready" /\ vms[j.rec.id] # NoVm => vms[j.rec.id].shape = "configured"

\* The lock holder goes on at a label at which something is known of the VM.
GuardedMove(p) ==
  LET c == job[p].cell
      id == job[p].rec.id
  IN  /\ lock = p /\ job[p].pc # "gc_next"
      /\ \/ \E v \in VmIds : /\ vms' = [vms EXCEPT ![v] = CreatedVm(c)]
                             /\ GoWith(p, "save_id", [job[p].rec EXCEPT !.id = v], NoVm)
         \/ \E r, s : ProveOwnership(c, s) /\ GoWith(p, "start_vm", r, s)
         \/ \E r, s : s.power = "off" /\ GoWith(p, "remove_vm", r, s)
         \/ \E l \in {"save_claimed", "save_recovered"} : \E s :
              vms'[id].marker = c /\ GoWith(p, l, job[p].rec, s)
         \/ vms'[id].shape = "configured" /\ Go(p, "save_ready")

\* Steps that only go on, or return.
LEMMA CreatePlain ==
  ASSUME NEW p \in Processes,
         \/ SaveIntent(p) \/ PrepareRuntime(p) \/ CheckName(p) \/ CreateOverlay(p)
         \/ SaveOverlay(p) \/ SaveId(p) \/ InspectNew(p)
         \/ SaveClaimed(p) \/ SaveReady(p) \/ FailRecord(p)
  PROVE  PlainMove(p)
<1> USE DEF Guarded, Labels, Verbs
<1>1. CASE SaveIntent(p)
  BY <1>1, SMTT(30) DEF PlainMove, SaveIntent, SavePhase, At
<1>2. CASE PrepareRuntime(p)
  BY <1>2, ZenonT(30) DEF PlainMove, PrepareRuntime, At
<1>3. CASE CheckName(p)
  BY <1>3, SMTT(30) DEF PlainMove, CheckName, At
<1>4. CASE CreateOverlay(p)
  BY <1>4, ZenonT(30) DEF PlainMove, CreateOverlay, Call, At
<1>5. CASE SaveOverlay(p)
  BY <1>5, Zenon DEF PlainMove, SaveOverlay, SavePhase, At
<1>6. CASE SaveId(p)
  BY <1>6, SMTT(30) DEF PlainMove, SaveId, SavePhase, At
<1>7. CASE InspectNew(p)
  BY <1>7, ZenonT(30) DEF PlainMove, InspectNew, At
<1>8. CASE SaveClaimed(p)
  BY <1>8, Zenon DEF PlainMove, SaveClaimed, SavePhase, At
<1>9. CASE SaveReady(p) \/ FailRecord(p)
  BY <1>9, SMTT(30) DEF PlainMove, SaveReady, FailRecord, SaveLast, At
<1> QED
  BY <1>1, <1>2, <1>3, <1>4, <1>5, <1>6, <1>7, <1>8, <1>9, Zenon

LEMMA PowerPlain ==
  ASSUME NEW p \in Processes,
         \/ StartVm(p) \/ StartVerify(p) \/ SaveRunning(p) \/ StopInspect(p) \/ StopVm(p)
         \/ StopVerify(p) \/ SaveStopped(p) \/ ReturnError(p)
  PROVE  PlainMove(p)
<1> USE DEF Guarded, Labels, Verbs
<1>1. CASE StartVm(p)
  BY <1>1, ZenonT(30) DEF PlainMove, StartVm, Call, At
<1>2. CASE StartVerify(p)
  BY <1>2, SMTT(30) DEF PlainMove, StartVerify, At
<1>3. CASE SaveRunning(p) \/ SaveStopped(p)
  BY <1>3, SMTT(30) DEF PlainMove, SaveRunning, SaveStopped, SaveLast, At
<1>4. CASE StopInspect(p)
  BY <1>4, ZenonT(30) DEF PlainMove, StopInspect, At
<1>5. CASE StopVm(p)
  BY <1>5, Zenon DEF PlainMove, StopVm, Call, At
<1>6. CASE StopVerify(p)
  BY <1>6, SMTT(30) DEF PlainMove, StopVerify, At
<1>7. CASE ReturnError(p)
  BY <1>7, Zenon DEF PlainMove, ReturnError
<1> QED
  BY <1>1, <1>2, <1>3, <1>4, <1>5, <1>6, <1>7, SMTT(30)

LEMMA DestroyPlain ==
  ASSUME NEW p \in Processes,
         \/ DestroyLoad(p) \/ DestroyProve(p) \/ SaveRecovered(p) \/ RemoveVm(p)
         \/ VerifyRemoved(p) \/ VerifyAbsent(p) \/ RemoveRuntime(p) \/ SaveDestroyed(p)
  PROVE  PlainMove(p)
<1> USE DEF Guarded, Labels, Verbs
<1>1. CASE DestroyLoad(p)
  BY <1>1, ZenonT(30) DEF PlainMove, DestroyLoad, At
<1>2. CASE DestroyProve(p)
  BY <1>2, ZenonT(30) DEF PlainMove, DestroyProve, At
<1>3. CASE SaveRecovered(p)
  BY <1>3, SMTT(30) DEF PlainMove, SaveRecovered, SavePhase, At
<1>4. CASE RemoveVm(p)
  BY <1>4, ZenonT(30) DEF PlainMove, RemoveVm, Call, At
<1>5. CASE VerifyRemoved(p)
  BY <1>5, ZenonT(30) DEF PlainMove, VerifyRemoved, At
<1>6. CASE VerifyAbsent(p)
  BY <1>6, SMTT(30) DEF PlainMove, VerifyAbsent, At
<1>7. CASE RemoveRuntime(p)
  BY <1>7, Zenon DEF PlainMove, RemoveRuntime, At
<1>8. CASE SaveDestroyed(p)
  BY <1>8, Zenon DEF PlainMove, SaveDestroyed, SaveLast, At
<1> QED
  BY <1>1, <1>2, <1>3, <1>4, <1>5, <1>6, <1>7, <1>8, SMTT(30)

\* The steps that reach a guarded label.
LEMMA GuardedSteps ==
  ASSUME NEW p \in Processes,
         \/ CreateVm(p) \/ ClaimVm(p) \/ ConfigureVm(p) \/ StartInspect(p)
         \/ SaveDestroying(p) \/ Reinspect(p)
  PROVE  PlainMove(p) \/ GuardedMove(p)
<1> USE DEF Guarded, Labels, Verbs
<1>1. CASE CreateVm(p)
  BY <1>1, SMTT(30) DEF PlainMove, GuardedMove, CreateVm, Call, Effect, LeftPaused, At
<1>2. CASE ClaimVm(p)
  BY <1>2, ZenonT(30) DEF PlainMove, GuardedMove, ClaimVm, Call, ProveCreation, At
<1>3. CASE ConfigureVm(p)
  BY <1>3, ZenonT(30) DEF PlainMove, GuardedMove, ConfigureVm, Call, ProveOwnership, At
<1>4. CASE StartInspect(p)
  BY <1>4, ZenonT(30) DEF PlainMove, GuardedMove, StartInspect, ExactOwned, At
<1>5. CASE SaveDestroying(p)
  BY <1>5, SMTT(30) DEF PlainMove, GuardedMove, SaveDestroying, At
<1>6. CASE Reinspect(p)
  BY <1>6, SMTT(30) DEF PlainMove, GuardedMove, Reinspect, At
<1> QED
  BY <1>1, <1>2, <1>3, <1>4, <1>5, <1>6, SMTT(30)

\* p goes on for the same operation and cell, or becomes idle; the others do
\* not move, and what p's next label asks for is known.
JobMove(p) ==
  /\ lock = p /\ job[p].pc # "gc_next"
  /\ \A q \in Processes \ {p} : job'[q] = job[q]
  /\ Secured(job[p])' /\ Finished(job[p])'
  /\ \/ job'[p] = Idle
     \/ /\ job'[p].op = job[p].op /\ job'[p].todo = job[p].todo
        /\ job'[p].cell = job[p].cell

\* A guarded move makes known what the label asks for.
LEMMA GuardedJob ==
  ASSUME IInv, NEW p \in Processes, GuardedMove(p)
  PROVE  JobMove(p)
<1> DEFINE c == job[p].cell
<1>1. job \in [Processes -> Jobs] /\ job[p] \in Jobs /\ job[p].rec \in Records
  BY Zenon DEF IInv, TypeOK, Jobs
<1>2. ASSUME NEW l, NEW r, NEW s, GoWith(p, l, r, s)
      PROVE  /\ \A q \in Processes \ {p} : job'[q] = job[q]
             /\ job'[p].op = job[p].op /\ job'[p].todo = job[p].todo
             /\ job'[p].cell = c
             /\ job'[p].pc = l /\ job'[p].rec = r /\ job'[p].seen = s
  BY <1>1, <1>2, Zenon DEF GoWith, Jobs
<1>3. lock = p /\ job[p].pc # "gc_next"
  BY Zenon DEF GuardedMove
<1>4. CASE \E v \in VmIds : /\ vms' = [vms EXCEPT ![v] = CreatedVm(c)]
                            /\ GoWith(p, "save_id", [job[p].rec EXCEPT !.id = v], NoVm)
  <2>1. PICK v \in VmIds : /\ vms' = [vms EXCEPT ![v] = CreatedVm(c)]
                           /\ GoWith(p, "save_id", [job[p].rec EXCEPT !.id = v], NoVm)
    BY <1>4, ZenonT(30)
  <2>2. vms'[v].origin = c
    BY <2>1, Zenon DEF CreatedVm, IInv, TypeOK
  <2>3. [job[p].rec EXCEPT !.id = v].id = v
    BY <1>1, Zenon DEF Records
  <2>4. job'[p].pc = "save_id" /\ job'[p].rec.id = v /\ job'[p].cell = c
    BY <1>2, <2>1, <2>3, ZenonT(30)
  <2>5. Secured(job[p])' /\ Finished(job[p])'
    BY <2>2, <2>4, Zenon DEF Secured, Finished, Proved
  <2> QED
    BY <1>2, <1>3, <2>1, <2>5, SMTT(30) DEF JobMove
<1>5. CASE \E r, s : ProveOwnership(c, s) /\ GoWith(p, "start_vm", r, s)
  <2>1. PICK r, s : ProveOwnership(c, s) /\ GoWith(p, "start_vm", r, s)
    BY <1>5, Zenon
  <2>2. job'[p].pc = "start_vm" /\ job'[p].cell = c /\ ProveOwnership(c, job'[p].seen)
    BY <1>2, <2>1, Zenon
  <2>3. Secured(job[p])' /\ Finished(job[p])'
    BY <2>2, SMTT(30) DEF Secured, Finished, Proved, ProveOwnership
  <2> QED
    BY <1>2, <1>3, <2>1, <2>3, Zenon DEF JobMove
<1>6. CASE \E r, s : s.power = "off" /\ GoWith(p, "remove_vm", r, s)
  <2>1. PICK r, s : s.power = "off" /\ GoWith(p, "remove_vm", r, s)
    BY <1>6, Zenon
  <2>2. job'[p].pc = "remove_vm" /\ job'[p].seen.power = "off"
    BY <1>2, <2>1, Zenon
  <2>3. Secured(job[p])' /\ Finished(job[p])'
    BY <2>2, SMTT(30) DEF Secured, Finished, Proved
  <2> QED
    BY <1>2, <1>3, <2>1, <2>3, SMTT(30) DEF JobMove
<1>7. CASE \E l \in {"save_claimed", "save_recovered"} : \E s :
             vms'[job[p].rec.id].marker = c /\ GoWith(p, l, job[p].rec, s)
  <2>0. PICK l \in {"save_claimed", "save_recovered"} :
             \E s : vms'[job[p].rec.id].marker = c /\ GoWith(p, l, job[p].rec, s)
    BY <1>7, SMTT(30)
  <2>1. PICK s : vms'[job[p].rec.id].marker = c /\ GoWith(p, l, job[p].rec, s)
    BY <2>0, SMTT(30)
  <2>2. /\ job'[p].pc \in {"save_claimed", "save_recovered"} /\ job'[p].cell = c
        /\ vms'[job'[p].rec.id].marker = c
    BY <1>2, <2>1
  <2>3. Secured(job[p])' /\ Finished(job[p])'
    BY <2>2, Zenon DEF Secured, Finished, Proved
  <2> QED
    BY <1>2, <1>3, <2>1, <2>3, SMTT(30) DEF JobMove
<1>8. CASE vms'[job[p].rec.id].shape = "configured" /\ Go(p, "save_ready")
  <2>1. /\ \A q \in Processes \ {p} : job'[q] = job[q]
        /\ job'[p].op = job[p].op /\ job'[p].todo = job[p].todo
        /\ job'[p].cell = c
        /\ job'[p].pc = "save_ready" /\ job'[p].rec = job[p].rec
    BY <1>1, <1>8, SMTT(30) DEF Go, Jobs
  <2>2. Secured(job[p])' /\ Finished(job[p])'
    BY <1>8, <2>1, Zenon DEF Secured, Finished, Proved
  <2> QED
    BY <1>3, <2>1, <2>2, SMTT(30) DEF JobMove
<1> QED
  BY <1>4, <1>5, <1>6, <1>7, <1>8, ZenonT(30) DEF GuardedMove

\* Every step inside an operation, but gc's choice of the next cell, is such a
\* move, and leaves everything outside the host and the manifests alone.
LEMMA StepMoves ==
  ASSUME IInv, NEW p \in Processes, Step(p) \/ ReturnError(p), ~ GcNext(p)
  PROVE  JobMove(p) /\ UNCHANGED aside
<1>1. ASSUME PlainMove(p) PROVE JobMove(p)
  <2>1. /\ \A q \in Processes \ {p} : job'[q] = job[q]
        /\ job'[p].pc \notin Guarded
        /\ \/ job'[p] = Idle
           \/ /\ job'[p].op = job[p].op /\ job'[p].todo = job[p].todo
              /\ job'[p].cell = job[p].cell
    BY <1>1, PlainJob, SMTT(30)
  <2>2. Secured(job[p])' /\ Finished(job[p])'
    BY <2>1, SMTT(30) DEF Secured, Finished, Proved, Guarded
  <2> QED
    BY <1>1, <2>1, <2>2, ZenonT(30) DEF JobMove, PlainMove
<1>2. PlainMove(p) \/ GuardedMove(p)
  <2>1. CASE CreateStep(p)
    BY <2>1, CreatePlain, GuardedSteps, Zenon DEF CreateStep
  <2>2. CASE PowerStep(p) \/ ClaimVm(p) \/ StopVm(p) \/ ReturnError(p)
    BY <2>2, PowerPlain, GuardedSteps, Zenon DEF PowerStep
  <2>3. CASE DestroyStep(p)
    BY <2>3, DestroyPlain, GuardedSteps, Zenon DEF DestroyStep
  <2> QED
    BY <2>1, <2>2, <2>3, Zenon DEF Step
<1>3. ASSUME CreateStep(p) PROVE UNCHANGED aside
  BY <1>3, Zenon DEF CreateStep, SaveIntent, PrepareRuntime, CheckName, CreateOverlay, SaveOverlay, CreateVm,
                     SaveId, InspectNew, SaveClaimed, ConfigureVm, SaveReady, FailRecord,
                     SavePhase, SaveLast, Call
<1>4. ASSUME PowerStep(p) \/ ClaimVm(p) \/ StopVm(p) \/ ReturnError(p) PROVE UNCHANGED aside
  BY <1>4, Zenon DEF PowerStep, StartInspect, StartVm, StartVerify, SaveRunning, StopInspect, StopVerify,
                     SaveStopped, SaveLast, ClaimVm, StopVm, ReturnError, Call
<1>5. ASSUME DestroyStep(p) PROVE UNCHANGED aside
  BY <1>5, Zenon DEF DestroyStep, GcNext, DestroyLoad, DestroyProve, SaveRecovered, SaveDestroying, Reinspect,
                     RemoveVm, VerifyRemoved, VerifyAbsent, RemoveRuntime, SaveDestroyed,
                     SavePhase, SaveLast, Call
<1> QED
  BY <1>1, <1>2, <1>3, <1>4, <1>5, GuardedJob, Zenon DEF Step

-----------------------------------------------------------------------------
(***************************************************************************)
(* The invariants are inductive                                            *)
(***************************************************************************)

\* While p works everybody else is idle, and while nobody has the lock all are.
LEMMA OthersIdle ==
  ASSUME IInv, NEW p \in Processes, lock \in {p, NoProcess}
  PROVE  /\ \A q \in Processes \ {p} : job[q] = Idle
         /\ lock = NoProcess => job[p] = Idle
BY DistinctAssumption, Zenon DEF IInv, LockInv

\* No step brings a used provider id back to life or changes the creator of its VM.
OriginKept ==
  \A v \in used : vms'[v] # NoVm => vms[v] # NoVm /\ vms'[v].origin = vms[v].origin

LEMMA HostMoveKeeps ==
  ASSUME IInv, NEW c, HostMove(c)
  PROVE  OriginKept
<1>1. vms \in [VmIds -> Vms \cup {NoVm}] /\ used \subseteq VmIds
  BY Zenon DEF IInv, TypeOK
<1>2. ASSUME NEW v, NEW x, VmChange(v, x)
      PROVE  OriginKept
  BY <1>1, <1>2, Zenon DEF VmChange, OriginKept
<1>3. ASSUME NEW v, VmCreation(c, v)
      PROVE  OriginKept
  BY <1>1, <1>3, Zenon DEF VmCreation, OriginKept
<1>4. ASSUME UNCHANGED vms
      PROVE  OriginKept
  BY <1>4, Zenon DEF OriginKept
<1> QED
  BY <1>2, <1>3, <1>4, Zenon DEF HostMove, Acts, TakesRuntime, FreesRuntime

LEMMA InterfereKeeps ==
  ASSUME IInv, Interfere
  PROVE  OriginKept
<1>1. vms \in [VmIds -> Vms \cup {NoVm}] /\ used \subseteq VmIds
  BY Zenon DEF IInv, TypeOK
<1> QED
  BY <1>1, Zenon DEF Interfere, OriginKept

\* What every step leaves of the host: a process or a delayed verb moves it for
\* one cell, or somebody interferes.
LEMMA NextHost ==
  ASSUME IInv, OwnInv, [Next]_vars
  PROVE  \/ UNCHANGED <<host, drift>>
         \/ (\E c \in Cells : HostMove(c)) /\ UNCHANGED <<cell, drift>>
         \/ Interfere
<1>1. ASSUME NEW p \in Processes, Begin(p) \/ Step(p) \/ ReturnError(p) \/ Crash(p)
      PROVE  /\ UNCHANGED drift
             /\ UNCHANGED host \/ ((\E c \in Cells : HostMove(c)) /\ UNCHANGED cell)
  BY <1>1, ProcessHost, Zenon DEF HostMove
<1>2. ASSUME NEW o \in orphans, OrphanVerb(o)
      PROVE  /\ UNCHANGED <<cell, drift>>
             /\ UNCHANGED host \/ \E c \in Cells : HostMove(c)
  <2>1. UNCHANGED host \/ HostMove(o.cell)
    BY <1>2, OrphanHost, Zenon
  <2>2. UNCHANGED <<cell, drift>>
    BY <1>2, Zenon DEF OrphanVerb
  <2> QED
    BY <2>1, <2>2, Zenon DEF HostMove
<1>3. ASSUME NEW c \in Cells,
             Expire(c) \/ GuestOperationInterrupted(c) \/ GuestOperationReconciled(c)
      PROVE  UNCHANGED <<host, drift>>
  BY <1>3, Zenon DEF Expire, GuestOperationInterrupted, GuestOperationReconciled
<1>4. ASSUME UNCHANGED vars
      PROVE  UNCHANGED <<host, drift>>
  BY <1>4, Zenon DEF vars, host
<1> QED
  BY <1>1, <1>2, <1>3, <1>4, Zenon DEF Next, Environment

LEMMA NextKeepsOrigin ==
  ASSUME IInv, OwnInv, [Next]_vars
  PROVE  OriginKept
<1>1. UNCHANGED host => OriginKept
  BY Zenon DEF host, OriginKept
<1> QED
  BY <1>1, NextHost, HostMoveKeeps, InterfereKeeps, Zenon

\* Nothing is asked at a label that is not guarded.
LEMMA Unguarded ==
  ASSUME NEW q, job'[q].pc \notin Guarded
  PROVE  Secured(job[q])' /\ Finished(job[q])'
BY Zenon DEF Secured, Finished, Proved, Guarded

\* An operation begins, chooses its next cell or dies at such a label.
LEMMA EdgeJob ==
  ASSUME IInv, NEW p \in Processes, Begin(p) \/ GcNext(p) \/ Crash(p)
  PROVE  /\ lock \in {p, NoProcess}
         /\ \A q \in Processes \ {p} : job'[q] = job[q]
         /\ job'[p].pc \notin Guarded
<1>1. job \in [Processes -> Jobs] /\ job[p] \in Jobs
  BY Zenon DEF IInv, TypeOK
<1>2. ASSUME NEW op, NEW c, NEW l, NEW r, Acquire(p, op, c, l, r)
      PROVE  /\ lock = NoProcess
             /\ \A q \in Processes \ {p} : job'[q] = job[q]
             /\ job'[p].pc = l
  BY <1>1, <1>2, Zenon DEF Acquire, Idle
<1>3. CASE \E c \in Cells : \/ CreateCell(p, c) \/ StartCell(p, c) \/ StopCell(p, c)
                            \/ DestroyCell(p, c) \/ DestroyCellForRun(p, c)
  <2>1. \/ \E c : Acquire(p, "create", c, "save_intent", IntentRecord)
        \/ \E c : Acquire(p, "start", c, "start_inspect", cell[c])
        \/ \E c : Acquire(p, "stop", c, "stop_inspect", cell[c])
        \/ \E c : Acquire(p, "destroy", c, "destroy_load", cell[c])
    BY <1>3, Zenon DEF CreateCell, StartCell, StopCell, DestroyCell, DestroyCellForRun
  <2> QED
    BY <1>2, <2>1 DEF Guarded
<1>4. CASE GcExpired(p)
  BY <1>1, <1>4, SMTT(30) DEF GcExpired, Idle, Guarded
<1>5. CASE GcNext(p)
  <2>1. CASE job' = [job EXCEPT ![p] = Idle]
    BY <1>1, <1>5, <2>1, ZenonT(30) DEF GcNext, At, Idle, Guarded
  <2>2. ASSUME NEW c \in job[p].todo,
               job' = [job EXCEPT ![p] = [job[p] EXCEPT !.todo = job[p].todo \ {c},
                                            !.cell = c,
                                            !.rec = cell[c],
                                            !.pc = IF c \in inflight THEN "gc_next"
                                                   ELSE "destroy_load"]]
        PROVE  /\ \A q \in Processes \ {p} : job'[q] = job[q]
               /\ job'[p].pc \notin Guarded
    BY <1>1, <2>2, Zenon DEF Guarded, Jobs
  <2> QED
    BY <1>5, <2>1, <2>2, ZenonT(30) DEF GcNext, At
<1>6. CASE Crash(p)
  BY <1>1, <1>6, Zenon DEF Crash, Idle, Guarded
<1> QED
  BY <1>3, <1>4, <1>5, <1>6, Zenon DEF Begin

\* A step of a process leaves everybody with what their labels ask for.
LEMMA ProcessSecured ==
  ASSUME IInv, NEW p \in Processes, Begin(p) \/ Step(p) \/ ReturnError(p) \/ Crash(p)
  PROVE  \A q \in Processes : Secured(job[q])' /\ Finished(job[q])'
<1>1. "idle" \notin Guarded /\ Idle.pc = "idle"
  BY Zenon DEF Guarded, Idle
<1>2. CASE Begin(p) \/ GcNext(p) \/ Crash(p)
  <2>1. /\ lock \in {p, NoProcess}
        /\ \A q \in Processes \ {p} : job'[q] = job[q]
        /\ job'[p].pc \notin Guarded
    BY <1>2, EdgeJob, Zenon
  <2>2. \A q \in Processes : job'[q].pc \notin Guarded
    BY <1>1, <2>1, OthersIdle, Zenon
  <2> QED
    BY <2>2, Unguarded, Zenon
<1>3. CASE (Step(p) \/ ReturnError(p)) /\ ~ GcNext(p)
  <2>1. JobMove(p)
    BY <1>3, StepMoves, Zenon
  <2>2. \A q \in Processes \ {p} : job'[q].pc \notin Guarded
    BY <1>1, <2>1, OthersIdle, Zenon DEF JobMove
  <2> QED
    BY <2>1, <2>2, Unguarded, Zenon DEF JobMove
<1> QED
  BY <1>2, <1>3, Zenon

\* What a process knows of a new VM is not lost when others move.
LEMMA BystanderSecured ==
  ASSUME IInv, OriginKept, UNCHANGED job, NEW q \in Processes, Secured(job[q])
  PROVE  Secured(job[q])'
<1>1. job[q].pc = "save_id" => job[q].rec.id \in used
  <2> SUFFICES ASSUME job[q].pc = "save_id" PROVE job[q].rec.id \in used
    BY Zenon
  <2>1. job[q] # Idle
    BY DEF Idle
  <2> QED
    BY ZenonT(30), <2>1, BusyFacts DEF Working, Creating
<1> QED
  BY <1>1, Zenon DEF Secured, OriginKept

\* A cell that was usable once stays in the phases that follow.
LEMMA PoweredStays ==
  ASSUME IInv, [Next]_vars, NEW c \in Cells, cell[c].phase \in Powered
  PROVE  cell'[c].phase \in Powered
<1>1. IInv' /\ Advances(cell[c], cell'[c])
  BY NextInv, NextAdvances, Zenon
<1>2. cell'[c].phase \in Phases
  BY <1>1, Zenon DEF IInv, TypeOK, Records
<1>3. Rank(cell[c].phase) \in {5, 6, 7}
  BY Ranks, Zenon DEF Powered
<1>4. Rank(cell[c].phase) <= Rank(cell'[c].phase)
  BY <1>1, Zenon DEF Advances
<1> QED
  BY <1>2, <1>3, <1>4, Ranks DEF Phases, Powered

\* A delayed verb keeps what it was sent with.
LEMMA DelayedStays ==
  ASSUME IInv, OwnInv, [Next]_vars, NEW o \in orphans
  PROVE  Delayed(o)'
<1> DEFINE c == o.cell
<1>1. c \in Cells /\ Delayed(o)
  BY Zenon DEF IInv, TypeOK, OwnInv
<1>2. Advances(cell[c], cell'[c])
  BY <1>1, NextAdvances, Zenon
<1>3. o.verb \in VmVerbs => o.id # NoId /\ o.id = cell'[c].id
  BY <1>1, <1>2, Zenon DEF Delayed, Advances
<1>4. o.verb = "start_vm" => cell'[c].phase \in Powered
  BY <1>1, PoweredStays, Zenon DEF Delayed
<1>5. o.verb = "remove_vm" => cell'[c].state \in {"Destroying", "Destroyed"}
  BY <1>1, <1>2, RankBounds, Zenon DEF Delayed, Advances
<1> QED
  BY <1>1, <1>3, <1>4, <1>5, Zenon DEF Delayed

\* A process that dies leaves such a verb behind.
LEMMA CrashDelays ==
  ASSUME IInv, OwnInv, [Next]_vars, NEW p \in Processes, Crash(p)
  PROVE  \A o \in orphans' : Delayed(o)'
<1> DEFINE n == [verb |-> job[p].pc, cell |-> job[p].cell, id |-> job[p].rec.id,
                 seen |-> job[p].seen]
<1>1. /\ lock = p /\ UNCHANGED cell
      /\ orphans' = orphans \/ (job[p].pc \in Verbs /\ orphans' = orphans \cup {n})
  BY Zenon DEF Crash
<1>2. Proved(job[p].pc, job[p].cell, job[p].seen)
  BY SMTT(30) DEF OwnInv, Secured
<1>3. ASSUME job[p].pc \in VmVerbs
      PROVE  /\ job[p].rec.id # NoId /\ job[p].rec.id = cell[job[p].cell].id
             /\ job[p].pc = "start_vm" => cell[job[p].cell].phase \in Powered
             /\ job[p].pc = "remove_vm" => cell[job[p].cell].state = "Destroying"
  BY <1>1, <1>3, CallFacts, Zenon DEF At
<1>4. ASSUME NEW o, o = n
      PROVE  Delayed(o)'
  <2>1. o.verb = job[p].pc /\ o.cell = job[p].cell /\ o.id = job[p].rec.id /\ o.seen = job[p].seen
    BY <1>4, Zenon
  <2>2. Proved(o.verb, o.cell, o.seen)
    BY <1>2, <2>1, Zenon
  <2> QED
    BY <1>1, <1>3, <2>1, <2>2, Zenon DEF Delayed, VmVerbs
<1> HIDE DEF n
<1> QED
  BY <1>1, <1>4, DelayedStays, Zenon

\* A step changes no manifest, or saves one and leaves the host alone.
LEMMA NextCell ==
  ASSUME IInv, OwnInv, [Next]_vars
  PROVE  \/ UNCHANGED cell
         \/ \E p \in Processes : SavesManifest(p) /\ UNCHANGED <<host, drift>>
<1>1. ASSUME NEW p \in Processes, Begin(p) \/ Step(p) \/ ReturnError(p) \/ Crash(p)
      PROVE  UNCHANGED cell \/ (SavesManifest(p) /\ UNCHANGED <<host, drift>>)
  BY <1>1, ProcessHost, Zenon
<1>2. ASSUME Environment PROVE UNCHANGED cell
  BY Zenon, <1>2 DEF Environment, OrphanVerb, Interfere, Expire, GuestOperationInterrupted, GuestOperationReconciled
<1>3. ASSUME UNCHANGED vars PROVE UNCHANGED cell
  BY <1>3, Zenon DEF vars
<1> QED
  BY <1>1, <1>2, <1>3, Zenon DEF Next

\* The id that is saved is the one create_vm returned for this cell.
LEMMA RecordedStaysOwn ==
  ASSUME IInv, OwnInv, [Next]_vars
  PROVE  RecordedIsOwn'
<1> SUFFICES ASSUME NEW d \in Cells, cell'[d].id # NoId, vms'[cell'[d].id] # NoVm
             PROVE  vms'[cell'[d].id].origin = d
  BY Zenon DEF RecordedIsOwn
<1>1. CASE cell'[d].id = cell[d].id
  <2>1. cell[d].id \in used
    BY <1>1, SMTT(30) DEF IInv, HostInv, IdsInv
  <2>2. vms[cell[d].id] # NoVm /\ vms'[cell[d].id].origin = vms[cell[d].id].origin
    BY <1>1, <2>1, NextKeepsOrigin, Zenon DEF OriginKept
  <2> QED
    BY <1>1, <2>2, Zenon DEF OwnInv, RecordedIsOwn
<1>2. CASE cell'[d].id # cell[d].id
  <2>1. PICK p \in Processes : SavesManifest(p) /\ UNCHANGED <<host, drift>>
    BY <1>2, NextCell, Zenon
  <2>2. PICK l : Saved(p, l)
    BY <2>1, SaveFacts, SMTT(30)
  <2>3. PICK r \in Records : /\ cell' = [cell EXCEPT ![job[p].cell] = r]
                             /\ Succeeds(l, cell[job[p].cell], r)
                             /\ l = "save_id" => r.id = job[p].rec.id
    BY <2>2, ZenonT(30) DEF Saved
  <2>4. d = job[p].cell /\ cell'[d] = r
    BY <1>2, <2>3, Zenon DEF IInv, TypeOK
  <2>5. l = "save_id"
    BY <1>2, <2>3, <2>4, ZenonT(30) DEF Succeeds, Unidentified, NoRecord
  <2>6. Secured(job[p]) /\ job[p].pc = "save_id"
    BY <2>2, <2>5, Zenon DEF OwnInv, Saved, At
  <2> QED
    BY <2>1, <2>3, <2>4, <2>5, <2>6, Zenon DEF Secured, host
<1> QED
  BY <1>1, <1>2, Zenon

\* OwnInv is inductive, given IInv.
LEMMA InitOwn == Init => OwnInv
BY DEF Init, OwnInv, RecordedIsOwn, Secured, Proved, Idle, NoRecord

LEMMA NextOwn ==
  ASSUME IInv, OwnInv, [Next]_vars
  PROVE  OwnInv'
<1>1. RecordedIsOwn'
  BY RecordedStaysOwn, Zenon
<1>2. ASSUME UNCHANGED job PROVE \A q \in Processes : Secured(job[q])'
  BY <1>2, NextKeepsOrigin, BystanderSecured, Zenon DEF OwnInv
<1>3. ASSUME Environment \/ UNCHANGED vars PROVE UNCHANGED job /\ orphans' \subseteq orphans
  BY Zenon, <1>3 DEF Environment, OrphanVerb, Interfere, Expire, GuestOperationInterrupted,
                     GuestOperationReconciled, vars
<1>4. \A q \in Processes : Secured(job[q])'
  BY <1>2, <1>3, ProcessSecured, Zenon DEF Next
<1>5. ASSUME NEW p \in Processes, Begin(p) PROVE UNCHANGED orphans
  BY Zenon, <1>5 DEF Begin, CreateCell, StartCell, StopCell, DestroyCell, DestroyCellForRun, GcExpired, aside
<1>6. ASSUME NEW p \in Processes, Step(p) \/ ReturnError(p) PROVE UNCHANGED orphans
  <2>1. CASE GcNext(p)
    BY <2>1, ZenonT(30) DEF GcNext, aside
  <2>2. CASE ~ GcNext(p)
    BY <1>6, <2>2, StepMoves, Zenon DEF aside
  <2> QED
    BY <2>1, <2>2, SMTT(30)
<1>7. orphans' \subseteq orphans \/ \E p \in Processes : Crash(p)
  BY <1>3, <1>5, <1>6, Zenon DEF Next
<1>8. \A o \in orphans' : Delayed(o)'
  BY <1>7, DelayedStays, CrashDelays, Zenon
<1> QED
  BY <1>1, <1>4, <1>8, Zenon DEF OwnInv

\* Nobody but the engine changes what it may change; see OwnInv.
THEOREM Ownership == Spec => [](IInv /\ OwnInv)
<1>1. ASSUME IInv, OwnInv, [Next]_vars PROVE OwnInv'
  BY <1>1, NextOwn, Zenon
<1> QED
  BY <1>1, InitOwn, Invariance, PTL DEF Spec

\* What a step of the engine does to a VM.
LEMMA VmTouched ==
  ASSUME IInv, OwnInv, [Next]_vars, drift' = drift, NEW v \in VmIds, vms[v] # NoVm, vms'[v] # vms[v]
  PROVE  \E c \in Cells : Acts(c, v, vms'[v])
<1>1. vms \in [VmIds -> Vms \cup {NoVm}] /\ drift \in Nat
  BY BoundAssumption DEF IInv, TypeOK
<1>2. ~ Interfere
  BY <1>1 DEF Interfere
<1>3. ~ UNCHANGED host
  BY Zenon DEF host
<1>4. PICK c \in Cells : HostMove(c)
  BY <1>2, <1>3, NextHost, Zenon
<1>5. ~ \E x : TakesRuntime(c, x) \/ FreesRuntime(c, x)
  BY Zenon DEF TakesRuntime, FreesRuntime
<1>6. ~ \E w : VmCreation(c, w)
  BY <1>1, SMTT(30) DEF VmCreation, IInv, HostInv, IdsInv
<1>7. PICK x : Acts(c, cell[c].id, x)
  BY <1>4, <1>5, <1>6, Zenon DEF HostMove
<1>8. v = cell[c].id /\ vms'[v] = x
  BY <1>1, <1>7, SMTT(30) DEF Acts, VmChange
<1> QED
  BY <1>7, <1>8, SMTT(30)

\* No verb of the engine, whether its process is alive or not, changes a VM
\* that is not the one its cell created and recorded, and none removes a VM that
\* is on or whose manifest does not say Destroying: for any numbers of cells,
\* processes, VMs, interferences and delayed verbs.
THEOREM TouchedAreRecorded == Spec => VerbsTouchOnlyRecordedVms
<1>1. ASSUME IInv, OwnInv, [Next]_vars
      PROVE  [drift' = drift =>
                \A v \in VmIds : vms[v] # NoVm /\ vms'[v] # vms[v] =>
                  \E c \in Cells :
                    /\ Own(c, v)
                    /\ vms'[v] = NoVm => /\ cell[c].state = "Destroying"
                                         /\ vms[v].power = "off"]_vars
  <2> SUFFICES ASSUME drift' = drift, NEW v \in VmIds, vms[v] # NoVm, vms'[v] # vms[v]
               PROVE  \E c \in Cells :
                        /\ Own(c, v)
                        /\ vms'[v] = NoVm => /\ cell[c].state = "Destroying"
                                             /\ vms[v].power = "off"
    BY Zenon
  <2>1. PICK c \in Cells : Acts(c, v, vms'[v])
    BY <1>1, VmTouched, Zenon
  <2> QED
    BY <2>1, Zenon DEF Acts
<1> QED
  BY <1>1, Ownership, PTL DEF Spec, VerbsTouchOnlyRecordedVms

\* start_vm, delayed or not, switches on only VMs that are exactly as their
\* cell configured them.
THEOREM StartedAreConfigured == Spec => StartsOnlyConfiguredVms
<1>1. ASSUME IInv, OwnInv, [Next]_vars
      PROVE  [drift' = drift =>
                \A v \in VmIds :
                  vms[v] # NoVm /\ vms[v].power # "running"
                    /\ vms'[v] # NoVm /\ vms'[v].power = "running" =>
                  \E c \in Cells : Own(c, v) /\ ProveOwnership(c, vms[v])]_vars
  <2> SUFFICES ASSUME drift' = drift, NEW v \in VmIds, vms[v] # NoVm, vms[v].power # "running",
                      vms'[v] # NoVm, vms'[v].power = "running"
               PROVE  \E c \in Cells : Own(c, v) /\ ProveOwnership(c, vms[v])
    BY Zenon
  <2>1. PICK c \in Cells : Acts(c, v, vms'[v])
    BY <1>1, VmTouched, Zenon
  <2> QED
    BY <2>1, Zenon DEF Acts
<1> QED
  BY <1>1, Ownership, PTL DEF Spec, StartsOnlyConfiguredVms
=============================================================================
