------------------------ MODULE CellEngineOwnership -------------------------
(***************************************************************************)
(* Which cells gc may touch, what interruptions alone do to ownership, and *)
(* that every step of CellEngine is one CellLifecycle allows.              *)
(***************************************************************************)
EXTENDS CellEngineProofs

-----------------------------------------------------------------------------
(***************************************************************************)
(* What gc touches                                                         *)
(***************************************************************************)

\* What gc knows of the cells it has still to look at and of the one it destroys.
Chosen(j) ==
  j.op = "gc" =>
    /\ \A c \in j.todo : ttl[c] = "expired"
    /\ j.pc # "gc_next" => ttl[j.cell] = "expired" /\ j.cell \notin inflight

GcInv == \A p \in Processes : Chosen(job[p])

\* While anybody has the lock no guest operation begins or ends and nothing
\* expired comes back to life.
LEMMA ExpiredStays ==
  ASSUME IInv, [Next]_vars, lock # NoProcess
  PROVE  inflight' = inflight /\ \A c \in Cells : ttl[c] = "expired" => ttl'[c] = "expired"
<1>1. ttl \in [Cells -> {"none", "live", "expired"}]
  BY Zenon DEF IInv, TypeOK
<1>2. ASSUME NEW p \in Processes PROVE ~ Begin(p)
  BY Zenon DEF Begin, CreateCell, StartCell, StopCell, DestroyCell, DestroyCellForRun, GcExpired, Acquire
<1>3. ASSUME NEW p \in Processes, Step(p) \/ ReturnError(p) PROVE UNCHANGED <<ttl, inflight>>
  <2>1. CASE GcNext(p)
    BY <2>1, ZenonT(30) DEF GcNext, aside
  <2>2. CASE ~ GcNext(p)
    BY <1>3, <2>2, StepMoves, Zenon DEF aside
  <2> QED
    BY <2>1, <2>2, SMTT(30)
<1>4. ASSUME NEW p \in Processes, Crash(p) PROVE UNCHANGED <<ttl, inflight>>
  BY <1>4, Zenon DEF Crash
<1>5. ASSUME NEW c \in Cells, Expire(c)
      PROVE  inflight' = inflight /\ \A d \in Cells : ttl[d] = "expired" => ttl'[d] = "expired"
  BY <1>1, <1>5, Zenon DEF Expire
<1>6. Environment => UNCHANGED <<ttl, inflight>> \/ \E c \in Cells : Expire(c)
  BY Zenon DEF Environment, OrphanVerb, Interfere, GuestOperationInterrupted,
               GuestOperationReconciled
<1> QED
  BY <1>2, <1>3, <1>4, <1>5, <1>6, Zenon DEF Next, vars

\* Who is left alone keeps what they know.
LEMMA ChosenStays ==
  ASSUME IInv, [Next]_vars, NEW q \in Processes, job[q] # Idle, Chosen(job[q]),
         job'[q].op = job[q].op, job'[q].todo = job[q].todo, job'[q].cell = job[q].cell,
         job[q].pc = "gc_next" => job'[q].pc = "gc_next"
  PROVE  Chosen(job[q])'
<1>1. lock = q /\ lock # NoProcess
  BY DistinctAssumption, SMTT(30) DEF IInv, LockInv
<1>2. job[q] \in Jobs
  BY Zenon DEF IInv, TypeOK
<1>3. job[q].todo \subseteq Cells /\ job[q].cell \in Cells \cup {NoCell}
  BY <1>2, Zenon DEF Jobs
<1>4. job[q].pc # "gc_next" => job[q].cell \in Cells
  BY Zenon DEF IInv, ControlInv, Works, Working
<1> QED
  BY <1>1, <1>3, <1>4, ExpiredStays DEF Chosen

\* GcInv is inductive, given IInv.
LEMMA InitGc == Init => GcInv
BY DEF Init, GcInv, Chosen, Idle

LEMMA NextGc ==
  ASSUME IInv, GcInv, [Next]_vars
  PROVE  GcInv'
<1>1. job \in [Processes -> Jobs]
  BY Zenon DEF IInv, TypeOK
<1>2. ASSUME NEW q \in Processes, job'[q] = Idle PROVE Chosen(job[q])'
  BY <1>2 DEF Chosen, Idle
<1>3. ASSUME NEW q \in Processes, job'[q] = job[q] PROVE Chosen(job[q])'
  BY <1>2, <1>3, ChosenStays, Zenon DEF GcInv
<1>4. ASSUME NEW p \in Processes, JobMove(p) PROVE GcInv'
  <2>1. job[p] # Idle
    BY <1>4, Zenon DEF JobMove, IInv, LockInv
  <2>2. Chosen(job[p])'
    BY <1>2, <1>4, <2>1, ChosenStays, Zenon DEF GcInv, JobMove
  <2> QED
    BY <1>3, <1>4, <2>2, Zenon DEF JobMove, GcInv
<1>5. ASSUME NEW p \in Processes, Begin(p) PROVE GcInv'
  <2>1. \A q \in Processes \ {p} : job'[q] = job[q]
    BY <1>5, EdgeJob, Zenon
  <2>2. CASE GcExpired(p)
    <3>1. /\ job'[p].todo = {c \in Cells : cell[c] # NoRecord /\ ttl[c] = "expired"}
          /\ job'[p].pc = "gc_next" /\ ttl' = ttl
      BY <1>1, <2>2, Zenon DEF GcExpired, Idle, aside
    <3> QED
      BY <1>3, <2>1, <3>1, SMTT(30) DEF GcInv, Chosen
  <2>3. CASE ~ GcExpired(p)
    <3>1. \E op \in {"create", "start", "stop", "destroy"} : \E c, l, r : Acquire(p, op, c, l, r)
      BY <1>5, <2>3, Zenon DEF Begin, CreateCell, StartCell, StopCell, DestroyCell, DestroyCellForRun
    <3>2. job'[p].op # "gc"
      BY <1>1, <3>1, Zenon DEF Acquire, Idle
    <3> QED
      BY <1>3, <2>1, <3>2, Zenon DEF GcInv, Chosen
  <2> QED
    BY <2>2, <2>3, Zenon
<1>6. ASSUME NEW p \in Processes, GcNext(p) PROVE GcInv'
  <2>1. \A q \in Processes \ {p} : job'[q] = job[q]
    BY <1>6, EdgeJob, Zenon
  <2>2. CASE job'[p] = Idle
    BY <1>2, <1>3, <2>1, <2>2, Zenon DEF GcInv
  <2>3. CASE job'[p] # Idle
    <3>1. PICK c \in job[p].todo :
                 job' = [job EXCEPT ![p] =
                           [job[p] EXCEPT !.todo = job[p].todo \ {c}, !.cell = c,
                                          !.rec = cell[c],
                                          !.pc = IF c \in inflight THEN "gc_next"
                                                 ELSE "destroy_load"]]
      BY <1>1, <1>6, <2>3, ZenonT(30) DEF GcNext
    <3>2. /\ job'[p].op = job[p].op /\ job'[p].cell = c
          /\ job'[p].todo = job[p].todo \ {c}
          /\ job'[p].pc = IF c \in inflight THEN "gc_next" ELSE "destroy_load"
      BY <1>1, <3>1, SMTT(30) DEF Jobs
    <3>3. UNCHANGED <<ttl, inflight>>
      BY <1>6, ZenonT(30) DEF GcNext, aside
    <3>4. Chosen(job[p])
      BY Zenon DEF GcInv
    <3>5. Chosen(job[p])'
      BY <3>2, <3>3, <3>4, Zenon DEF Chosen
    <3> QED
      BY <1>3, <2>1, <3>5, SMTT(30) DEF GcInv
  <2> QED
    BY <2>2, <2>3, Zenon
<1>7. ASSUME NEW p \in Processes, Crash(p) PROVE GcInv'
  BY <1>1, <1>2, <1>3, <1>7, Zenon DEF Crash, GcInv
<1>8. ASSUME Environment \/ UNCHANGED vars PROVE UNCHANGED job
  BY Zenon, <1>8 DEF Environment, OrphanVerb, Interfere, Expire, GuestOperationInterrupted,
                     GuestOperationReconciled, vars
<1>9. ASSUME NEW p \in Processes, Step(p) \/ ReturnError(p) PROVE GcInv'
  BY <1>4, <1>6, <1>9, StepMoves, Zenon
<1> QED
  BY <1>3, <1>5, <1>7, <1>8, <1>9, Zenon DEF Next, GcInv

\* What changes of a cell's runtime and VM changes for that cell.
LEMMA MoveTouches ==
  ASSUME IInv, NEW d, HostMove(d), NEW c \in Cells,
         runtime'[c] # runtime[c] \/ \E v \in VmIds : Own(c, v) /\ vms'[v] # vms[v]
  PROVE  c = d
<1>1. vms \in [VmIds -> Vms \cup {NoVm}] /\ runtime \in [Cells -> Runtimes]
  BY Zenon DEF IInv, TypeOK
<1>2. CASE \E x : TakesRuntime(d, x) \/ FreesRuntime(d, x)
  BY <1>1, <1>2, Zenon DEF TakesRuntime, FreesRuntime
<1>3. CASE \E v : VmCreation(d, v)
  BY <1>1, <1>3, Zenon DEF VmCreation, Own, IInv, HostInv, IdsInv
<1>4. CASE \E x : Acts(d, cell[d].id, x)
  BY <1>1, <1>4, SMTT(30) DEF Acts, VmChange, Own
<1> QED
  BY <1>2, <1>3, <1>4, Zenon DEF HostMove

\* gc, at whatever speed and next to whatever else, changes the manifest, the
\* runtime or the VM only of cells that were expired and had no nonterminal
\* guest operation: for any numbers of cells, processes and VMs.
THEOREM LiveCellsSpared == Spec => GcSparesLiveCells
<1>1. ASSUME IInv, OwnInv, GcInv, [Next]_vars
      PROVE  [\A p \in Processes, c \in Cells :
                /\ lock = p /\ job[p].op = "gc" /\ job'[p] # job[p]
                /\ \/ cell'[c] # cell[c]
                   \/ runtime'[c] # runtime[c]
                   \/ \E v \in VmIds : Own(c, v) /\ vms'[v] # vms[v]
                => ttl[c] = "expired" /\ c \notin inflight]_vars
  <2> SUFFICES ASSUME NEW p \in Processes, NEW c \in Cells,
                      lock = p, job[p].op = "gc", job'[p] # job[p],
                      \/ cell'[c] # cell[c]
                      \/ runtime'[c] # runtime[c]
                      \/ \E v \in VmIds : Own(c, v) /\ vms'[v] # vms[v]
               PROVE  ttl[c] = "expired" /\ c \notin inflight
    BY Zenon
  <2>1. ~ (UNCHANGED cell /\ UNCHANGED host)
    BY Zenon DEF host
  <2>2. ASSUME NEW q \in Processes, Begin(q) \/ GcNext(q) \/ Crash(q) PROVE FALSE
    <3>1. UNCHANGED cell /\ UNCHANGED host
      BY Zenon, <2>2 DEF Begin, CreateCell, StartCell, StopCell, DestroyCell, DestroyCellForRun,
                         GcExpired, GcNext, Crash
    <3> QED
      BY <2>1, <3>1, Zenon
  <2>3. Environment \/ UNCHANGED vars => UNCHANGED job
    BY Zenon DEF Environment, OrphanVerb, Interfere, Expire, GuestOperationInterrupted,
                 GuestOperationReconciled, vars
  <2>4. PICK q \in Processes : (Step(q) \/ ReturnError(q)) /\ ~ GcNext(q)
    BY <1>1, <2>2, <2>3, Zenon DEF Next
  <2>5. JobMove(q)
    BY <1>1, <2>4, StepMoves, Zenon
  <2>6. q = p /\ job[p].pc # "gc_next"
    BY <2>5, Zenon DEF JobMove
  <2>7. c = job[p].cell
    <3>1. CASE UNCHANGED cell
      <4>1. HostMove(job[p].cell)
        BY <1>1, <2>1, <2>4, <2>6, <3>1, ProcessHost, Zenon
      <4> QED
        BY <1>1, <3>1, <4>1, MoveTouches, Zenon
    <3>2. CASE ~ UNCHANGED cell
      <4>1. SavesManifest(p) /\ UNCHANGED host
        BY <1>1, <2>4, <2>6, <3>2, ProcessHost, SMTT(30)
      <4>2. cell'[c] # cell[c]
        BY <4>1, Zenon DEF host
      <4>3. \E l : Saved(p, l)
        BY <1>1, <4>1, SaveFacts, Zenon
      <4> QED
        BY <1>1, <4>2, <4>3, Zenon DEF Saved, IInv, TypeOK
    <3> QED
      BY <3>1, <3>2, Zenon
  <2> QED
    BY <1>1, <2>6, <2>7, Zenon DEF GcInv, Chosen
<1>2. ASSUME IInv, GcInv, [Next]_vars PROVE GcInv'
  BY <1>2, NextGc, Zenon
<1> QED
  BY <1>1, <1>2, InitGc, Ownership, PTL DEF Spec, GcSparesLiveCells

-----------------------------------------------------------------------------
(***************************************************************************)
(* What crashes, errors and delayed verbs alone do to ownership            *)
(***************************************************************************)

\* What the cell c finds of a VM that its create made and nobody interfered with.
Shaped(c, vm) ==
  /\ c \in Cells /\ vm.name = c
  /\ vm.marker \in {NoMarker, c} /\ vm.shape \in {"fresh", "configured"}
  /\ vm.power # "off" => cell[c].phase \in Powered
  /\ cell[c].phase \in Claimed => vm.marker = c
  /\ cell[c].phase \in {"Ready", "Destroying"} => vm.shape = "configured"

ShapeInv ==
  drift = 0 =>
    /\ \A v \in VmIds : vms[v] # NoVm => Shaped(vms[v].origin, vms[v])
    /\ \A p \in Processes : Finished(job[p])

\* The recorded VM of an identified cell is the only one of its origin.
LEMMA RecordedVm ==
  ASSUME IInv, NEW v \in VmIds, vms[v] # NoVm, vms[v].origin \in Cells,
         cell[vms[v].origin].id # NoId
  PROVE  cell[vms[v].origin].id = v
BY Zenon DEF IInv, HostInv, EveryVmAccountedFor

\* A save promises no more of the VM than has been done to it.
LEMMA SaveShapes ==
  ASSUME IInv, OwnInv, [Next]_vars, NEW p \in Processes, SavesManifest(p), UNCHANGED vms,
         Finished(job[p]), NEW v \in VmIds, vms[v] # NoVm, Shaped(vms[v].origin, vms[v])
  PROVE  Shaped(vms[v].origin, vms[v])'
<1> DEFINE c == vms[v].origin
<1>1. PICK l : Saved(p, l)
  BY SaveFacts, SMTT(30)
<1>2. PICK r \in Records : /\ cell' = [cell EXCEPT ![job[p].cell] = r]
                           /\ Succeeds(l, cell[job[p].cell], r)
  BY <1>1, ZenonT(30) DEF Saved
<1>3. c \in Cells /\ cell \in [Cells -> Records]
  BY Zenon DEF Shaped, IInv, TypeOK
<1>4. CASE c # job[p].cell
  BY <1>2, <1>3, <1>4, SMTT(30) DEF Shaped
<1>5. CASE c = job[p].cell
  <2>1. cell'[c] = r /\ Succeeds(l, cell[c], r)
    BY <1>2, <1>3, <1>5, Zenon
  <2>2. vms[v].power # "off" => cell'[c].phase \in Powered
    BY <1>3, PoweredStays, Zenon DEF Shaped
  <2>3. ASSUME l \in {"save_claimed", "save_recovered", "save_ready"}, cell[c].id # NoId
        PROVE  job[p].rec.id = v
    <3>1. job[p].rec = cell[c]
      BY <1>1, <1>5, <2>3, AtFacts, Zenon DEF Saved, Working
    <3> QED
      BY <1>3, <2>3, <3>1, RecordedVm, SMTT(30)
  <2>4. cell[c].phase \in {"ProviderObjectCreated", "ProviderObjectClaimed"} => cell[c].id # NoId
    BY <1>3, SMTT(30) DEF IInv, HostInv, ManifestConsistent
  <2>5. r.phase \in Claimed => vms[v].marker = c
    <3>1. CASE cell[c].phase \in Claimed
      BY <3>1, SMTT(30) DEF Shaped
    <3>2. CASE cell[c].phase \notin Claimed /\ r.phase \in Claimed
      <4>1. l \in {"save_claimed", "save_recovered"} /\ cell[c].phase = "ProviderObjectCreated"
        <5>1. cell[c].state = "Destroyed" <=> cell[c].phase = "Destroyed"
          BY <1>3, Zenon DEF IInv, HostInv, ManifestConsistent
        <5>2. vms[cell[c].id] # NoVm \/ cell[c].id = NoId
          BY <1>3, RecordedVm, SMTT(30)
        <5> QED
          BY <2>1, <3>2, <5>1, <5>2, ZenonT(30) DEF Succeeds, Unidentified, Claimed, Powered
      <4> QED
        BY <1>1, <1>5, <2>3, <2>4, <4>1, SMTT(30) DEF Saved, At, Finished
    <3> QED
      BY <3>1, <3>2, SMTT(30)
  <2>6. r.phase \in {"Ready", "Destroying"} => vms[v].shape = "configured"
    <3>1. CASE cell[c].phase \in {"Ready", "Destroying"}
      BY <3>1, SMTT(30) DEF Shaped
    <3>2. CASE cell[c].phase \notin {"Ready", "Destroying"} /\ r.phase \in {"Ready", "Destroying"}
      <4>1. l = "save_ready" /\ cell[c].phase = "ProviderObjectClaimed"
        BY <2>1, <3>2, SMTT(30) DEF Succeeds, Unidentified
      <4> QED
        BY <1>1, <1>5, <2>3, <2>4, <4>1, SMTT(30) DEF Saved, At, Finished
    <3> QED
      BY <3>1, <3>2, Zenon
  <2> QED
    BY <1>3, <2>1, <2>2, <2>5, <2>6, Zenon DEF Shaped
<1> QED
  BY <1>4, <1>5, Zenon

\* A verb leaves the VMs it touches as their cells expect them.
LEMMA MoveShapes ==
  ASSUME IInv, NEW d, HostMove(d), UNCHANGED cell,
         \A v \in VmIds : vms[v] # NoVm => Shaped(vms[v].origin, vms[v]),
         NEW w \in VmIds, vms'[w] # NoVm
  PROVE  Shaped(vms[w].origin, vms[w])'
<1>1. vms \in [VmIds -> Vms \cup {NoVm}]
  BY Zenon DEF IInv, TypeOK
<1>2. CASE vms'[w] = vms[w]
  <2>1. Shaped(vms[w].origin, vms[w])
    BY <1>2, Zenon
  <2> QED
    BY <1>2, <2>1, Zenon DEF Shaped
<1>3. CASE \E v : VmCreation(d, v) /\ vms'[w] # vms[w]
  <2>1. /\ d \in Cells /\ cell[d].phase = "OverlayCreated"
        /\ vms'[w] = CreatedVm(d)
    BY <1>1, <1>3, SMTT(30) DEF VmCreation
  <2> QED
    BY <2>1, SMTT(30) DEF CreatedVm, Shaped, Claimed, Powered
<1>4. CASE \E x : Acts(d, cell[d].id, x) /\ vms'[w] # vms[w]
  <2>1. PICK x : Acts(d, cell[d].id, x)
    BY <1>4, SMTT(30)
  <2>2. /\ w = cell[d].id /\ vms'[w] = x /\ vms[w].origin = d /\ x.origin = d
        /\ vms[w] # NoVm /\ x \in Vms
    BY <1>1, <1>4, <2>1, ZenonT(30) DEF Acts, VmChange, Own
  <2>3. Shaped(d, vms[w])
    BY <2>2, SMTT(30)
  <2>4. /\ x.name = vms[w].name
        /\ x.marker \in {vms[w].marker, d}
        /\ x.shape \in {vms[w].shape, "configured"}
        /\ x.power = vms[w].power \/ x.power = "off" \/ cell[d].phase \in Powered
    BY <2>1, <2>2, Zenon DEF Acts
  <2> QED
    BY <2>2, <2>3, <2>4, SMTT(30) DEF Shaped
<1> QED
  BY <1>2, <1>3, <1>4, SMTT(30) DEF HostMove, TakesRuntime, FreesRuntime

\* Somebody else's verb takes nothing back of what has been done to a VM.
LEMMA MoveFinished ==
  ASSUME IInv, OwnInv, NEW d, HostMove(d), UNCHANGED job, NEW q \in Processes, Finished(job[q])
  PROVE  Finished(job[q])'
<1> DEFINE c == job[q].cell
           v == job[q].rec.id
<1>1. vms \in [VmIds -> Vms \cup {NoVm}]
  BY SMTT(30) DEF IInv, TypeOK
<1>2. CASE job[q].pc \notin {"save_claimed", "save_recovered", "save_ready"}
  BY <1>2, Zenon DEF Finished
<1>3. CASE job[q].pc \in {"save_claimed", "save_recovered", "save_ready"} /\ vms'[v] # NoVm
  <2>1. job[q] # Idle
    BY <1>3 DEF Idle
  <2>2. Works(q)
    BY <2>1, Zenon DEF IInv, ControlInv
  <2>3. c \in Cells /\ job[q].rec = cell[c]
    BY <1>3, <2>2, SMTT(30) DEF Works, Working
  <2>4. cell[c].phase \in {"ProviderObjectCreated", "ProviderObjectClaimed"}
    BY <1>3, <2>2, <2>3, ZenonT(30) DEF Works, Working, Creating, Destroying
  <2>5. v # NoId /\ v \in used /\ v \in VmIds /\ v = cell[c].id
    BY <2>3, <2>4, SMTT(30) DEF IInv, HostInv, IdsInv, ManifestConsistent, TypeOK
  <2>6. CASE vms'[v] = vms[v]
    BY <1>3, <2>6, ZenonT(30) DEF Finished
  <2>7. CASE vms'[v] # vms[v]
    <3>1. ~ \E w : VmCreation(d, w)
      BY <1>1, <2>5, <2>7, SMTT(30) DEF VmCreation
    <3>2. PICK x : Acts(d, cell[d].id, x)
      BY <2>7, <3>1, SMTT(30) DEF HostMove, TakesRuntime, FreesRuntime
    <3>3. v = cell[d].id /\ vms'[v] = x /\ vms[v] # NoVm /\ vms[v].origin = d
      BY <1>1, <2>5, <2>7, <3>2, ZenonT(30) DEF Acts, VmChange, Own
    <3>4. d = c
      BY <2>3, <2>5, <3>3, SMTT(30) DEF OwnInv, RecordedIsOwn
    <3>5. /\ x.marker \in {vms[v].marker, c}
          /\ x.shape \in {vms[v].shape, "configured"}
      BY <1>3, <3>2, <3>3, <3>4, ZenonT(30) DEF Acts
    <3> QED
      BY <3>3, <3>5, SMTT(30) DEF Finished
  <2> QED
    BY <2>6, <2>7, Zenon
<1>4. CASE vms'[v] = NoVm
  BY <1>4, Zenon DEF Finished
<1> QED
  BY <1>2, <1>3, <1>4, Zenon

\* ShapeInv is inductive, given IInv and OwnInv.
LEMMA InitShape == Init => ShapeInv
BY DEF Init, ShapeInv, Finished, Idle

LEMMA NextShape ==
  ASSUME IInv, OwnInv, ShapeInv, [Next]_vars
  PROVE  ShapeInv'
<1> SUFFICES ASSUME drift' = 0
             PROVE  /\ \A v \in VmIds : vms'[v] # NoVm => Shaped(vms[v].origin, vms[v])'
                    /\ \A p \in Processes : Finished(job[p])'
  BY Zenon DEF ShapeInv
<1>1. drift \in Nat
  BY BoundAssumption, SMTT(30) DEF IInv, TypeOK
<1>2. ~ Interfere /\ drift = 0
  BY <1>1, NextHost DEF Interfere
<1>3. /\ \A v \in VmIds : vms[v] # NoVm => Shaped(vms[v].origin, vms[v])
      /\ \A p \in Processes : Finished(job[p])
  BY <1>2, Zenon DEF ShapeInv
<1>4. \/ UNCHANGED host /\ UNCHANGED cell
      \/ UNCHANGED host /\ \E p \in Processes : SavesManifest(p)
      \/ UNCHANGED cell /\ \E c \in Cells : HostMove(c)
  BY <1>2, NextHost, NextCell, Zenon
<1>5. ASSUME NEW v \in VmIds, vms'[v] # NoVm PROVE Shaped(vms[v].origin, vms[v])'
  <2>1. CASE UNCHANGED host /\ UNCHANGED cell
    BY <1>3, <1>5, <2>1, Zenon DEF host, Shaped
  <2>2. CASE UNCHANGED host /\ \E p \in Processes : SavesManifest(p)
    BY <1>3, <1>5, <2>2, SaveShapes, Zenon DEF host
  <2>3. CASE UNCHANGED cell /\ \E c \in Cells : HostMove(c)
    BY <1>3, <1>5, <2>3, MoveShapes, Zenon
  <2> QED
    BY <1>4, <2>1, <2>2, <2>3, SMTT(30)
<1>6. ASSUME NEW p \in Processes PROVE Finished(job[p])'
  <2>1. CASE \E q \in Processes : Begin(q) \/ Step(q) \/ ReturnError(q) \/ Crash(q)
    BY <2>1, ProcessSecured, Zenon
  <2>2. CASE Environment \/ UNCHANGED vars
    <3>1. UNCHANGED job /\ UNCHANGED cell
      BY Zenon, <2>2 DEF Environment, OrphanVerb, Interfere, Expire, GuestOperationInterrupted,
                         GuestOperationReconciled, vars
    <3>2. CASE UNCHANGED host
      BY <1>3, <3>1, <3>2, Zenon DEF host, Finished
    <3>3. CASE ~ UNCHANGED host
      BY <1>2, <1>3, <3>1, <3>3, NextHost, MoveFinished, Zenon
    <3> QED
      BY <3>2, <3>3, Zenon
  <2> QED
    BY <2>1, <2>2, Zenon DEF Next
<1> QED
  BY <1>5, <1>6, Zenon

\* What inspect reports of a cell nobody interfered with.
LEMMA NotForeign ==
  ASSUME IInv, OwnInv, ShapeInv, drift = 0, NEW c \in Cells
  PROVE  Reconciliation(c) # "OwnershipMismatch"
<1> DEFINE r == cell[c]
           vm == vms[r.id]
<1>1. ASSUME NEW v \in VmIds, vms[v] # NoVm PROVE Shaped(vms[v].origin, vms[v])
  BY <1>1, Zenon DEF ShapeInv
<1>2. r \in Records
  BY Zenon DEF IInv, TypeOK
<1>3. CASE r.state = "Destroyed"
  <2>1. /\ runtime[c] = "absent"
        /\ \A v \in VmIds : vms[v] # NoVm => vms[v].origin # c
    BY <1>3, SMTT(30) DEF IInv, HostInv, TombstoneMeansReleased
  <2>2. ~ NameOccupied(c)
    BY <1>1, <2>1, Zenon DEF NameOccupied, Shaped
  <2>3. ~ (r.id # NoId /\ vm # NoVm)
    BY <1>2, <2>1, Zenon DEF OwnInv, RecordedIsOwn, Records
  <2> QED
    BY <1>3, <2>1, <2>2, <2>3, Zenon DEF Reconciliation
<1>4. CASE r.state # "Destroyed" /\ r.id = NoId
  BY <1>4, Zenon DEF Reconciliation
<1>5. CASE r.state # "Destroyed" /\ r.id # NoId /\ vm = NoVm
  BY <1>5, SMTT(30) DEF Reconciliation
<1>6. CASE r.state # "Destroyed" /\ r.id # NoId /\ vm # NoVm
  <2>1. vm.origin = c /\ r.id \in VmIds
    BY <1>2, <1>6, SMTT(30) DEF OwnInv, RecordedIsOwn, Records
  <2>2. Shaped(c, vm)
    BY <1>1, <1>6, <2>1, Zenon
  <2>3. CASE r.phase \in {"ProviderObjectCreated", "ProviderObjectClaimed"}
    <3>1. vm.power = "off"
      BY <2>2, <2>3, Zenon DEF Shaped, Powered
    <3>2. ProveCreation(c, vm, r.phase = "ProviderObjectClaimed" \/ vm.marker = c)
      BY <2>2, <2>3, <3>1, Zenon DEF Shaped, Claimed, ProveCreation
    <3> QED
      BY <1>6, <2>3, <3>2, ZenonT(30) DEF Reconciliation
  <2>4. CASE r.phase = "DestroyingProvisioning"
    <3>1. ProveDestroy(c, vm)
      BY <2>2, <2>4, SMTT(30) DEF Shaped, Claimed, Powered, ProveDestroy
    <3> QED
      BY <1>6, <2>4, <3>1, SMTT(30) DEF Reconciliation
  <2>5. CASE r.phase \in {"Ready", "Destroying"}
    <3>1. ProveOwnership(c, vm)
      BY <2>2, <2>5, SMTT(30) DEF Shaped, Claimed, Powered, ProveOwnership
    <3> QED
      BY <1>6, <2>5, <3>1, Zenon DEF Reconciliation
  <2>6. r.phase \in {"ProviderObjectCreated", "ProviderObjectClaimed",
                     "DestroyingProvisioning", "Ready", "Destroying"}
    BY <1>2, <1>6, Zenon DEF IInv, HostInv, ManifestConsistent, Records, Phases
  <2> QED
    BY <2>3, <2>4, <2>5, <2>6, Zenon
<1> QED
  BY <1>3, <1>4, <1>5, <1>6, Zenon

\* However operations are interrupted, fail or are outlived by their verbs,
\* reconcile_record takes no cell for a foreign one unless somebody interfered.
THEOREM OwnershipKept == Spec => []OwnershipNeverLost
<1>1. ASSUME IInv, OwnInv, ShapeInv PROVE OwnershipNeverLost
  BY <1>1, NotForeign, SMTT(30) DEF OwnershipNeverLost
<1>2. ASSUME IInv, OwnInv, ShapeInv, [Next]_vars PROVE ShapeInv'
  BY <1>2, NextShape, Zenon
<1> QED
  BY <1>1, <1>2, InitShape, Ownership, PTL DEF Spec

-----------------------------------------------------------------------------
(***************************************************************************)
(* The engine implements the lifecycle promise                             *)
(***************************************************************************)

\* Status and Held as functions of what they read.
StatusOf(r) ==
  CASE r.state = "Absent" -> "new"
    [] r.state = "Destroyed" -> "gone"
    [] r.state = "Destroying" -> "retiring"
    [] r.state \in {"Stopped", "Running"} -> "usable"
    [] r.state \in {"Creating", "Failed"} -> IF r.id = NoId THEN "intent" ELSE "identified"

HeldOf(x, unoccupied) ==
  (IF x # "absent" THEN {"runtime"} ELSE {}) \cup (IF unoccupied THEN {} ELSE {"vm"})

\* The refinement mapping reads the manifest, the runtime and the VMs of the cell.
LEMMA Mapping ==
  ASSUME NEW c \in Cells
  PROVE  /\ Status(c) = StatusOf(cell[c]) /\ Status(c)' = StatusOf(cell'[c])
         /\ Held(c) = HeldOf(runtime[c], NoVmOf(c))
         /\ Held(c)' = HeldOf(runtime'[c], NoVmOf(c)')
<1>1. Status(c) = StatusOf(cell[c]) /\ Status(c)' = StatusOf(cell'[c])
  BY Zenon DEF Status, StatusOf
<1>2. Held(c) = HeldOf(runtime[c], NoVmOf(c))
  BY Zenon DEF Held, HeldOf, NoVmOf
<1>3. Held(c)' = HeldOf(runtime'[c], NoVmOf(c)')
  BY Zenon DEF Held, HeldOf, NoVmOf
<1> QED
  BY <1>1, <1>2, <1>3, SMTT(30)

LEMMA StatusFacts ==
  ASSUME NEW r
  PROVE  /\ r.state = "Absent" => StatusOf(r) = "new"
         /\ r.state = "Destroyed" => StatusOf(r) = "gone"
         /\ r.state = "Destroying" => StatusOf(r) = "retiring"
         /\ r.state \in {"Stopped", "Running"} => StatusOf(r) = "usable"
         /\ r.state \in {"Creating", "Failed"} /\ r.id = NoId => StatusOf(r) = "intent"
         /\ r.state \in {"Creating", "Failed"} /\ r.id # NoId => StatusOf(r) = "identified"
BY Zenon DEF StatusOf

\* A step that changes nothing the mapping reads is a stuttering step.
LEMMA Stutters ==
  ASSUME \A c \in Cells : Status(c)' = Status(c), \A c \in Cells : Held(c)' = Held(c),
         UNCHANGED drift
  PROVE  UNCHANGED Lifecycle!lifecycleVars
BY Zenon DEF Lifecycle!lifecycleVars

\* One cell advances, or what it holds changes.
LEMMA Advancing ==
  ASSUME NEW c \in Cells, NEW from, NEW to, Status(c) \in from, Status(c)' = to,
         \A d \in Cells \ {c} : Status(d)' = Status(d),
         \A d \in Cells : Held(d)' = Held(d), UNCHANGED drift
  PROVE  Lifecycle!Advance(c, from, to)
BY ZenonT(30) DEF Lifecycle!Advance

LEMMA HoldingChanges ==
  ASSUME NEW c \in Cells, NEW res, Held(c)' = res,
         \A d \in Cells : Status(d)' = Status(d),
         \A d \in Cells \ {c} : Held(d)' = Held(d)
  PROVE  Lifecycle!Hold(c, res)
BY ZenonT(30) DEF Lifecycle!Hold

\* Initially every cell is new and holds nothing.
LEMMA InitMaps ==
  Init => Lifecycle!LifecycleInit
<1> SUFFICES ASSUME Init PROVE Lifecycle!LifecycleInit
  BY Zenon
<1>1. ASSUME NEW c \in Cells PROVE Status(c) = "new" /\ Held(c) = {}
  <2>1. cell[c].state = "Absent" /\ runtime[c] = "absent" /\ NoVmOf(c)
    BY SMTT(30) DEF Init, NoRecord, NoVmOf
  <2> QED
    BY <2>1, Mapping, StatusFacts, Zenon DEF HeldOf
<1> QED
  BY <1>1, Zenon DEF Init, Lifecycle!LifecycleInit

\* A cell with an id and without the recorded VM has no VM.
LEMMA IdentifiedVm ==
  ASSUME IInv, NEW c \in Cells, cell[c].id # NoId, vms[cell[c].id] = NoVm
  PROVE  NoVmOf(c)
BY Zenon DEF NoVmOf, IInv, HostInv, EveryVmAccountedFor

\* What a save means for the promise.
LEMMA SaveMaps ==
  ASSUME IInv, NEW p \in Processes, SavesManifest(p), UNCHANGED <<host, drift>>
  PROVE  [Lifecycle!LifecycleNext]_(Lifecycle!lifecycleVars)
<1>1. PICK l : Saved(p, l)
  BY SaveFacts, Zenon
<1>0. PICK c \in Cells : c = job[p].cell
  BY <1>1, Zenon DEF Saved
<1> DEFINE a == cell[c]
<1>2. PICK r \in Records : cell' = [cell EXCEPT ![c] = r] /\ Succeeds(l, a, r)
  BY <1>0, <1>1, ZenonT(30) DEF Saved
<1>3. c \in Cells /\ cell \in [Cells -> Records] /\ used \subseteq VmIds
  BY <1>1, Zenon DEF Saved, IInv, TypeOK
<1>4. cell'[c] = r /\ \A d \in Cells \ {c} : cell'[d] = cell[d]
  BY <1>2, <1>3, SMTT(30)
<1>5. ASSUME NEW d \in Cells PROVE Held(d)' = Held(d)
  BY Mapping, ZenonT(30) DEF host, NoVmOf
<1>6. /\ \A d \in Cells \ {c} : Status(d)' = Status(d)
      /\ Status(c) = StatusOf(a) /\ Status(c)' = StatusOf(r)
  BY <1>3, <1>4, Mapping, Zenon
<1>7. a.state = "Absent" => a.id = NoId
  BY <1>3, Zenon DEF IInv, HostInv, ManifestConsistent
<1>8. a.phase \in {"ProviderObjectCreated", "ProviderObjectClaimed"} => a.id # NoId
  BY <1>3, SMTT(30) DEF IInv, HostInv, ManifestConsistent
<1>9. a \in Records
  BY <1>3, Zenon
<1>10. CASE StatusOf(r) = StatusOf(a)
  <2>1. \A d \in Cells : Status(d)' = Status(d)
    BY <1>6, <1>10, Zenon
  <2> QED
    BY <1>5, <2>1, Stutters, Zenon
<1>11. CASE l = "save_intent"
  <2>1. StatusOf(a) = "new" /\ StatusOf(r) = "intent"
    BY <1>2, <1>11, StatusFacts, SMTT(30) DEF Succeeds, Unidentified, NoRecord
  <2>2. Lifecycle!Intend(c)
    <3>1. Lifecycle!Advance(c, {"new"}, "intent")
      BY <1>3, <1>5, <1>6, <2>1, Advancing, SMTT(30)
    <3> QED
      BY <3>1, Zenon DEF Lifecycle!Intend
  <2> QED
    BY <1>3, <2>2, SMTT(30) DEF Lifecycle!LifecycleNext
<1>12. CASE l = "save_id"
  <2>1. StatusOf(a) = "intent" /\ StatusOf(r) = "identified"
    BY <1>2, <1>3, <1>12, StatusFacts, DistinctAssumption, SMTT(30) DEF Succeeds, Unidentified
  <2>2. Lifecycle!Identify(c)
    <3>1. Lifecycle!Advance(c, {"intent"}, "identified")
      BY <1>3, <1>5, <1>6, <2>1, Advancing, SMTT(30)
    <3> QED
      BY <3>1, Zenon DEF Lifecycle!Identify
  <2> QED
    BY <1>3, <2>2, SMTT(30) DEF Lifecycle!LifecycleNext
<1>13. CASE l = "save_ready"
  <2>1. StatusOf(a) = "identified" /\ StatusOf(r) = "usable"
    BY <1>2, <1>8, <1>13, StatusFacts, Zenon DEF Succeeds
  <2>2. Lifecycle!Publish(c)
    <3>1. Lifecycle!Advance(c, {"identified"}, "usable")
      BY <1>3, <1>5, <1>6, <2>1, Advancing, SMTT(30)
    <3> QED
      BY <3>1, Zenon DEF Lifecycle!Publish
  <2> QED
    BY <1>3, <2>2, SMTT(30) DEF Lifecycle!LifecycleNext
<1>14. CASE l = "save_destroying" /\ StatusOf(r) # StatusOf(a)
  <2>1. /\ a.state \notin {"Destroyed", "Destroying", "Absent"} /\ a.id # NoId
        /\ StatusOf(r) = "retiring"
    BY <1>2, <1>7, <1>14, StatusFacts, SMTT(30) DEF Succeeds
  <2>2. StatusOf(a) \in {"identified", "usable"}
    BY <1>9, <2>1, StatusFacts, SMTT(30) DEF Records, States
  <2>3. Lifecycle!Retire(c)
    <3>1. Lifecycle!Advance(c, {"identified", "usable"}, "retiring")
      BY <1>3, <1>5, <1>6, <2>1, <2>2, Advancing, SMTT(30)
    <3> QED
      BY <3>1, Zenon DEF Lifecycle!Retire
  <2> QED
    BY <1>3, <2>3, SMTT(30) DEF Lifecycle!LifecycleNext
<1>15. CASE l = "save_destroyed"
  <2>1. /\ a.state \notin {"Destroyed", "Absent"} /\ a.id # NoId /\ vms[a.id] = NoVm
        /\ StatusOf(r) = "gone"
    BY <1>2, <1>7, <1>15, StatusFacts, SMTT(30) DEF Succeeds
  <2>2. StatusOf(a) \in {"identified", "usable", "retiring"}
    BY <1>9, <2>1, StatusFacts, SMTT(30) DEF Records, States
  <2>3. NoVmOf(c) /\ runtime[c] = "absent"
    BY <1>0, <1>1, <1>3, <1>15, <2>1, IdentifiedVm, ZenonT(30) DEF Saved
  <2>4. Held(c) = {}
    BY <1>3, <2>3, Mapping, SMTT(30) DEF HeldOf
  <2>5. Lifecycle!Advance(c, {"identified", "usable", "retiring"}, "gone")
    BY <1>3, <1>5, <1>6, <2>1, <2>2, Advancing, SMTT(30)
  <2>6. Lifecycle!Bury(c)
    BY <1>3, <2>4, <2>5, Zenon DEF Lifecycle!Bury
  <2> QED
    BY <1>3, <2>6, SMTT(30) DEF Lifecycle!LifecycleNext
<1>16. CASE l \in {"save_overlay", "save_claimed", "save_recovered", "fail_record",
                   "save_running", "save_stopped"}
  <2>1. StatusOf(r) = StatusOf(a)
    <3>1. CASE l = "save_overlay"
      BY <1>2, <3>1, StatusFacts, SMTT(30) DEF Succeeds, Unidentified
    <3>2. CASE l \in {"save_claimed", "save_recovered"}
      <4>1. r.state = a.state /\ r.id = a.id
        BY <1>2, <3>2, SMTT(30) DEF Succeeds
      <4> QED
        BY <1>2, <1>9, <4>1, StatusFacts, ZenonT(30) DEF Records, States
    <3>3. CASE l = "fail_record"
      BY <1>2, <3>3, StatusFacts, SMTT(30) DEF Succeeds
    <3>4. CASE l \in {"save_running", "save_stopped"}
      BY <1>2, <3>4, StatusFacts, SMTT(30) DEF Succeeds
    <3> QED
      BY <1>16, <3>1, <3>2, <3>3, <3>4, Zenon
  <2> QED
    BY <1>10, <2>1, Zenon
<1>17. l \in {"save_intent", "save_overlay", "save_id", "save_claimed", "save_recovered", "save_ready",
              "fail_record", "save_running", "save_stopped", "save_destroying", "save_destroyed"}
  BY <1>2, Zenon DEF Succeeds
<1> QED
  BY <1>10, <1>11, <1>12, <1>13, <1>14, <1>15, <1>16, <1>17, SMTT(30)

\* What a verb or the removal of the runtime means for it.
LEMMA MoveMaps ==
  ASSUME IInv, NEW c \in Cells, HostMove(c), UNCHANGED <<cell, drift>>
  PROVE  [Lifecycle!LifecycleNext]_(Lifecycle!lifecycleVars)
<1>1. vms \in [VmIds -> Vms \cup {NoVm}] /\ runtime \in [Cells -> Runtimes] /\ cell[c] \in Records
  BY Zenon DEF IInv, TypeOK
<1>2. ASSUME NEW d \in Cells PROVE Status(d)' = Status(d)
  BY Mapping, Zenon
<1>3. cell[c].state = "Absent" => cell[c].id = NoId
  BY Zenon DEF IInv, HostInv, ManifestConsistent
<1>4. CASE \E x : TakesRuntime(c, x)
  <2>1. PICK x : TakesRuntime(c, x)
    BY <1>4, SMTT(30)
  <2>2. Status(c) = "intent"
    BY <2>1, Mapping, StatusFacts, SMTT(30) DEF TakesRuntime
  <2>3. \A d \in Cells : NoVmOf(d)' <=> NoVmOf(d)
    BY <2>1, SMTT(30) DEF TakesRuntime, NoVmOf
  <2>4. runtime'[c] # "absent" /\ \A d \in Cells \ {c} : runtime'[d] = runtime[d]
    BY <1>1, <2>1, SMTT(30) DEF TakesRuntime
  <2>5. Held(c)' = Held(c) \cup {"runtime"}
    BY <2>3, <2>4, Mapping, SMTT(30) DEF HeldOf
  <2>6. \A d \in Cells \ {c} : Held(d)' = Held(d)
    BY <2>3, <2>4, Mapping, Zenon DEF HeldOf
  <2>7. Lifecycle!TakeRuntime(c)
    BY <1>2, <2>2, <2>5, <2>6, HoldingChanges, Zenon DEF Lifecycle!TakeRuntime
  <2> QED
    BY <2>7, Zenon DEF Lifecycle!LifecycleNext
<1>5. CASE \E x : FreesRuntime(c, x)
  <2>1. PICK x : FreesRuntime(c, x)
    BY <1>5, Zenon
  <2>2. Status(c) \in {"identified", "usable", "retiring"}
    BY <1>1, <1>3, <2>1, Mapping, StatusFacts, ZenonT(30) DEF FreesRuntime, Records, States
  <2>3. NoVmOf(c)
    BY <2>1, IdentifiedVm, SMTT(30) DEF FreesRuntime
  <2>4. \A d \in Cells : NoVmOf(d)' <=> NoVmOf(d)
    BY <2>1, Zenon DEF FreesRuntime, NoVmOf
  <2>5. runtime[c] # "absent" /\ \A d \in Cells \ {c} : runtime'[d] = runtime[d]
    BY <1>1, <2>1, Zenon DEF FreesRuntime, RuntimePins
  <2>6. \A d \in Cells \ {c} : Held(d)' = Held(d)
    BY <2>4, <2>5, Mapping, Zenon DEF HeldOf
  <2>7. Held(c) = {"runtime"} /\ Held(c)' \in {{}, {"runtime"}}
    BY <2>3, <2>4, <2>5, Mapping, Zenon DEF HeldOf
  <2>8. CASE Held(c)' = Held(c)
    BY <1>2, <2>6, <2>8, Stutters, Zenon
  <2>9. CASE Held(c)' = {}
    <3>1. Lifecycle!ReleaseRuntime(c)
      BY <1>2, <2>2, <2>6, <2>7, <2>9, HoldingChanges, Zenon DEF Lifecycle!ReleaseRuntime
    <3> QED
      BY <3>1, Zenon DEF Lifecycle!LifecycleNext
  <2> QED
    BY <2>7, <2>8, <2>9, SMTT(30)
<1>6. CASE \E v : VmCreation(c, v) /\ RuntimePins(c)
  <2>1. PICK v : VmCreation(c, v) /\ RuntimePins(c)
    BY <1>6, Zenon
  <2>2. Status(c) = "intent" /\ "runtime" \in Held(c)
    BY <2>1, Mapping, StatusFacts, SMTT(30) DEF VmCreation, RuntimePins, HeldOf
  <2>3. /\ v \in VmIds /\ vms[v] = NoVm /\ vms'[v] = CreatedVm(c)
        /\ \A w \in VmIds \ {v} : vms'[w] = vms[w]
    BY <1>1, <2>1, SMTT(30) DEF VmCreation, IInv, HostInv, IdsInv
  <2>4. ~ NoVmOf(c)' /\ \A d \in Cells \ {c} : NoVmOf(d)' <=> NoVmOf(d)
    BY <2>3, CreatedVmType, SMTT(30) DEF NoVmOf
  <2>5. UNCHANGED runtime
    BY <2>1, Zenon DEF VmCreation
  <2>6. Held(c)' = Held(c) \cup {"vm"}
    BY <2>4, <2>5, Mapping, Zenon DEF HeldOf
  <2>7. \A d \in Cells \ {c} : Held(d)' = Held(d)
    BY <2>4, <2>5, Mapping, Zenon DEF HeldOf
  <2>8. Lifecycle!TakeVm(c)
    BY <1>2, <2>2, <2>6, <2>7, HoldingChanges, Zenon DEF Lifecycle!TakeVm
  <2> QED
    BY <2>8, SMTT(30) DEF Lifecycle!LifecycleNext
<1>7. CASE \E x : Acts(c, cell[c].id, x)
  <2>1. PICK x : Acts(c, cell[c].id, x)
    BY <1>7, SMTT(30)
  <2>2. PICK v \in VmIds : v = cell[c].id
    BY <2>1, SMTT(30) DEF Acts, VmChange
  <2>3. /\ vms'[v] = x /\ vms[v] # NoVm /\ vms[v].origin = c
        /\ x = NoVm \/ x.origin = c
        /\ \A w \in VmIds \ {v} : vms'[w] = vms[w]
    BY <1>1, <2>1, <2>2, SMTT(30) DEF Acts, VmChange, Own
  <2>4. UNCHANGED runtime
    BY <2>1, SMTT(30) DEF Acts, VmChange
  <2>5. \A d \in Cells \ {c} : NoVmOf(d)' <=> NoVmOf(d)
    BY <2>3, Zenon DEF NoVmOf
  <2>6. \A d \in Cells \ {c} : Held(d)' = Held(d)
    BY <2>4, <2>5, Mapping, Zenon DEF HeldOf
  <2>7. CASE x # NoVm
    <3>1. NoVmOf(c)' <=> NoVmOf(c)
      BY <2>3, <2>7, Zenon DEF NoVmOf
    <3>2. Held(c)' = Held(c)
      BY <2>4, <3>1, Mapping, Zenon DEF HeldOf
    <3> QED
      BY <1>2, <2>6, <3>2, Stutters, Zenon
  <2>8. CASE x = NoVm
    <3>1. Status(c) = "retiring"
      BY <2>1, <2>8, Mapping, StatusFacts, Zenon DEF Acts
    <3>2. \A w \in VmIds : vms[w] # NoVm /\ vms[w].origin = c => w = v
      BY <2>2, RecordedVm, DistinctAssumption, Zenon
    <3>3. NoVmOf(c)'
      BY <2>3, <2>8, <3>2, SMTT(30) DEF NoVmOf
    <3>4. Held(c)' = Held(c) \ {"vm"}
      BY <2>4, <3>3, Mapping, Zenon DEF HeldOf
    <3>5. Lifecycle!ReleaseVm(c)
      BY <1>2, <2>6, <3>1, <3>4, HoldingChanges, Zenon DEF Lifecycle!ReleaseVm
    <3> QED
      BY <3>5, SMTT(30) DEF Lifecycle!LifecycleNext
  <2> QED
    BY <2>7, <2>8, Zenon
<1> QED
  BY <1>4, <1>5, <1>6, <1>7, Zenon DEF HostMove

\* Interference changes at most whether one cell still has a VM.
LEMMA InterfereMaps ==
  ASSUME IInv, Interfere
  PROVE  Lifecycle!Disturb
<1>1. vms \in [VmIds -> Vms \cup {NoVm}]
  BY SMTT(30) DEF IInv, TypeOK
<1>2. ASSUME NEW d \in Cells PROVE Status(d)' = Status(d)
  BY Mapping, Zenon DEF Interfere
<1>3. UNCHANGED runtime /\ drift' = drift + 1
  BY Zenon DEF Interfere
<1>4. PICK v \in VmIds :
         /\ \A w \in VmIds \ {v} : vms'[w] = vms[w]
         /\ \/ vms[v] # NoVm /\ vms'[v] \in Vms /\ vms'[v].origin = vms[v].origin
            \/ vms[v] # NoVm /\ vms'[v] = NoVm
            \/ vms[v] = NoVm /\ vms'[v] \in Vms /\ vms'[v].origin = Foreign
  BY <1>1, Zenon DEF Interfere, IInv, HostInv, IdsInv
<1>5. CASE \A d \in Cells : NoVmOf(d)' <=> NoVmOf(d)
  <2>1. \A d \in Cells : Held(d)' = Held(d)
    BY <1>3, <1>5, Mapping, Zenon DEF HeldOf
  <2> QED
    BY <1>2, <1>3, <2>1, SMTT(30) DEF Lifecycle!Disturb
<1>6. CASE vms[v] # NoVm /\ vms'[v] = NoVm /\ \E d \in Cells : ~ (NoVmOf(d)' <=> NoVmOf(d))
  <2>1. PICK c \in Cells : ~ (NoVmOf(c)' <=> NoVmOf(c))
    BY <1>6, Zenon
  <2>2. c = vms[v].origin /\ NoVmOf(c)'
    BY <1>4, <1>6, <2>1, Zenon DEF NoVmOf
  <2>3. \A d \in Cells \ {c} : NoVmOf(d)' <=> NoVmOf(d)
    BY <1>4, <1>6, <2>2, Zenon DEF NoVmOf
  <2>4. Held(c)' = Held(c) \ {"vm"}
    BY <1>3, <2>2, Mapping, Zenon DEF HeldOf
  <2>5. \A d \in Cells \ {c} : Held(d)' = Held(d)
    BY <1>3, <2>3, Mapping, Zenon DEF HeldOf
  <2>6. Lifecycle!Hold(c, Held(c) \ {"vm"})
    BY <1>2, <2>4, <2>5, HoldingChanges, SMTT(30)
  <2> QED
    BY <1>3, <2>6, Zenon DEF Lifecycle!Disturb
<1>7. CASE vms[v] # NoVm /\ vms'[v] \in Vms /\ vms'[v].origin = vms[v].origin
  <2>1. \A d \in Cells : NoVmOf(d)' <=> NoVmOf(d)
    BY <1>4, <1>7, NoVmAssumption, Zenon DEF NoVmOf
  <2> QED
    BY <1>5, <2>1, Zenon
<1>8. CASE vms[v] = NoVm /\ vms'[v] \in Vms /\ vms'[v].origin = Foreign
  <2>1. \A d \in Cells : NoVmOf(d)' <=> NoVmOf(d)
    BY <1>4, <1>8, NoVmAssumption, DistinctAssumption, Zenon DEF NoVmOf
  <2> QED
    BY <1>5, <2>1, Zenon
<1> QED
  BY <1>4, <1>5, <1>6, <1>7, <1>8, Zenon

\* The engine, with its lock, its crashes, its retries and its delayed verbs,
\* does to a cell and its resources only what CellLifecycle promises: for any
\* numbers of cells, processes and VMs.
THEOREM LifecycleImplemented == Spec => ImplementsLifecycle
<1>1. ASSUME IInv, OwnInv, [Next]_vars
      PROVE  [Lifecycle!LifecycleNext]_(Lifecycle!lifecycleVars)
  <2>1. \/ UNCHANGED cell
        \/ \E p \in Processes : SavesManifest(p) /\ UNCHANGED <<host, drift>>
    BY <1>1, NextCell, Zenon
  <2>2. \/ UNCHANGED <<host, drift>>
        \/ (\E c \in Cells : HostMove(c)) /\ UNCHANGED <<cell, drift>>
        \/ Interfere
    BY <1>1, NextHost, Zenon
  <2>3. CASE Interfere
    BY <1>1, <2>3, InterfereMaps, Zenon DEF Lifecycle!LifecycleNext
  <2>4. CASE (\E c \in Cells : HostMove(c)) /\ UNCHANGED <<cell, drift>>
    BY <1>1, <2>4, MoveMaps, Zenon
  <2>5. CASE \E p \in Processes : SavesManifest(p) /\ UNCHANGED <<host, drift>>
    BY <1>1, <2>5, SaveMaps, SMTT(30)
  <2>6. CASE UNCHANGED cell /\ UNCHANGED <<host, drift>>
    <3>1. \A d \in Cells : Status(d)' = Status(d)
      BY <2>6, Mapping, Zenon
    <3>2. \A d \in Cells : Held(d)' = Held(d)
      BY <2>6, Mapping, ZenonT(30) DEF host, NoVmOf
    <3> QED
      BY <2>6, <3>1, <3>2, Stutters, Zenon
  <2> QED
    BY <2>1, <2>2, <2>3, <2>4, <2>5, <2>6, Zenon
<1> QED
  BY <1>1, InitMaps, Ownership, PTL DEF Spec, ImplementsLifecycle, Lifecycle!LifecycleSpec
=============================================================================
