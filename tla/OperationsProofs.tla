-------------------------- MODULE OperationsProofs --------------------------
(***************************************************************************)
(* The safety properties of GuestOperations for any number of operations,  *)
(* cells and processes, any retention and any batch, and those of RunCell  *)
(* for any request.                                                        *)
(*                                                                         *)
(* The inductive invariant of GuestOperations has three parts.  LockInv:   *)
(* whoever is in the middle of an operation or of a prune holds the lock.  *)
(* JobInv: what a process remembers still fits the records it goes on to   *)
(* change.  RecInv: each record, with its artifact directory, is sound by  *)
(* itself.  That of RunCell says what a run at each point has found out    *)
(* about its cell and its operations.                                      *)
(***************************************************************************)
EXTENDS Operations, TLAPS

Holding == {"recorded", "active", "acting", "staged", "manifest", "committed", "prune", "remove"}

\* The labels at which a process is at work on one operation.
Working == {"recorded", "active", "acting", "staged", "manifest", "committed", "remove", "reconcile"}

LockInv == \A p \in Processes : job[p].pc \in Holding => lock = p

\* What process p remembers, with j its job.
Fits(j) ==
  /\ j.pc \in Working => j.op \in Ops /\ j.op \notin Orphans
  /\ j.pc = "recorded" => op[j.op].phase = "IntentRecorded"
  /\ j.pc \in {"active", "acting", "staged", "manifest"} => op[j.op].phase = "TransportActive"
  /\ j.pc = "manifest" => root[j.op] = "committed"
  /\ j.pc = "committed" => op[j.op].phase \in {"TransportActive", "ArtifactCommitted"}
  /\ j.pc = "remove" => op[j.op].pruned # NoTime /\ j.entries < Batch
  /\ j.pc \in {"prune_lock", "prune", "remove"} => j.at \in Times
  /\ j.pc \in {"prune", "remove"} => \A o \in j.todo : IsRecovery(op[o]) \/ Expired(op[o], j.at)

JobInv == \A p \in Processes : Fits(job[p])

\* A record, its directory, whether its action reached the guest, and whether
\* its cell is gone.
Sound(r, dir, hit, orphan) ==
  /\ RecordValid(r)
  /\ r.failure = "Interrupted" => r.phase = "Failed"
  /\ hit => r.phase \notin {"Absent", "IntentRecorded"} /\ r.failure # "Interrupted"
  /\ orphan => r.phase = "Completed"
  /\ r.artifact /\ r.pruned = NoTime => dir = "committed"
  /\ r.pruned # NoTime => r.completed + Retention <= r.pruned

RecInv == \A o \in Ops : Sound(op[o], root[o], o \in touched, o \in Orphans)

IInv == TypeOK /\ LockInv /\ JobInv /\ RecInv /\ OneOperationInFlight

-----------------------------------------------------------------------------
(***************************************************************************)
(* What a step has to show                                                 *)
(***************************************************************************)

\* A refused save changes nothing, any other replaces one record by a valid one.
LEMMA SaveCases ==
  ASSUME op \in [Ops -> Records], NEW o \in Ops, NEW r \in Records, Save(o, r)
  PROVE  /\ op' \in [Ops -> Records]
         /\ \A x \in Ops : x # o => op'[x] = op[x]
         /\ \/ op'[o] = op[o]
            \/ op'[o] = r /\ RecordValid(r) /\ o \notin Orphans
  BY Zenon DEF Save, HasParent

\* A step that leaves every other record alone keeps the records sound.
LEMMA RecordsStep ==
  ASSUME RecInv, OneOperationInFlight, NEW o \in Ops,
         \A x \in Ops : x # o => op'[x] = op[x] /\ root'[x] = root[x],
         touched' \in {touched, touched \cup {o}},
         Sound(op'[o], root'[o], o \in touched', o \in Orphans),
         op'[o].phase \in OpenPhases =>
           \/ op[o].phase \in OpenPhases /\ op'[o].cell = op[o].cell
           \/ HistoryTerminal(op'[o].cell)
  PROVE  RecInv' /\ OneOperationInFlight'
<1>1. ASSUME NEW x \in Ops PROVE Sound(op'[x], root'[x], x \in touched', x \in Orphans)
  <2>1. CASE x = o
    BY <2>1, Zenon
  <2>2. CASE x # o
    <3>1. op'[x] = op[x] /\ root'[x] = root[x] /\ (x \in touched' <=> x \in touched)
      BY <2>2, Zenon
    <3>2. Sound(op[x], root[x], x \in touched, x \in Orphans)
      BY Zenon DEF RecInv
    <3>. QED  BY <3>1, <3>2, Zenon DEF Sound
  <2>. QED  BY <2>1, <2>2, Zenon
<1>2. RecInv'
  BY <1>1, Zenon DEF RecInv
<1>3. ASSUME NEW a \in Ops, NEW b \in Ops, op'[a].phase \in OpenPhases, op'[b].phase \in OpenPhases,
             op'[a].cell = op'[b].cell
      PROVE  a = b
  BY <1>3, Zenon DEF OneOperationInFlight, HistoryTerminal
<1>. QED  BY <1>2, <1>3, Zenon DEF OneOperationInFlight

\* A step of p that changes records under the lock, or none, keeps what the
\* other processes remember true.
LEMMA JobsStep ==
  ASSUME LockInv, JobInv, NEW p \in Processes,
         \A q \in Processes : q # p => job'[q] = job[q],
         Fits(job[p])',
         job'[p].pc \in Holding => lock' = p,
         lock' = lock \/ lock \in {p, NoProcess},
         UNCHANGED <<op, root>> \/ lock \in {p, NoProcess}
  PROVE  LockInv' /\ JobInv'
<1>1. ASSUME NEW q \in Processes, q # p, lock \in {p, NoProcess} PROVE job[q].pc \notin Holding
  BY <1>1, LockAssumption, Zenon DEF LockInv
<1>2. LockInv'
  BY <1>1, Zenon DEF LockInv
<1>3. ASSUME NEW q \in Processes, q # p PROVE Fits(job[q])'
  <2>1. Fits(job[q]) /\ job'[q] = job[q]
    BY <1>3, Zenon DEF JobInv
  <2>2. CASE UNCHANGED <<op, root>>
    BY <2>1, <2>2, Zenon DEF Fits, IsRecovery, Expired
  <2>3. CASE lock \in {p, NoProcess}
    <3>1. job[q].pc \notin Holding
      BY <1>1, <1>3, <2>3, Zenon
    <3>. QED  BY <2>1, <3>1, Zenon DEF Fits, Holding, Working
  <2>. QED  BY <2>2, <2>3, Zenon
<1>. QED  BY <1>2, <1>3, Zenon DEF JobInv

\* A process that returns has an idle job again.
LEMMA IdleTyped == Idle \in Jobs /\ Idle.pc = "idle"
  BY BatchAssumption DEF Idle, Jobs, Labels

\* The error branch: whichever error ends an operation, and whatever of the
\* save is refused, the record stays sound and open or ends as failed.
LEMMA FailStep ==
  ASSUME IInv, NEW p \in Processes, lock = p, job[p].op \in Ops, job[p].op \notin Orphans,
         NEW e \in AllErrors, NEW phase \in {"IntentRecorded", "TransportActive"},
         op[job[p].op].phase \in {"IntentRecorded", "TransportActive"},
         phase = "IntentRecorded" => op[job[p].op].phase = "IntentRecorded",
         touched' \in {touched, touched \cup {job[p].op}},
         touched' # touched => op[job[p].op].phase = "TransportActive" /\ phase = "TransportActive",
         root' \in [Ops -> Roots], \A x \in Ops : x # job[p].op => root'[x] = root[x],
         FailAs(p, e, phase), UNCHANGED world
  PROVE  IInv'
<1> DEFINE o == job[p].op
           r == [op[o] EXCEPT !.phase = phase, !.failure = FailureClass(e), !.updated = now]
           n == IF Definite(e) THEN [r EXCEPT !.phase = "Failed", !.completed = now] ELSE r
<1>1. /\ op \in [Ops -> Records] /\ now \in Times /\ job \in [Processes -> Jobs] /\ touched \subseteq Ops
      /\ LockInv /\ JobInv /\ RecInv /\ OneOperationInFlight
  BY Zenon DEF IInv, TypeOK
<1>2. op[o] \in Records
  BY <1>1, Zenon
<1>3. FailureClass(e) \in Failures \ {"Interrupted"}
  BY Zenon DEF FailureClass, Failures, AllErrors
<1>4. r \in Records /\ r.failure # "Interrupted" /\ r.phase = phase /\ r.artifact = op[o].artifact
        /\ r.pruned = op[o].pruned /\ r.cell = op[o].cell /\ r.completed = op[o].completed
  BY <1>1, <1>2, <1>3, ZenonT(30) DEF Records, OpenPhases
<1>5. n \in Records /\ n.failure # "Interrupted" /\ n.phase \in {phase, "Failed"}
        /\ n.artifact = op[o].artifact /\ n.pruned = op[o].pruned /\ n.cell = op[o].cell
  BY <1>1, <1>4, ZenonT(30) DEF Records, TerminalPhases
<1>6. Save(o, n) /\ job' = [job EXCEPT ![p] = Idle] /\ lock' = NoProcess
  BY Zenon DEF FailAs, Return
<1>7. /\ op' \in [Ops -> Records]
      /\ \A x \in Ops : x # o => op'[x] = op[x]
      /\ \/ op'[o] = op[o]
         \/ op'[o] = n /\ RecordValid(n) /\ o \notin Orphans
  <2> HIDE DEF n, r
  <2>. QED  BY <1>1, <1>5, <1>6, SaveCases, Zenon
<1>8. Sound(op[o], root[o], o \in touched, o \in Orphans)
  BY <1>1, Zenon DEF RecInv
<1>9. ~op[o].artifact /\ op[o].pruned = NoTime
  BY <1>8, Zenon DEF Sound, RecordValid, FieldsValid
<1>10. Sound(op'[o], root'[o], o \in touched', o \in Orphans)
  <2> HIDE DEF n, r
  <2>1. CASE op'[o] = op[o]
    BY <1>8, <1>9, <2>1, Zenon DEF Sound
  <2>2. CASE op'[o] = n /\ RecordValid(n)
    <3>1. n.phase \notin {"Absent", "IntentRecorded"} \/ o \notin touched'
      BY <1>5, <1>8, Zenon DEF Sound
    <3>2. n.failure # "Interrupted" /\ ~n.artifact /\ n.pruned = NoTime
      BY <1>5, <1>9, SMTT(30)
    <3>. QED  BY <2>2, <3>1, <3>2, Zenon DEF Sound
  <2>. QED  BY <1>7, <2>1, <2>2, SMTT(30)
<1>11. op'[o].phase \in OpenPhases => op[o].phase \in OpenPhases /\ op'[o].cell = op[o].cell
  <2> HIDE DEF n, r
  <2>. QED  BY <1>5, <1>7, Zenon DEF OpenPhases
<1>12. RecInv' /\ OneOperationInFlight'
  <2> HIDE DEF n, r
  <2>. QED  BY <1>1, <1>7, <1>10, <1>11, RecordsStep, Zenon
<1>13. job'[p] = Idle /\ \A q \in Processes : q # p => job'[q] = job[q]
  BY <1>1, <1>6, Zenon
<1>14. LockInv' /\ JobInv'
  <2>1. Fits(job[p])'
    BY <1>13, SMTT(30) DEF Fits, Idle, Working
  <2>2. job'[p].pc \notin Holding
    BY <1>13 DEF Idle, Holding
  <2>. QED  BY <1>1, <1>13, <2>1, <2>2, JobsStep, SMTT(30)
<1>15. TypeOK'
  BY <1>1, <1>6, <1>7, IdleTyped, Zenon DEF TypeOK, IInv, world
<1>. QED  BY <1>12, <1>14, <1>15, Zenon DEF IInv

-----------------------------------------------------------------------------
(***************************************************************************)
(* One lemma per action                                                    *)
(***************************************************************************)

\* The parts of the invariant, and that a process in the middle of something
\* has the lock.
LEMMA Parts ==
  ASSUME IInv
  PROVE  /\ op \in [Ops -> Records] /\ root \in [Ops -> Roots] /\ now \in Times /\ touched \subseteq Ops
         /\ job \in [Processes -> Jobs] /\ LockInv /\ JobInv /\ RecInv /\ OneOperationInFlight
         /\ \A p \in Processes : job[p] \in Jobs /\ Fits(job[p]) /\ (job[p].pc \in Holding => lock = p)
  BY Zenon DEF IInv, TypeOK, LockInv, JobInv

\* The intent is only recorded when the cell has no open operation.
LEMMA RecordIntentKeeps ==
  ASSUME IInv, NEW p \in Processes, NEW o \in Ops, NEW c \in Cells, NEW k \in Kinds,
         RecordIntent(p, o, c, k)
  PROVE  IInv'
<1> DEFINE n == Intent(c, k)
<1>1. /\ n \in Records /\ n.phase = "IntentRecorded" /\ n.cell = c /\ n.failure = "None"
      /\ ~n.artifact /\ n.pruned = NoTime
  BY Parts, Zenon DEF Intent, Records, OpenPhases, Failures, Times
<1>2. RecordValid(n)
  <2>1. now \in Nat
    BY Parts, TimeAssumption DEF Times
  <2>2. n.created = now /\ n.updated = now /\ n.completed = NoTime
    BY Zenon DEF Intent
  <2> HIDE DEF n
  <2>. QED  BY <1>1, <2>1, <2>2 DEF RecordValid, FieldsValid, OpenPhases, TerminalPhases
<1>3. Sound(op[o], root[o], o \in touched, o \in Orphans) /\ op[o].phase = "Absent"
  BY Parts, Zenon DEF RecInv, RecordIntent
<1>4. o \notin Orphans /\ o \notin touched
  BY <1>3, Zenon DEF Sound
<1>5. Save(o, n) /\ HistoryTerminal(c) /\ UNCHANGED <<root, touched, world>> /\ lock = NoProcess
        /\ lock' = p /\ job' = [job EXCEPT ![p] = [Idle EXCEPT !.pc = "recorded", !.op = o]]
  BY Zenon DEF RecordIntent
<1> HIDE DEF n
<1>6. op' = [op EXCEPT ![o] = n]
  BY <1>2, <1>4, <1>5, Zenon DEF Save, HasParent
<1>7. op'[o] = n /\ (\A x \in Ops : x # o => op'[x] = op[x]) /\ op' \in [Ops -> Records]
  BY <1>1, <1>6, Parts, Zenon
<1>8. Sound(op'[o], root'[o], o \in touched', o \in Orphans)
  BY <1>1, <1>2, <1>4, <1>5, <1>7, Zenon DEF Sound
<1>9. RecInv' /\ OneOperationInFlight'
  BY <1>1, <1>5, <1>7, <1>8, Parts, RecordsStep, Zenon
<1>10. /\ job'[p] = [Idle EXCEPT !.pc = "recorded", !.op = o] /\ job'[p].pc = "recorded" /\ job'[p].op = o
       /\ job'[p] \in Jobs /\ \A q \in Processes : q # p => job'[q] = job[q]
  BY <1>5, IdleTyped, Parts, ZenonT(30) DEF Idle, Jobs, Labels
<1>11. LockInv' /\ JobInv'
  <2>1. Fits(job[p])'
    BY <1>1, <1>4, <1>7, <1>10, Zenon DEF Fits
  <2>. QED  BY <1>5, <1>10, <2>1, Parts, JobsStep, Zenon
<1>12. TypeOK'
  BY <1>5, <1>7, <1>10, Parts, Zenon DEF TypeOK, IInv, world
<1>. QED  BY <1>9, <1>11, <1>12, Zenon DEF IInv

\* A change of label keeps the rest of the job.
LEMMA GotoJob ==
  ASSUME IInv, NEW p \in Processes, NEW label \in Labels, Goto(p, label)
  PROVE  /\ job'[p].pc = label /\ job'[p].op = job[p].op /\ job' \in [Processes -> Jobs]
         /\ \A q \in Processes : q # p => job'[q] = job[q]
<1>1. job' = [job EXCEPT ![p] = [job[p] EXCEPT !.pc = label]]
  BY Parts, Zenon DEF Goto
<1>. QED  BY <1>1, Parts, ZenonT(30) DEF Jobs

\* A step that goes on to another label under the lock.
LEMMA GotoKeeps ==
  ASSUME IInv, NEW p \in Processes, NEW label \in Labels, Goto(p, label), label \in Holding, job[p].pc \in Holding,
         UNCHANGED <<lock, world>>, op' \in [Ops -> Records], root' \in [Ops -> Roots], touched' \subseteq Ops,
         RecInv', OneOperationInFlight', Fits(job[p])'
  PROVE  IInv'
<1>1. LockInv' /\ JobInv'
  BY GotoJob, Parts, JobsStep, Zenon
<1>. QED  BY <1>1, GotoJob, Zenon DEF IInv, TypeOK, world

\* A step that returns under the lock.
LEMMA ReturnKeeps ==
  ASSUME IInv, NEW p \in Processes, Return(p), job[p].pc \in Holding,
         UNCHANGED world, op' \in [Ops -> Records], root' \in [Ops -> Roots], touched' \subseteq Ops,
         RecInv', OneOperationInFlight'
  PROVE  IInv'
<1>1. job' = [job EXCEPT ![p] = Idle] /\ lock' = NoProcess
  BY Zenon DEF Return
<1>2. job'[p] = Idle /\ job' \in [Processes -> Jobs] /\ \A q \in Processes : q # p => job'[q] = job[q]
  BY <1>1, Parts, IdleTyped, Zenon
<1>3. Fits(job[p])' /\ job'[p].pc \notin Holding
  BY <1>2 DEF Fits, Idle, Working, Holding
<1>4. LockInv' /\ JobInv'
  BY <1>2, <1>3, Parts, JobsStep, Zenon
<1>. QED  BY <1>1, <1>2, <1>4, Zenon DEF IInv, TypeOK, world

\* TransportActive is on disk before the guest is called.
LEMMA AuthoriseKeeps ==
  ASSUME IInv, NEW p \in Processes, Authorise(p)
  PROVE  IInv'
<1> DEFINE o == job[p].op
           n == [op[o] EXCEPT !.phase = "TransportActive", !.updated = now]
<1>1. /\ job[p].pc = "recorded" /\ lock = p /\ o \in Ops /\ o \notin Orphans
      /\ op[o].phase = "IntentRecorded" /\ job[p].pc \in Holding
  BY Parts, Zenon DEF Authorise, At, Fits, Working, Holding
<1>2. UNCHANGED <<root, touched, world>>
  BY Zenon DEF Authorise
<1>3. CASE Save(o, n) /\ op' # op /\ Goto(p, "active") /\ UNCHANGED lock
  <2>1. /\ n \in Records /\ n.phase = "TransportActive" /\ n.cell = op[o].cell /\ n.failure = op[o].failure
        /\ n.artifact = op[o].artifact /\ n.pruned = op[o].pruned /\ n.completed = op[o].completed
    <3>1. op[o] \in Records /\ now \in Times
      BY <1>1, Parts, Zenon
    <3>. QED  BY <3>1, ZenonT(30) DEF Records, OpenPhases
  <2> HIDE DEF n
  <2>2. op'[o] = n /\ RecordValid(n) /\ (\A x \in Ops : x # o => op'[x] = op[x]) /\ op' \in [Ops -> Records]
    BY <1>1, <1>3, <2>1, Parts, Zenon DEF Save
  <2>3. Sound(op[o], root[o], o \in touched, o \in Orphans)
    BY <1>1, Parts, Zenon DEF RecInv
  <2>4. Sound(op'[o], root'[o], o \in touched', o \in Orphans)
    BY <1>1, <1>2, <2>1, <2>2, <2>3, SMTT(30) DEF Sound
  <2>5. RecInv' /\ OneOperationInFlight'
    BY <1>1, <1>2, <2>1, <2>2, <2>4, Parts, RecordsStep, SMTT(30) DEF OpenPhases
  <2>6. "active" \in Labels /\ "active" \in Holding
    BY Zenon DEF Labels, Holding
  <2>7. Fits(job[p])'
    BY <1>1, <1>3, <2>1, <2>2, <2>6, GotoJob, Zenon DEF Fits
  <2>. QED  BY <1>1, <1>2, <1>3, <2>2, <2>5, <2>6, <2>7, Parts, GotoKeeps, Zenon
<1>4. ASSUME NEW e \in AllErrors, NEW phase \in {"IntentRecorded", "TransportActive"}, FailAs(p, e, phase)
      PROVE  IInv'
  BY <1>1, <1>2, <1>4, Parts, FailStep, Zenon
<1>5. CASE \E e \in GuestErrors \cap {"OwnershipChanged", "State"} : FailAs(p, e, "IntentRecorded")
  BY <1>4, <1>5, ErrorsAssumption, Zenon
<1>6. CASE FailAs(p, "State", "TransportActive")
  BY <1>4, <1>6, Zenon DEF AllErrors
<1>. QED  BY <1>3, <1>5, <1>6, Zenon DEF Authorise

\* Waiting for the guest changes no record unless it fails.
LEMMA WaitReadyKeeps ==
  ASSUME IInv, NEW p \in Processes, WaitReady(p)
  PROVE  IInv'
<1>1. /\ job[p].pc = "active" /\ lock = p /\ job[p].op \in Ops /\ job[p].op \notin Orphans
      /\ op[job[p].op].phase = "TransportActive" /\ job[p].pc \in Holding
  BY Parts, Zenon DEF WaitReady, At, Fits, Working, Holding
<1>2. UNCHANGED <<root, touched, world>>
  BY SMTT(30) DEF WaitReady
<1>3. CASE Goto(p, "acting") /\ UNCHANGED <<lock, op>>
  <2>1. "acting" \in Labels /\ "acting" \in Holding
    BY Zenon DEF Labels, Holding
  <2>2. Fits(job[p])'
    BY <1>1, <1>2, <1>3, <2>1, GotoJob, Zenon DEF Fits
  <2>3. RecInv' /\ OneOperationInFlight'
    BY <1>2, <1>3, Parts, SMTT(30) DEF RecInv, OneOperationInFlight
  <2>. QED  BY <1>1, <1>2, <1>3, <2>1, <2>2, <2>3, Parts, GotoKeeps, Zenon
<1>4. CASE \E e \in GuestErrors \ {"State"} : FailAs(p, e, "TransportActive")
  BY <1>1, <1>2, <1>4, ErrorsAssumption, Parts, FailStep, Zenon
<1>. QED  BY <1>3, <1>4, Zenon DEF WaitReady

\* The guest is only reached in the phase TransportActive, whatever it answers.
LEMMA ExecActionKeeps ==
  ASSUME IInv, NEW p \in Processes, ExecAction(p)
  PROVE  IInv'
<1> DEFINE o == job[p].op
<1>1. /\ job[p].pc = "acting" /\ lock = p /\ o \in Ops /\ o \notin Orphans
      /\ op[o].phase = "TransportActive" /\ job[p].pc \in Holding
  BY Parts, SMTT(30) DEF ExecAction, At, Fits, Working, Holding
<1>2. UNCHANGED <<root, world>> /\ touched' \in {touched, touched \cup {o}} /\ touched' \subseteq Ops
  BY <1>1, Parts, SMTT(30) DEF ExecAction
<1>3. CASE touched' = touched \cup {o} /\ Goto(p, "committed") /\ UNCHANGED <<lock, op>>
  <2>1. "committed" \in Labels /\ "committed" \in Holding
    BY Zenon DEF Labels, Holding
  <2>2. Fits(job[p])'
    BY <1>1, <1>2, <1>3, <2>1, GotoJob, SMTT(30) DEF Fits
  <2>3. Sound(op[o], root[o], o \in touched, o \in Orphans)
    BY <1>1, Parts, Zenon DEF RecInv
  <2>4. Sound(op'[o], root'[o], o \in touched', o \in Orphans)
    BY <1>1, <1>2, <1>3, <2>3, SMTT(30) DEF Sound
  <2>5. RecInv' /\ OneOperationInFlight'
    BY <1>1, <1>2, <1>3, <2>4, Parts, RecordsStep, Zenon
  <2>. QED  BY <1>1, <1>2, <1>3, <2>1, <2>2, <2>5, Parts, GotoKeeps, Zenon
<1>4. ASSUME NEW e \in AllErrors, FailAs(p, e, "TransportActive")
      PROVE  IInv'
  BY <1>1, <1>2, <1>4, Parts, FailStep, Zenon
<1>5. CASE \E e \in GuestErrors : FailAs(p, e, "TransportActive")
  BY <1>4, <1>5, ErrorsAssumption, Zenon
<1>6. CASE FailAs(p, "State", "TransportActive")
  BY <1>4, <1>6, Zenon DEF AllErrors
<1>. QED  BY <1>3, <1>5, <1>6, SMTT(30) DEF ExecAction

\* The directory of an operation without an artifact may be in any state.
LEMMA CollectFilesKeeps ==
  ASSUME IInv, NEW p \in Processes, CollectFiles(p)
  PROVE  IInv'
<1> DEFINE o == job[p].op
<1>1. /\ job[p].pc = "acting" /\ lock = p /\ o \in Ops /\ o \notin Orphans
      /\ op[o].phase = "TransportActive" /\ job[p].pc \in Holding
  BY Parts, Zenon DEF CollectFiles, At, Fits, Working, Holding
<1>2. UNCHANGED world /\ touched' \in {touched, touched \cup {o}} /\ touched' \subseteq Ops
  BY <1>1, Parts, Zenon DEF CollectFiles
<1>3. root' \in [Ops -> Roots] /\ \A x \in Ops : x # o => root'[x] = root[x]
  BY <1>1, Parts, Zenon DEF CollectFiles, Roots
<1>4. CASE touched' = touched \cup {o} /\ Goto(p, "staged") /\ UNCHANGED <<lock, op>>
  <2>1. "staged" \in Labels /\ "staged" \in Holding
    BY Zenon DEF Labels, Holding
  <2>2. Fits(job[p])'
    BY <1>1, <1>2, <1>4, <2>1, GotoJob, SMTT(30) DEF Fits
  <2>3. Sound(op[o], root[o], o \in touched, o \in Orphans)
    BY <1>1, Parts, Zenon DEF RecInv
  <2>4. ~op[o].artifact
    BY <1>1, <2>3, SMTT(30) DEF Sound, RecordValid, FieldsValid
  <2>5. Sound(op'[o], root'[o], o \in touched', o \in Orphans)
    BY <1>1, <1>2, <1>4, <2>3, <2>4, SMTT(30) DEF Sound
  <2>6. RecInv' /\ OneOperationInFlight'
    BY <1>1, <1>2, <1>3, <1>4, <2>5, Parts, RecordsStep, Zenon
  <2>. QED  BY <1>1, <1>2, <1>3, <1>4, <2>1, <2>2, <2>6, Parts, GotoKeeps, SMTT(30)
<1>5. ASSUME NEW e \in AllErrors, FailAs(p, e, "TransportActive")
      PROVE  IInv'
  BY <1>1, <1>2, <1>3, <1>5, Parts, FailStep, SMTT(30)
<1>6. CASE \E e \in GuestErrors : FailAs(p, e, "TransportActive")
  BY <1>5, <1>6, ErrorsAssumption, Zenon
<1>7. CASE FailAs(p, "State", "TransportActive")
  BY <1>5, <1>7, Zenon DEF AllErrors
<1>. QED  BY <1>4, <1>6, <1>7, SMTT(30) DEF CollectFiles

\* The manifest is complete before the record names the artifact.
LEMMA CommitManifestKeeps ==
  ASSUME IInv, NEW p \in Processes, CommitManifest(p)
  PROVE  IInv'
<1> DEFINE o == job[p].op
<1>1. /\ job[p].pc = "staged" /\ lock = p /\ o \in Ops /\ o \notin Orphans
      /\ op[o].phase = "TransportActive" /\ job[p].pc \in Holding
  BY Parts, Zenon DEF CommitManifest, At, Fits, Working, Holding
<1>2. UNCHANGED <<touched, world>>
  BY Zenon DEF CommitManifest
<1>3. root' \in [Ops -> Roots] /\ (\A x \in Ops : x # o => root'[x] = root[x]) /\ root'[o] = "committed"
  BY <1>1, Parts, Zenon DEF CommitManifest, Roots
<1>4. CASE Goto(p, "manifest") /\ UNCHANGED <<lock, op>>
  <2>1. "manifest" \in Labels /\ "manifest" \in Holding
    BY SMTT(30) DEF Labels, Holding
  <2>2. Fits(job[p])'
    BY <1>1, <1>3, <1>4, <2>1, GotoJob, SMTT(30) DEF Fits
  <2>3. Sound(op[o], root[o], o \in touched, o \in Orphans)
    BY <1>1, Parts, SMTT(30) DEF RecInv
  <2>4. Sound(op'[o], root'[o], o \in touched', o \in Orphans)
    BY <1>2, <1>3, <1>4, <2>3, SMTT(30) DEF Sound
  <2>5. RecInv' /\ OneOperationInFlight'
    BY <1>1, <1>2, <1>3, <1>4, <2>4, Parts, RecordsStep, SMTT(30)
  <2>. QED  BY <1>1, <1>2, <1>3, <1>4, <2>1, <2>2, <2>5, Parts, GotoKeeps, Zenon
<1>5. CASE FailAs(p, "State", "TransportActive")
  <2>1. "State" \in AllErrors
    BY Zenon DEF AllErrors
  <2>. QED  BY <1>1, <1>2, <1>3, <1>5, <2>1, Parts, FailStep, Zenon
<1>. QED  BY <1>4, <1>5, SMTT(30) DEF CommitManifest

\* A record that names an artifact has it on disk.
LEMMA SaveCommittedKeeps ==
  ASSUME IInv, NEW p \in Processes, SaveCommitted(p)
  PROVE  IInv'
<1> DEFINE o == job[p].op
           n == [op[o] EXCEPT !.phase = "ArtifactCommitted", !.updated = now, !.artifact = TRUE]
<1>1. /\ job[p].pc = "manifest" /\ lock = p /\ o \in Ops /\ o \notin Orphans
      /\ op[o].phase = "TransportActive" /\ root[o] = "committed" /\ job[p].pc \in Holding
  BY Parts, Zenon DEF SaveCommitted, At, Fits, Working, Holding
<1>2. UNCHANGED <<root, touched, world>> /\ Save(o, n)
  BY Zenon DEF SaveCommitted
<1>3. /\ n \in Records /\ n.phase = "ArtifactCommitted" /\ n.cell = op[o].cell /\ n.failure = op[o].failure
      /\ n.pruned = op[o].pruned /\ n.completed = op[o].completed
  <2>1. op[o] \in Records /\ now \in Times
    BY <1>1, Parts, SMTT(30)
  <2>. QED  BY <2>1, ZenonT(30) DEF Records, OpenPhases
<1> HIDE DEF n
<1>4. /\ op' \in [Ops -> Records] /\ \A x \in Ops : x # o => op'[x] = op[x]
      /\ op'[o] = op[o] \/ (op'[o] = n /\ RecordValid(n))
  BY <1>1, <1>2, <1>3, Parts, SaveCases, SMTT(30)
<1>5. Sound(op[o], root[o], o \in touched, o \in Orphans)
  BY <1>1, Parts, SMTT(30) DEF RecInv
<1>6. Sound(op'[o], root'[o], o \in touched', o \in Orphans)
  BY <1>1, <1>2, <1>3, <1>4, <1>5, ZenonT(30) DEF Sound
<1>7. RecInv' /\ OneOperationInFlight'
  BY <1>1, <1>2, <1>3, <1>4, <1>6, Parts, RecordsStep, ZenonT(30) DEF OpenPhases
<1>8. CASE op' = op /\ Return(p)
  BY <1>1, <1>2, <1>4, <1>7, <1>8, Parts, ReturnKeeps, ZenonT(30)
<1>9. CASE op' # op /\ Goto(p, "committed") /\ UNCHANGED lock
  <2>1. "committed" \in Labels /\ "committed" \in Holding
    BY Zenon DEF Labels, Holding
  <2>2. Fits(job[p])'
    BY <1>1, <1>3, <1>4, <1>9, <2>1, GotoJob, ZenonT(30) DEF Fits
  <2>. QED  BY <1>1, <1>2, <1>4, <1>7, <1>9, <2>1, <2>2, Parts, GotoKeeps, ZenonT(30)
<1>. QED  BY <1>8, <1>9, Zenon DEF SaveCommitted

\* An operation is completed with the artifact its record names.
LEMMA SaveCompletedKeeps ==
  ASSUME IInv, NEW p \in Processes, SaveCompleted(p)
  PROVE  IInv'
<1> DEFINE o == job[p].op
           n == [op[o] EXCEPT !.phase = "Completed", !.updated = now, !.completed = now]
<1>1. /\ job[p].pc = "committed" /\ lock = p /\ o \in Ops /\ o \notin Orphans
      /\ op[o].phase \in {"TransportActive", "ArtifactCommitted"} /\ job[p].pc \in Holding
  BY Parts, Zenon DEF SaveCompleted, At, Fits, Working, Holding
<1>2. UNCHANGED <<root, touched, world>> /\ Save(o, n) /\ Return(p)
  BY Zenon DEF SaveCompleted
<1>3. /\ n \in Records /\ n.phase = "Completed" /\ n.cell = op[o].cell /\ n.failure = op[o].failure
      /\ n.pruned = op[o].pruned /\ n.artifact = op[o].artifact
  <2>1. op[o] \in Records /\ now \in Times
    BY <1>1, Parts, SMTT(30)
  <2>. QED  BY <2>1, ZenonT(30) DEF Records, TerminalPhases
<1> HIDE DEF n
<1>4. /\ op' \in [Ops -> Records] /\ \A x \in Ops : x # o => op'[x] = op[x]
      /\ op'[o] = op[o] \/ (op'[o] = n /\ RecordValid(n))
  BY <1>1, <1>2, <1>3, Parts, SaveCases, SMTT(30)
<1>5. Sound(op[o], root[o], o \in touched, o \in Orphans)
  BY <1>1, Parts, SMTT(30) DEF RecInv
<1>6. op[o].pruned = NoTime
  BY <1>1, <1>5, ZenonT(30) DEF Sound, RecordValid, FieldsValid
<1>7. Sound(op'[o], root'[o], o \in touched', o \in Orphans)
  BY <1>1, <1>2, <1>3, <1>4, <1>5, <1>6, ZenonT(30) DEF Sound
<1>8. RecInv' /\ OneOperationInFlight'
  BY <1>1, <1>2, <1>3, <1>4, <1>7, Parts, RecordsStep, ZenonT(30) DEF OpenPhases
<1>. QED  BY <1>1, <1>2, <1>4, <1>8, Parts, ReturnKeeps, ZenonT(30)

\* A step of p that changes no record and no directory.
LEMMA QuietKeeps ==
  ASSUME IInv, NEW p \in Processes, UNCHANGED <<op, root, touched, world>>, NEW j \in Jobs,
         job' = [job EXCEPT ![p] = j], lock' \in Processes \cup {NoProcess},
         lock' = lock \/ lock \in {p, NoProcess}, j.pc \in Holding => lock' = p, Fits(j)
  PROVE  IInv'
<1>1. job'[p] = j /\ job' \in [Processes -> Jobs] /\ \A q \in Processes : q # p => job'[q] = job[q]
  BY Parts, SMTT(30)
<1>2. Fits(job[p])'
  BY <1>1, Zenon DEF Fits, IsRecovery, Expired
<1>3. LockInv' /\ JobInv'
  BY <1>1, <1>2, Parts, JobsStep, SMTT(30)
<1>4. RecInv' /\ OneOperationInFlight'
  BY Parts, Zenon DEF RecInv, OneOperationInFlight
<1>. QED  BY <1>1, <1>3, <1>4, Zenon DEF IInv, TypeOK, world

\* Looking at a record before the lock is taken commits to nothing.
LEMMA ReconcilePeekKeeps ==
  ASSUME IInv, NEW p \in Processes, NEW o \in Ops, ReconcilePeek(p, o)
  PROVE  IInv'
<1> DEFINE j == [Idle EXCEPT !.pc = "reconcile", !.op = o, !.seen = op[o].phase]
<1>1. /\ o \notin Orphans /\ op[o].phase \in OpenPhases /\ job' = [job EXCEPT ![p] = j]
      /\ UNCHANGED <<lock, op, root, touched, world>>
  BY Zenon DEF ReconcilePeek, HasParent, OpenPhases
<1>2. j \in Jobs /\ j.pc = "reconcile" /\ j.op = o
  BY <1>1, IdleTyped, ZenonT(30) DEF Idle, Jobs, Labels
<1>3. Fits(j) /\ j.pc \notin Holding
  BY <1>1, <1>2, Zenon DEF Fits, Holding
<1>4. lock' \in Processes \cup {NoProcess}
  BY <1>1, Zenon DEF IInv, TypeOK
<1> HIDE DEF j
<1>. QED  BY <1>1, <1>2, <1>3, <1>4, QuietKeeps, ZenonT(30)

\* Reconciliation closes the record it finds under the lock: an intent as
\* interrupted, a committed artifact as completed, anything else not at all.
LEMMA ReconcileLockedKeeps ==
  ASSUME IInv, NEW p \in Processes, ReconcileLocked(p)
  PROVE  IInv'
<1> DEFINE o == job[p].op
           closed == [op[o] EXCEPT !.updated = now, !.completed = now]
           i == [closed EXCEPT !.phase = "Failed", !.failure = "Interrupted"]
           d == [closed EXCEPT !.phase = "Completed"]
<1>1. job[p].pc = "reconcile" /\ lock = NoProcess /\ o \in Ops /\ o \notin Orphans
  BY Parts, Zenon DEF ReconcileLocked, At, Fits, Working
<1>2. UNCHANGED <<lock, root, touched, world>> /\ job' = [job EXCEPT ![p] = Idle]
  BY Zenon DEF ReconcileLocked
<1>3. op[o] \in Records /\ now \in Times
  BY <1>1, Parts, Zenon
<1>4. i \in Records /\ i.phase = "Failed" /\ i.artifact = op[o].artifact /\ i.pruned = op[o].pruned
  BY <1>3, ZenonT(30) DEF Records, TerminalPhases, Failures
<1>5. d \in Records /\ d.phase = "Completed" /\ d.failure = op[o].failure /\ d.artifact = op[o].artifact
        /\ d.pruned = op[o].pruned
  BY <1>3, ZenonT(30) DEF Records, TerminalPhases
<1>6. \/ op[o].phase = "IntentRecorded" /\ Save(o, i)
      \/ op[o].phase = "ArtifactCommitted" /\ Save(o, IF op[o].artifact /\ root[o] = "committed" THEN d ELSE op[o])
      \/ UNCHANGED op
  BY Zenon DEF ReconcileLocked
<1> HIDE DEF i, d, closed
<1>7. Sound(op[o], root[o], o \in touched, o \in Orphans)
  BY <1>1, Parts, Zenon DEF RecInv
<1>8. op[o].phase \in OpenPhases => op[o].pruned = NoTime /\ op[o].failure # "Interrupted"
  BY <1>7, ZenonT(30) DEF Sound, RecordValid, FieldsValid, OpenPhases
<1>9. /\ op' \in [Ops -> Records] /\ \A x \in Ops : x # o => op'[x] = op[x]
      /\ Sound(op'[o], root'[o], o \in touched', o \in Orphans)
      /\ op'[o].phase \in OpenPhases => op[o].phase \in OpenPhases /\ op'[o].cell = op[o].cell
  <2>1. CASE op[o].phase = "IntentRecorded" /\ Save(o, i)
    <3>1. /\ op' \in [Ops -> Records] /\ \A x \in Ops : x # o => op'[x] = op[x]
          /\ op'[o] = op[o] \/ (op'[o] = i /\ RecordValid(i))
      BY <1>1, <1>4, <2>1, Parts, SaveCases, SMTT(30)
    <3>2. o \notin touched /\ ~op[o].artifact /\ op[o].pruned = NoTime
      BY <1>7, <2>1, ZenonT(30) DEF Sound, RecordValid, FieldsValid
    <3>3. Sound(op'[o], root'[o], o \in touched', o \in Orphans)
      BY <1>1, <1>2, <1>4, <1>7, <3>1, <3>2, ZenonT(30) DEF Sound
    <3>. QED  BY <1>4, <3>1, <3>3, SMTT(30) DEF OpenPhases
  <2>2. CASE op[o].phase = "ArtifactCommitted" /\ Save(o, d) /\ root[o] = "committed"
    <3>1. /\ op' \in [Ops -> Records] /\ \A x \in Ops : x # o => op'[x] = op[x]
          /\ op'[o] = op[o] \/ (op'[o] = d /\ RecordValid(d))
      BY <1>1, <1>5, <2>2, Parts, SaveCases, ZenonT(30)
    <3>2. op[o].pruned = NoTime /\ op[o].failure # "Interrupted"
      BY <1>8, <2>2, SMTT(30) DEF OpenPhases
    <3>3. Sound(op'[o], root'[o], o \in touched', o \in Orphans)
      BY <1>1, <1>2, <1>5, <1>7, <2>2, <3>1, <3>2, ZenonT(30) DEF Sound
    <3>. QED  BY <1>5, <3>1, <3>3, ZenonT(30) DEF OpenPhases
  <2>3. CASE UNCHANGED op \/ Save(o, op[o])
    <3>1. op' = op
      BY <1>1, <2>3, Parts, Zenon DEF Save
    <3>. QED  BY <1>2, <1>7, <3>1, Parts, Zenon
  <2>. QED  BY <1>6, <2>1, <2>2, <2>3, ZenonT(30)
<1>10. RecInv' /\ OneOperationInFlight'
  BY <1>1, <1>2, <1>9, Parts, RecordsStep, Zenon
<1>11. job'[p] = Idle /\ job' \in [Processes -> Jobs] /\ \A q \in Processes : q # p => job'[q] = job[q]
  BY <1>2, IdleTyped, Parts, SMTT(30)
<1>12. Fits(job[p])' /\ job'[p].pc \notin Holding
  BY <1>11 DEF Fits, Idle, Working, Holding
<1>13. LockInv' /\ JobInv'
  BY <1>1, <1>2, <1>11, <1>12, Parts, JobsStep, Zenon
<1>. QED  BY <1>2, <1>9, <1>10, <1>11, <1>13, Zenon DEF IInv, TypeOK, world

\* The cutoff is remembered, no more.
LEMMA PruneEvaluateKeeps ==
  ASSUME IInv, NEW p \in Processes, PruneEvaluate(p)
  PROVE  IInv'
<1> DEFINE j == [Idle EXCEPT !.pc = "prune_lock", !.at = now]
<1>1. job' = [job EXCEPT ![p] = j] /\ UNCHANGED <<lock, op, root, touched, world>>
  BY Zenon DEF PruneEvaluate
<1>2. j \in Jobs /\ j.pc = "prune_lock" /\ j.at \in Times
  BY IdleTyped, Parts, ZenonT(30) DEF Idle, Jobs, Labels
<1>3. Fits(j) /\ j.pc \notin Holding
  BY <1>2, Zenon DEF Fits, Holding, Working
<1>4. lock' \in Processes \cup {NoProcess}
  BY <1>1, Zenon DEF IInv, TypeOK
<1> HIDE DEF j
<1>. QED  BY <1>1, <1>2, <1>3, <1>4, QuietKeeps, ZenonT(30)

\* What is to be pruned is decided under the lock.
LEMMA PruneLockKeeps ==
  ASSUME IInv, NEW p \in Processes, PruneLock(p)
  PROVE  IInv'
<1> DEFINE T == {o \in Ops : IsRecovery(op[o]) \/ Expired(op[o], job[p].at)}
           j == [job[p] EXCEPT !.pc = "prune", !.todo = T]
<1>1. job[p].pc = "prune_lock" /\ lock = NoProcess /\ lock' = p /\ UNCHANGED <<op, root, touched, world>>
  BY Zenon DEF PruneLock, At
<1>2. job[p] \in Jobs /\ job[p].at \in Times
  BY <1>1, Parts, ZenonT(30) DEF Fits
<1>3. T \in SUBSET Ops /\ \A o \in T : IsRecovery(op[o]) \/ Expired(op[o], job[p].at)
  BY Zenon
<1>4. job' = [job EXCEPT ![p] = j]
  BY Parts, ZenonT(30) DEF PruneLock
<1> HIDE DEF T
<1>5. j \in Jobs /\ j.pc = "prune" /\ j.at = job[p].at /\ j.todo = T
  BY <1>2, <1>3, ZenonT(30) DEF Jobs, Labels
<1> HIDE DEF j
<1>6. Fits(j)
  BY <1>2, <1>3, <1>5, Zenon DEF Fits, Working
<1>. QED  BY <1>1, <1>4, <1>5, <1>6, QuietKeeps, ZenonT(30)

\* A tombstone on an expired record is never refused.
LEMMA TombstoneValid ==
  ASSUME NEW r \in Records, RecordValid(r), NEW t \in Times, Expired(r, t)
  PROVE  RecordValid([r EXCEPT !.updated = t, !.pruned = t])
<1> DEFINE n == [r EXCEPT !.updated = t, !.pruned = t]
<1>1. /\ n.phase = "Completed" /\ n.artifact /\ n.kind = r.kind /\ n.failure = r.failure /\ n.created = r.created
      /\ n.updated = t /\ n.completed = r.completed /\ n.pruned = t
  BY Zenon DEF Records, Expired
<1>2. r.completed # NoTime /\ r.completed \in Times /\ r.created \in Times /\ t # NoTime
  BY TimeAssumption, Zenon DEF Expired, RecordValid, FieldsValid, TerminalPhases, Records, Times
<1>3. r.created <= r.completed /\ r.completed <= t /\ r.created <= t
  BY <1>2, TimeAssumption DEF Expired, RecordValid, Times
<1>4. FieldsValid(n)
  BY <1>1, <1>2, Zenon DEF Expired, RecordValid, FieldsValid, OpenPhases, TerminalPhases
<1> HIDE DEF n
<1>5. RecordValid(n)
  BY <1>1, <1>2, <1>3, <1>4, SMTT(30) DEF RecordValid
<1>. QED  BY <1>5, Zenon DEF n

\* The tombstone is on disk before anything is removed.
LEMMA PruneNextKeeps ==
  ASSUME IInv, NEW p \in Processes, PruneNext(p)
  PROVE  IInv'
<1>1. /\ job[p].pc = "prune" /\ lock = p /\ job[p].at \in Times /\ job[p].pc \in Holding
      /\ \A x \in job[p].todo : IsRecovery(op[x]) \/ Expired(op[x], job[p].at)
  BY Parts, ZenonT(30) DEF PruneNext, At, Fits, Holding
<1>2. UNCHANGED <<root, touched, world>>
  BY ZenonT(30) DEF PruneNext
<1>3. CASE Return(p) /\ UNCHANGED op
  <2>1. RecInv' /\ OneOperationInFlight'
    BY <1>2, <1>3, Parts, Zenon DEF RecInv, OneOperationInFlight
  <2>. QED  BY <1>1, <1>2, <1>3, <2>1, Parts, ReturnKeeps, Zenon
<1>4. ASSUME NEW o \in job[p].todo, job[p].entries # Batch, HasParent(o),
             job' = [job EXCEPT ![p].pc = "remove", ![p].op = o, ![p].todo = @ \ {o}],
             IF IsRecovery(op[o]) THEN UNCHANGED op
             ELSE Save(o, [op[o] EXCEPT !.updated = job[p].at, !.pruned = job[p].at]),
             UNCHANGED lock
      PROVE  IInv'
  <2> DEFINE n == [op[o] EXCEPT !.updated = job[p].at, !.pruned = job[p].at]
             j == [job[p] EXCEPT !.pc = "remove", !.op = o, !.todo = job[p].todo \ {o}]
  <2>1. job[p] \in Jobs
    BY Parts, Zenon
  <2>2. o \in Ops /\ o \notin Orphans
    BY <1>4, <2>1, Zenon DEF Jobs, HasParent
  <2>3. op[o] \in Records /\ Sound(op[o], root[o], o \in touched, o \in Orphans)
    BY <2>2, Parts, Zenon DEF RecInv
  <2>4. job' = [job EXCEPT ![p] = j]
    BY <1>4, Parts, ZenonT(30)
  <2>5. j \in Jobs /\ j.pc = "remove" /\ j.op = o /\ j.todo = job[p].todo \ {o} /\ j.at = job[p].at
          /\ j.entries = job[p].entries
    BY <2>1, <2>2, ZenonT(30) DEF Jobs, Labels
  <2>6. job[p].entries < Batch
    BY <1>4, <2>1, BatchAssumption DEF Jobs
  <2> HIDE DEF j
  <2>7. job'[p] = j /\ job' \in [Processes -> Jobs] /\ \A q \in Processes : q # p => job'[q] = job[q]
    BY <2>4, <2>5, Parts, Zenon
  <2>8. /\ op' \in [Ops -> Records] /\ (\A x \in Ops : x # o => op'[x] = op[x]) /\ op'[o].pruned # NoTime
        /\ Sound(op'[o], root'[o], o \in touched', o \in Orphans)
        /\ op'[o].phase \in OpenPhases => op[o].phase \in OpenPhases /\ op'[o].cell = op[o].cell
    <3>1. CASE IsRecovery(op[o])
      BY <1>2, <1>4, <2>3, <3>1, Parts, SMTT(30) DEF IsRecovery
    <3>2. CASE ~IsRecovery(op[o])
      <4>1. Expired(op[o], job[p].at) /\ op[o].phase = "Completed"
        BY <1>1, <1>4, <3>2, SMTT(30) DEF Expired
      <4>2. RecordValid(n)
        BY <1>1, <2>3, <4>1, TombstoneValid, ZenonT(30) DEF Sound
      <4>3. /\ n \in Records /\ n.phase = "Completed" /\ n.failure = op[o].failure /\ n.pruned = job[p].at
            /\ n.completed = op[o].completed
        BY <1>1, <2>3, <4>1, ZenonT(30) DEF Records
      <4>4. job[p].at # NoTime
        BY <1>1, TimeAssumption, Zenon DEF Times
      <4>5. op' = [op EXCEPT ![o] = n]
        BY <1>4, <2>2, <3>2, <4>2, SMTT(30) DEF Save, HasParent
      <4> HIDE DEF n
      <4>6. op'[o] = n /\ op' \in [Ops -> Records] /\ \A x \in Ops : x # o => op'[x] = op[x]
        BY <2>2, <4>3, <4>5, Parts, Zenon
      <4>7. n.completed + Retention <= n.pruned
        BY <4>1, <4>3, SMTT(30) DEF Expired
      <4>8. Sound(n, root'[o], o \in touched', o \in Orphans)
        BY <1>2, <2>2, <2>3, <4>1, <4>2, <4>3, <4>4, <4>7, SMTT(30) DEF Sound
      <4>. QED  BY <4>3, <4>4, <4>6, <4>8, Zenon DEF OpenPhases
    <3>. QED  BY <3>1, <3>2, Zenon
  <2>9. RecInv' /\ OneOperationInFlight'
    BY <1>2, <2>2, <2>8, Parts, RecordsStep, ZenonT(30)
  <2>10. Fits(job[p])'
    <3>1. \A x \in j.todo : x \in Ops /\ x # o /\ (IsRecovery(op[x]) \/ Expired(op[x], job[p].at))
      BY <1>1, <2>1, <2>5, ZenonT(30) DEF Jobs
    <3>2. \A x \in j.todo : IsRecovery(op'[x]) \/ Expired(op'[x], job[p].at)
      BY <2>8, <3>1, ZenonT(30)
    <3>. QED  BY <1>1, <2>2, <2>5, <2>6, <2>7, <2>8, <3>2, ZenonT(30) DEF Fits
  <2>11. LockInv' /\ JobInv'
    BY <1>1, <1>4, <2>7, <2>10, Parts, JobsStep, Zenon
  <2>. QED  BY <1>2, <1>4, <2>7, <2>8, <2>9, <2>11, Zenon DEF IInv, TypeOK, world
<1>. QED  BY <1>3, <1>4, ZenonT(30) DEF PruneNext

\* Only the directory of a record with a tombstone is removed.
LEMMA RemoveRootKeeps ==
  ASSUME IInv, NEW p \in Processes, RemoveRoot(p)
  PROVE  IInv'
<1> DEFINE o == job[p].op
           j == [job[p] EXCEPT !.pc = "prune", !.op = NoOp, !.entries = job[p].entries + 1]
<1>1. /\ job[p].pc = "remove" /\ lock = p /\ o \in Ops /\ o \notin Orphans /\ op[o].pruned # NoTime
      /\ job[p].entries < Batch /\ job[p].at \in Times
      /\ \A x \in job[p].todo : IsRecovery(op[x]) \/ Expired(op[x], job[p].at)
  BY Parts, Zenon DEF RemoveRoot, At, Fits, Holding, Working
<1>2. UNCHANGED <<lock, op, touched, world>> /\ root' = [root EXCEPT ![o] = "absent"]
  BY Zenon DEF RemoveRoot
<1>3. job[p] \in Jobs
  BY Parts, Zenon
<1>4. job[p].entries + 1 \in 0 .. Batch
  BY <1>1, <1>3, BatchAssumption DEF Jobs
<1>5. job' = [job EXCEPT ![p] = j]
  BY Parts, ZenonT(30) DEF RemoveRoot
<1>6. j \in Jobs /\ j.pc = "prune" /\ j.at = job[p].at /\ j.todo = job[p].todo
  BY <1>3, <1>4, ZenonT(30) DEF Jobs, Labels
<1> HIDE DEF j
<1>7. job'[p] = j /\ job' \in [Processes -> Jobs] /\ \A q \in Processes : q # p => job'[q] = job[q]
  BY <1>5, <1>6, Parts, Zenon
<1>8. root' \in [Ops -> Roots] /\ \A x \in Ops : x # o => root'[x] = root[x]
  BY <1>2, Parts, ZenonT(30) DEF Roots
<1>9. Sound(op[o], root[o], o \in touched, o \in Orphans)
  BY <1>1, Parts, Zenon DEF RecInv
<1>10. Sound(op'[o], root'[o], o \in touched', o \in Orphans)
  BY <1>1, <1>2, <1>9, ZenonT(30) DEF Sound
<1>11. RecInv' /\ OneOperationInFlight'
  BY <1>1, <1>2, <1>8, <1>10, Parts, RecordsStep, ZenonT(30)
<1>12. Fits(job[p])'
  BY <1>1, <1>2, <1>6, <1>7, SMTT(30) DEF Fits, Working, IsRecovery, Expired
<1>13. LockInv' /\ JobInv'
  BY <1>1, <1>2, <1>7, <1>12, Parts, JobsStep, SMTT(30)
<1>. QED  BY <1>2, <1>7, <1>8, <1>11, <1>13, Zenon DEF IInv, TypeOK, world

\* A process may die anywhere; a removal it leaves half done is of a record with
\* a tombstone.
LEMMA CrashKeeps ==
  ASSUME IInv, NEW p \in Processes, Crash(p)
  PROVE  IInv'
<1> DEFINE o == job[p].op
<1>1. /\ UNCHANGED <<op, touched, running, now, setbacks>> /\ job' = [job EXCEPT ![p] = Idle]
      /\ lock' = (IF lock = p THEN NoProcess ELSE lock)
  BY Zenon DEF Crash
<1>2. crashes' \in 0 .. MaxCrashes
  BY TimeAssumption, SMTT(30) DEF Crash, IInv, TypeOK
<1>3. job'[p] = Idle /\ job' \in [Processes -> Jobs] /\ \A q \in Processes : q # p => job'[q] = job[q]
  BY <1>1, IdleTyped, Parts, SMTT(30)
<1>4. Fits(job[p])' /\ job'[p].pc \notin Holding
  BY SMTT(30), <1>3 DEF Fits, Idle, Working, Holding
<1>5. CASE UNCHANGED root
  <2>1. RecInv' /\ OneOperationInFlight'
    BY <1>1, <1>5, Parts, SMTT(30) DEF RecInv, OneOperationInFlight
  <2>2. LockInv' /\ JobInv'
    BY <1>1, <1>3, <1>4, <1>5, Parts, JobsStep, Zenon
  <2>. QED  BY <1>1, <1>2, <1>3, <1>5, <2>1, <2>2, Zenon DEF IInv, TypeOK
<1>6. CASE At(p, "remove") /\ root' = [root EXCEPT ![o] = "torn"]
  <2>1. job[p].pc = "remove" /\ lock = p /\ o \in Ops /\ op[o].pruned # NoTime
    BY <1>6, Parts, SMTT(30) DEF At, Fits, Holding, Working
  <2>2. root' \in [Ops -> Roots] /\ \A x \in Ops : x # o => root'[x] = root[x]
    BY <1>6, Parts, ZenonT(30) DEF Roots
  <2>3. Sound(op[o], root[o], o \in touched, o \in Orphans)
    BY <2>1, Parts, SMTT(30) DEF RecInv
  <2>4. Sound(op'[o], root'[o], o \in touched', o \in Orphans)
    BY <1>1, <2>1, <2>3, Zenon DEF Sound
  <2>5. RecInv' /\ OneOperationInFlight'
    BY <1>1, <2>1, <2>2, <2>4, Parts, RecordsStep, Zenon
  <2>6. LockInv' /\ JobInv'
    BY <1>1, <1>3, <1>4, <2>1, Parts, JobsStep, Zenon
  <2>. QED  BY <1>1, <1>2, <1>3, <2>2, <2>5, <2>6, SMTT(30) DEF IInv, TypeOK
<1>. QED  BY <1>5, <1>6, Zenon DEF Crash

\* Cells that change and clocks that are set touch no record.
LEMMA WorldKeeps ==
  ASSUME IInv, (\E c \in Cells : CellChanges(c)) \/ Tick \/ SetBack \/ UNCHANGED vars
  PROVE  IInv'
<1>1. UNCHANGED <<lock, job, op, root, touched>>
  BY Zenon DEF CellChanges, Tick, SetBack, vars
<1>2. running' \in SUBSET Cells /\ now' \in Times /\ setbacks' \in 0 .. MaxSetbacks /\ crashes' \in 0 .. MaxCrashes
  <2>1. running \in SUBSET Cells /\ now \in Times /\ setbacks \in 0 .. MaxSetbacks /\ crashes \in 0 .. MaxCrashes
    BY Zenon DEF IInv, TypeOK
  <2>2. CASE \E c \in Cells : CellChanges(c)
    BY <2>1, <2>2, Zenon DEF CellChanges
  <2>3. CASE Tick
    BY <2>1, <2>3, TimeAssumption DEF Tick, Times
  <2>4. CASE SetBack
    BY <2>1, <2>4, TimeAssumption DEF SetBack, Times
  <2>5. CASE UNCHANGED vars
    BY <2>1, <2>5, Zenon DEF vars
  <2>. QED  BY <2>2, <2>3, <2>4, <2>5, Zenon
<1>3. TypeOK'
  BY <1>1, <1>2, SMTT(30) DEF IInv, TypeOK
<1>4. LockInv' /\ JobInv' /\ RecInv' /\ OneOperationInFlight'
  BY <1>1, Parts, ZenonT(30) DEF LockInv, JobInv, Fits, IsRecovery, Expired, RecInv, OneOperationInFlight
<1>. QED  BY <1>3, <1>4, Zenon DEF IInv

-----------------------------------------------------------------------------
(***************************************************************************)
(* The invariant                                                           *)
(***************************************************************************)

\* A fresh state root, and one with artifacts of an old release, is sound.
LEMMA InitKeeps == Init => IInv
<1> SUFFICES ASSUME Init PROVE IInv
  BY Zenon
<1>1. Cells # {} /\ (CHOOSE c \in Cells : TRUE) \in Cells
  BY CellsAssumption, Zenon
<1>2. 0 \in Times /\ NoTime # 0
  BY TimeAssumption, SMTT(30) DEF Times
<1>3. /\ NoRecord \in Records /\ NoRecord.phase = "Absent" /\ NoRecord.failure = "None" /\ ~NoRecord.artifact
      /\ NoRecord.pruned = NoTime /\ NoRecord.completed = NoTime /\ NoRecord.created = 0 /\ NoRecord.updated = 0
  BY <1>1, <1>2, ZenonT(30) DEF NoRecord, Records, Kinds, Failures
<1>4. /\ Collected \in Records /\ Collected.phase = "Completed" /\ Collected.failure = "None" /\ Collected.artifact
      /\ Collected.pruned = NoTime /\ Collected.completed = 0 /\ Collected.created = 0 /\ Collected.updated = 0
      /\ Collected.kind = "ArtifactCollect"
  BY <1>2, <1>3, ZenonT(30) DEF Collected, NoRecord, Records, Kinds, TerminalPhases
<1>5. RecordValid(NoRecord) /\ RecordValid(Collected)
  BY <1>2, <1>3, <1>4 DEF RecordValid, FieldsValid, OpenPhases, TerminalPhases
<1>6. \A o \in Ops : op[o] = (IF o \in Orphans THEN Collected ELSE NoRecord)
                     /\ root[o] = (IF o \in Orphans THEN "committed" ELSE "absent")
  BY Zenon DEF Init
<1>7. TypeOK
  <2>1. op \in [Ops -> Records]
    BY <1>3, <1>4, Zenon DEF Init
  <2>2. root \in [Ops -> Roots] /\ job \in [Processes -> Jobs]
    BY IdleTyped, SMTT(30) DEF Init, Roots
  <2>3. now \in Times /\ setbacks \in 0 .. MaxSetbacks /\ crashes \in 0 .. MaxCrashes
    BY <1>2, TimeAssumption, SMTT(30) DEF Init
  <2>. QED  BY <2>1, <2>2, <2>3, Zenon DEF Init, TypeOK
<1>8. LockInv /\ JobInv
  BY SMTT(30) DEF Init, LockInv, JobInv, Fits, Idle, Holding, Working
<1>9. RecInv
  BY <1>3, <1>4, <1>5, <1>6, Zenon DEF Init, RecInv, Sound
<1>10. OneOperationInFlight
  BY <1>3, <1>4, <1>6, Zenon DEF OneOperationInFlight, OpenPhases
<1>. QED  BY <1>7, <1>8, <1>9, <1>10, Zenon DEF IInv

\* Every step keeps the invariant.
LEMMA NextKeeps == IInv /\ [Next]_vars => IInv'
<1> SUFFICES ASSUME IInv, [Next]_vars PROVE IInv'
  BY Zenon
<1>1. ASSUME NEW p \in Processes, RunStep(p) PROVE IInv'
  BY <1>1, AuthoriseKeeps, WaitReadyKeeps, ExecActionKeeps, CollectFilesKeeps, CommitManifestKeeps,
     SaveCommittedKeeps, SaveCompletedKeeps, Zenon DEF RunStep
<1>2. ASSUME NEW p \in Processes, ReconcileStep(p) PROVE IInv'
  BY <1>2, ReconcilePeekKeeps, ReconcileLockedKeeps, Zenon DEF ReconcileStep
<1>3. ASSUME NEW p \in Processes, PruneStep(p) PROVE IInv'
  BY <1>3, PruneEvaluateKeeps, PruneLockKeeps, PruneNextKeeps, RemoveRootKeeps, Zenon DEF PruneStep
<1>4. ASSUME NEW p \in Processes, \E o \in Ops, c \in Cells, k \in Kinds : RecordIntent(p, o, c, k)
      PROVE  IInv'
  BY <1>4, RecordIntentKeeps, Zenon
<1>. QED  BY <1>1, <1>2, <1>3, <1>4, CrashKeeps, WorldKeeps, Zenon DEF Next

\* The invariant holds in every reachable state.
THEOREM Invariance == Spec => []IInv
  BY InitKeeps, NextKeeps, PTL DEF Spec

\* A cell never has two operations that are not over, however many processes
\* share the state root and wherever they died (run_guest_operation's check of
\* the history under the lock).
THEOREM OneInFlight == Spec => []OneOperationInFlight
<1>1. IInv => OneOperationInFlight
  BY Zenon DEF IInv
<1>. QED  BY <1>1, Invariance, PTL

\* An operation whose action reached the guest is never recorded as interrupted
\* before it: TransportActive is saved first, and reconciliation decides by the
\* record it reads under the lock.
THEOREM UntouchedWhenInterrupted == Spec => []InterruptedMeansUntouched
<1>1. IInv => InterruptedMeansUntouched
  BY Parts, Zenon DEF RecInv, Sound, InterruptedMeansUntouched
<1>. QED  BY <1>1, Invariance, PTL

\* A record that names an artifact without a tombstone has all of it on disk.
THEOREM BackedArtifacts == Spec => []ArtifactsBacked
<1>1. IInv => ArtifactsBacked
  BY Parts, Zenon DEF RecInv, Sound, ArtifactsBacked
<1>. QED  BY <1>1, Invariance, PTL

\* No artifact is pruned before its retention is over, even if the clock is set
\* back between the evaluation and the lock.
THEOREM HonouredRetention == Spec => []RetentionHonoured
<1>1. IInv => RetentionHonoured
  BY Parts, Zenon DEF RecInv, Sound, RetentionHonoured
<1>. QED  BY <1>1, Invariance, PTL

-----------------------------------------------------------------------------
(***************************************************************************)
(* What a step may never do                                                *)
(***************************************************************************)

\* A closed record only changes by its tombstone.
Closed(o) ==
  op[o].phase \in TerminalPhases =>
    \/ op'[o] = op[o]
    \/ /\ op[o].pruned = NoTime /\ op'[o].phase = op[o].phase
       /\ op'[o].failure = op[o].failure /\ op'[o].completed = op[o].completed

\* Any save changes at most the one record, and none whose cell is gone.
LEMMA SaveOne ==
  ASSUME op \in [Ops -> Records], NEW o, NEW r, Save(o, r)
  PROVE  (\A x \in Ops : x # o => op'[x] = op[x]) /\ (\A x \in Orphans : op'[x] = op[x])
  BY OpsAssumption, SMTT(30) DEF Save, HasParent

\* A step of an operation that is not closed leaves the closed ones alone.
LEMMA OpenChanges ==
  ASSUME IInv, NEW o \in Ops, op[o].phase \notin TerminalPhases, NEW r, Save(o, r) \/ UNCHANGED op
  PROVE  \A x \in Ops : Closed(x) /\ (x \in Orphans => op'[x] = op[x])
  BY Parts, SaveOne, SMTT(30) DEF Closed

\* Every step leaves a closed record as it is, but for its tombstone, and all of
\* an orphan.
LEMMA ClosedStays ==
  ASSUME IInv, [Next]_vars
  PROVE  \A o \in Ops : Closed(o) /\ (o \in Orphans => op'[o] = op[o] /\ root'[o] = root[o])
<1>1. ASSUME NEW p \in Processes, RunStep(p)
      PROVE  \A x \in Ops : Closed(x) /\ (x \in Orphans => op'[x] = op[x] /\ root'[x] = root[x])
  <2>1. /\ job[p].op \in Ops /\ job[p].op \notin Orphans
        /\ op[job[p].op].phase \in {"IntentRecorded", "TransportActive", "ArtifactCommitted"}
    BY <1>1, Parts, SMTT(30) DEF RunStep, Authorise, WaitReady, ExecAction, CollectFiles, CommitManifest, SaveCommitted,
                       SaveCompleted, At, Fits, Working
  <2>2. UNCHANGED op \/ \E r : Save(job[p].op, r)
    BY <1>1, ZenonT(30) DEF RunStep, Authorise, WaitReady, ExecAction, CollectFiles, CommitManifest, SaveCommitted,
                SaveCompleted, FailAs
  <2>3. \A x \in Ops : x # job[p].op => root'[x] = root[x]
    BY <1>1, Parts, SMTT(30) DEF RunStep, Authorise, WaitReady, ExecAction, CollectFiles, CommitManifest, SaveCommitted,
                       SaveCompleted
  <2>. QED  BY <2>1, <2>2, <2>3, OpenChanges, SMTT(30) DEF TerminalPhases
<1>2. ASSUME NEW p \in Processes, NEW o \in Ops, NEW c \in Cells, NEW k \in Kinds, RecordIntent(p, o, c, k)
      PROVE  \A x \in Ops : Closed(x) /\ (x \in Orphans => op'[x] = op[x] /\ root'[x] = root[x])
  <2>1. op[o].phase \notin TerminalPhases /\ Save(o, Intent(c, k)) /\ UNCHANGED root
    BY <1>2, SMTT(30) DEF RecordIntent, TerminalPhases
  <2>. QED  BY <2>1, OpenChanges, SMTT(30)
<1>3. ASSUME NEW p \in Processes, ReconcileStep(p)
      PROVE  \A x \in Ops : Closed(x) /\ (x \in Orphans => op'[x] = op[x] /\ root'[x] = root[x])
  <2>1. UNCHANGED root
    BY <1>3, ZenonT(30) DEF ReconcileStep, ReconcilePeek, ReconcileLocked
  <2>2. CASE UNCHANGED op
    BY <2>1, <2>2, Zenon DEF Closed
  <2>3. CASE ReconcileLocked(p) /\ ~UNCHANGED op
    <3>1. job[p].op \in Ops
      BY <2>3, Parts, Zenon DEF ReconcileLocked, At, Fits, Working
    <3>2. /\ op[job[p].op].phase \in {"IntentRecorded", "ArtifactCommitted"}
          /\ \E r : Save(job[p].op, r)
      BY <2>3, SMTT(30) DEF ReconcileLocked
    <3>. QED  BY <2>1, <3>1, <3>2, OpenChanges, Zenon DEF TerminalPhases
  <2>. QED  BY <1>3, <2>2, <2>3, ZenonT(30) DEF ReconcileStep, ReconcilePeek
<1>4. ASSUME NEW p \in Processes, PruneStep(p)
      PROVE  \A x \in Ops : Closed(x) /\ (x \in Orphans => op'[x] = op[x] /\ root'[x] = root[x])
  <2>1. CASE UNCHANGED <<op, root>>
    BY <2>1, Zenon DEF Closed
  <2>2. CASE RemoveRoot(p)
    <3>1. job[p].op \notin Orphans /\ root' = [root EXCEPT ![job[p].op] = "absent"] /\ UNCHANGED op
      BY <2>2, Parts, Zenon DEF RemoveRoot, At, Fits, Working
    <3>. QED  BY <3>1, Parts, Zenon DEF Closed
  <2>3. CASE PruneNext(p) /\ ~UNCHANGED op
    <3>1. PICK o \in job[p].todo :
            /\ ~IsRecovery(op[o])
            /\ Save(o, [op[o] EXCEPT !.updated = job[p].at, !.pruned = job[p].at])
      BY <2>3, ZenonT(30) DEF PruneNext
    <3>2. o \in Ops /\ op[o] \in Records /\ UNCHANGED root
      BY <2>3, Parts, ZenonT(30) DEF Jobs, PruneNext
    <3>3. op'[o] = op[o] \/ op'[o] = [op[o] EXCEPT !.updated = job[p].at, !.pruned = job[p].at]
      BY <3>1, <3>2, Parts DEF Save
    <3>4. Closed(o)
      BY <3>1, <3>2, <3>3, ZenonT(30) DEF Closed, IsRecovery, Records
    <3>. QED  BY <3>1, <3>2, <3>4, Parts, SaveOne, SMTT(30) DEF Closed
  <2>. QED  BY <1>4, <2>1, <2>2, <2>3, ZenonT(30) DEF PruneStep, PruneEvaluate, PruneLock, PruneNext
<1>5. ASSUME NEW p \in Processes, Crash(p)
      PROVE  \A x \in Ops : Closed(x) /\ (x \in Orphans => op'[x] = op[x] /\ root'[x] = root[x])
  <2>1. UNCHANGED op /\ (UNCHANGED root \/ (At(p, "remove") /\ root' = [root EXCEPT ![job[p].op] = "torn"]))
    BY <1>5, SMTT(30) DEF Crash
  <2>2. At(p, "remove") => job[p].op \notin Orphans
    BY Parts DEF At, Fits, Working
  <2>. QED  BY <2>1, <2>2, Parts, SMTT(30) DEF Closed
<1>6. CASE (\E c \in Cells : CellChanges(c)) \/ Tick \/ SetBack \/ UNCHANGED vars
  BY <1>6 DEF CellChanges, Tick, SetBack, vars, Closed
<1>. QED  BY <1>1, <1>2, <1>3, <1>4, <1>5, <1>6, ZenonT(30) DEF Next

\* The outcome of an operation is final: whoever reconciles or prunes later only
\* adds one tombstone.
THEOREM FinalOutcome == Spec => OutcomeIsFinal
<1>1. IInv /\ [Next]_vars =>
        [\A o \in Ops :
           op[o].phase \in TerminalPhases =>
             /\ op'[o].phase = op[o].phase
             /\ op'[o].failure = op[o].failure
             /\ op'[o].completed = op[o].completed
             /\ op[o].pruned # NoTime => op'[o] = op[o]]_vars
  BY ClosedStays DEF Closed
<1>. QED  BY <1>1, Invariance, PTL DEF Spec, OutcomeIsFinal

\* Nothing of an operation whose cell record is gone is ever changed or removed.
THEOREM KeptOrphans == Spec => OrphansKept
<1>1. IInv /\ [Next]_vars => [\A o \in Orphans : op'[o] = op[o] /\ root'[o] = root[o]]_vars
  BY ClosedStays, OpsAssumption
<1>. QED  BY <1>1, Invariance, PTL DEF Spec, OrphansKept

-----------------------------------------------------------------------------
(***************************************************************************)
(* RunCell: Run!RunInv is inductive, step by step.                         *)
(***************************************************************************)

\* A run begins with nothing created, answered or reported (run_cell).
LEMMA RunInitially == Run!Init => Run!RunInv
<1> SUFFICES ASSUME Run!Init PROVE Run!RunInv
  OBVIOUS
<1>1. Run!TypeOK
  BY CopiesAssumption DEF Run!Init, Run!TypeOK, Run!Records, Run!Open
<1>2. Run!AnsweredIsDone
  BY DEF Run!Init, Run!AnsweredIsDone, Run!HasResult
<1>3. Run!CleanupKnows
  BY DEF Run!Init, Run!CleanupKnows
<1>4. Run!ReportStands
  BY DEF Run!Init, Run!ReportStands
<1> QED
  BY <1>1, <1>2, <1>3, <1>4 DEF Run!RunInv

\* The actions of a run are told apart by their kind and their position.
LEMMA ActionFacts ==
  /\ Run!Exec \in Run!Actions /\ Run!Artifact \in Run!Actions
  /\ \A i \in Run!Copies : <<"copy", i>> \in Run!Actions
  /\ Run!Exec # Run!Artifact
  /\ \A i : <<"copy", i>> \notin {Run!Exec, Run!Artifact}
  /\ \A i, j : <<"copy", i>> = <<"copy", j>> => i = j
<1>1. /\ Run!Exec \in Run!Actions /\ Run!Artifact \in Run!Actions
      /\ \A i \in Run!Copies : <<"copy", i>> \in Run!Actions
  BY DEF Run!Exec, Run!Artifact, Run!Actions
<1>2. /\ Run!Exec # Run!Artifact
      /\ \A i : <<"copy", i>> \notin {Run!Exec, Run!Artifact}
  BY DEF Run!Exec, Run!Artifact
<1>3. \A i, j : <<"copy", i>> = <<"copy", j>> => i = j
  OBVIOUS
<1> QED
  BY <1>1, <1>2, <1>3

\* Validating, creating and starting record no guest action: nothing is answered
\* yet, and a failure is taken down before any cleanup (run_cell).
LEMMA LifecycleStepsKeep ==
  ASSUME Run!RunInv,
         Run!ValidateRequest \/ Run!CreateCell \/ Run!StartCell
  PROVE  Run!RunInv'
<1>1. CASE Run!ValidateRequest
  <2>1. Run!TypeOK'
    BY <1>1, SMTT(30) DEF Run!RunInv, Run!ValidateRequest, Run!history, Run!Answer, Run!TypeOK
  <2>2. Run!AnsweredIsDone'
    BY <1>1 DEF Run!RunInv, Run!ValidateRequest, Run!history, Run!Answer, Run!AnsweredIsDone,
                Run!HasResult
  <2>3. Run!CleanupKnows'
    BY <1>1, SMTT(30) DEF Run!RunInv, Run!ValidateRequest, Run!history, Run!Answer, Run!CleanupKnows
  <2>4. Run!ReportStands'
    BY <1>1, SMTT(30) DEF Run!RunInv, Run!ValidateRequest, Run!history, Run!Answer, Run!ReportStands,
                Run!AnsweredIsDone, Run!CleanupKnows, Run!HasResult, Run!Operations
  <2> QED
    BY <2>1, <2>2, <2>3, <2>4 DEF Run!RunInv
<1>2. CASE Run!CreateCell
  <2>1. Run!TypeOK'
    BY <1>2 DEF Run!RunInv, Run!CreateCell, Run!history, Run!Observe, Run!FailAt, Run!TypeOK
  <2>2. Run!AnsweredIsDone'
    BY <1>2, SMTT(30) DEF Run!RunInv, Run!CreateCell, Run!history, Run!Observe, Run!FailAt,
                Run!AnsweredIsDone, Run!HasResult
  <2>3. Run!CleanupKnows'
    BY <1>2 DEF Run!RunInv, Run!CreateCell, Run!history, Run!Observe, Run!FailAt,
                Run!CleanupKnows
  <2>4. Run!ReportStands'
    BY <1>2, SMTT(30) DEF Run!RunInv, Run!CreateCell, Run!history, Run!Observe, Run!FailAt,
                Run!ReportStands
  <2> QED
    BY <2>1, <2>2, <2>3, <2>4 DEF Run!RunInv
<1>3. CASE Run!StartCell
  <2> USE DEF Run!StartCell, Run!history, Run!Observe, Run!FailAt, Run!AfterStart
  <2>1. Run!TypeOK'
    BY <1>3, SMTT(30) DEF Run!RunInv, Run!TypeOK
  <2>2. Run!AnsweredIsDone'
    BY <1>3, SMTT(30) DEF Run!RunInv, Run!AnsweredIsDone, Run!HasResult
  <2>3. Run!CleanupKnows'
    BY <1>3 DEF Run!RunInv, Run!CleanupKnows
  <2>4. Run!ReportStands'
    BY <1>3, SMTT(30) DEF Run!RunInv, Run!ReportStands
  <2> QED
    BY <2>1, <2>2, <2>3, <2>4 DEF Run!RunInv
<1> QED
  BY <1>1, <1>2, <1>3

\* A guest action that has not been answered keeps every answered one completed.
LEMMA ActionKeepsAnswers ==
  ASSUME Run!RunInv, NEW a \in Run!Actions, a \notin answered,
         \/ Run!Succeeds(a) \/ Run!Refused \/ Run!FailsDefinitely(a) \/ Run!FailsUnknown(a)
  PROVE  /\ ops' \in [Run!Actions -> Run!Records]
         /\ answered' \subseteq Run!Actions
         /\ \A b \in answered' : ops'[b] = "completed"
         /\ Run!Succeeds(a) => answered' = answered \cup {a} /\ unknown' = unknown
         /\ ~Run!Succeeds(a) => answered' = answered
         /\ unknown' \in {unknown, TRUE}
<1> USE DEF Run!RunInv, Run!TypeOK, Run!AnsweredIsDone
<1>1. CASE Run!Succeeds(a)
  BY <1>1 DEF Run!Succeeds, Run!Records
<1>2. CASE Run!Refused
  BY <1>2 DEF Run!Refused, Run!Succeeds
<1>3. CASE Run!FailsDefinitely(a)
  BY <1>3, SMTT(30) DEF Run!FailsDefinitely, Run!Records, Run!Succeeds
<1>4. CASE Run!FailsUnknown(a)
  <2>1. \A r \in Run!Indefinite(a) : r \in Run!Records
    BY DEF Run!Indefinite, Run!Records, Run!Open
  <2>2. PICK r \in Run!Indefinite(a) : ops' = [ops EXCEPT ![a] = r]
    BY <1>4, ZenonT(30) DEF Run!FailsUnknown
  <2> QED
    BY <1>4, <2>1, <2>2, ZenonT(30) DEF Run!FailsUnknown, Run!Succeeds
<1> QED
  BY <1>1, <1>2, <1>3, <1>4, ZenonT(30)

\* What JobAction leaves, seen from the run.
LEMMA JobActionOutcome ==
  ASSUME Run!RunInv, NEW a \in Run!Actions, a \notin answered, ~unknown,
         NEW stage, NEW next, Run!JobAction(a, stage, next)
  PROVE  /\ ops' \in [Run!Actions -> Run!Records]
         /\ answered' \in {answered, answered \cup {a}}
         /\ \A b \in answered' : ops'[b] = "completed"
         /\ \/ pc' = next /\ failure' = failure
            \/ pc' = "cleanup"
         /\ unknown' => pc' = "cleanup" /\ failure'.ambiguous
<1>1. CASE Run!Succeeds(a) /\ Run!Observe(next)
  BY <1>1, ActionKeepsAnswers, ZenonT(30) DEF Run!Observe, Run!FailAt
<1>2. CASE Run!Refused /\ Run!FailAt(stage, FALSE)
  BY <1>2, ActionKeepsAnswers DEF Run!Refused, Run!FailAt
<1>3. CASE Run!FailsDefinitely(a) /\ Run!FailAt(stage, FALSE)
  BY <1>3, ActionKeepsAnswers, ZenonT(30) DEF Run!FailsDefinitely, Run!FailAt
<1>4. CASE Run!FailsUnknown(a) /\ Run!FailAt(stage, TRUE)
  BY <1>4, ActionKeepsAnswers, ZenonT(30) DEF Run!FailsUnknown, Run!FailAt
<1> QED
  BY <1>1, <1>2, <1>3, <1>4, ZenonT(30) DEF Run!JobAction

\* copy_into_guest_for_job: the copies are done one after another, each once.
LEMMA CopyInKeeps ==
  ASSUME Run!RunInv, Run!CopyIn
  PROVE  Run!RunInv'
<1> DEFINE a == <<"copy", copied + 1>>
<1>1. pc = "copy" /\ copied \in Nat /\ copied + 1 \in Run!Copies /\ ~unknown /\ req \in Run!Requests
  BY CopiesAssumption DEF Run!RunInv, Run!CopyIn, Run!TypeOK, Run!AnsweredIsDone, Run!CleanupKnows,
                          Run!Copies, Run!Requests
<1>2. a \in Run!Actions /\ a \notin answered
  BY <1>1, ActionFacts DEF Run!RunInv, Run!AnsweredIsDone
<1>3. Run!JobAction(a, "GuestCopyIn", Run!AfterStart(copied + 1)) /\ copied' = copied + 1
  BY DEF Run!CopyIn
<1> HIDE DEF a
<1>4. Run!AfterStart(copied + 1) \in {"copy", "exec"}
      /\ (Run!AfterStart(copied + 1) = "copy" => copied' < req.copies)
  BY <1>3 DEF Run!AfterStart
<1>5. /\ ops' \in [Run!Actions -> Run!Records]
      /\ answered' \in {answered, answered \cup {a}}
      /\ \A b \in answered' : ops'[b] = "completed"
      /\ pc' \in {"copy", "exec", "cleanup"}
      /\ pc' = "copy" => copied' < req.copies
      /\ pc' # "cleanup" => failure' = failure
      /\ unknown' => pc' = "cleanup" /\ failure'.ambiguous
  BY <1>1, <1>2, <1>3, <1>4, JobActionOutcome, SMTT(30)
<1>6. Run!TypeOK'
  BY <1>1, <1>2, <1>3, <1>5, SMTT(30) DEF Run!RunInv, Run!CopyIn, Run!TypeOK
<1>7. Run!AnsweredIsDone'
  <2>1. (Run!Exec \in answered' <=> Run!Exec \in answered)
        /\ (Run!Artifact \in answered' <=> Run!Artifact \in answered)
    BY <1>1, <1>5, ActionFacts, SMTT(30) DEF a
  <2>2. \A i \in Run!Copies : <<"copy", i>> \in answered' => i <= copied'
    BY <1>1, <1>3, <1>5, ActionFacts, SMTT(30) DEF a, Run!RunInv, Run!AnsweredIsDone, Run!Copies
  <2> QED
    BY <1>1, <1>5, <2>1, <2>2, SMTT(30) DEF Run!RunInv, Run!CopyIn, Run!AnsweredIsDone, Run!HasResult
<1>8. Run!CleanupKnows'
  BY <1>1, <1>5 DEF Run!RunInv, Run!CopyIn, Run!CleanupKnows
<1>9. Run!ReportStands'
  BY <1>1, <1>5, SMTT(30) DEF Run!RunInv, Run!CopyIn, Run!ReportStands
<1> QED
  BY <1>6, <1>7, <1>8, <1>9 DEF Run!RunInv

\* collect_artifacts_for_job comes after the command, and once.
LEMMA CollectKeeps ==
  ASSUME Run!RunInv, Run!CollectArtifacts
  PROVE  Run!RunInv'
<1>1. pc = "artifact" /\ ~unknown
  BY DEF Run!RunInv, Run!CollectArtifacts, Run!CleanupKnows
<1>2. Run!Artifact \in Run!Actions /\ Run!Artifact \notin answered
  BY <1>1, ActionFacts, SMTT(30) DEF Run!RunInv, Run!AnsweredIsDone
<1>5. /\ ops' \in [Run!Actions -> Run!Records]
      /\ answered' \in {answered, answered \cup {Run!Artifact}}
      /\ \A b \in answered' : ops'[b] = "completed"
      /\ pc' \in {"finish", "cleanup"}
      /\ pc' # "cleanup" => failure' = failure
      /\ unknown' => pc' = "cleanup" /\ failure'.ambiguous
  BY <1>1, <1>2, JobActionOutcome DEF Run!CollectArtifacts
<1>6. Run!TypeOK'
  BY <1>1, <1>2, <1>5, SMTT(30) DEF Run!RunInv, Run!CollectArtifacts, Run!TypeOK
<1>7. Run!AnsweredIsDone'
  BY <1>1, <1>5, ActionFacts DEF Run!RunInv, Run!CollectArtifacts, Run!AnsweredIsDone, Run!HasResult
<1>8. Run!CleanupKnows'
  BY <1>1, <1>5, SMTT(30) DEF Run!RunInv, Run!CollectArtifacts, Run!CleanupKnows
<1>9. Run!ReportStands'
  BY <1>1, <1>5, SMTT(30) DEF Run!RunInv, Run!CollectArtifacts, Run!ReportStands
<1> QED
  BY <1>6, <1>7, <1>8, <1>9 DEF Run!RunInv

\* The command of the run: it has an exit code exactly when it returned Ok.
LEMMA ExecKeeps ==
  ASSUME Run!RunInv, Run!ExecStep
  PROVE  Run!RunInv'
<1>1. pc = "exec" /\ ~unknown /\ exit = "none"
  BY SMTT(30) DEF Run!RunInv, Run!ExecStep, Run!CleanupKnows, Run!AnsweredIsDone, Run!HasResult
<1>2. Run!Exec \in Run!Actions /\ Run!Exec \notin answered
  BY <1>1, ActionFacts, SMTT(30) DEF Run!RunInv, Run!AnsweredIsDone, Run!HasResult
<1>5. /\ ops' \in [Run!Actions -> Run!Records]
      /\ \A b \in answered' : ops'[b] = "completed"
      /\ \/ answered' = answered \cup {Run!Exec} /\ exit' \in {"zero", "nonzero"}
         \/ answered' = answered /\ exit' = "none" /\ pc' = "cleanup"
      /\ pc' \in {"artifact", "finish", "cleanup"}
      /\ pc' # "cleanup" => failure' = failure
      /\ unknown' => pc' = "cleanup" /\ failure'.ambiguous
  <2>1. CASE Run!Succeeds(Run!Exec) /\ exit' \in {"zero", "nonzero"}
             /\ Run!Observe(IF req.artifacts THEN "artifact" ELSE "finish")
    BY <1>1, <1>2, <2>1, ActionKeepsAnswers, ZenonT(30) DEF Run!Observe, Run!FailAt
  <2>2. CASE /\ Run!Refused /\ (\E amb \in BOOLEAN : Run!FailAt("GuestReadiness", amb))
             /\ UNCHANGED exit
    BY <1>1, <1>2, <2>2, ActionKeepsAnswers DEF Run!Refused, Run!FailAt
  <2>3. CASE /\ Run!FailsDefinitely(Run!Exec) /\ UNCHANGED exit
             /\ \E s \in {"GuestReadiness", "GuestExecution"} : Run!FailAt(s, FALSE)
    BY <1>1, <1>2, <2>3, ActionKeepsAnswers, ZenonT(30) DEF Run!FailsDefinitely, Run!FailAt
  <2>4. CASE /\ Run!FailsUnknown(Run!Exec) /\ UNCHANGED exit
             /\ \E s \in {"GuestReadiness", "GuestExecution", "Interrupted"} : Run!FailAt(s, TRUE)
    <3>1. /\ ops' \in [Run!Actions -> Run!Records]
          /\ \A b \in answered' : ops'[b] = "completed"
      BY <1>2, <2>4, ActionKeepsAnswers, ZenonT(30)
    <3>2. answered' = answered
      BY <2>4 DEF Run!FailsUnknown
    <3> QED
      BY <1>1, <2>4, <3>1, <3>2 DEF Run!FailAt
  <2> QED
    BY <2>1, <2>2, <2>3, <2>4, ZenonT(30) DEF Run!ExecStep
<1>6. Run!TypeOK'
  BY <1>1, <1>2, <1>5 DEF Run!RunInv, Run!ExecStep, Run!TypeOK
<1>7. Run!AnsweredIsDone'
  BY <1>1, <1>2, <1>5, ActionFacts, SMTT(30) DEF Run!RunInv, Run!ExecStep, Run!AnsweredIsDone, Run!HasResult
<1>8. Run!CleanupKnows'
  BY <1>1, <1>5, SMTT(30) DEF Run!RunInv, Run!ExecStep, Run!CleanupKnows
<1>9. Run!ReportStands'
  BY <1>1, <1>5 DEF Run!RunInv, Run!ExecStep, Run!ReportStands
<1> QED
  BY <1>6, <1>7, <1>8, <1>9 DEF Run!RunInv

\* run_cell_error and the success report: every report carries the result and
\* the operations of the run.
LEMMA AnswerCarries ==
  ASSUME NEW stage, NEW disposition, Run!Answer(stage, disposition, Run!HasResult)
  PROVE  /\ report'.cleanup = disposition
         /\ report'.result = Run!HasResult /\ report'.operations = Run!Operations
<1> HIDE DEF Run!HasResult, Run!Operations
<1> QED
  BY DEF Run!Answer

\* cleanup_failed_run and the policy after a success: a report that says nothing
\* was created, or that the cell is kept, is true when it is made.
LEMMA CleanupKeeps ==
  ASSUME Run!RunInv, Run!CleanupFailedRun \/ Run!Finish
  PROVE  Run!RunInv'
<1> USE DEF Run!CleanupFailedRun, Run!Finish, Run!history, Run!Answer
<1>1. Run!TypeOK'
  BY ZenonT(30) DEF Run!RunInv, Run!TypeOK
<1>2. Run!AnsweredIsDone'
  BY ZenonT(30) DEF Run!RunInv, Run!AnsweredIsDone, Run!HasResult
<1>3. Run!CleanupKnows'
  <2>1. pc' \in {"done", "destroy"} /\ UNCHANGED <<req, exit, failure, unknown>>
    BY Zenon
  <2>2. CASE pc' = "done"
    BY <2>2, Zenon DEF Run!CleanupKnows
  <2>3. CASE pc' = "destroy" /\ Run!CleanupFailedRun
    <3>1. pc = "cleanup" /\ ~req.keep /\ ~req.keepOnFailure /\ ~failure.ambiguous
      BY <2>3, Zenon
    <3>2. ~unknown
      BY <3>1, Zenon DEF Run!RunInv, Run!CleanupKnows
    <3> HIDE DEF Run!CleanupFailedRun, Run!Finish
    <3> QED
      BY <2>1, <2>3, <3>1, <3>2, Zenon DEF Run!CleanupKnows
  <2>4. CASE pc' = "destroy" /\ Run!Finish
    <3>1. pc = "finish" /\ ~req.keep /\ ~(req.keepOnFailure /\ exit = "nonzero")
      BY <2>4, Zenon
    <3>2. ~unknown /\ failure = Run!NoFailure
      BY <3>1, Zenon DEF Run!RunInv, Run!CleanupKnows
    <3>3. exit \in {"zero", "nonzero"}
      BY <3>1, Zenon DEF Run!RunInv, Run!TypeOK, Run!AnsweredIsDone, Run!HasResult
    <3> HIDE DEF Run!CleanupFailedRun, Run!Finish
    <3> QED
      BY <2>1, <2>4, <3>1, <3>2, <3>3, Zenon DEF Run!CleanupKnows
  <2> QED
    BY <2>1, <2>2, <2>3, <2>4, Zenon
<1>4. Run!ReportStands'
  <2>1. (Run!HasResult' <=> Run!HasResult) /\ Run!Operations' = Run!Operations
    BY ZenonT(30) DEF Run!HasResult, Run!Operations
  <2>2. pc' = "done" => report'.result = Run!HasResult /\ report'.operations = Run!Operations
    <3> HIDE DEF Run!Answer
    <3>1. pc' = "destroy" \/ \E stage, d : Run!Answer(stage, d, Run!HasResult)
      BY Zenon
    <3> QED
      BY <3>1, AnswerCarries, Zenon
  <2>3. pc' = "done" => (report'.result <=> Run!HasResult')
    BY <2>1, <2>2, Zenon
  <2> QED
    BY <2>1, <2>2, <2>3, SMTT(30) DEF Run!RunInv, Run!ReportStands
<1> QED
  BY <1>1, <1>2, <1>3, <1>4, ZenonT(30) DEF Run!RunInv

\* destroy_cell_for_run: only a destroy that went all the way is reported as one,
\* and one that did is reported as destroyed or as failed.
LEMMA DestroyKeeps ==
  ASSUME Run!RunInv, Run!DestroyForRun
  PROVE  Run!RunInv'
<1> USE DEF Run!DestroyForRun, Run!Answer
<1>1. Run!TypeOK'
  BY SMTT(30) DEF Run!RunInv, Run!TypeOK
<1>2. Run!AnsweredIsDone'
  BY SMTT(30) DEF Run!RunInv, Run!AnsweredIsDone, Run!HasResult
<1>3. Run!CleanupKnows'
  BY ZenonT(30) DEF Run!RunInv, Run!CleanupKnows
<1>4. Run!ReportStands'
  <2>1. (Run!HasResult' <=> Run!HasResult) /\ Run!Operations' = Run!Operations
    BY ZenonT(30) DEF Run!HasResult, Run!Operations
  <2>2. pc' = "done" => report'.result = Run!HasResult /\ report'.operations = Run!Operations
    <3> HIDE DEF Run!Answer
    <3>1. \E stage, d : Run!Answer(stage, d, Run!HasResult)
      BY Zenon
    <3> QED
      BY <3>1, AnswerCarries, Zenon
  <2>3. pc' = "done" => (report'.result <=> Run!HasResult')
    BY <2>1, <2>2, Zenon
  <2>4. ~byRun /\ pc = "destroy" /\ pc' = "done"
    BY Zenon DEF Run!RunInv, Run!ReportStands
  <2>5. /\ report'.cleanup \in {"RefusedAmbiguous", "Destroyed", "Failed"}
        /\ report'.cleanup = "Destroyed" => cell' = "destroyed"
    <3> HIDE DEF Run!Answer
    <3>1. PICK stage, d : /\ Run!Answer(stage, d, Run!HasResult)
                          /\ \/ d = "RefusedAmbiguous" \/ d = "Failed"
                             \/ d = "Destroyed" /\ cell' = "destroyed"
      BY Zenon
    <3>2. report'.cleanup = d
      BY <3>1, AnswerCarries, Zenon
    <3> HIDE DEF Run!DestroyForRun
    <3> QED
      BY <3>1, <3>2
  <2>6. byRun' => report'.cleanup \in {"Destroyed", "Failed"}
    <3>1. CASE report'.cleanup = "Destroyed"
      BY <3>1
    <3>2. CASE /\ byRun' = (byRun \/ (cell' # cell /\ cell' = "destroyed"))
               /\ cell' # cell /\ cell' = "destroyed" => report'.cleanup = "Failed"
      <4>1. byRun' => cell' # cell /\ cell' = "destroyed"
        BY <3>2, <2>4, Zenon
      <4> QED
        BY <3>2, <4>1
    <3>3. \/ UNCHANGED byRun
          \/ report'.cleanup = "Destroyed"
          \/ /\ byRun' = (byRun \/ (cell' # cell /\ cell' = "destroyed"))
             /\ cell' # cell /\ cell' = "destroyed" => report'.cleanup = "Failed"
      <4> HIDE DEF Run!Answer
      <4>1. \E stage, d :
              /\ Run!Answer(stage, d, Run!HasResult)
              /\ \/ UNCHANGED byRun
                 \/ d = "Destroyed"
                 \/ /\ byRun' = (byRun \/ (cell' # cell /\ cell' = "destroyed"))
                    /\ cell' # cell /\ cell' = "destroyed" => d = "Failed"
        BY Zenon
      <4> QED
        BY <4>1, AnswerCarries, Zenon
    <3> QED
      BY <3>1, <3>2, <3>3, <2>4, Zenon
  <2> QED
    BY <2>1, <2>2, <2>3, <2>4, <2>5, <2>6, SMTT(30) DEF Run!ReportStands
<1> QED
  BY <1>1, <1>2, <1>3, <1>4, ZenonT(30) DEF Run!RunInv

\* Other commands never create the cell, revive a destroyed one, or reopen a
\* completed operation (reconcile_guest_operation).
LEMMA OthersKeep ==
  ASSUME Run!RunInv,
         \/ Run!OtherStartsOrStops \/ Run!OtherDestroys \/ Run!OtherOperates
         \/ Run!OtherReconciles
  PROVE  Run!RunInv'
<1> USE DEF Run!OtherStartsOrStops, Run!OtherDestroys, Run!OtherOperates, Run!OtherReconciles,
            Run!mine
<1>1. Run!TypeOK' /\ \A a \in answered' : ops'[a] = "completed"
  BY DEF Run!RunInv, Run!TypeOK, Run!AnsweredIsDone, Run!Reconciled, Run!Records, Run!Open
<1>2. Run!AnsweredIsDone'
  BY <1>1, SMTT(30) DEF Run!RunInv, Run!AnsweredIsDone, Run!HasResult
<1>3. Run!CleanupKnows'
  BY DEF Run!RunInv, Run!CleanupKnows
<1>4. Run!ReportStands'
  BY DEF Run!RunInv, Run!ReportStands, Run!HasResult, Run!Operations
<1> QED
  BY <1>1, <1>2, <1>3, <1>4 DEF Run!RunInv

\* Run!RunInv holds throughout every run, whatever other commands do.
LEMMA RunInvariant == Run!Spec => []Run!RunInv
<1>1. Run!RunInv /\ [Run!Next]_Run!vars => Run!RunInv'
  <2>1. ASSUME Run!RunInv, UNCHANGED Run!vars
        PROVE  Run!RunInv'
    BY <2>1, SMTT(30) DEF Run!vars, Run!RunInv, Run!TypeOK, Run!AnsweredIsDone, Run!CleanupKnows,
                Run!ReportStands, Run!HasResult, Run!Operations
  <2> QED
    BY <2>1, LifecycleStepsKeep, CopyInKeeps, ExecKeeps, CollectKeeps, CleanupKeeps, DestroyKeeps,
       OthersKeep, SMTT(30) DEF Run!Next, Run!RunStep
<1> QED
  BY <1>1, RunInitially, PTL DEF Run!Spec

\* The report of a run is true, for any number of copies and of commands of
\* others, from the moment it is made (run_cell_observed_with_job, cleanup_failed_run).
THEOREM ReportTruth == Run!Spec => []ReportIsTrue
<1>1. Run!RunInv => ReportIsTrue
  BY DEF Run!RunInv, Run!ReportStands, Run!AnsweredIsDone, Run!Operations, ReportIsTrue,
         Run!ReportIsTrue
<1> QED
  BY <1>1, RunInvariant, PTL

\* A run destroys its cell only with no operation open on it, no action of its own
\* of unknown effect, and a policy that allows it (destroy_cell_for_run).
THEOREM SafeCleanup == Run!Spec => CleanupIsSafe
<1>1. ASSUME Run!RunInv, [Run!Next]_Run!vars
      PROVE  [byRun' /\ ~byRun =>
                /\ Run!NoOpenOperation /\ ~unknown
                /\ ~req.keep
                /\ req.keepOnFailure => failure = Run!NoFailure /\ exit = "zero"]_Run!vars
  <2>1. byRun' # byRun => Run!DestroyForRun
    BY <1>1, ZenonT(30) DEF Run!vars, Run!Next, Run!RunStep, Run!ValidateRequest, Run!CreateCell,
       Run!StartCell, Run!CopyIn, Run!ExecStep, Run!CollectArtifacts, Run!CleanupFailedRun,
       Run!Finish, Run!OtherStartsOrStops, Run!OtherDestroys, Run!OtherOperates,
       Run!OtherReconciles, Run!history, Run!mine
  <2>2. Run!DestroyForRun /\ byRun' /\ ~byRun => Run!NoOpenOperation
    BY Zenon DEF Run!DestroyForRun
  <2>3. Run!DestroyForRun =>
          /\ ~unknown
          /\ ~req.keep
          /\ req.keepOnFailure => failure = Run!NoFailure /\ exit = "zero"
    BY <1>1, Zenon DEF Run!DestroyForRun, Run!RunInv, Run!CleanupKnows
  <2> QED
    BY <2>1, <2>2, <2>3, Zenon
<1> QED
  BY <1>1, RunInvariant, PTL DEF Run!Spec, CleanupIsSafe, Run!CleanupIsSafe

=============================================================================
