--------------------------- MODULE GuestOperations ---------------------------
(***************************************************************************)
(* Guest operations of vmcell and their artifacts: exec and collect run in *)
(* a guest under the mutation lock, the journal record of each operation,  *)
(* the artifact directory a collect fills, reconciliation of operations    *)
(* whose process died, and retention (artifact prune).                     *)
(*                                                                         *)
(* A process can die between any two durable writes.  The wall clock may   *)
(* be set back: the code uses Utc::now, and the record schema compares the *)
(* times it is given.                                                      *)
(***************************************************************************)
EXTENDS Naturals, FiniteSets

CONSTANTS
  Ops,           \* operation ids: naturals, in the order of their text form
  Orphans,       \* collects of an old release whose cell record is gone
  Cells,         \* the cells guest operations run on
  Processes,     \* vmcell invocations sharing the state root
  NoProcess,     \* the mutation lock is free
  NoOp,          \* no operation
  NoTime,        \* a timestamp that is not set
  GuestErrors,   \* the transport's errors
  Retention,     \* artifact prune --older-than
  Batch,         \* artifact prune --max-artifacts
  MaxTime,       \* bound on the wall clock
  MaxSetbacks,   \* bound on how often the wall clock is set back
  MaxCrashes     \* bound on processes that die or fail to save

ASSUME OpsAssumption ==
  Ops \subseteq Nat /\ NoOp \notin Ops /\ Orphans \subseteq Ops

ASSUME LockAssumption == NoProcess \notin Processes

ASSUME CellsAssumption == Cells # {}

ASSUME TimeAssumption ==
  /\ MaxTime \in Nat /\ NoTime \notin 0 .. MaxTime
  /\ Retention \in Nat /\ MaxSetbacks \in Nat /\ MaxCrashes \in Nat

\* prune_artifacts accepts no other batch.
ASSUME BatchAssumption == Batch \in 1 .. 256

Times == 0 .. MaxTime

\* CopyIn behaves as Exec, and CopyOut as ArtifactCollect.
Kinds == {"Exec", "ArtifactCollect"}

OpenPhases == {"IntentRecorded", "TransportActive", "ArtifactCommitted"}

\* GuestOperationPhase::is_terminal
TerminalPhases == {"Completed", "Failed"}

Failures == {"Interrupted", "GuestNotReady", "Authentication", "Session",
             "Timeout", "OutputLimit", "InvalidEncoding", "PathViolation",
             "PartialCopy", "OwnershipChanged", "Unknown", "None"}

\* "State" stands for every EngineError that is not a guest or ownership error.
AllErrors == {"GuestNotReady", "AuthenticationFailed", "SessionFailed",
              "OwnershipChanged", "PathViolation", "InvalidRequest", "Timeout",
              "OutputLimit", "PartialCopy", "InvalidResponse", "State"}

ASSUME ErrorsAssumption == GuestErrors \subseteq AllErrors

Records == [phase     : OpenPhases \cup TerminalPhases \cup {"Absent"},
            cell      : Cells,
            kind      : Kinds,
            created   : Times,
            updated   : Times,
            completed : Times \cup {NoTime},
            failure   : Failures,
            artifact  : BOOLEAN,               \* artifact_id = Some(id)
            pruned    : Times \cup {NoTime}]   \* artifact_pruned_at

VARIABLES
  lock,      \* the holder of the mutation lock
  job,       \* job[p]: what process p is doing, in memory only
  op,        \* op[o]: the durable record operations/<o>.json
  root,      \* root[o]: the directory artifacts/<cell>/<o>
  running,   \* the cells that are Running and Ready
  touched,   \* history: the operations whose action reached the guest
  now,       \* the wall clock
  setbacks,  \* how often the wall clock was set back
  crashes    \* how often a process died

vars == <<lock, job, op, root, running, touched, now, setbacks, crashes>>

world == <<running, now, setbacks, crashes>>

\* An artifact directory without a manifest, with a manifest whose files all
\* match it, or partly removed.
Roots == {"absent", "staging", "committed", "torn"}

Labels == {"idle", "recorded", "active", "acting", "staged", "manifest",
           "committed", "reconcile", "prune_lock", "prune", "remove"}

Idle == [pc |-> "idle", op |-> NoOp, seen |-> "Absent", at |-> NoTime,
         todo |-> {}, entries |-> 0]

Jobs == [pc : Labels, op : Ops \cup {NoOp},
         seen : OpenPhases \cup {"Absent"},
         at : Times \cup {NoTime}, todo : SUBSET Ops, entries : 0 .. Batch]

\* Types of the state: the journal, the artifact directories and what each process remembers.
TypeOK ==
  /\ lock \in Processes \cup {NoProcess}
  /\ job \in [Processes -> Jobs]
  /\ op \in [Ops -> Records]
  /\ root \in [Ops -> Roots]
  /\ running \in SUBSET Cells
  /\ touched \in SUBSET Ops
  /\ now \in Times
  /\ setbacks \in 0 .. MaxSetbacks
  /\ crashes \in 0 .. MaxCrashes

\* GuestOperationRecord::intent_with_job
Intent(c, k) ==
  [phase |-> "IntentRecorded", cell |-> c, kind |-> k, created |-> now,
   updated |-> now, completed |-> NoTime, failure |-> "None",
   artifact |-> FALSE, pruned |-> NoTime]

NoRecord ==
  [phase |-> "Absent", cell |-> CHOOSE c \in Cells : TRUE, kind |-> "Exec",
   created |-> 0, updated |-> 0, completed |-> NoTime, failure |-> "None",
   artifact |-> FALSE, pruned |-> NoTime]

Collected ==
  [NoRecord EXCEPT !.phase = "Completed", !.kind = "ArtifactCollect",
                   !.completed = 0, !.artifact = TRUE]

Init ==
  /\ lock = NoProcess
  /\ job = [p \in Processes |-> Idle]
  /\ op = [o \in Ops |-> IF o \in Orphans THEN Collected ELSE NoRecord]
  /\ root = [o \in Ops |-> IF o \in Orphans THEN "committed" ELSE "absent"]
  /\ running = Cells
  /\ touched = {}
  /\ now = 0
  /\ setbacks = 0
  /\ crashes = 0

-----------------------------------------------------------------------------
(***************************************************************************)
(* The record schema                                                       *)
(***************************************************************************)

\* The fields each phase admits.
FieldsValid(r) ==
  /\ r.phase \in OpenPhases => r.completed = NoTime
  /\ r.phase \in TerminalPhases => r.completed # NoTime
  /\ r.phase \in {"IntentRecorded", "ArtifactCommitted", "Completed"}
       => r.failure = "None"
  /\ r.phase = "Failed" => r.failure \notin {"None", "Unknown"}
  /\ r.phase = "ArtifactCommitted" => r.artifact
  /\ r.artifact => /\ r.phase \in {"ArtifactCommitted", "Completed"}
                   /\ r.kind = "ArtifactCollect"
  /\ r.pruned # NoTime => r.phase = "Completed" /\ r.artifact

\* validate_guest_operation_schema
RecordValid(r) ==
  /\ FieldsValid(r)
  /\ r.created <= r.updated
  /\ r.completed # NoTime => r.created <= r.completed
  /\ IF r.pruned # NoTime
     THEN r.completed # NoTime /\ r.completed <= r.pruned /\ r.pruned = r.updated
     ELSE r.completed # NoTime => r.completed = r.updated

\* require_guest_operation_parent_for_mutation: reading an orphan is allowed,
\* changing anything of it is not.
HasParent(o) == o \notin Orphans

\* save_guest_operation_with_mutation: an invalid record is refused and the
\* one on disk stays.  (The guard checks and the atomic replacement are those
\* of MutationLock; a failed write is Crash.)
Save(o, r) ==
  op' = IF RecordValid(r) /\ HasParent(o) THEN [op EXCEPT ![o] = r] ELSE op

-----------------------------------------------------------------------------
(***************************************************************************)
(* run_guest_operation                                                     *)
(***************************************************************************)

\* guest_failure_class: the class recorded for an error, and whether it ends
\* the operation.
FailureClass(e) ==
  CASE e = "GuestNotReady"        -> "GuestNotReady"
    [] e = "AuthenticationFailed" -> "Authentication"
    [] e = "SessionFailed"        -> "Session"
    [] e = "OwnershipChanged"     -> "OwnershipChanged"
    [] e \in {"PathViolation", "InvalidRequest"} -> "PathViolation"
    [] e = "InvalidResponse"      -> "InvalidEncoding"
    [] e = "State"                -> "Unknown"
    [] OTHER                      -> e

Definite(e) == e \in {"GuestNotReady", "AuthenticationFailed", "SessionFailed",
                      "OwnershipChanged", "PathViolation", "InvalidRequest"}

At(p, pc) == job[p].pc = pc

Goto(p, pc) == job' = [job EXCEPT ![p].pc = pc]

Return(p) == job' = [job EXCEPT ![p] = Idle] /\ lock' = NoProcess

\* Every earlier operation of the cell is terminal.
HistoryTerminal(c) ==
  \A o \in Ops : op[o].cell = c => op[o].phase \notin OpenPhases

\* Under the lock: the cell is ready, its history is terminal, and the intent
\* is on disk before anything else happens.
RecordIntent(p, o, c, k) ==
  /\ At(p, "idle") /\ lock = NoProcess
  /\ op[o].phase = "Absent"
  /\ c \in running
  /\ HistoryTerminal(c)
  /\ lock' = p
  /\ job' = [job EXCEPT ![p] = [Idle EXCEPT !.pc = "recorded", !.op = o]]
  /\ Save(o, Intent(c, k))
  /\ UNCHANGED <<root, touched, world>>

\* The error branch: the failure is recorded, and the record closed if the
\* error proves that nothing is left running.  phase is the phase in memory.
FailAs(p, e, phase) ==
  LET o == job[p].op
      r == [op[o] EXCEPT !.phase = phase, !.failure = FailureClass(e),
                         !.updated = now]
  IN  /\ Save(o, IF Definite(e)
                 THEN [r EXCEPT !.phase = "Failed", !.completed = now]
                 ELSE r)
      /\ Return(p)

\* Mutant: the guest is called before TransportActive is saved.
MutantAuthorise(p) ==
  /\ At(p, "recorded")
  /\ Goto(p, "active")
  /\ touched' = touched \cup {job[p].op}
  /\ UNCHANGED <<lock, op, root, world>>

\* After on_recorded: installation authority, local ownership, the pinned
\* runtime, then the TransportActive save.  An error before that save leaves
\* the phase in memory IntentRecorded, one from the save itself does not.
Authorise(p) ==
  /\ At(p, "recorded")
  /\ \/ /\ Save(job[p].op, [op[job[p].op] EXCEPT !.phase = "TransportActive",
                                                 !.updated = now])
        /\ op' # op
        /\ Goto(p, "active")
        /\ UNCHANGED lock
     \/ \E e \in GuestErrors \cap {"OwnershipChanged", "State"} :
          FailAs(p, e, "IntentRecorded")
     \/ FailAs(p, "State", "TransportActive")
  /\ UNCHANGED <<root, touched, world>>

\* wait_for_guest_ready: probes until Ready, a definite refusal or the deadline.
WaitReady(p) ==
  /\ At(p, "active")
  /\ \/ Goto(p, "acting") /\ UNCHANGED <<lock, op>>
     \/ \E e \in GuestErrors \ {"State"} : FailAs(p, e, "TransportActive")
  /\ UNCHANGED <<root, touched, world>>

\* The closure of exec_guest, and of copy_into_guest, which differs only in
\* the transport call.  on_ready can fail before the call.
ExecAction(p) ==
  /\ At(p, "acting") /\ op[job[p].op].kind = "Exec"
  /\ \/ /\ touched' = touched \cup {job[p].op}
        /\ \/ Goto(p, "committed") /\ UNCHANGED <<lock, op>>
           \/ \E e \in GuestErrors : FailAs(p, e, "TransportActive")
     \/ FailAs(p, "State", "TransportActive") /\ UNCHANGED touched
  /\ UNCHANGED <<root, world>>

\* The closure of collect_artifacts_with_kind: the artifact root is prepared,
\* then file after file is fetched and written; some may have been when a call
\* fails.
CollectFiles(p) ==
  /\ At(p, "acting") /\ op[job[p].op].kind = "ArtifactCollect"
  /\ \/ /\ touched' = touched \cup {job[p].op}
        /\ root' = [root EXCEPT ![job[p].op] = "staging"]
        /\ \/ Goto(p, "staged") /\ UNCHANGED <<lock, op>>
           \/ \E e \in GuestErrors : FailAs(p, e, "TransportActive")
     \/ FailAs(p, "State", "TransportActive") /\ UNCHANGED <<root, touched>>
  /\ UNCHANGED world

\* Mutant: the manifest is written after the operation was marked committed.
MutantCommitManifest(p) ==
  /\ At(p, "staged")
  /\ Goto(p, "manifest")
  /\ UNCHANGED <<lock, op, root, touched, world>>

\* save_artifact_new_with_mutation: the files are checked against the manifest
\* before and after it is written.
CommitManifest(p) ==
  /\ At(p, "staged")
  /\ root' = [root EXCEPT ![job[p].op] = "committed"]
  /\ \/ Goto(p, "manifest") /\ UNCHANGED <<lock, op>>
     \/ FailAs(p, "State", "TransportActive")
  /\ UNCHANGED <<touched, world>>

SaveCommitted(p) ==
  /\ At(p, "manifest")
  /\ Save(job[p].op, [op[job[p].op] EXCEPT !.phase = "ArtifactCommitted",
                                           !.updated = now, !.artifact = TRUE])
  /\ IF op' = op THEN Return(p) ELSE Goto(p, "committed") /\ UNCHANGED lock
  /\ UNCHANGED <<root, touched, world>>

SaveCompleted(p) ==
  /\ At(p, "committed")
  /\ Save(job[p].op, [op[job[p].op] EXCEPT !.phase = "Completed",
                                           !.updated = now, !.completed = now])
  /\ Return(p)
  /\ UNCHANGED <<root, touched, world>>

-----------------------------------------------------------------------------
(***************************************************************************)
(* reconcile_guest_operation                                               *)
(***************************************************************************)

\* The unlocked read: a terminal or transport-active record is only reported.
ReconcilePeek(p, o) ==
  /\ At(p, "idle") /\ HasParent(o)
  /\ op[o].phase \in {"IntentRecorded", "ArtifactCommitted"}
  /\ job' = [job EXCEPT ![p] = [Idle EXCEPT !.pc = "reconcile", !.op = o,
                                            !.seen = op[o].phase]]
  /\ UNCHANGED <<lock, op, root, touched, world>>

\* Under the lock the record is loaded again and its phase decides.
ReconcileLocked(p) ==
  LET o == job[p].op
      closed == [op[o] EXCEPT !.updated = now, !.completed = now]
  IN  /\ At(p, "reconcile") /\ lock = NoProcess
      /\ CASE op[o].phase = "IntentRecorded" ->
                Save(o, [closed EXCEPT !.phase = "Failed",
                                       !.failure = "Interrupted"])
           [] op[o].phase = "ArtifactCommitted" ->
                Save(o, IF op[o].artifact /\ root[o] = "committed"
                        THEN [closed EXCEPT !.phase = "Completed"]
                        ELSE op[o])
           [] OTHER -> UNCHANGED op
      /\ job' = [job EXCEPT ![p] = Idle]
      /\ UNCHANGED <<lock, root, touched, world>>

-----------------------------------------------------------------------------
(***************************************************************************)
(* prune_artifacts                                                         *)
(***************************************************************************)

Expired(r, cutoff) ==
  /\ r.phase = "Completed" /\ r.artifact /\ r.pruned = NoTime
  /\ r.completed + Retention <= cutoff

IsRecovery(r) == r.pruned # NoTime

\* operations.sort_by_key (updated_at, id)
Before(a, b) ==
  \/ op[a].updated < op[b].updated
  \/ op[a].updated = op[b].updated /\ a <= b

\* The cutoff is fixed before the lock is asked for.
PruneEvaluate(p) ==
  /\ At(p, "idle")
  /\ job' = [job EXCEPT ![p] = [Idle EXCEPT !.pc = "prune_lock", !.at = now]]
  /\ UNCHANGED <<lock, op, root, touched, world>>

PruneLock(p) ==
  /\ At(p, "prune_lock") /\ lock = NoProcess
  /\ lock' = p
  /\ job' = [job EXCEPT ![p].pc = "prune",
                        ![p].todo = {o \in Ops : \/ IsRecovery(op[o])
                                                 \/ Expired(op[o], job[p].at)}]
  /\ UNCHANGED <<op, root, touched, world>>

\* The next record in order, until the batch is full.  An orphan ends the
\* whole prune; a fresh record needs an intact artifact, and is given its
\* tombstone before anything is removed.
PruneNext(p) ==
  /\ At(p, "prune")
  /\ IF job[p].todo = {} \/ job[p].entries = Batch
     THEN Return(p) /\ UNCHANGED op
     ELSE \E o \in job[p].todo :
            /\ \A b \in job[p].todo : Before(o, b)
            /\ IF \/ ~HasParent(o)
                  \/ ~IsRecovery(op[o]) /\ root[o] # "committed"
               THEN Return(p) /\ UNCHANGED op
               ELSE /\ job' = [job EXCEPT ![p].pc = "remove", ![p].op = o,
                                          ![p].todo = @ \ {o}]
                    /\ IF IsRecovery(op[o])
                       THEN UNCHANGED op
                       ELSE Save(o, [op[o] EXCEPT !.updated = job[p].at,
                                                  !.pruned = job[p].at])
                    /\ UNCHANGED lock
  /\ UNCHANGED <<root, touched, world>>

\* remove_artifact_root: an absent directory is fine.
RemoveRoot(p) ==
  /\ At(p, "remove")
  /\ root' = [root EXCEPT ![job[p].op] = "absent"]
  /\ job' = [job EXCEPT ![p].pc = "prune", ![p].op = NoOp,
                        ![p].entries = @ + 1]
  /\ UNCHANGED <<lock, op, touched, world>>

-----------------------------------------------------------------------------
(***************************************************************************)
(* The environment                                                         *)
(***************************************************************************)

\* The process dies, or returns because a read or a save failed, after its
\* last durable write; a recursive removal can stop half way.
Crash(p) ==
  /\ ~At(p, "idle") /\ crashes < MaxCrashes
  /\ crashes' = crashes + 1
  /\ job' = [job EXCEPT ![p] = Idle]
  /\ lock' = IF lock = p THEN NoProcess ELSE lock
  /\ \/ UNCHANGED root
     \/ /\ At(p, "remove") /\ root[job[p].op] # "absent"
        /\ root' = [root EXCEPT ![job[p].op] = "torn"]
  /\ UNCHANGED <<op, touched, running, now, setbacks>>

\* Another command starts, stops or destroys the cell, under the lock.
CellChanges(c) ==
  /\ lock = NoProcess
  /\ running' = IF c \in running THEN running \ {c} ELSE running \cup {c}
  /\ UNCHANGED <<lock, job, op, root, touched, now, setbacks, crashes>>

Tick ==
  /\ now < MaxTime
  /\ now' = now + 1
  /\ UNCHANGED <<lock, job, op, root, running, touched, setbacks, crashes>>

SetBack ==
  /\ now > 0 /\ setbacks < MaxSetbacks
  /\ now' = now - 1
  /\ setbacks' = setbacks + 1
  /\ UNCHANGED <<lock, job, op, root, running, touched, crashes>>

RunStep(p) ==
  \/ Authorise(p) \/ WaitReady(p) \/ ExecAction(p) \/ CollectFiles(p)
  \/ CommitManifest(p) \/ SaveCommitted(p) \/ SaveCompleted(p)

ReconcileStep(p) == (\E o \in Ops : ReconcilePeek(p, o)) \/ ReconcileLocked(p)

PruneStep(p) ==
  PruneEvaluate(p) \/ PruneLock(p) \/ PruneNext(p) \/ RemoveRoot(p)

Next ==
  \/ \E p \in Processes :
       \/ \E o \in Ops, c \in Cells, k \in Kinds : RecordIntent(p, o, c, k)
       \/ RunStep(p)
       \/ ReconcileStep(p)
       \/ PruneStep(p)
       \/ Crash(p)
  \/ \E c \in Cells : CellChanges(c)
  \/ Tick
  \/ SetBack

Spec == Init /\ [][Next]_vars

\* Processes keep running what they started, reconcile is retried, and prune
\* is invoked again and again.
FairSpec ==
  /\ Spec
  /\ \A p \in Processes :
       /\ WF_vars(RunStep(p))
       /\ SF_vars(PruneEvaluate(p))
       /\ SF_vars(PruneLock(p))
       /\ WF_vars(PruneNext(p) \/ RemoveRoot(p))
       /\ SF_vars(ReconcileLocked(p))
       /\ \A o \in Ops : SF_vars(ReconcilePeek(p, o))

-----------------------------------------------------------------------------
(***************************************************************************)
(* Properties                                                              *)
(***************************************************************************)

\* A cell has at most one operation that is not terminal: a process that died
\* in the middle of one blocks the next until the record is closed.
OneOperationInFlight ==
  \A a, b \in Ops :
    /\ op[a].phase \in OpenPhases /\ op[b].phase \in OpenPhases
    /\ op[a].cell = op[b].cell
    => a = b

\* An operation that reached the guest is never reported as interrupted before
\* it, whichever process reconciles it and however stale its first read was;
\* nor does its record still say that nothing but the intent happened.
InterruptedMeansUntouched ==
  \A o \in touched : op[o].phase # "IntentRecorded" /\ op[o].failure # "Interrupted"

\* A record that names an artifact and carries no tombstone has it on disk,
\* complete: the manifest precedes the record, the tombstone the removal.
\* This is also what keeps one lost artifact from failing every later prune.
ArtifactsBacked ==
  \A o \in Ops : op[o].artifact /\ op[o].pruned = NoTime => root[o] = "committed"

\* Artifacts are removed only past their retention, by the times on record.
RetentionHonoured ==
  \A o \in Ops : op[o].pruned # NoTime => op[o].completed + Retention <= op[o].pruned

\* A closed operation stays closed as it was: later steps only add a tombstone,
\* once, even when the outcome was written by another process meanwhile.
OutcomeIsFinal ==
  [][\A o \in Ops :
       op[o].phase \in TerminalPhases =>
         /\ op'[o].phase = op[o].phase
         /\ op'[o].failure = op[o].failure
         /\ op'[o].completed = op[o].completed
         /\ op[o].pruned # NoTime => op'[o] = op[o]]_vars

\* A record whose cell is gone stays as it is, artifact included: it remains
\* readable, and no prune or reconcile touches it.
OrphansKept ==
  [][\A o \in Orphans : op'[o] = op[o] /\ root'[o] = root[o]]_vars

\* A prune that died after a tombstone is completed by a later one.
RemovalCompletes ==
  \A o \in Ops : op[o].pruned # NoTime ~> root[o] = "absent"

=============================================================================
