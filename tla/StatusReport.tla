---------------------------- MODULE StatusReport -----------------------------
(***************************************************************************)
(* `vmcell status`.  It takes no lock: it probes the providers, lists the  *)
(* guest operations, then the cells, and for each cell loads the record    *)
(* again and asks the provider, while other processes create, start, stop  *)
(* and destroy the cell and run operations in its guest.  Here: one cell,  *)
(* its current operation, and one report after another.                    *)
(***************************************************************************)
EXTENDS Naturals

CONSTANTS
  None,        \* nothing
  MaxChanges   \* bound on the changes others make

VARIABLES
  rec,     \* the cell's record: state, and whether it names the provider's object
  vm,      \* the provider's object: "absent", "off" or "on"
  op,      \* the phase of the cell's last guest operation, or None
  holder,  \* who holds the mutation lock: None, "life" or "op"
  avail,   \* the provider answers
  changes, \* changes so far
  pc,      \* the next step of the report
  seen,    \* what the report has read
  report   \* the last report

world == <<rec, vm, op, holder, avail, changes>>
vars  == <<world, pc, seen, report>>

Phases   == {"IntentRecorded", "TransportActive", "ArtifactCommitted", "Completed", "Failed"}
Terminal(p) == p \in {None, "Completed", "Failed"}

-----------------------------------------------------------------------------
(***************************************************************************)
(* The others                                                              *)
(***************************************************************************)

Change(r, v, o, h, a) ==
  /\ changes < MaxChanges /\ changes' = changes + 1
  /\ rec' = r /\ vm' = v /\ op' = o /\ holder' = h /\ avail' = a
  /\ UNCHANGED <<pc, seen, report>>

Life(state, id, v, h) == Change([state |-> state, id |-> id], v, op, h, avail)

\* Creating: the record, the object, its identity in the record, the end.
CreateCell ==
  \/ holder = None /\ rec = None /\ Life("Creating", FALSE, vm, "life")
  \/ holder = "life" /\ rec # None /\ rec.state = "Creating" /\ ~rec.id /\ vm = "absent"
       /\ Life("Creating", FALSE, "off", "life")
  \/ holder = "life" /\ rec # None /\ rec.state = "Creating" /\ ~rec.id /\ vm = "off"
       /\ Life("Creating", TRUE, vm, "life")
  \/ holder = "life" /\ rec # None /\ rec.state = "Creating" /\ rec.id /\ Life("Stopped", TRUE, vm, None)

\* Starting and stopping: the object first, then the record.
StartCell ==
  \/ holder = None /\ rec # None /\ rec.state = "Stopped" /\ vm = "off" /\ Life("Stopped", TRUE, "on", "life")
  \/ holder = "life" /\ rec # None /\ rec.state = "Stopped" /\ vm = "on" /\ Life("Running", TRUE, vm, None)

StopCell ==
  \/ holder = None /\ rec # None /\ rec.state = "Running" /\ vm = "on" /\ Life("Running", TRUE, "off", "life")
  \/ holder = "life" /\ rec # None /\ rec.state = "Running" /\ vm = "off" /\ Life("Stopped", TRUE, vm, None)

\* Destroying: the intent (of a half made cell, its own), the object stopped and
\* removed, the tombstone; a cell without an object only gets the tombstone.
DestroyCell ==
  \/ /\ holder = None /\ rec # None /\ rec.state # "Destroyed" /\ rec.id /\ vm # "absent"
     /\ Life(IF rec.state \in {"Creating", "DestroyingProvisioning"} THEN "DestroyingProvisioning"
             ELSE "Destroying", TRUE, vm, "life")
  \/ /\ holder = "life" /\ rec # None /\ rec.state \in {"Destroying", "DestroyingProvisioning"} /\ vm # "absent"
     /\ Life(rec.state, TRUE, IF vm = "on" THEN "off" ELSE "absent", "life")
  \/ /\ holder = "life" /\ rec # None /\ rec.state \in {"Destroying", "DestroyingProvisioning"} /\ vm = "absent"
     /\ Life("Destroyed", TRUE, vm, None)
  \/ /\ holder = None /\ rec # None /\ rec.state # "Destroyed" /\ vm = "absent"
     /\ Life("Destroyed", rec.id, vm, None)

GuestOperation ==
  \/ /\ holder = None /\ rec # None /\ rec.state = "Running" /\ vm = "on" /\ Terminal(op)
     /\ Change(rec, vm, "IntentRecorded", "op", avail)
  \/ /\ holder = "op" /\ op = "IntentRecorded"
     /\ \E p \in {"TransportActive", "Failed"} :
          Change(rec, vm, p, IF p = "Failed" THEN None ELSE "op", avail)
  \/ /\ holder = "op" /\ op = "TransportActive"
     /\ \E p \in {"ArtifactCommitted", "Completed"} :
          Change(rec, vm, p, IF p = "Completed" THEN None ELSE "op", avail)
  \/ holder = "op" /\ op = "ArtifactCommitted" /\ Change(rec, vm, "Completed", None, avail)

\* A process dies with its work half done; the lock goes with it.
Killed == holder # None /\ Change(rec, vm, op, None, avail)

\* The provider stops answering, or answers again.
Availability == Change(rec, vm, op, holder, ~avail)

-----------------------------------------------------------------------------
(***************************************************************************)
(* The report                                                              *)
(***************************************************************************)

Note(f, next) == seen' = f /\ pc' = next /\ UNCHANGED <<world, report>>

Blank == [ready |-> FALSE, op |-> None, loaded |-> None, at |-> 0]

Probe == pc = "probe" /\ Note([Blank EXCEPT !.ready = avail, !.at = changes], "operations")

ListOperations == pc = "operations" /\ Note([seen EXCEPT !.op = op], "cells")

\* No cell, no entry.
ListCells ==
  /\ pc = "cells"
  /\ Note(seen, IF rec = None THEN "probe" ELSE IF seen.ready THEN "load" ELSE "entry")

LoadCell == pc = "load" /\ Note([seen EXCEPT !.loaded = rec], "entry")

\* reconcile_record, for a cell whose object nobody else touches
Reconcile(r, v) ==
  CASE r.state = "Destroyed" -> IF v = "absent" THEN "Destroyed" ELSE "OwnershipMismatch"
    [] r.state # "Destroyed" /\ ~r.id -> IF v = "absent" THEN "ManifestOnly" ELSE "UnprovenProviderObject"
    [] r.state # "Destroyed" /\ r.id /\ v = "absent" -> "ProviderMissing"
    [] r.state \in {"Creating", "DestroyingProvisioning"} /\ r.id /\ v # "absent" -> "Provisioning"
    [] OTHER -> IF (r.state = "Stopped" /\ v # "off") \/ (r.state = "Running" /\ v # "on")
                THEN "StateDrift" ELSE "ExactOwned"

\* ReconciliationStatus::classification
RequiredAction(status) ==
  CASE status \in {"ExactOwned", "Destroyed"} -> "None"
    [] status = "StateDrift"   -> "RetryLifecycle"
    [] status = "Provisioning" -> "RecoveryRequired"
    [] OTHER -> "ManualReview"

\* Mutant: drift is no reason to look again, and a cell whose object is missing
\* is not there to be cleaned up.
GuidanceBold(r, v) ==
  LET s == Reconcile(r, v)
  IN  CASE r.state = "Destroyed" \/ s = "ManifestOnly" -> "NotNeeded"
        [] r.state # "Destroyed" /\ s \in {"ExactOwned", "StateDrift"} -> "ExactOwnedDestroy"
        [] OTHER -> "ManualReview"

\* status_cleanup_guidance
Guidance(r, v) ==
  LET a == RequiredAction(Reconcile(r, v))
  IN  CASE a = "None" -> IF r.state = "Destroyed" THEN "NotNeeded" ELSE "ExactOwnedDestroy"
        [] a = "RetryLifecycle"   -> "ReconcileThenRetry"
        [] a = "RecoveryRequired" -> "PhaseRecovery"
        [] OTHER -> "ManualReview"

Pending(p) == ~Terminal(p)

\* The provider is asked now; a cell of a provider that was not ready, or does
\* not answer, or with a pending operation, is left to the operator.
Cleanup ==
  CASE ~seen.ready -> "ManualReview"
    [] seen.ready /\ ~avail -> "ManualReview"
    [] seen.ready /\ avail /\ Pending(seen.op) -> "ManualReview"
    [] OTHER -> Guidance(seen.loaded, vm)

Entry ==
  /\ pc = "entry"
  /\ report' = [cleanup |-> Cleanup, op |-> seen.op, ready |-> seen.ready, 
               quiet |-> changes = seen.at, at |-> changes]
  /\ pc' = "probe" /\ UNCHANGED <<world, seen>>

Init ==
  /\ rec = None /\ vm = "absent" /\ op = None /\ holder = None /\ avail \in BOOLEAN /\ changes = 0
  /\ pc = "probe" /\ seen = Blank /\ report = None

Next ==
  \/ CreateCell \/ StartCell \/ StopCell \/ DestroyCell \/ GuestOperation \/ Killed \/ Availability
  \/ Probe \/ ListOperations \/ ListCells \/ LoadCell \/ Entry

Spec == Init /\ [][Next]_vars

-----------------------------------------------------------------------------
(***************************************************************************)
(* Properties                                                              *)
(***************************************************************************)

\* What a report says of a cell's cleanup is safe to act upon, although others
\* were at work during the report.  A cell that needs no cleanup is gone for good,
\* then and ever after.  A pending operation, and a provider that is not ready,
\* mean manual review, whatever the record says by then.  A destroy is advised
\* for a quiet cell only when the provider has the very object the record names.
GuidanceIsSafe ==
  report # None =>
    /\ report.cleanup = "NotNeeded" => rec.state = "Destroyed" /\ vm = "absent"
    /\ ~report.ready \/ report.op \in {"IntentRecorded", "TransportActive", "ArtifactCommitted"} =>
         report.cleanup = "ManualReview"
    /\ report.quiet /\ changes = report.at /\ report.cleanup = "ExactOwnedDestroy" =>
         /\ rec.id /\ vm # "absent" /\ Terminal(op) /\ avail
         /\ (rec.state = "Running") => (vm = "on")
         /\ (rec.state = "Stopped") => (vm = "off")

=============================================================================
