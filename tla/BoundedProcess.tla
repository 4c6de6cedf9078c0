---------------------------- MODULE BoundedProcess ----------------------------
(***************************************************************************)
(* One host command with a deadline and an output limit.  Its supervisors: *)
(* run_bounded (process.rs; qemu-img, qemu) and the PowerShell supervisors *)
(* of the Hyper-V provider and of PowerShell Direct, which differ only in  *)
(* the errors they return.  Three threads feed stdin and drain stdout and    *)
(* stderr; the child may start a descendant that inherits the pipes, stays *)
(* in the tree (process group or job) or is outside it.                    *)
(***************************************************************************)
EXTENDS Naturals, FiniteSets

CONSTANTS
  Limit,     \* output_limit, in reads
  MaxBytes,  \* bound on what is written to each pipe
  None       \* no exit status, no result

ASSUME BoundsAssumption == Limit \in Nat /\ MaxBytes \in Nat

ASSUME NoneAssumption == None \notin {"ok", "spawn", "io", "limit", "timeout"}

VARIABLES
  kind,     \* which supervisor
  child,    \* "none", "running", "exited" or "reaped"
  desc,     \* the descendant: alive, in the tree, holding the pipes
  written,  \* written[s]: what went into stdout and stderr
  thread,   \* the state of the writer and of the two readers
  read,     \* read[s]: what a reader collected
  sup,      \* the supervisor: label, results received, status, swept, result
  late      \* the deadline has passed

vars == <<kind, child, desc, written, thread, read, sup, late>>

Streams == {"out", "err"}

Threads == Streams \cup {"in"}

\* The supervisors that put PowerShell into a job and join their threads.
PowerShell == kind \in {"hyperv", "direct"}

Results == {"ok", "spawn", "io", "limit", "timeout"}

\* Types of the state: the child, the threads and the supervisor; a reader keeps at most the limit.
TypeOK ==
  /\ kind \in {"run_bounded", "hyperv", "direct"}
  /\ child \in {"none", "running", "exited", "reaped"}
  /\ desc \in [alive : BOOLEAN, inTree : BOOLEAN, holds : BOOLEAN]
  /\ written \in [Streams -> 0 .. MaxBytes]
  /\ thread \in [Threads -> {"idle", "busy", "done", "failed"}]
  /\ read \in [Streams -> 0 .. Limit]
  /\ sup \in [pc : {"spawn", "assign", "drain", "poll", "join_in", "join_out",
                    "join_err", "join_late", "done"},
              got : SUBSET Threads, status : BOOLEAN, swept : BOOLEAN,
              result : Results \cup {None}]
  /\ late \in BOOLEAN

Init ==
  /\ kind \in {"run_bounded", "hyperv", "direct"}
  /\ child = "none"
  /\ desc = [alive |-> FALSE, inTree |-> FALSE, holds |-> FALSE]
  /\ written = [s \in Streams |-> 0]
  /\ thread = [t \in Threads |-> "idle"]
  /\ read = [s \in Streams |-> 0]
  /\ sup = [pc |-> "spawn", got |-> {}, status |-> FALSE, swept |-> FALSE, result |-> None]
  /\ late = FALSE

host == <<child, desc, written>>

io == <<thread, read>>

\* Someone holds the child's ends of the pipes.
PipesHeld == child = "running" \/ (desc.alive /\ desc.holds)

-----------------------------------------------------------------------------
(***************************************************************************)
(* The child, its descendant and the host                                  *)
(***************************************************************************)

ChildWrites(s) ==
  /\ PipesHeld
  /\ written[s] < MaxBytes
  /\ thread[s] = "busy"
  /\ written' = [written EXCEPT ![s] = @ + 1]
  /\ UNCHANGED <<kind, child, desc, io, sup, late>>

\* A descendant is in the tree unless it was started before the child was
\* assigned to its job.
ChildForks ==
  /\ child = "running" /\ ~desc.alive
  /\ desc' \in [alive : {TRUE}, inTree : {~(PowerShell /\ sup.pc = "assign")},
                holds : BOOLEAN]
  /\ UNCHANGED <<kind, child, written, io, sup, late>>

\* It may leave its process group, close the pipes, or exit.
DescendantMoves ==
  /\ desc.alive
  /\ \/ kind = "run_bounded" /\ desc.inTree /\ desc' = [desc EXCEPT !.inTree = FALSE]
     \/ desc.holds /\ desc' = [desc EXCEPT !.holds = FALSE]
     \/ desc' = [desc EXCEPT !.alive = FALSE]
  /\ UNCHANGED <<kind, child, written, io, sup, late>>

ChildExits ==
  /\ child = "running"
  /\ child' = "exited"
  /\ UNCHANGED <<kind, desc, written, io, sup, late>>

DeadlinePasses ==
  /\ sup.pc \notin {"spawn", "assign", "done"} /\ ~late
  /\ late' = TRUE
  /\ UNCHANGED <<kind, host, io, sup>>

-----------------------------------------------------------------------------
(***************************************************************************)
(* The threads                                                             *)
(***************************************************************************)

\* write_all: it ends when the input is in the pipe, or fails when no one is
\* left to read it.
WriterEnds ==
  /\ thread["in"] = "busy"
  /\ \/ PipesHeld /\ thread' = [thread EXCEPT !["in"] = "done"]
     \/ ~PipesHeld /\ \E r \in {"done", "failed"} : thread' = [thread EXCEPT !["in"] = r]
  /\ UNCHANGED <<kind, host, read, sup, late>>

\* read_limited: to the end of the file, or to the limit.
ReaderStep(s) ==
  /\ thread[s] = "busy"
  /\ IF read[s] < written[s]
     THEN IF read[s] + 1 > Limit
          THEN thread' = [thread EXCEPT ![s] = "failed"] /\ UNCHANGED read
          ELSE read' = [read EXCEPT ![s] = @ + 1] /\ UNCHANGED thread
     ELSE /\ ~PipesHeld
          /\ thread' = [thread EXCEPT ![s] = "done"] /\ UNCHANGED read
  /\ UNCHANGED <<kind, host, sup, late>>

-----------------------------------------------------------------------------
(***************************************************************************)
(* The supervisors                                                         *)
(***************************************************************************)

\* ProcessTree::terminate: the whole group or job.  That a group id may be
\* another group's by then is left out.
TerminateTree ==
  desc' = IF desc.inTree THEN [desc EXCEPT !.alive = FALSE] ELSE desc

\* The error path: the tree, the child, and a wait for it.
Abort(error) ==
  /\ TerminateTree
  /\ child' = "reaped"
  /\ sup' = [sup EXCEPT !.pc = "done", !.result = error]

Spawn ==
  /\ sup.pc = "spawn"
  /\ \/ child' = "running" /\ sup' = [sup EXCEPT !.pc = "assign"]
     \/ sup' = [sup EXCEPT !.pc = "done", !.result = "spawn"] /\ UNCHANGED child
  /\ UNCHANGED <<kind, desc, written, io, late>>

\* ProcessTree::assign; then the threads are started.
Assign ==
  /\ sup.pc = "assign"
  /\ \/ /\ sup' = [sup EXCEPT !.pc = IF PowerShell THEN "poll" ELSE "drain"]
        /\ thread' = [t \in Threads |-> "busy"]
        /\ UNCHANGED child
     \/ /\ PowerShell
        /\ child' = "reaped"
        /\ sup' = [sup EXCEPT !.pc = "done", !.result = "spawn"]
        /\ UNCHANGED thread
  /\ UNCHANGED <<kind, desc, written, read, late>>

\* The results that have arrived; the first error ends the call.
Drain ==
  /\ sup.pc = "drain"
  /\ LET got == {t \in Threads : thread[t] \in {"done", "failed"}}
         bad == {t \in got : thread[t] = "failed"}
     IN IF bad # {}
        THEN Abort(IF "in" \in bad THEN "io" ELSE "limit")
        ELSE /\ sup' = [sup EXCEPT !.got = got, !.pc = "poll"]
             /\ UNCHANGED <<child, desc>>
  /\ UNCHANGED <<kind, written, io, late>>

\* A mutant: the exit of the child ends the call.
MutantPoll ==
  /\ kind = "run_bounded" /\ sup.pc = "poll"
  /\ IF child = "exited"
     THEN /\ sup' = [sup EXCEPT !.pc = "done", !.status = TRUE, !.result = "ok"]
          /\ child' = "reaped" /\ UNCHANGED desc
     ELSE IF late THEN Abort("timeout")
     ELSE sup' = [sup EXCEPT !.pc = "drain"] /\ UNCHANGED <<child, desc>>
  /\ UNCHANGED <<kind, written, io, late>>

\* A mutant: once the child exited, the end of the pipes is waited for.
MutantPollWaits ==
  /\ kind = "run_bounded" /\ sup.pc = "poll"
  /\ IF (sup.status \/ child = "exited") /\ sup.got = Threads
     THEN /\ sup' = [sup EXCEPT !.pc = "done", !.status = TRUE, !.result = "ok"]
          /\ child' = "reaped" /\ UNCHANGED desc
     ELSE IF late /\ ~sup.status THEN Abort("timeout")
     ELSE /\ sup' = [sup EXCEPT !.pc = "drain", !.status = @ \/ child = "exited"]
          /\ child' = (IF child = "exited" THEN "reaped" ELSE child)
          /\ UNCHANGED desc
  /\ UNCHANGED <<kind, written, io, late>>

\* try_wait, then the end, the sweep of the descendants, the deadline.
Poll ==
  /\ kind = "run_bounded" /\ sup.pc = "poll"
  /\ LET status == sup.status \/ child = "exited"
         reaped == IF child = "exited" THEN "reaped" ELSE child
         whole  == sup.got = Threads
         sweep  == status /\ ~whole /\ ~sup.swept
     IN IF status /\ whole
        THEN /\ sup' = [sup EXCEPT !.pc = "done", !.status = TRUE, !.result = "ok"]
             /\ child' = reaped /\ UNCHANGED desc
        ELSE IF late
        THEN Abort("timeout")
        ELSE /\ sup' = [sup EXCEPT !.pc = "drain", !.status = status,
                                   !.swept = @ \/ sweep]
             /\ child' = reaped
             /\ IF sweep THEN TerminateTree ELSE UNCHANGED desc
  /\ UNCHANGED <<kind, written, io, late>>

\* An exited child ends the loop, and its job ends with it; at the deadline
\* everything is ended.
ChildOrDeadline ==
  /\ sup.pc = "poll"
  /\ child = "exited" \/ late
  /\ TerminateTree
  /\ child' = "reaped"
  /\ sup' = [sup EXCEPT !.pc = IF child = "exited" THEN "join_in" ELSE "join_late",
                        !.status = TRUE]
  /\ UNCHANGED <<kind, written, io, late>>

\* wait_for_bounded_provider_child of the Hyper-V provider.
PollHyperV == kind = "hyperv" /\ ChildOrDeadline

\* wait_for_bounded_child of PowerShell Direct.
PollDirect == kind = "direct" /\ ChildOrDeadline

\* The threads are joined in turn, without a deadline; the first error returns.
Join(t, pc, next) ==
  /\ sup.pc = pc /\ thread[t] \in {"done", "failed"}
  /\ sup' = IF thread[t] = "failed"
            THEN [sup EXCEPT !.pc = "done", !.result = IF t = "in" THEN "io" ELSE "limit"]
            ELSE [sup EXCEPT !.pc = next, !.result = IF next = "done" THEN "ok" ELSE None]
  /\ UNCHANGED <<kind, host, io, late>>

JoinLate ==
  /\ sup.pc = "join_late" /\ \A t \in Threads : thread[t] \in {"done", "failed"}
  /\ sup' = [sup EXCEPT !.pc = "done", !.result = "timeout"]
  /\ UNCHANGED <<kind, host, io, late>>

Supervise ==
  \/ Spawn \/ Assign \/ Drain \/ Poll \/ PollHyperV \/ PollDirect
  \/ Join("in", "join_in", "join_out")
  \/ Join("out", "join_out", "join_err")
  \/ Join("err", "join_err", "done")
  \/ JoinLate

ThreadStep(t) == IF t = "in" THEN WriterEnds ELSE ReaderStep(t)

Next ==
  \/ Supervise
  \/ \E t \in Threads : ThreadStep(t)
  \/ \E s \in Streams : ChildWrites(s)
  \/ ChildForks \/ DescendantMoves \/ ChildExits \/ DeadlinePasses

Spec == Init /\ [][Next]_vars

\* The supervisor and the threads run, and time passes; the child and its
\* descendant owe nothing.
FairSpec ==
  /\ Spec
  /\ WF_vars(Supervise)
  /\ \A t \in Threads : WF_vars(ThreadStep(t))
  /\ WF_vars(DeadlinePasses)

-----------------------------------------------------------------------------
(***************************************************************************)
(* Properties                                                              *)
(***************************************************************************)

\* A result is the whole result: the child exited and was reaped, its input
\* was taken, and everything that went into the pipes was collected.
OkIsWhole ==
  sup.result = "ok" =>
    /\ child = "reaped" /\ thread["in"] = "done"
    /\ \A s \in Streams : thread[s] = "done" /\ read[s] = written[s]

\* An error leaves nothing of the tree running, at a limit, at the deadline or
\* after a failed write alike.
ErrorLeavesNoTree ==
  sup.result \in Results \ {"ok", "spawn"} =>
    child = "reaped" /\ ~(desc.alive /\ desc.inTree)

\* A call of run_bounded ends whatever the child and its descendants do.  The
\* PowerShell supervisors join their readers, so there a descendant that
\* holds the pipes from outside the job can keep the call.
CallEnds ==
  <>(\/ sup.pc = "done"
     \/ PowerShell /\ desc.alive /\ desc.holds /\ ~desc.inTree)

=============================================================================
