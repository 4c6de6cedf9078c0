---------------------------- MODULE MCProcesses -----------------------------
(***************************************************************************)
(* The processes vmcell depends on, on small instances.  A behaviour is    *)
(* one of three: a bounded child process with its readers, the QEMU of a   *)
(* cell under commands that die, or a series of guest agent sessions over  *)
(* one channel.  part says which; the others rest in an initial state.     *)
(***************************************************************************)
EXTENDS Processes

VARIABLE part   \* "child", "qemu" or "agent"

MCInit ==
  /\ part \in {"child", "qemu", "agent"}
  /\ part = "child" \/ kind = "run_bounded"
  /\ part = "qemu" \/ (platform = "linux" /\ config = None)
  /\ part = "agent" \/ dest = None
  /\ Init /\ Qemu!Init /\ Agent!Init

MCNext ==
  \/ part = "child" /\ Next /\ UNCHANGED <<part, qemu_vars, agent_vars>>
  \/ part = "qemu" /\ Qemu!Next /\ UNCHANGED <<part, vars, agent_vars>>
  \/ part = "agent" /\ Agent!Next /\ UNCHANGED <<part, vars, qemu_vars>>

\* The fairness of the parts: the supervisor, its threads and the clock run on;
\* so does vmcell, and a launched QEMU comes to open its endpoints.
MCSpec ==
  /\ MCInit /\ [][MCNext]_<<part, vars, qemu_vars, agent_vars>>
  /\ WF_vars(part = "child" /\ Supervise)
  /\ \A t \in Threads : WF_vars(part = "child" /\ ThreadStep(t))
  /\ WF_vars(part = "child" /\ DeadlinePasses)
  /\ WF_qemu_vars(part = "qemu" /\ Qemu!Command)
  /\ WF_qemu_vars(part = "qemu" /\ Qemu!QemuListens)

\* Every call of a supervisor ends, but for a descendant outside the job of a
\* PowerShell supervisor that holds its pipes (run_bounded).
CallReturns == part = "child" => CallEnds

\* Every command on a QEMU VM comes to an end (stop_vm's wait loop).
CommandEnds == Qemu!CommandEnds

=============================================================================
