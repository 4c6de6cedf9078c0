------------------------------ MODULE Processes ------------------------------
(***************************************************************************)
(* The processes vmcell depends on: a bounded child process with its       *)
(* readers (BoundedProcess), the QEMU of a cell (QemuProcess), and the     *)
(* guest agent behind one channel (QgaSession).                            *)
(***************************************************************************)
EXTENDS BoundedProcess

CONSTANTS
  Platforms, Pids, MaxToken, MaxLaunches, MaxFaults,
  LastSession, Verbs, Chunks, MaxPolls

VARIABLES
  platform, config, os, endpoint, token, launches, cmd, faults,
  client, result, requests, answers, procs, tmp, dest, left, got, ran

Sessions == 1 .. LastSession

qemu_vars == <<platform, config, os, endpoint, token, launches, cmd, faults>>

agent_vars == <<client, result, requests, answers, procs, tmp, dest, left, got, ran>>

Qemu == INSTANCE QemuProcess

Agent == INSTANCE QgaSession

\* The hosts with a QEMU provider, and None is none of the things it stands for the absence of.
ASSUME QemuAssumption ==
  /\ Platforms \subseteq {"linux", "windows"}
  /\ None \notin Nat /\ None \notin Qemu!Receipts
  /\ None \notin Qemu!Configs /\ None \notin Qemu!HostProcesses

\* What the definition and inspect say of the VM's processes is true
\* (QemuProvider: inspect_config, start_vm, stop_vm, remove_vm).
DefinitionIsTrue == Qemu!DefinitionIsTrue

\* No answer of an action that was given up is taken for another's (the guest
\* agent's synchronisation).
OwnAnswers == Agent!OwnAnswers

\* What a session reports of the guest is true (execute, copy_in, copy_out).
ResultIsTrue == Agent!ResultIsTrue
=============================================================================
