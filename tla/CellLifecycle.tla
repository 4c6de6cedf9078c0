---------------------------- MODULE CellLifecycle ----------------------------
(***************************************************************************)
(* What vmcell promises about a cell and the host resources it owns, with  *)
(* every operation, lock, crash and retry abstracted away: resources are   *)
(* taken only under a durable intent, a cell whose VM was never identified *)
(* keeps everything, a VM is released only by a cell that is being         *)
(* retired, the runtime directory only after the VM, and a cell is buried  *)
(* only when it holds nothing.                                             *)
(***************************************************************************)
EXTENDS Naturals

CONSTANT Cells

VARIABLES
  status,       \* status[c]: how far the cell has come, as recorded on disk
  held,         \* held[c]: what the cell occupies on the host
  interference  \* how often somebody else has changed the host

lifecycleVars == <<status, held, interference>>

LifecycleTypeOK ==
  /\ status \in [Cells -> {"new", "intent", "identified", "usable",
                           "retiring", "gone"}]
  /\ held \in [Cells -> SUBSET {"runtime", "vm"}]
  /\ interference \in Nat

LifecycleInit ==
  /\ status = [c \in Cells |-> "new"]
  /\ held = [c \in Cells |-> {}]
  /\ interference = 0

Advance(c, from, to) ==
  /\ status[c] \in from
  /\ status' = [status EXCEPT ![c] = to]
  /\ UNCHANGED <<held, interference>>

Intend(c)   == Advance(c, {"new"}, "intent")
Identify(c) == Advance(c, {"intent"}, "identified")
Publish(c)  == Advance(c, {"identified"}, "usable")
Retire(c)   == Advance(c, {"identified", "usable"}, "retiring")
Bury(c)     == held[c] = {} /\ Advance(c, {"identified", "usable", "retiring"}, "gone")

Hold(c, resources) ==
  /\ held' = [held EXCEPT ![c] = resources]
  /\ UNCHANGED status

TakeRuntime(c) ==
  status[c] = "intent" /\ Hold(c, held[c] \cup {"runtime"}) /\ UNCHANGED interference

TakeVm(c) ==
  /\ status[c] = "intent" /\ "runtime" \in held[c]
  /\ Hold(c, held[c] \cup {"vm"})
  /\ UNCHANGED interference

ReleaseVm(c) ==
  status[c] = "retiring" /\ Hold(c, held[c] \ {"vm"}) /\ UNCHANGED interference

ReleaseRuntime(c) ==
  /\ status[c] \in {"identified", "usable", "retiring"}
  /\ "vm" \notin held[c]
  /\ Hold(c, {})
  /\ UNCHANGED interference

\* Somebody else changes a VM, or removes it.
Disturb ==
  /\ interference' = interference + 1
  /\ \/ UNCHANGED <<status, held>>
     \/ \E c \in Cells : Hold(c, held[c] \ {"vm"})

LifecycleNext ==
  \/ Disturb
  \/ \E c \in Cells : \/ Intend(c) \/ Identify(c) \/ Publish(c) \/ Retire(c)
                      \/ Bury(c)
                      \/ TakeRuntime(c) \/ TakeVm(c)
                      \/ ReleaseVm(c) \/ ReleaseRuntime(c)

LifecycleSpec == LifecycleInit /\ [][LifecycleNext]_lifecycleVars
=============================================================================
