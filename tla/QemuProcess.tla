----------------------------- MODULE QemuProcess -----------------------------
(***************************************************************************)
(* The QEMU provider: the definition vm.json of one VM and the host        *)
(* processes behind it.  start_vm saves a launch intent, spawns QEMU,      *)
(* saves the receipt of the process (process id and start token), lets it  *)
(* go and continues the guest; stop_vm, remove_vm and inspect decide from  *)
(* the definition and from what the host says of process ids, process      *)
(* groups (Linux), Job Objects (Windows) and the control endpoint.         *)
(*                                                                         *)
(* The engine calls the provider under its mutation lock, so one command   *)
(* works on the VM at a time; it can die at any step.  Process ids are     *)
(* reused, by other cells' QEMUs too.                                      *)
(***************************************************************************)
EXTENDS Naturals

CONSTANTS
  Platforms,   \* the hosts checked
  Pids,        \* process ids
  None,        \* no process, receipt, job, definition
  MaxToken,    \* bound on the processes started, ours and others
  MaxLaunches, \* bound on the launches of the VM
  MaxFaults    \* bound on vmcell dying and on failing calls

VARIABLES
  platform,  \* the host
  config,    \* the durable definition vm.json
  os,        \* os[pid]: the process with that id
  endpoint,  \* the QMP and QGA endpoints
  token,     \* the start token of the next process
  launches,  \* how often the VM was launched: the name of its latest job
  cmd,       \* the vmcell command at work, in memory only
  faults     \* how often vmcell died or a call failed

vars == <<platform, config, os, endpoint, token, launches, cmd, faults>>

host == <<os, endpoint, token, launches>>

NoCommand == [pc |-> "idle", expected |-> None, spawned |-> None, forced |-> FALSE]

\* A cell being created, or one of a release that knew neither Job Objects
\* nor launch intents.
Init ==
  /\ platform \in Platforms
  /\ config \in {None, [schema |-> 1, marker |-> TRUE, pending |-> FALSE,
                        receipt |-> None, job |-> None]}
  /\ os = [pid \in Pids |-> None]
  /\ endpoint = "absent"
  /\ token = 1
  /\ launches = 0
  /\ cmd = NoCommand
  /\ faults = 0

Live(role) == {pid \in Pids : os[pid] # None /\ os[pid].role = role}

Ours == Live("leader") \cup Live("child")

-----------------------------------------------------------------------------
(***************************************************************************)
(* What the host can prove                                                 *)
(***************************************************************************)

\* process_start_token
StartToken(pid) == IF os[pid] = None THEN None ELSE os[pid].token

\* process_matches on Linux: the start token, its own process group, QEMU's
\* executable and the digest of this VM's launch arguments.
MatchesLinux(r, job) ==
  /\ job = None
  /\ StartToken(r.pid) = r.token
  /\ os[r.pid].group = r.pid
  /\ os[r.pid].role = "leader"

\* process_matches on Windows: alive, the start token, in the recorded job,
\* QEMU's executable.
MatchesWindows(r, job) ==
  /\ job # None
  /\ StartToken(r.pid) = r.token
  /\ os[r.pid].job = job
  /\ os[r.pid].role \in {"leader", "cousin"}

ProcessMatches(r, job) ==
  IF platform = "linux" THEN MatchesLinux(r, job) ELSE MatchesWindows(r, job)

\* process_absence_proven on Linux: no /proc entry, or one that started later.
AbsenceLinux(r) == StartToken(r.pid) # r.token

\* On Windows: missing, exited or started later; a live one refutes it.
AbsenceWindows(r) == ~\E pid \in Pids : pid = r.pid /\ StartToken(pid) = r.token

AbsenceProven(r) ==
  IF platform = "linux" THEN AbsenceLinux(r) ELSE AbsenceWindows(r)

\* process_group_absence_proven: a scan of /proc.
GroupAbsent(group) == \A pid \in Pids : os[pid] # None => os[pid].group # group

\* job_is_empty_or_missing: no process is in the job, or there is no job of that
\* name.  QEMU inherits a handle of its job (prepare_qemu_process), and its helpers
\* are taken to inherit it in turn: the name lasts as long as one of them lives,
\* so a missing job is empty as well.
JobEmpty(job) == \A pid \in Pids : os[pid] # None => os[pid].job # job

\* process_tree_absence_proven on Linux and on Windows.
TreeAbsentLinux(r, job) == r # None /\ job = None /\ GroupAbsent(r.pid)

TreeAbsentWindows(r, job) ==
  /\ job # None
  /\ r # None => AbsenceProven(r)
  /\ JobEmpty(job)

TreeAbsent(r, job) ==
  IF platform = "linux" THEN TreeAbsentLinux(r, job) ELSE TreeAbsentWindows(r, job)

\* process_tree_owned_nonempty
TreeOwned(job) == platform = "windows" /\ job # None /\ ~JobEmpty(job)

\* ensure_control_endpoints_absent: a path left behind counts as present.
EndpointsAbsent == endpoint = "absent"

\* connect_qmp, the greeting, validate_qmp_identity: QEMU serves the endpoint.
QmpAnswers == endpoint = "live" /\ Live("leader") # {}

\* query-status
QmpStatus ==
  IF \E pid \in Live("leader") : os[pid].run = "running" THEN "Running" ELSE "Paused"

-----------------------------------------------------------------------------
(***************************************************************************)
(* The definition                                                          *)
(***************************************************************************)

\* qemu_job_receipt_is_valid
JobReceiptValid(c) ==
  IF platform = "linux" \/ c.schema = 1 THEN c.job = None
  ELSE (c.job # None) <=> (c.pending \/ c.receipt # None)

\* QemuVmConfig::validate
ValidConfig(c) == JobReceiptValid(c) /\ (c.receipt # None => c.receipt.token # 0)

\* inspect_config: the power state, or an error.
Inspect ==
  LET off == IF EndpointsAbsent THEN "Off" ELSE "Error" IN
  IF config = None \/ ~ValidConfig(config) THEN "Error"
  ELSE IF config.pending
  THEN IF TreeAbsent(None, config.job) THEN off ELSE "Error"
  ELSE IF config.receipt = None THEN off
  ELSE IF ProcessMatches(config.receipt, config.job)
  THEN IF QmpAnswers THEN QmpStatus ELSE "Error"
  ELSE IF ~AbsenceProven(config.receipt) THEN "Error"
  ELSE IF TreeAbsent(config.receipt, config.job) THEN off
  ELSE IF TreeOwned(config.job) THEN "Running"
  ELSE "Error"

\* validate_live_process_receipt
LiveReceipt ==
  ~config.pending /\ config.receipt # None /\ ProcessMatches(config.receipt, config.job)

\* replace_config: written beside the definition, checked, renamed over it.
ReplaceConfig(c) == config' = c

\* new_qemu_job_name: a new name for every launch, on Windows.
NewJobName == IF platform = "windows" THEN launches' ELSE None

\* authorize_config: the provider's own marker is in the definition.
Authorized == config # None /\ config.marker

\* The command ends, with or without an error.
Return == cmd' = NoCommand

\* A call fails: a write, a timeout, a probe the host does not answer.
Fault == faults < MaxFaults /\ faults' = faults + 1

\* vmcell dies or gives a prepared process up: the jobs that end with it take
\* their processes along.
GuardCloses(processes) ==
  [pid \in Pids |->
     IF processes[pid] # None /\ processes[pid].guarded THEN None ELSE processes[pid]]

\* create_vm: write_config_new refuses a definition that exists.
CreateVm ==
  /\ cmd.pc = "idle" /\ config = None /\ launches = 0
  /\ config' = [schema |-> 2, marker |-> FALSE, pending |-> FALSE,
                receipt |-> None, job |-> None]
  /\ UNCHANGED <<platform, host, cmd, faults>>

\* claim_vm: the marker is added by replacing the definition.
ClaimVm ==
  /\ cmd.pc = "idle" /\ config # None /\ ~config.marker
  /\ ReplaceConfig([config EXCEPT !.marker = TRUE])
  /\ UNCHANGED <<platform, host, cmd, faults>>

\* The engine inspects the VM and hands the snapshot to the verb.
Begin(verb, expected) ==
  /\ cmd.pc = "idle" /\ Authorized
  /\ Inspect = expected
  /\ verb = "start" => launches < MaxLaunches
  /\ cmd' = [NoCommand EXCEPT !.pc = verb, !.expected = expected]
  /\ UNCHANGED <<platform, config, host, faults>>

-----------------------------------------------------------------------------
(***************************************************************************)
(* start_vm                                                                *)
(***************************************************************************)

\* A mutant: nothing is saved before the spawn.
MutantStartIntent ==
  /\ cmd.pc = "start"
  /\ launches' = launches + 1
  /\ ReplaceConfig([config EXCEPT !.schema = 2, !.receipt = None, !.job = NewJobName])
  /\ cmd' = [cmd EXCEPT !.pc = "spawn"]
  /\ UNCHANGED <<platform, os, endpoint, token, faults>>

\* From Off: prove that an earlier launch left nothing, then save the intent.
\* From a paused VM nothing is launched.
StartIntent ==
  /\ cmd.pc = "start"
  /\ LET r == config.receipt
         empty == /\ EndpointsAbsent
                  /\ config.pending => TreeAbsent(None, config.job)
                  /\ ~config.pending /\ r # None =>
                       AbsenceProven(r) /\ TreeAbsent(r, config.job)
     IN IF cmd.expected # "Off"
        THEN cmd' = [cmd EXCEPT !.pc = "cont"] /\ UNCHANGED <<config, launches>>
        ELSE IF empty
        THEN /\ launches' = launches + 1
             /\ ReplaceConfig([config EXCEPT !.schema = 2, !.receipt = None,
                                             !.pending = TRUE, !.job = NewJobName])
             /\ cmd' = [cmd EXCEPT !.pc = "spawn"]
        ELSE Return /\ UNCHANGED <<config, launches>>
  /\ UNCHANGED <<platform, os, endpoint, token, faults>>

\* A new process takes a free id that is no process group's either.
NewProcess(pid, role, group, job, run, guarded) ==
  /\ os[pid] = None /\ GroupAbsent(pid)
  /\ token <= MaxToken
  /\ token' = token + 1
  /\ os' = [os EXCEPT ![pid] = [role |-> role, token |-> token, group |-> group,
                                job |-> job, run |-> run,
                                guarded |-> guarded]]

\* Linux: the child runs at once, stopped before the guest's first instruction.
SpawnDetached(pid) ==
  /\ platform = "linux"
  /\ NewProcess(pid, "leader", pid, None, "prelaunch", FALSE)

\* Windows: prepare_qemu_process creates it suspended, in the recorded job and
\* in a launch guard that only this vmcell holds.
SpawnPrepared(pid) ==
  /\ platform = "windows"
  /\ NewProcess(pid, "leader", pid, config.job, "suspended", TRUE)

\* A host without a free process id refuses, as it may at any time.
HostFull == token > MaxToken \/ \A pid \in Pids : os[pid] # None \/ ~GroupAbsent(pid)

SpawnVm ==
  /\ cmd.pc = "spawn"
  /\ \/ /\ \E pid \in Pids :
             /\ SpawnDetached(pid) \/ SpawnPrepared(pid)
             /\ cmd' = [cmd EXCEPT !.pc = "receipt",
                                   !.spawned = [pid |-> pid, token |-> token]]
        /\ UNCHANGED faults
     \/ (IF HostFull THEN UNCHANGED faults ELSE Fault) /\ Return /\ UNCHANGED <<os, token>>
  /\ UNCHANGED <<platform, config, endpoint, launches>>

\* The receipt replaces the intent; on an error the prepared process is
\* dropped with the jobs it is in, and a detached one lives on.
SaveReceipt ==
  /\ cmd.pc = "receipt"
  /\ \/ /\ ReplaceConfig([config EXCEPT !.receipt = cmd.spawned, !.pending = FALSE])
        /\ cmd' = [cmd EXCEPT !.pc = "activate"]
        /\ UNCHANGED <<faults, os>>
     \/ Fault /\ Return /\ os' = GuardCloses(os) /\ UNCHANGED config
  /\ UNCHANGED <<platform, endpoint, token, launches>>

\* PreparedQemuProcess::activate resumes the thread first (on an error it is
\* dropped),
Activate ==
  /\ cmd.pc = "activate"
  /\ \/ /\ os' = [pid \in Pids |->
                   IF os[pid] # None /\ os[pid].run = "suspended"
                   THEN [os[pid] EXCEPT !.run = "prelaunch"] ELSE os[pid]]
        /\ cmd' = [cmd EXCEPT !.pc = "release"]
        /\ UNCHANGED faults
     \/ platform = "windows" /\ Fault /\ Return /\ os' = GuardCloses(os)
  /\ UNCHANGED <<platform, config, endpoint, token, launches>>

\* and then takes kill-on-close off both jobs.
ReleaseGuard ==
  /\ cmd.pc = "release"
  /\ os' = [pid \in Pids |->
              IF os[pid] # None THEN [os[pid] EXCEPT !.guarded = FALSE] ELSE None]
  /\ cmd' = [cmd EXCEPT !.pc = "cont"]
  /\ UNCHANGED <<platform, config, endpoint, token, launches, faults>>

\* The live receipt, then cont over QMP; no answer in time is an error.
Continue ==
  /\ cmd.pc = "cont"
  /\ \/ /\ LiveReceipt /\ QmpAnswers
        /\ os' = [os EXCEPT ![config.receipt.pid].run = "running"]
        /\ UNCHANGED faults
     \/ ~(LiveReceipt /\ QmpAnswers) /\ UNCHANGED <<os, faults>>
     \/ Fault /\ UNCHANGED os
  /\ Return
  /\ UNCHANGED <<platform, config, endpoint, token, launches>>

-----------------------------------------------------------------------------
(***************************************************************************)
(* stop_vm and remove_vm                                                   *)
(***************************************************************************)

\* terminate_exact_job
TerminateJob(job) ==
  os' = [pid \in Pids |->
           IF os[pid] # None /\ os[pid].job = job THEN None ELSE os[pid]]

\* The endpoint after processes died without closing it.
EndpointAfterDeath ==
  endpoint' = IF endpoint = "live" /\ \A pid \in Live("leader") : os'[pid] = None
              THEN IF platform = "linux" THEN "stale" ELSE "absent"
              ELSE endpoint

\* With a live receipt quit goes over QMP; a dead leader whose job has
\* processes is recovered by the job; anything else is an error.
StopVm ==
  /\ cmd.pc = "stop"
  /\ IF config.receipt # None /\ LiveReceipt
     THEN cmd' = [cmd EXCEPT !.pc = "quit"] /\ UNCHANGED <<os, endpoint>>
     ELSE IF config.receipt # None /\ AbsenceProven(config.receipt) /\ TreeOwned(config.job)
     THEN /\ TerminateJob(config.job) /\ EndpointAfterDeath
          /\ cmd' = [cmd EXCEPT !.pc = "wait", !.forced = TRUE]
     ELSE Return /\ UNCHANGED <<os, endpoint>>
  /\ UNCHANGED <<platform, config, token, launches, faults>>

\* quit over QMP; QEMU exits in its own time.
Quit ==
  /\ cmd.pc = "quit"
  /\ \/ /\ QmpAnswers
        /\ os' = [os EXCEPT ![config.receipt.pid].run = "quitting"]
        /\ cmd' = [cmd EXCEPT !.pc = "wait"]
        /\ UNCHANGED faults
     \/ (IF QmpAnswers THEN Fault ELSE UNCHANGED faults) /\ Return /\ UNCHANGED os
  /\ UNCHANGED <<platform, config, endpoint, token, launches>>

\* A mutant: a tree that stays is waited for without an end.
MutantStopWaits ==
  /\ cmd.pc = "wait" /\ ~QmpAnswers /\ AbsenceProven(config.receipt)
  /\ TreeAbsent(config.receipt, config.job)
  /\ config' = [config EXCEPT !.receipt = None, !.job = None, !.pending = FALSE]
  /\ Return
  /\ UNCHANGED <<platform, host, faults>>

\* One turn of the wait loop.  A leader gone with its tree ends the stop; a
\* tree that stays is terminated by its job once.
StopSettles ==
  /\ cmd.pc = "wait" /\ ~QmpAnswers /\ AbsenceProven(config.receipt)
  /\ IF TreeAbsent(config.receipt, config.job)
     THEN /\ IF EndpointsAbsent
             THEN ReplaceConfig([config EXCEPT !.receipt = None, !.job = None,
                                               !.pending = FALSE])
             ELSE UNCHANGED config
          /\ Return /\ UNCHANGED <<os, endpoint>>
     ELSE IF config.job = None \/ cmd.forced
     THEN Return /\ UNCHANGED <<config, os, endpoint>>
     ELSE /\ TerminateJob(config.job) /\ EndpointAfterDeath
          /\ cmd' = [cmd EXCEPT !.forced = TRUE]
          /\ UNCHANGED config
  /\ UNCHANGED <<platform, token, launches, faults>>

\* The deadline of the loop passes: the job is terminated, once.
StopDeadline ==
  /\ cmd.pc = "wait" /\ (QmpAnswers \/ ~AbsenceProven(config.receipt))
  /\ IF config.job # None /\ ~cmd.forced
     THEN /\ TerminateJob(config.job) /\ EndpointAfterDeath
          /\ cmd' = [cmd EXCEPT !.forced = TRUE]
     ELSE Return /\ UNCHANGED <<os, endpoint>>
  /\ UNCHANGED <<platform, config, token, launches, faults>>

\* remove_vm deletes the definition after it proved again that nothing runs.
RemoveVm ==
  /\ cmd.pc = "remove"
  /\ LET r == config.receipt
         empty == /\ config.pending => TreeAbsent(None, config.job)
                  /\ endpoint # "live"
                  /\ r # None => /\ ~ProcessMatches(r, config.job)
                                 /\ AbsenceProven(r) /\ TreeAbsent(r, config.job)
                  /\ EndpointsAbsent
     IN config' = IF empty THEN None ELSE config
  /\ Return
  /\ UNCHANGED <<platform, host, faults>>

-----------------------------------------------------------------------------
(***************************************************************************)
(* The host                                                                *)
(***************************************************************************)

\* QEMU opens its control endpoints; for a socket the path must be free.
QemuListens ==
  /\ endpoint = "absent"
  /\ \E pid \in Live("leader") : os[pid].run # "suspended"
  /\ endpoint' = "live"
  /\ UNCHANGED <<platform, config, os, token, launches, cmd, faults>>

\* QEMU starts a helper in its process group and its job.
QemuForks(pid) ==
  /\ \E leader \in Live("leader") :
       /\ os[leader].run # "suspended"
       /\ NewProcess(pid, "child", leader, os[leader].job, "running", os[leader].guarded)
  /\ UNCHANGED <<platform, config, endpoint, launches, cmd, faults>>

\* The guest powered off, or quit was asked for: QEMU exits in good order.
QemuExits(pid) ==
  /\ pid \in Live("leader") /\ os[pid].run \in {"running", "quitting"}
  /\ os' = [os EXCEPT ![pid] = None]
  /\ endpoint' = "absent"
  /\ UNCHANGED <<platform, config, token, launches, cmd, faults>>

\* Any process dies; QEMU then leaves its sockets behind.
ProcessDies(pid) ==
  /\ os[pid] # None
  /\ os' = [os EXCEPT ![pid] = None]
  /\ EndpointAfterDeath
  /\ UNCHANGED <<platform, config, token, launches, cmd, faults>>

\* Other programs and other cells' QEMUs come up under ids that are free.
OthersStart(pid, role) ==
  /\ NewProcess(pid, role, pid, IF role = "cousin" /\ platform = "windows" THEN 0 ELSE None,
                "running", FALSE)
  /\ UNCHANGED <<platform, config, endpoint, launches, cmd, faults>>

\* vmcell dies: what it held in memory is gone, and with it its guard.
VmcellDies ==
  /\ cmd.pc # "idle"
  /\ Fault /\ Return
  /\ os' = GuardCloses(os) /\ EndpointAfterDeath
  /\ UNCHANGED <<platform, config, token, launches>>

Command ==
  \/ StartIntent \/ SpawnVm \/ SaveReceipt \/ Activate \/ ReleaseGuard \/ Continue
  \/ StopVm \/ Quit \/ StopSettles \/ StopDeadline \/ RemoveVm

Next ==
  \/ CreateVm \/ ClaimVm
  \/ \E expected \in {"Off", "Paused"} : Begin("start", expected)
  \/ \E expected \in {"Running", "Paused"} : Begin("stop", expected)
  \/ Begin("remove", "Off")
  \/ Command
  \/ VmcellDies \/ QemuListens
  \/ \E pid \in Pids :
       \/ QemuForks(pid) \/ QemuExits(pid) \/ ProcessDies(pid)
       \/ \E role \in {"cousin", "foreign"} : OthersStart(pid, role)

Spec == Init /\ [][Next]_vars

\* vmcell runs on, and a launched QEMU comes to open its endpoints.
FairSpec == Spec /\ WF_vars(Command) /\ WF_vars(QemuListens)

-----------------------------------------------------------------------------
(***************************************************************************)
(* Why: the inductive invariant behind DefinitionIsTrue                    *)
(***************************************************************************)

Receipts == [pid : Pids, token : Nat]

Configs == [schema : {1, 2}, marker : BOOLEAN, pending : BOOLEAN,
            receipt : Receipts \cup {None}, job : Nat \cup {None}]

HostProcesses == [role : {"leader", "child", "cousin", "foreign"}, token : Nat, group : Pids,
                  job : Nat \cup {None},
                  run : {"suspended", "prelaunch", "running", "quitting"}, guarded : BOOLEAN]

Commands == [pc : {"idle", "start", "spawn", "receipt", "activate", "release", "cont", "stop",
                   "quit", "wait", "remove"},
             expected : {None, "Off", "Paused", "Running"},
             spawned : Receipts \cup {None}, forced : BOOLEAN]

ProcessTypeOK ==
  /\ platform \in Platforms
  /\ config \in Configs \cup {None}
  /\ os \in [Pids -> HostProcesses \cup {None}]
  /\ token \in Nat /\ launches \in Nat
  /\ cmd \in Commands

\* All processes of the VM are of one process group, the one r names, and its
\* QEMU is the process r names.
OnlyOf(r) ==
  /\ \A pid \in Ours : os[pid].group = r.pid
  /\ \A pid \in Live("leader") : os[pid].token = r.token

\* The processes of the VM are of one group, whose leader is QEMU, and on
\* Windows in the recorded job; other cells' jobs have other names.
OneTree ==
  /\ \A pid \in Live("leader") : os[pid].group = pid
  /\ \A a, b \in Ours : os[a].group = os[b].group
  /\ platform = "windows" => /\ \A pid \in Ours : config # None /\ os[pid].job = config.job
                             /\ \A pid \in Live("cousin") : os[pid].job = 0
                             /\ config # None => config.job # 0

\* There is no process without a definition that expects one.
Expected ==
  IF config = None THEN Ours = {}
  ELSE IF config.receipt # None THEN ~config.pending /\ OnlyOf(config.receipt)
  ELSE IF config.pending THEN \A pid \in Live("leader") : os[pid].run # "running"
  ELSE Ours = {}

\* What the command at work relies on.
CommandKnows ==
  /\ cmd.pc # "idle" => config # None
  /\ cmd.pc = "spawn" => config.pending /\ Ours = {}
  /\ cmd.pc = "receipt" => config.pending /\ cmd.spawned # None /\ OnlyOf(cmd.spawned)
  /\ cmd.pc \in {"quit", "wait"} => config.receipt # None

ProcessInv == ProcessTypeOK /\ OneTree /\ Expected /\ CommandKnows

-----------------------------------------------------------------------------
(***************************************************************************)
(* Properties                                                              *)
(***************************************************************************)

\* What the definition and inspect say of the VM's processes is true, whatever
\* was interrupted and whichever ids were reused: a VM that is off or removed
\* has no process, neither its QEMU nor one QEMU started; two QEMUs never share
\* the overlay; the guest runs only in the process the durable receipt names,
\* and a receipt never matches a process of somebody else.
DefinitionIsTrue ==
  /\ config = None \/ Inspect = "Off" => Ours = {}
  /\ \A a, b \in Live("leader") : a = b
  /\ \A pid \in Live("leader") :
       os[pid].run = "running" =>
         /\ config # None /\ ~config.pending
         /\ config.receipt = [pid |-> pid, token |-> os[pid].token]
  /\ config # None /\ config.receipt # None /\ ProcessMatches(config.receipt, config.job) =>
       config.receipt.pid \in Live("leader")

\* A command comes to an end: the wait of stop_vm terminates a job once and
\* has a deadline.
CommandEnds == cmd.pc # "idle" ~> cmd.pc = "idle"

=============================================================================
