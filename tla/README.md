# vmcell in TLA+

Specifications, model-checking runs and machine-checked proofs for vmcell, a
daemonless manager of disposable virtual machines ("cells"). `PROJECT.json`
lists the components, the runs, the mutants that show each property can fail,
the source lines behind each definition, the findings, the hazards and the
theorems.

## The system

There is no daemon. Every `vmcell` invocation is a process that opens a state
root, takes the mutation lock, works on one cell (or image, or artifact) and
exits. Between two invocations only the disk and the hypervisor remember
anything.

| Part | State | Operations | Interacts with | Module |
|---|---|---|---|---|
| Cell engine (`src/src/engine/mod.rs`) | none of its own: the loaded manifest, the VM snapshot it proved | create, start, stop, destroy, gc, inspect | state store, provider | `CellEngine`, `CellLifecycle` |
| Guest operations and artifacts (engine) | operation records, artifact directories | exec, copy, collect, reconcile, prune | state store, guest transport | `GuestOperations` |
| Run orchestration (`run_cell*` in the engine) | the report being assembled | create, start, copy in, exec, collect, destroy | all of the above | `RunCell` |
| Image registry (engine) | image records | register, unregister, validate; deriving an overlay | state store, provider, the user's base files | `ImageRegistry` |
| State store (`src/src/state/mod.rs`) | records, runtime directories, mutation lock | atomic save, load, list, retire; acquire and release the lock | file system | `StateFiles`, `MutationLock`, `Mutex` |
| Hyper-V provider (`src/src/providers/hyperv`) | VMs, in a service vmcell does not own | one PowerShell process per verb | PowerShell | verbs in `CellEngine`, probe in `RunSelection`, supervision in `BoundedProcess` |
| QEMU provider (`src/src/providers/qemu`) | `vm.json`, the QEMU process, its endpoints | create, claim, start, stop, remove, inspect | QEMU process, QMP, Windows job objects | `QemuProcess`, probe in `RunSelection` |
| Child processes (`src/src/process.rs` and the PowerShell supervisors) | a child, three threads | run with a deadline and an output limit | host | `BoundedProcess` |
| Guest transports (`src/src/guest`) | a session | probe, exec, copy in, copy out | QGA channel; PowerShell Direct | `QgaSession`, `BoundedProcess` |
| Run selection and support matrix (`src/src/core`) | none | probe, resolve, revalidate | providers, image records | `RunSelection` |
| Job documents, their inputs, configuration | none | parse, validate, bind, re-read | the user's files | `RequestLimits`, `JobInputs` |
| Command line (`src/src/main.rs`, `cli`) | none | dispatch, print, exit code, Ctrl-C, shell, status | engine, console | `CommandLine`, `ErrorClasses`, `ShellSession`, `StatusReport` |
| Acceptance receipts (`src/src/core`) | none | validate a filled receipt | | `AcceptanceReceipt` |

What makes it hard: an operation is a sequence of durable saves and provider
verbs and the process can die between any two of them; several processes work
on one state root and some of their reads take no lock; a verb may have happened
although its call failed, and on Hyper-V it may happen after its caller died;
somebody else can change, remove or create VMs, base files and job inputs at any
moment; process ids are reused; an interrupted destroy, removal or launch has to
be finished by a later command; a VM must never be lost, nor one removed that is
not ours.

How the modules fit together. `CellEngine` uses the lock in the form `Mutex`
states, which `MutationLock` implements, and saves a manifest in one step, which
is what `StateFiles` shows of the store: records are read whole and a reported
save lasts. `GuestOperations` takes the lock and the saves the same way. `RunCell`
uses the engine's operations and the guest operations as steps, because each
holds the lock throughout; `CommandLine` uses runs and operations as steps in
turn. `QemuProcess` and `QgaSession` are below the engine's provider verbs and
guest actions, `BoundedProcess` below both.

The specifications are run through `MC` modules, which give constants their
values and state the symmetry, with one configuration per run. `MCCellEngine`,
`MCMutationLock` and `MCGuestOperations` run one specification each.
`MCOperations`, `MCStore`, `MCProcesses`, `MCRequests` and `MCFrontEnd` run
neighbouring specifications side by side: the variable `part` says which of them
a behaviour is about, and the others rest in one fixed initial state, so each is
explored as if it were alone. Definitions called `Mutant...`, or
placed before the definition they vary with a comment "Mutant:", are the faulty
variants of the mutants in `PROJECT.json`; no specification uses them.

## Modules

### `CellLifecycle`: the promise

What a user may rely on, without locks, processes or crashes. A cell is new,
intended, identified (its provider id is on disk), usable, retiring or gone,
and holds a runtime directory and a VM. Resources are taken only under a
durable intent, a VM only when the directory is there; a VM is released only
by a retiring cell, the directory only after the VM; a cell is buried when it
holds nothing. Interference may take a VM away at any time.

### `CellEngine`: the engine

One action per step of an operation. A step is what happens between two points
at which the process can die: an inspection, a provider verb, a manifest save,
a change of the runtime directory. `job[p]` is what process `p` has in memory
(operation, cell, program counter, record, proved snapshot, gc's work list).

| Variable | Code |
|---|---|
| `lock` | the mutation lock, held from the first durable read to the return |
| `cell[c]` | the manifest: lifecycle state, phase, recorded provider id |
| `runtime[c]` | the runtime directory: absent, prepared, with overlay, or partial (its configuration directory is missing) |
| `vms[v]` | the provider's VM with id `v`: name, ownership marker, shape, power, and, as history, the cell whose create made it |
| `used` | ids handed out so far: the provider never reuses one |
| `ttl`, `inflight` | the expiry of a cell and whether a nonterminal guest operation is on record for it |
| `orphans` | Hyper-V verbs whose vmcell process died: `ProviderProcessJob` does not kill on close |
| `drift` | how often somebody else touched the hypervisor |

| Actions | Code |
|---|---|
| `CreateCell` ... `SaveReady`, `FailRecord` | `create_cell_with_id`, `fail_record` |
| `StartCell`, `StartInspect`, `StartVm`, `StartVerify`, `SaveRunning` | `start_cell` |
| `StopCell` ... `SaveStopped` | `stop_cell` |
| `DestroyCell`, `DestroyCellForRun`, `DestroyLoad` ... `SaveDestroyed` | `destroy_cell`, `destroy_cell_for_run`, `destroy_cell_locked` |
| `GcExpired`, `GcNext` | `gc_expired_at` |
| `ReturnError`, `Crash`, `OrphanVerb` | `?` on any read, save or query; the death of the process; a verb that goes on without it |
| `Interfere`, `Expire`, `GuestOperation*` | the environment |

`Accepts` and `Effect` give the verbs: each one compares the VM with the
snapshot the engine proved and acts in one step, as the scripts do under their
mutex. `ProveCreation`, `ProveDestroy`, `ProveOwnership` and `ExactOwned` are
the engine's ownership proofs; `Reconciliation` is what inspect reports.

A manifest's paths, image binding and timestamps, and a VM's disk, memory and
adapters, are reduced to what the proofs tell apart (`shape`).

### `MutationLock`, `Mutex`: the lock

The lock's own protocol: the process-wide set of locked roots, the lock file,
its identity validation, retries up to the deadline, guarded saves with a
validation on either side, and the drop of a guard (file lock first, key
second). Lock files are numbered, so that the lock file can be replaced under a
holder. This is the Unix build; on Windows the open lock file cannot be replaced
(it is opened without delete sharing), which is the model without
`ReplaceLockFile`. `Mutex` is what callers assume: one holder at most, handed
out only when free. A poisoned `Mutex` around the key set is not modelled:
nothing panics while holding it.

### `StateFiles`: records on the disk

How a record reaches the disk and is read back, on Unix. The writer holds the
mutation lock and goes through `CreateTemporary`, `WriteAll`, `SyncTemporary`,
`Rename`, `SyncDirectory` (`write_json_atomic`, `write_bytes_new_atomic`; the
files of an artifact skip the last step), or renames an image record away
(`RetireImage`). The reader holds nothing: `List`, `OpenStateFile`, `Identify`
(the opened file is compared with its path again), `ReadJson`, in the order of
`check_compatibility`. A record is an image, a cell, an operation, an artifact's
file or its manifest; each write has a number, and a name shows a number. `dir`
is what the kernel shows, `synced` what is on the disk. `KillWriter` stops the
writer between any two steps; after `PowerLoss` a name shows what was synced or
anything renamed since, and data that was not synced may be anything.

- The run has an image, a cell and an operation. Artifact files and manifests are
  in the specification and the proofs.
- Windows has no directory sync and no inode check; it relies on NTFS and is not
  modelled. The entries of newly created directories are not synced by the code
  and are assumed to be reachable.
- A failed directory sync after the rename leaves the new record in place
  although the write is reported as failed (`WriteFails`).
- An operation is created only when saves of its cell were reported (`acked`):
  starting a cell takes several of them.
- A reader without the lock can be refused by a concurrent writer. `CheckIsExact`
  says by which one only: the writer moved the very name the reader was at, or
  saved the cell after the cells had been listed. It also says what an accepted
  check has seen: every record reported before the check began, or a later one.
  `rd.moved` is the set of names moved since then, `rd.since` what had been
  reported.

### `GuestOperations`: operations and artifacts

The journal of guest operations. `op[o]` is an operation's record with phase,
times, failure and artifact; `root[o]` its artifact directory (absent, staging,
committed, torn by an interrupted removal); `touched` records as history which
operations reached their guest. Exec stands for copy in as well, and collect for
copy out: they take the same steps.

| Actions | Code |
|---|---|
| `RecordIntent`, `Authorise`, `WaitReady`, `ExecAction` | the exec and copy-in paths, up to the outcome of the transport |
| `CollectFiles`, `CommitManifest`, `SaveCommitted`, `SaveCompleted` | collect and copy out |
| `ReconcilePeek`, `ReconcileLocked` | reconciliation: a look without the lock, then the decision under it |
| `PruneEvaluate`, `PruneLock`, `PruneNext`, `RemoveRoot` | `prune_artifacts`: the cutoff, then the batch under the lock |
| `Crash`, `CellChanges`, `Tick`, `SetBack` | a process dies or fails to save; the cell stops; time passes; the wall clock is set back |

`Save` refuses what the schema refuses (`RecordValid`), which compares the times
it is given: with a clock that was set back, a save can fail. `Orphans` are
collects of an old release whose cell record is gone; the store refuses to save
them.

### `RunCell`: a run

`run_cell` and its job variant from validation to report: `ValidateRequest`,
`CreateCell`, `StartCell`, `CopyIn`, `ExecStep`, `CollectArtifacts`,
`CleanupFailedRun`, `DestroyForRun`, `Finish`; an observer may cancel after each
step (`Observe`). Each step takes the lock for itself, so the commands of other
processes (`OtherStartsOrStops`, `OtherDestroys`, `OtherOperates`,
`OtherReconciles`) come in between. Lifecycle operations and guest operations are
atomic here, with all their outcomes: refused, failed with a known effect, failed
with an unknown effect, done. A create that failed may have left a cell, a part of
one or nothing. A destroy that failed may have gone part of the way, or the whole
way when the tombstone's save took effect and was reported as failed: the report
then says `Failed`, which `ReportIsTrue` leaves open, and only that.

### `ImageRegistry`: images and bases

Register, unregister and validate, and the part of create that verifies the base
and derives the overlay. A base path names an inode and an inode has a content;
the user writes to it, renames another over it and deletes it
(`WriteContent`, `RenameOver`, `DeleteBase`). An open base is guarded: on Linux a
change marks the guard (inotify), on Windows the open handle denies the change.
`CreateCell`, `VerifyInspect`, `VerifyHash`, `SaveIntent`, `Precheck`,
`CreateOverlay`, `Postcheck` follow `create_cell_with_id` and the provider's
overlay creation; a digest is the content's number.

### `QemuProcess`: the QEMU process

`vm.json` with schema, marker, pending intent, receipt and job name, against the
host's process table: the VM's QEMU, a helper it started, another cell's QEMU and
foreign processes, with reused process ids. `StartIntent`, `SpawnVm`,
`SaveReceipt`, `Activate`, `ReleaseGuard`, `Continue` are `start_vm`; `StopVm`,
`Quit`, `StopSettles`, `StopDeadline` are `stop_vm`; `RemoveVm`, `Inspect`,
`CreateVm`, `ClaimVm` the other verbs. Linux proves absence by start token and
process group, Windows by job object. `VmcellDies` at any step closes the launch
guard, which kills what is still guarded.

- On Windows a job's name can be opened as long as a process of the job lives:
  QEMU inherits a handle of its job from vmcell, and its helpers are taken to
  inherit it from QEMU. So a job that is not found (`ERROR_FILE_NOT_FOUND`, which
  `job_is_empty_or_missing` takes for empty) has no process.
- Definitions of schema 1, written by an older release, are among the initial
  states.
- A QEMU killed on Linux leaves its socket behind; inspect then reports an error
  rather than "Off", and start is refused: it fails closed.
- On Linux a pending intent can never be proven empty; ADR 0007 leaves it to the
  operator.

### `BoundedProcess`: host commands

One child process under each of the three supervisors (`run_bounded`, and the
PowerShell supervisors of the Hyper-V provider and of PowerShell Direct, which
differ only in the errors they return). A writer thread and two reader threads
(`WriterEnds`, `ReaderStep`), the supervisor (`Spawn`, `Assign`, `Drain`, `Poll`,
`Join`, `JoinLate`), a child that writes, forks a descendant in or out of the
tree, and exits. Output is counted in reads. The PowerShell supervisors join
their readers without a deadline, so a descendant that left the job and keeps the
pipes can keep the call; `CallEnds` says so. A process id stays its owner's here:
see "Findings" for the group id `run_bounded` signals after the child was reaped.

### `QgaSession`: the guest agent

Guest actions, one after another, as sessions on the agent's serial channel:
prove the VM over QMP, synchronise with a random id, then one request at a time
(`Script` gives the requests of a probe, an exec, both kinds of copy in, and a
copy out). `TimesOut` gives a session up at any point; its requests, its answers
and its guest processes stay behind and meet the next session. A copy writes a
temporary of its own and moves or links it to the destination.

- `wait_for_guest_ready` returns a probe's timeout or invalid response at once
  and retries only "not ready".
- A session that was given up can leave an answer that makes the next
  synchronisation fail as invalid: never as a wrong answer (`OwnAnswers`).
- A late `mv` of a copy that timed out may replace a later copy's file: ADR 0007
  calls the outcome of a timed-out copy unknown. What holds is that the
  destination is whole.
- The synchronisation id is the low half of a random UUID, and is taken to be
  unique.

### `RunSelection`: provider, accelerator, transport

The support matrix, the probes of both providers, `Resolve`, `Revalidate` and
the choice of the accelerator at creation, as operators over what a host offers;
`Plan`, `RevalidateRequest` and `Create` use them in that order while
`HostChanges` and `ImageChanges` happen in between. `Workable` restates what a
working path is without the code's filtering and ranking, and `PlanIsBest`
compares the two.

### `RequestLimits`, `JobInputs`: documents, configuration, inputs

`RequestLimits` takes a job document, or flags and a configuration, through every
check up to the guest actions, with the real limits. The properties compare the
early checks with the late ones. `JobInputs` reads the input files of a job twice,
for the binding and for the copy, in two pieces each, while an editor rewrites,
replaces, removes and redirects them; looking at a path and resolving it is one
step. Destinations are spelled with letter case and separator, which `Parsed`
and `GuestFile` treat as the document and the guest do.

### `CommandLine`, `ErrorClasses`, `ShellSession`, `StatusReport`: the commands

`CommandLine` is one process from its parsed arguments to its exit code. Each of
the 35 commands is a sequence of steps (`Steps`); a step touches resources
(`Touches`) and fails with certain errors (`Errors`), which `ErrorClasses` maps
to categories, exit codes and retryability. `Press` is Ctrl-C, which has a
handler on Windows only, and `CloseStdout` the reader going away. The steps
`check` and `revalidate` are the engine's own: it validates the command, the
readiness and the cell spec, and compares the plan with the image and a new probe,
after the password was read and before anything changes. `ChecksFirst` asks of
them that a refusal leaves no cell and no change, and of the checks before them
that not even the password was read.

- `gc` and `reconcile --all` run both engines; the first one's report is lost
  when the second fails.
- A run in human format whose standard output closes while its progress is
  written fails as internal; with it the guest's exit code is lost.
- `exec` exits with 0 whatever the guest command returned: the report carries
  its code.
- The closing of standard error is modelled in the shell, whose session it ends,
  and not elsewhere.
- A cleanup that fails or is cancelled may have destroyed the cell (`FailWith`).

`ShellSession` is the loop of `vmcell shell` with the flag that Ctrl-C sets and
the three places where it is looked at. Windows may answer an aborted console
read with nothing, which is end of input, so Ctrl-C ends the session but not
always with 130.

`StatusReport` is `vmcell status`, which takes no lock: probe, list operations,
list cells, load and inspect each cell, while the cell is created, started,
stopped and destroyed and operations run in it. An operation begun after the
listing is not counted, which `GuidanceIsSafe` allows for.

### `AcceptanceReceipt`: receipts

`validate_acceptance_receipt_bytes` as a decision over the fields of a receipt,
and an editor who changes one field after another. The search for duplicate keys
and the scan for host data are outcomes of reading (`Forms`).

### Proof modules

`CellEngineSteps`, `CellEngineProofs`, `CellEngineOwnership`,
`MutationLockProofs`, `OperationsProofs`, `StoreProofs`, `BoundedProcessProofs`:
see "Proofs". `Operations`, `Store` and `Processes` put the specifications a proof
module or a run is about side by side (`RunCell` as `Run`, `ImageRegistry` as
`Registry`, and so on) and name their properties.

## Runs

| Run | Instance | Shows |
|---|---|---|
| `engine` | 1 cell, 2 processes, 2 ids, Hyper-V, 1 interference, 1 delayed verb | Every interleaving, crash and error of create, start, stop, destroy and gc: no VM is lost or becomes unowned (`EveryVmAccountedFor`, `OwnershipNeverLost`), a tombstone means all is released, verbs act on the cell's own configured VM only, manifests only move forward, and the engine implements `CellLifecycle`. |
| `gc` | 2 cells, 1 process, 2 ids, QEMU | gc works through several expired cells and touches no live one and none with a guest operation in flight, over a provider that creates VMs configured and may leave them paused. |
| `destroy` | 1 cell, 1 process, 1 id, 1 delayed verb, fairness | Retried destroy reaches the tombstone from every state an interrupted create or destroy leaves, except after a partly removed runtime directory. |
| `lock` | 2 threads of one process and 1 of another, 1 retry, 2 replacements of the lock file, fairness | The lock gives its process keys back, serialises confirmed saves, always answers, and implements a mutex, whoever crashes and however often the lock file is replaced. |
| `operations` | 2 operations and 1 orphan, 2 processes, batch 1, 2 times, 1 setback, 1 crash; a run with up to 2 copies beside 3 commands of others | An operation called interrupted never reached the guest, and an artifact on record is on disk. A run's report is true, and it destroys its cell only when nothing is open on it, nothing of its own may still have an effect and the policy allows it. |
| `store` | image, cell and operation, 3 writes, 1 kill, 1 power loss; 1 image, 2 cells, 2 inodes, 4 contents, 2 processes, both platforms, 2 edits, 2 records | A reported write or removal survives kills and power losses; a check of the state, which takes no lock, refuses only what the writer moved under it and misses nothing reported before it. No cell loses its registration, no overlay is accepted from a content that was not registered, and `image validate` agrees with create. |
| `processes` | limit 2, up to 3 reads per pipe, all three supervisors; both platforms, 2 process ids, 4 processes, 2 launches, 2 faults; 4 agent sessions of 2 chunks and 2 polls; fairness | A result is whole and calls end. What `vm.json` and inspect say of QEMU's processes is true although launches die half-way and ids are reused, and every command ends. Agent answers are never mixed up, and what a session reports of the guest is true. |
| `requests` | every pair of values on, next to or beyond a limit; 3 hosts, 16 images, every intent, 1 change; 2 inputs, 2 copies, 4 contents, 2 edits | What the early checks accept no later check refuses, and a configuration is obeyed or refused. The plan is the preferred one of the paths that would work and nothing falls back. The guest gets only inputs as they were bound. |
| `front_end` | Windows, every command with the flags that matter to it; a shell session; status beside 11 changes; receipts of 3 edits | Exit codes and JSON answers are true, errors called retryable hide nothing, a command that refuses has changed nothing, and a cell a run leaves behind is named. A shell stops over an unknown outcome, the advice of status is safe, and no relabelled preflight passes. |
| `destroy_retry` | as `destroy` | finding |
| `transitions` | 1 cell, 1 process | finding |
| `prune_batch` | 2 operations, 1 process, batch 1, 1 crash, fairness | finding |

### Bounds

- Engine. The lock makes operations on different cells exclude each other, and
  they share nothing but provider ids, so one cell shows the interleavings of one
  cell's operations and the second cell is needed only where an operation works
  through several (gc). Two processes are enough for one to meet what another
  left behind; crashes are unbounded, so "another" may have died anywhere. Two
  ids let a stranger's VM, or a second VM of the same name, stand beside the
  recorded one. One interference and one delayed verb are the smallest numbers
  that break an assumption of the engine's; the theorems cover all numbers.
- Guest operations. Two operations of one cell and two processes let a
  reconciliation or a prune meet an operation at work; two points of time, with
  the clock set back once, give every order of the times a record compares. The
  theorems cover all numbers.
- Runs. Two copies distinguish the first, the last and the one that fails in
  between; three commands of others can start, operate and destroy.
- Images. Two inodes and two edits let a path change and change back; two records
  let an id be registered anew.
- QEMU. Two process ids are the VM's QEMU and a helper or a stranger; four starts
  let each id be reused while a receipt names it; two launches and two faults
  interrupt a launch and its recovery.
- Child processes. One read below the limit, at it and beyond it.
- Guest agent. Two chunks can be torn; with four sessions what one leaves behind
  meets up to three later ones.
- Requests. Every pair of values around the limits: each check looks at one value
  or at two. The first input file starts with every content, the second with one:
  an edit may give it any other.
- Receipts. Three edits: one relabels the result and two more try to make the
  rest fit; for a pass, each field is one edit.
- State files. Three writes are two of the cell and one of the operation, or an
  image, its removal and one more; the theorems cover all numbers.
- Status. Eleven changes take a cell from nothing through an operation to its
  tombstone.

Deadlock is checked for the engine and the lock, where somebody can always act. Every other
specification has an end, or a bound on what may happen, after which nothing
does; that operations end is what the liveness properties say.

### Fairness

- `destroy`. A running operation keeps running (weak fairness of `Step`), the
  operator keeps retrying destroy (strong fairness of `DestroyCell`, since the
  lock comes and goes), and no stage of destroy fails for ever if it can succeed
  (strong fairness of `Succeed`; two steps share a stage when a retry never
  repeats the first). The first is the scheduler's, the other two are
  what a retry means; crashes and errors stay possible at every step.
- `lock`. Weak fairness of each thread's steps inside a call: they are
  straight-line code without waiting. A guard may be held for ever.
- `prune_batch`. Processes go on with what they started; the operator reconciles
  and prunes again and again (strong fairness, since the lock comes and goes).
- `processes`. The supervisor and its threads run and time passes; the child and
  its descendant owe nothing. The command on a QEMU VM at work goes on, and a QEMU
  that was launched opens its endpoints. Nothing is assumed of the guest agent.

## Findings

Shown by a run, and quoted with their source lines in `PROJECT.json`:

- `transitions`: the engine never calls `validate_transition`, and destroying an
  interrupted create stores `Creating -> Destroying`, which it rejects.
- `destroy_retry`: `remove_dir_all` interrupted between the configuration
  directory and the runtime root leaves a cell no destroy can finish, because
  the retry insists on pinning the configuration directory.
- `prune_batch`: a pruned record keeps taking a place in every later batch, so
  that once a batch is full of them an interrupted removal is never resumed and
  nothing new is pruned.

Met while modelling; the properties are stated so that they leave them out, and
no run is about them:

- `run_bounded` (`src/src/process.rs:223`) signals the child's process group after
  the child was reaped, when its id may already name another group.
- `run_cell` (`src/src/engine/mod.rs:1814`) checks the plan against the image
  before it takes the lock; an image registered anew under the same id in between
  is used unchecked. `NoFallback` is about provider and accelerator only.
- A job document (`src/src/core/job_spec.rs:385`) may name two destinations that
  differ in letter case only, which are one file on a Windows guest.
  `OnlyBoundInputs` asks for some bound content, and the run has a Linux guest.
- A closed standard output (`src/src/main.rs:2909`) ends the process with Rust's
  panic code 101, outside the documented exit codes. `ExitTruth` excepts it.
- The directory of an artifact's files (`src/src/state/mod.rs:1632`) is not
  synced, so a power loss can leave a collected artifact's manifest without its
  files. `ReportedIsDurable` leaves these files out.

## Proofs

The theorems hold for every number of cells, processes, ids, operations, writes,
interferences, crashes and delayed verbs. They assume that the special values
(`NoProcess`, `NoId`, `None`, ...) are not members of the sets they are
distinguished from and that bounds are natural numbers; nothing else is assumed,
and the runs evaluate these assumptions.

### The engine (`CellEngineSteps`, `CellEngineProofs`, `CellEngineOwnership`)

Proved: the type invariant, `LockedRecordIsCurrent`, `TombstoneMeansReleased`,
`EveryVmAccountedFor`, `RuntimeOutlivesVm`, `ManifestConsistent`,
`OwnershipNeverLost`, the action properties `ManifestNeverRegresses`,
`VerbsTouchOnlyRecordedVms`, `StartsOnlyConfiguredVms` and `GcSparesLiveCells`,
and the refinement of `CellLifecycle`.

None of these is inductive. A tombstone is sound only because the process that
writes it knows that the VM is gone, which it knows since it looked; that stays
true because ids are never reused and because a delayed create verb belongs to
a cell without a recorded id, which destroy refuses. So the inductive invariant
`IInv` adds

- `LockInv`: exactly the lock holder is inside an operation;
- `ControlInv`: what the holder knows at each program counter (`Creating`,
  `Switching`, `Destroying`);
- `IdsInv`, `FreshInv`, `OrphanInv`: recorded ids and VM ids have been handed
  out, an uncreated cell owns nothing, a delayed create belongs to a cell in
  quarantine.

The proof has one lemma per action. They rest on four facts about the kinds of
step there are: a step that only moves the holder, a save of a record that
`MaySave` allows, a change of one VM that keeps its origin, and a change of one
runtime directory; each keeps `HostInv` and falsifies nothing a process knows.
`ManifestNeverRegresses` follows from `IInv` and one lemma per save: what the
holder has in memory is the manifest (`Working`), so every save starts from it.

Three more invariants stand on `IInv`. `OwnInv` says that a recorded id names a VM
of the cell's own create or none, and what was proved of the VM a process or a
delayed verb is about to act on; the properties of verbs follow. `GcInv` says that
what gc has still to destroy is expired, and that the cell it destroys has no
operation in flight: nobody can change either while gc has the lock. `ShapeInv`
says how far a VM of the engine's own is configured, by its cell's phase, as long
as nobody interferes; `OwnershipNeverLost` follows. For the refinement, every
action changes the cell, the VMs or the directories in one of the ways
`CellLifecycle` allows, or none of them.

### The lock (`MutationLockProofs`)

Proved: the types, `OneLiveGuard`, `KeyHasOneOwner`, `ConfirmedSavesAreSerial`
and the refinement of `Mutex`. The inductive invariant adds that a thread past the
lock call still has the OS lock on the file it opened (`LockInv`), that nobody has
a file open that is yet to come (`FileInv`), and that nobody else confirms a save
while one is under way under the current lock file (`SerialInv`). What is not
promised: a save that was validated before the lock file was replaced and written
after it is reported as failed, but has been written.

### Guest operations and runs (`OperationsProofs`)

Proved: `OneOperationInFlight`, `InterruptedMeansUntouched`, `ArtifactsBacked`,
`RetentionHonoured`, and the action properties `OutcomeIsFinal` and `OrphansKept`.
The inductive invariant has three parts besides `OneOperationInFlight`: whoever is
in the middle of an operation or of a prune holds the lock (`LockInv`); what a
process remembers still fits the records it goes on to change (`JobInv`: a
reconciler has looked without the lock and must look again); and each record,
with its artifact directory and whether its action reached the guest, is sound by
itself (`RecInv`). `RecordsStep` reduces every action to the one record it
changes.

Of `RunCell`, for every request and any number of copies and commands of others:
`ReportIsTrue` and the action property `CleanupIsSafe`. The inductive invariant
`RunInv` says that an action the run got a result from is completed
(`AnsweredIsDone`), that a run on its way to a destroy knows that none of its
actions may still have an effect and that the policy allows it (`CleanupKnows`),
and that a report once given stays true whatever others do (`ReportStands`).

### Child processes (`BoundedProcessProofs`)

Proved: `OkIsWhole` and `ErrorLeavesNoTree`, for every limit and any amount of
output. A reader that is done has read everything written (`Whole`), because
nobody can write once the pipes are closed; the results the supervisor counted
are those of threads that are done, and a status it has is that of a reaped
child (`Counted`); past a termination nothing of the tree is left (`Gone`).

### The store (`StoreProofs`)

Proved of the files, for any number of writes, kills and power losses:
`ReportedIsDurable`, `ReadsWhole`, `ParentsSurvive` and, as long as no manifest of
an artifact is written, `CheckIsExact`. The inductive invariant says that a name,
in the kernel or on the disk, only ever shows a write that is whole and synced, and
the disk is never ahead of the kernel (`Named`); what the writer has done to its
temporary at each step (`Writer`); that what was reported is on the disk
(`Reported`, without the files of artifacts, see "Findings"); that an operation's
cell had been reported before it (`Parent`); and that an open file is whole
(`Reader`). `CheckIsExact` needs `CheckInv` as well: a refusal has its moved name
(`Told`), what the reader has found and nobody has moved is still there (`Found`),
and what it has passed is as new as what had been reported when it began
(`Current`). With manifests it is not claimed: their directories are not synced, and
a power loss can leave one without its files.

Proved of the registry, for any images, cells, files, contents and processes:
`DependenciesRegistered`, `OverlayFromRegisteredBase` and `UsableMeansCreatable`.
The inductive invariant `RegistryInv` says that one process at most is at work under
the lock (`OneAtWork`), that a cell which is not destroyed has its image and the
variant it copied (`CellsHold`), and what a process knows of the base it holds open
at each step of register and create (`GuardHolds`, `RegisterHolds`, `CreateHolds`).

### Only proved

The types, `LockedRecordIsCurrent`, `RuntimeOutlivesVm`, `ManifestConsistent`,
`OneLiveGuard`, `OneOperationInFlight`, `RetentionHonoured`, `OutcomeIsFinal`,
`OrphansKept`, `ErrorLeavesNoTree`, `ReadsWhole` and `ParentsSurvive` hold for
every instance by their theorems, and no run repeats them.

### Only model-checked

- The properties of `QemuProcess`, `QgaSession`, `RunSelection`, `RequestLimits`,
  `JobInputs`, `CommandLine`, `ShellSession`, `StatusReport` and
  `AcceptanceReceipt`.
- Every liveness property: liveness under fairness is out of the prover's reach.

## Not modelled

- The Windows file calls of the state store, and the creation of the state root
  with its permissions and of directories below it.
- The JSON envelopes between vmcell and its PowerShell scripts, the QMP framing
  and the output of `qemu-img`: they are reduced to their outcomes.
- The scripts PowerShell Direct runs in the guest, and the ssh transport, of
  which the source has only the name.
- Argument syntax, rendering, progress texts, completions; the images and
  retention parts of the status report.
- Digests, which are taken to be injective, and random ids, taken to be unique.
- The packaging, the tools and the tests of the repository.

These have no state of their own that outlives a call, or are calls to the
operating system whose outcome is a nondeterministic choice in the modules above.
