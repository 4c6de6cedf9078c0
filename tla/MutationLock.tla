---- MODULE MutationLock ----
(***************************************************************************)
(* The mutation lock of a state root (src/src/state/mod.rs).  A thread     *)
(* first enters the state root in a set its process keeps, then locks the  *)
(* lock file, then makes sure that the file it locked is still the one at  *)
(* the path.  A guarded save makes sure of that before and after it writes.*)
(*                                                                         *)
(* Lock files are numbered: `path` is the one at the path now, and         *)
(* replacing it puts a new number there.  A lock on a file that was        *)
(* replaced still exists, but excludes only those who have that file open. *)
(***************************************************************************)
EXTENDS Naturals, FiniteSets

CONSTANTS
    Threads,     \* the threads that call acquire_mutation_lock
    Processes,   \* the vmcell processes
    ProcessOf,   \* the process of each thread
    NoThread,    \* nobody
    MaxPolls,    \* attempts that fit in mutation_lock_timeout
    MaxFiles     \* lock files that are ever at the path

ASSUME LockAssumption ==
    /\ ProcessOf \in [Threads -> Processes]
    /\ NoThread \notin Threads
    /\ MaxPolls \in Nat
    /\ MaxFiles \in Nat

VARIABLES
    pc,      \* where each thread is
    file,    \* the lock file each thread has open (0 when it has none)
    polls,   \* the retries of each thread's acquire so far
    keys,    \* the processes whose set of roots has this state root
    locked,  \* the thread that has the OS lock on each file
    path,    \* the file at the lock path
    rivals   \* history: who confirmed a save while a thread was saving

vars == <<pc, file, polls, keys, locked, path, rivals>>

Files == 0 .. MaxFiles

PCs == {"idle", "insert", "open", "lock", "validate", "guard", "write",
        "revalidate", "unlock", "release", "releaseBusy"}

Init ==
    /\ pc = [t \in Threads |-> "idle"]
    /\ file = [t \in Threads |-> 0]
    /\ polls = [t \in Threads |-> 0]
    /\ keys = {}
    /\ locked = [f \in Files |-> NoThread]
    /\ path = 0
    /\ rivals = [t \in Threads |-> {}]

(* The thread holds a MutationGuard. *)
Guarding(t) == pc[t] \in {"guard", "write", "revalidate"}

(* The thread is between the first and the second check of a guarded save. *)
Saving(t) == pc[t] \in {"write", "revalidate"}

(* validate_open_path_identity on the lock file. *)
SameFile(t) == file[t] = path

Goto(t, label) == pc' = [pc EXCEPT ![t] = label]

-----------------------------------------------------------------------------
(* Acquiring *)

AcquireMutationLock(t) ==
    /\ pc[t] = "idle"
    /\ Goto(t, "insert")
    /\ UNCHANGED <<polls, file, keys, locked, path, rivals>>

(* Retrying without counting the attempts against the deadline. *)
MutantMutationBusy(t) ==
    \/ Goto(t, "insert") /\ UNCHANGED polls
    \/ Goto(t, "idle") /\ polls' = [polls EXCEPT ![t] = 0]

(* MutationBusy: try again until the deadline has passed. *)
MutationBusy(t) ==
    \/ /\ polls[t] < MaxPolls
       /\ Goto(t, "insert")
       /\ polls' = [polls EXCEPT ![t] = @ + 1]
    \/ Goto(t, "idle") /\ polls' = [polls EXCEPT ![t] = 0]

(* The state directories cannot be opened, or the key is entered. *)
InsertKey(t) ==
    /\ pc[t] = "insert"
    /\ \/ /\ Goto(t, "idle")
          /\ polls' = [polls EXCEPT ![t] = 0]
          /\ UNCHANGED keys
       \/ /\ ProcessOf[t] \in keys
          /\ MutationBusy(t)
          /\ UNCHANGED keys
       \/ /\ ProcessOf[t] \notin keys
          /\ keys' = keys \union {ProcessOf[t]}
          /\ Goto(t, "open")
          /\ UNCHANGED polls
    /\ UNCHANGED <<file, locked, path, rivals>>

OpenLockFile(t) ==
    /\ pc[t] = "open"
    /\ \/ file' = [file EXCEPT ![t] = path] /\ Goto(t, "lock")
       \/ UNCHANGED file /\ Goto(t, "release")
    /\ UNCHANGED <<polls, keys, locked, path, rivals>>

(* Contention that is not noticed. *)
MutantTryLock(t) ==
    /\ pc[t] = "lock"
    /\ locked' = [locked EXCEPT ![file[t]] = t]
    /\ Goto(t, "validate")
    /\ UNCHANGED <<file, polls, keys, path, rivals>>

TryLock(t) ==
    /\ pc[t] = "lock"
    /\ \/ /\ locked[file[t]] = NoThread
          /\ locked' = [locked EXCEPT ![file[t]] = t]
          /\ Goto(t, "validate")
       \/ /\ locked[file[t]] # NoThread
          /\ Goto(t, "releaseBusy")
          /\ UNCHANGED locked
       \/ Goto(t, "release") /\ UNCHANGED locked
    /\ UNCHANGED <<file, polls, keys, path, rivals>>

(* Both identity checks; the second also fails when a directory changed. *)
ValidateLock(t) ==
    /\ pc[t] = "validate"
    /\ \/ SameFile(t) /\ Goto(t, "guard")
       \/ Goto(t, "unlock")
    /\ UNCHANGED <<file, polls, keys, locked, path, rivals>>

-----------------------------------------------------------------------------
(* Guarded saves *)

(* The first validation; when it fails the operation returns (DropGuard). *)
BeginSave(t) ==
    /\ pc[t] = "guard"
    /\ SameFile(t)
    /\ Goto(t, "write")
    /\ rivals' = [rivals EXCEPT ![t] = {}]
    /\ UNCHANGED <<file, polls, keys, locked, path>>

(* The write happens, or fails and the operation returns its error. *)
WriteRecord(t) ==
    /\ pc[t] = "write"
    /\ \/ Goto(t, "revalidate") /\ UNCHANGED rivals
       \/ Goto(t, "unlock") /\ rivals' = [rivals EXCEPT ![t] = {}]
    /\ UNCHANGED <<file, polls, keys, locked, path>>

(* The caller is told that the save is done. *)
Confirm(t) ==
    /\ Goto(t, "guard")
    /\ rivals' = [u \in Threads |->
                    IF u # t /\ Saving(u) THEN rivals[u] \union {t}
                    ELSE IF u = t THEN {} ELSE rivals[u]]

(* No second look at the lock file. *)
MutantConfirmSave(t) ==
    /\ pc[t] = "revalidate"
    /\ Confirm(t)
    /\ UNCHANGED <<file, polls, keys, locked, path>>

ConfirmSave(t) ==
    /\ pc[t] = "revalidate"
    /\ \/ SameFile(t) /\ Confirm(t)
       \/ Goto(t, "unlock") /\ rivals' = [rivals EXCEPT ![t] = {}]
    /\ UNCHANGED <<file, polls, keys, locked, path>>

-----------------------------------------------------------------------------
(* Releasing *)

(* The guard goes out of scope: the operation is over, or returns early. *)
DropGuard(t) ==
    /\ pc[t] = "guard"
    /\ Goto(t, "unlock")
    /\ UNCHANGED <<file, polls, keys, locked, path, rivals>>

UnlockFile(t) ==
    /\ pc[t] = "unlock"
    /\ locked' = [locked EXCEPT ![file[t]] = NoThread]
    /\ Goto(t, "release")
    /\ UNCHANGED <<file, polls, keys, path, rivals>>

(* The key stays behind on a failed acquire. *)
MutantReleaseKey(t) ==
    /\ \/ pc[t] = "release" /\ Goto(t, "idle") /\ polls' = [polls EXCEPT ![t] = 0]
       \/ pc[t] = "releaseBusy" /\ MutationBusy(t)
    /\ keys' = IF pc[t] = "releaseBusy" THEN keys ELSE keys \ {ProcessOf[t]}
    /\ file' = [file EXCEPT ![t] = 0]
    /\ UNCHANGED <<locked, path, rivals>>

ReleaseKey(t) ==
    /\ \/ pc[t] = "release" /\ Goto(t, "idle") /\ polls' = [polls EXCEPT ![t] = 0]
       \/ pc[t] = "releaseBusy" /\ MutationBusy(t)
    /\ keys' = keys \ {ProcessOf[t]}
    /\ file' = [file EXCEPT ![t] = 0]
    /\ UNCHANGED <<locked, path, rivals>>

-----------------------------------------------------------------------------
(* The environment *)

(* A process dies: its key set goes with it and the OS drops its locks. *)
Crash(p) ==
    /\ \E t \in Threads : ProcessOf[t] = p /\ pc[t] # "idle"
    /\ pc' = [t \in Threads |-> IF ProcessOf[t] = p THEN "idle" ELSE pc[t]]
    /\ keys' = keys \ {p}
    /\ locked' = [f \in Files |->
                    IF locked[f] # NoThread /\ ProcessOf[locked[f]] = p
                    THEN NoThread ELSE locked[f]]
    /\ file' = [t \in Threads |-> IF ProcessOf[t] = p THEN 0 ELSE file[t]]
    /\ polls' = [t \in Threads |-> IF ProcessOf[t] = p THEN 0 ELSE polls[t]]
    /\ rivals' = [t \in Threads |-> IF ProcessOf[t] = p THEN {} ELSE rivals[t]]
    /\ UNCHANGED path

(* Somebody removes or replaces the lock file; the next open makes a new one. *)
ReplaceLockFile ==
    /\ path < MaxFiles
    /\ path' = path + 1
    /\ UNCHANGED <<pc, file, polls, keys, locked, rivals>>

Step(t) ==
    \/ InsertKey(t)
    \/ OpenLockFile(t)
    \/ TryLock(t)
    \/ ValidateLock(t)
    \/ WriteRecord(t)
    \/ ConfirmSave(t)
    \/ UnlockFile(t)
    \/ ReleaseKey(t)

Next ==
    \/ \E t \in Threads :
        AcquireMutationLock(t) \/ BeginSave(t) \/ DropGuard(t) \/ Step(t)
    \/ \E p \in Processes : Crash(p)
    \/ ReplaceLockFile

Spec == Init /\ [][Next]_vars

(* A thread that is inside a call keeps running. *)
FairSpec == Spec /\ \A t \in Threads : WF_vars(Step(t))

-----------------------------------------------------------------------------
(* Every variable has its type. *)
TypeOK ==
    /\ pc \in [Threads -> PCs]
    /\ file \in [Threads -> Files]
    /\ polls \in [Threads -> 0 .. MaxPolls]
    /\ keys \subseteq Processes
    /\ locked \in [Files -> Threads \union {NoThread}]
    /\ path \in Files
    /\ rivals \in [Threads -> SUBSET Threads]

(* Two guards coexist only if the lock file was replaced in between, and   *)
(* then at most one of them still passes the identity validation.          *)
OneLiveGuard ==
    \A t, u \in Threads :
        Guarding(t) /\ Guarding(u) /\ SameFile(t) /\ SameFile(u) => t = u

(* The thread is past the insertion of its process key.                    *)
Inside(t) == pc[t] \notin {"idle", "insert"}

(* Every early return of try_acquire_mutation_lock and the drop of a guard *)
(* give the process key back, and nobody removes another thread's key: the *)
(* key is there exactly while one thread of the process is past its insert.*)
KeyHasOneOwner ==
    /\ \A p \in keys : \E t \in Threads : ProcessOf[t] = p /\ Inside(t)
    /\ \A t \in Threads : Inside(t) => ProcessOf[t] \in keys
    /\ \A t, u \in Threads :
        Inside(t) /\ Inside(u) /\ ProcessOf[t] = ProcessOf[u] => t = u

(* Saves that are reported as done never overlap, not even when the lock   *)
(* file is replaced while one of them is being written.                    *)
ConfirmedSavesAreSerial ==
    [][\A t \in Threads :
        pc[t] = "revalidate" /\ pc'[t] = "guard" => rivals[t] = {}]_vars

(* acquire_mutation_lock returns: with a guard, or with an error.          *)
AcquireReturns ==
    \A t \in Threads : pc[t] = "insert" ~> pc[t] \in {"guard", "idle"}

(* The guards that would pass validation.                                  *)
LiveGuards == {t \in Threads : Guarding(t) /\ SameFile(t)}

Holder == IF LiveGuards = {} THEN NoThread ELSE CHOOSE t \in LiveGuards : TRUE

Abstract == INSTANCE Mutex WITH holder <- Holder

(* The lock implements a mutex; its holder is the thread whose guard would *)
(* pass validation.                                                        *)
ImplementsMutex == Abstract!Spec
====
