---- MODULE MutationLockProofs ----
(***************************************************************************)
(* The mutation lock excludes, serialises confirmed saves and implements a *)
(* mutex, for any numbers of threads, processes, attempts and replacements *)
(* of the lock file.                                                       *)
(***************************************************************************)
EXTENDS MutationLock, TLAPS

(* Where a thread has the OS lock on the file it opened. *)
HasLock(t) == pc[t] \in {"validate", "guard", "write", "revalidate", "unlock"}

(* A thread that got the OS lock still has it. *)
LockInv == \A t \in Threads : HasLock(t) => locked[file[t]] = t

(* Nobody has a lock file open that is yet to be put at the path. *)
FileInv == \A t \in Threads : file[t] <= path

(* While a thread saves under the current lock file, nobody else confirms. *)
SerialInv ==
    \A t \in Threads : Saving(t) /\ SameFile(t) => rivals[t] = {}

IInv == TypeOK /\ LockInv /\ FileInv /\ SerialInv

(* Two threads with the OS lock on the same file are one. *)
LEMMA LockExcludes ==
    ASSUME LockInv, NEW t \in Threads, NEW u \in Threads,
           HasLock(t), HasLock(u), file[t] = file[u]
    PROVE  t = u
BY DEF LockInv

(* The invariant holds initially. *)
LEMMA InitInv == Init => IInv
BY LockAssumption
   DEF Init, IInv, TypeOK, PCs, Files, LockInv, HasLock, FileInv, SerialInv,
       Saving

(* An attempt that finds the lock taken changes only where the thread is   *)
(* and its count of attempts: it is back at the insert or gives up.        *)
LEMMA BusyStep ==
    ASSUME TypeOK, NEW t \in Threads, MutationBusy(t)
    PROVE  /\ pc' \in [Threads -> PCs]
           /\ polls' \in [Threads -> 0 .. MaxPolls]
           /\ pc'[t] \in {"insert", "idle"}
           /\ \A u \in Threads \ {t} : pc'[u] = pc[u]
<1>1. CASE Goto(t, "idle") /\ polls' = [polls EXCEPT ![t] = 0]
  BY <1>1, LockAssumption DEF TypeOK, PCs, Goto
<1>2. CASE /\ polls[t] < MaxPolls
           /\ Goto(t, "insert")
           /\ polls' = [polls EXCEPT ![t] = @ + 1]
  <2>1. polls[t] + 1 \in 0 .. MaxPolls
    BY <1>2, LockAssumption DEF TypeOK
  <2>2. polls' \in [Threads -> 0 .. MaxPolls]
    BY <1>2, <2>1 DEF TypeOK
  <2>3. pc' = [pc EXCEPT ![t] = "insert"]
    BY <1>2 DEF Goto
  <2> QED
    BY <2>2, <2>3 DEF TypeOK, PCs
<1> QED
  BY <1>1, <1>2 DEF MutationBusy

(* Returning an error does to the thread what giving up at the deadline does. *)
LEMMA ReturnIsBusy ==
    ASSUME NEW t, Goto(t, "idle"), polls' = [polls EXCEPT ![t] = 0]
    PROVE  MutationBusy(t)
BY DEF MutationBusy

(* Every step keeps the types. *)
LEMMA NextType == ASSUME TypeOK, [Next]_vars PROVE TypeOK'
<1>0. 0 \in Files /\ Files \subseteq Nat
  BY LockAssumption DEF Files
<1> USE LockAssumption, <1>0 DEF TypeOK, PCs, Goto
<1>1. ASSUME NEW t \in Threads,
             AcquireMutationLock(t) \/ BeginSave(t) \/ DropGuard(t)
      PROVE  TypeOK'
  BY <1>1 DEF AcquireMutationLock, BeginSave, DropGuard
<1>2. ASSUME NEW t \in Threads, InsertKey(t) PROVE TypeOK'
  <2>1. CASE MutationBusy(t) /\ UNCHANGED keys
    BY <1>2, <2>1, BusyStep DEF InsertKey
  <2>2. CASE /\ keys' = keys \union {ProcessOf[t]}
             /\ Goto(t, "open")
             /\ UNCHANGED polls
    BY <1>2, <2>2 DEF InsertKey
  <2> QED
    BY <1>2, <2>1, <2>2, ReturnIsBusy DEF InsertKey
<1>3. ASSUME NEW t \in Threads, OpenLockFile(t) \/ ValidateLock(t)
      PROVE  TypeOK'
  BY <1>3 DEF OpenLockFile, ValidateLock
<1>10. ASSUME NEW t \in Threads, TryLock(t) PROVE TypeOK'
  <2>1. pc' \in [Threads -> PCs]
    BY <1>10 DEF TryLock
  <2>2. locked' \in [Files -> Threads \union {NoThread}]
    BY <1>10 DEF TryLock
  <2> QED
    BY <1>10, <2>1, <2>2 DEF TryLock
<1>11. ASSUME NEW t \in Threads, UnlockFile(t) PROVE TypeOK'
  BY <1>11 DEF UnlockFile
<1>4. ASSUME NEW t \in Threads, WriteRecord(t) PROVE TypeOK'
  BY <1>4 DEF WriteRecord
<1>5. ASSUME NEW t \in Threads, ConfirmSave(t) PROVE TypeOK'
  <2>1. rivals' \in [Threads -> SUBSET Threads]
    <3>1. CASE Confirm(t)
      BY <3>1 DEF Confirm
    <3>2. CASE rivals' = [rivals EXCEPT ![t] = {}]
      BY <3>2
    <3> QED
      BY <1>5, <3>1, <3>2 DEF ConfirmSave
  <2>2. pc' \in [Threads -> PCs]
    BY <1>5 DEF ConfirmSave, Confirm
  <2> QED
    BY <1>5, <2>1, <2>2 DEF ConfirmSave
<1>6. ASSUME NEW t \in Threads, ReleaseKey(t) PROVE TypeOK'
  <2>1. /\ pc' \in [Threads -> PCs]
        /\ polls' \in [Threads -> 0 .. MaxPolls]
    <3>1. CASE pc[t] = "release"
      BY <1>6, <3>1 DEF ReleaseKey
    <3>2. CASE pc[t] = "releaseBusy"
      <4>1. MutationBusy(t)
        BY <1>6, <3>2 DEF ReleaseKey
      <4> QED
        BY <4>1, BusyStep
    <3> QED
      BY <1>6, <3>1, <3>2 DEF ReleaseKey
  <2> QED
    BY ZenonT(30), <1>6, <2>1 DEF ReleaseKey
<1>7. ASSUME NEW p \in Processes, Crash(p) PROVE TypeOK'
  BY <1>7 DEF Crash
<1>8. CASE ReplaceLockFile
  BY <1>8 DEF ReplaceLockFile, Files
<1>9. CASE UNCHANGED vars
  BY <1>9 DEF vars
<1> QED
  BY <1>1, <1>2, <1>3, <1>4, <1>5, <1>6, <1>7, <1>8, <1>9, <1>10, <1>11
  DEF Next, Step

(* Every step keeps the invariant. *)
LEMMA NextInv == ASSUME IInv, [Next]_vars PROVE IInv'
<1>0. TypeOK'
  BY NextType DEF IInv
<1>00. Files \subseteq Nat /\ 0 \in Files
  BY LockAssumption DEF Files
<1> USE <1>0, <1>00
    DEF IInv, TypeOK, LockInv, HasLock, FileInv, SerialInv, Saving, SameFile,
        Goto
<1>1. ASSUME NEW t \in Threads,
             AcquireMutationLock(t) \/ DropGuard(t) \/ ValidateLock(t)
      PROVE  IInv'
  BY <1>1 DEF AcquireMutationLock, DropGuard, ValidateLock
<1>2. ASSUME NEW t \in Threads, BeginSave(t) PROVE IInv'
  BY <1>2 DEF BeginSave
<1>4. ASSUME NEW t \in Threads, InsertKey(t) PROVE IInv'
  <2>1. /\ pc'[t] \in {"insert", "idle", "open"}
        /\ \A u \in Threads \ {t} : pc'[u] = pc[u]
        /\ UNCHANGED <<file, locked, path, rivals>>
    <3>1. CASE MutationBusy(t)
      BY <1>4, <3>1, BusyStep DEF InsertKey
    <3>2. CASE Goto(t, "open")
      BY <1>4, <3>2 DEF InsertKey
    <3> QED
      BY <1>4, <3>1, <3>2, ReturnIsBusy DEF InsertKey
  <2> QED
    BY <2>1
<1>5. ASSUME NEW t \in Threads, OpenLockFile(t) PROVE IInv'
  <2>1. CASE file' = [file EXCEPT ![t] = path] /\ Goto(t, "lock")
    BY <1>5, <2>1 DEF OpenLockFile
  <2>2. CASE UNCHANGED file /\ Goto(t, "release")
    BY <1>5, <2>2 DEF OpenLockFile
  <2> QED
    BY <1>5, <2>1, <2>2 DEF OpenLockFile
<1>6. ASSUME NEW t \in Threads, TryLock(t) PROVE IInv'
  <2>1. CASE /\ locked[file[t]] = NoThread
             /\ locked' = [locked EXCEPT ![file[t]] = t]
             /\ Goto(t, "validate")
    <3>1. \A u \in Threads : HasLock(u) => file[u] # file[t]
      BY <2>1, LockAssumption
    <3>2. LockInv'
      BY <1>6, <2>1, <3>1 DEF TryLock
    <3> QED
      BY <1>6, <2>1, <3>2 DEF TryLock
  <2>2. CASE Goto(t, "releaseBusy") /\ UNCHANGED locked
    BY <1>6, <2>2 DEF TryLock
  <2>3. CASE Goto(t, "release") /\ UNCHANGED locked
    BY <1>6, <2>3 DEF TryLock
  <2> QED
    BY <1>6, <2>1, <2>2, <2>3 DEF TryLock
<1>8. ASSUME NEW t \in Threads, WriteRecord(t) PROVE IInv'
  BY <1>8 DEF WriteRecord
<1>9. ASSUME NEW t \in Threads, ConfirmSave(t) PROVE IInv'
  <2>1. CASE SameFile(t) /\ Confirm(t)
    <3>1. \A u \in Threads \ {t} : ~(Saving(u) /\ SameFile(u))
      BY <1>9, <2>1 DEF ConfirmSave
    <3>2. SerialInv'
      BY <1>9, <2>1, <3>1 DEF ConfirmSave, Confirm
    <3> QED
      BY <1>9, <2>1, <3>2 DEF ConfirmSave, Confirm
  <2>2. CASE Goto(t, "unlock") /\ rivals' = [rivals EXCEPT ![t] = {}]
    BY <1>9, <2>2 DEF ConfirmSave
  <2> QED
    BY <1>9, <2>1, <2>2 DEF ConfirmSave
<1>10. ASSUME NEW t \in Threads, UnlockFile(t) PROVE IInv'
  BY <1>10 DEF UnlockFile
<1>11. ASSUME NEW t \in Threads, ReleaseKey(t) PROVE IInv'
  <2>1. /\ pc'[t] \in {"insert", "idle"}
        /\ \A u \in Threads \ {t} : pc'[u] = pc[u]
    BY <1>11, BusyStep DEF ReleaseKey
  <2> QED
    BY <1>11, <2>1 DEF ReleaseKey
<1>12. ASSUME NEW p \in Processes, Crash(p) PROVE IInv'
  BY <1>12, LockAssumption DEF Crash
<1>13. CASE ReplaceLockFile
  <2>1. path' = path + 1 /\ UNCHANGED <<pc, file, locked, rivals>>
    BY <1>13 DEF ReplaceLockFile
  <2>2. \A t \in Threads : file[t] <= path /\ file[t] \in Nat /\ path \in Nat
    BY ZenonT(30)
  <2>3. \A t \in Threads : file'[t] <= path' /\ file'[t] # path'
    BY <2>1, <2>2
  <2> QED
    BY <2>1, <2>3
<1>14. CASE UNCHANGED vars
  BY <1>14 DEF vars
<1> QED
  BY <1>1, <1>2, <1>4, <1>5, <1>6, <1>8, <1>9, <1>10, <1>11, <1>12, <1>13,
     <1>14
  DEF Next, Step

(* The invariant holds in every reachable state. *)
THEOREM LockInvariance == Spec => []IInv
BY InitInv, NextInv, PTL DEF Spec

(* The lock's variables keep their types. *)
THEOREM LockTypeCorrect == Spec => []TypeOK
<1>1. IInv => TypeOK
  BY DEF IInv
<1> QED
  BY <1>1, LockInvariance, PTL

(* At most one guard passes the identity validation. *)
LEMMA LiveGuardUnique == IInv => OneLiveGuard
BY LockExcludes DEF IInv, OneLiveGuard, Guarding, HasLock, SameFile

(* At most one guard passes the identity validation, in every state. *)
THEOREM GuardsExclude == Spec => []OneLiveGuard
BY LiveGuardUnique, LockInvariance, PTL

(* No two saves that are reported as done overlap. *)
THEOREM SavesSerial == Spec => ConfirmedSavesAreSerial
<1> DEFINE A == \A t \in Threads :
        pc[t] = "revalidate" /\ pc'[t] = "guard" => rivals[t] = {}
<1>1. ASSUME IInv, [Next]_vars PROVE [A]_vars
  <2> SUFFICES ASSUME NEW t \in Threads, Next,
                      pc[t] = "revalidate", pc'[t] = "guard"
               PROVE  rivals[t] = {}
    BY <1>1
  <2>0. pc \in [Threads -> PCs]
    BY <1>1 DEF IInv, TypeOK
  <2>1. ASSUME NEW u \in Threads,
               \/ AcquireMutationLock(u) \/ BeginSave(u) \/ DropGuard(u)
               \/ OpenLockFile(u)
        PROVE  FALSE
    BY <2>0, <2>1
    DEF Goto, AcquireMutationLock, BeginSave, DropGuard, OpenLockFile
  <2>2. ASSUME NEW u \in Threads,
               \/ TryLock(u) \/ ValidateLock(u) \/ WriteRecord(u)
               \/ UnlockFile(u)
        PROVE  FALSE
    BY <2>0, <2>2 DEF Goto, TryLock, ValidateLock, WriteRecord, UnlockFile
  <2>3. ASSUME NEW u \in Threads, InsertKey(u) \/ ReleaseKey(u)
        PROVE  FALSE
    <3>1. pc[u] # "revalidate"
      BY <2>3 DEF InsertKey, ReleaseKey
    <3>2. pc'[t] = pc[t]
      BY <2>0, <2>3, <3>1 DEF InsertKey, ReleaseKey, MutationBusy, Goto
    <3> QED
      BY <3>2
  <2>4. ASSUME NEW p \in Processes, Crash(p) PROVE FALSE
    BY <2>4 DEF Crash
  <2>5. ASSUME ReplaceLockFile PROVE FALSE
    BY SMTT(30), <2>5 DEF ReplaceLockFile
  <2>6. PICK u \in Threads : ConfirmSave(u)
    BY <2>1, <2>2, <2>3, <2>4, <2>5 DEF Next, Step
  <2>7. u = t
    BY <2>0, <2>6 DEF ConfirmSave, Confirm, Goto
  <2>8. SameFile(t)
    BY <2>0, <2>6, <2>7 DEF ConfirmSave, Goto
  <2> QED
    BY <1>1, <2>8 DEF IInv, SerialInv, Saving
<1> QED
  BY <1>1, LockInvariance, PTL DEF Spec, ConfirmedSavesAreSerial

(* Every step leaves each process key with the one thread that owns it. *)
LEMMA NextKeys ==
    ASSUME TypeOK, KeyHasOneOwner, [Next]_vars PROVE KeyHasOneOwner'
<1>1. ASSUME UNCHANGED keys, \A t \in Threads : Inside(t)' <=> Inside(t)
      PROVE  KeyHasOneOwner'
  BY <1>1 DEF KeyHasOneOwner
<1>2. ASSUME NEW t \in Threads,
             \/ AcquireMutationLock(t) \/ BeginSave(t) \/ DropGuard(t)
             \/ OpenLockFile(t) \/ TryLock(t) \/ ValidateLock(t)
             \/ WriteRecord(t) \/ UnlockFile(t)
      PROVE  KeyHasOneOwner'
  BY <1>1, <1>2
  DEF TypeOK, Inside, Goto, AcquireMutationLock, BeginSave, DropGuard,
      OpenLockFile, TryLock, ValidateLock, WriteRecord, UnlockFile
<1>3. ASSUME NEW t \in Threads, ConfirmSave(t) PROVE KeyHasOneOwner'
  BY <1>1, <1>3 DEF TypeOK, Inside, Goto, ConfirmSave, Confirm
<1>4. ASSUME NEW t \in Threads, InsertKey(t) PROVE KeyHasOneOwner'
  <2>1. CASE MutationBusy(t) /\ UNCHANGED keys
    <3>1. \A u \in Threads : Inside(u)' <=> Inside(u)
      BY <1>4, <2>1, BusyStep DEF Inside, InsertKey
    <3> QED
      BY <1>1, <2>1, <3>1
  <2>2. CASE /\ ProcessOf[t] \notin keys
             /\ keys' = keys \union {ProcessOf[t]}
             /\ Goto(t, "open")
    <3>1. /\ keys' = keys \union {ProcessOf[t]}
          /\ Inside(t)'
          /\ \A u \in Threads \ {t} : Inside(u)' <=> Inside(u)
      BY <1>4, <2>2 DEF InsertKey, Goto, TypeOK, Inside
    <3>2. \A u \in Threads \ {t} : Inside(u)' => ProcessOf[u] # ProcessOf[t]
      BY <2>2, <3>1 DEF KeyHasOneOwner
    <3> QED
      BY <3>1, <3>2 DEF KeyHasOneOwner
  <2> QED
    BY <1>4, <2>1, <2>2, ReturnIsBusy DEF InsertKey
<1>5. ASSUME NEW t \in Threads, ReleaseKey(t) PROVE KeyHasOneOwner'
  <2>1. Inside(t) /\ keys' = keys \ {ProcessOf[t]}
    BY <1>5 DEF ReleaseKey, Inside
  <2>2. ~Inside(t)' /\ \A u \in Threads \ {t} : Inside(u)' <=> Inside(u)
    BY <1>5, BusyStep DEF ReleaseKey, Goto, TypeOK, Inside
  <2>3. \A u \in Threads \ {t} : Inside(u) => ProcessOf[u] # ProcessOf[t]
    BY <2>1 DEF KeyHasOneOwner
  <2> QED
    BY <2>1, <2>2, <2>3 DEF KeyHasOneOwner
<1>6. ASSUME NEW p \in Processes, Crash(p) PROVE KeyHasOneOwner'
  <2>1. /\ keys' = keys \ {p}
        /\ \A u \in Threads : Inside(u)' <=> Inside(u) /\ ProcessOf[u] # p
    BY <1>6 DEF Crash, Inside
  <2> QED
    BY <2>1 DEF KeyHasOneOwner
<1>7. CASE ReplaceLockFile \/ UNCHANGED vars
  BY <1>1, <1>7 DEF ReplaceLockFile, vars, Inside
<1> QED
  BY <1>2, <1>3, <1>4, <1>5, <1>6, <1>7 DEF Next, Step

(* No early return, drop or crash leaves a process key behind or takes one *)
(* that another thread owns.                                               *)
THEOREM KeysOwned == Spec => []KeyHasOneOwner
<1>1. Init => KeyHasOneOwner
  BY DEF Init, KeyHasOneOwner, Inside
<1> QED
  BY <1>1, NextKeys, LockTypeCorrect, PTL DEF Spec

(* The holder is a thread whose guard is live, if there is one. *)
LEMMA HolderIsLive ==
    /\ LiveGuards = {} => Holder = NoThread
    /\ LiveGuards # {} => Holder \in LiveGuards
BY DEF Holder

(* A live guard that was not there before the step means that there was    *)
(* none: the lock is never handed from one thread to another in one step.  *)
LEMMA NoHandover ==
    ASSUME IInv, IInv', Next,
           NEW t \in LiveGuards, NEW u \in Threads, u \in LiveGuards'
    PROVE  t = u
<1>1. t \in Threads /\ Guarding(t) /\ SameFile(t)
  BY DEF LiveGuards
<1>2. Guarding(u)' /\ SameFile(u)'
  BY DEF LiveGuards
<1>3. CASE Guarding(u) /\ SameFile(u)
  BY <1>1, <1>3, LiveGuardUnique DEF OneLiveGuard
<1>4. CASE ~(Guarding(u) /\ SameFile(u))
  <2>1. ASSUME ReplaceLockFile PROVE FALSE
    <3>1. path' = path + 1 /\ file'[u] = file[u] /\ Guarding(u)
      BY <1>2, <2>1 DEF ReplaceLockFile, Guarding
    <3>2. file[u] <= path /\ file[u] \in Nat /\ path \in Nat
      BY SMTT(30), LockAssumption DEF IInv, TypeOK, Files, FileInv
    <3> QED
      BY <1>2, <3>1, <3>2 DEF SameFile
  <2>2. ASSUME NEW p \in Processes, Crash(p) PROVE FALSE
    BY SMTT(30), <1>2, <1>4, <2>2 DEF Crash, Guarding, SameFile
  <2>3. ASSUME NEW v \in Threads,
               \/ AcquireMutationLock(v) \/ BeginSave(v) \/ DropGuard(v)
               \/ WriteRecord(v) \/ UnlockFile(v) \/ TryLock(v)
               \/ OpenLockFile(v)
        PROVE  FALSE
    BY SMTT(30), <1>2, <1>4, <2>3
    DEF IInv, TypeOK, Goto, Guarding, SameFile, AcquireMutationLock, BeginSave,
        DropGuard, WriteRecord, UnlockFile, TryLock, OpenLockFile
  <2>4. ASSUME NEW v \in Threads, InsertKey(v) \/ ReleaseKey(v)
        PROVE  FALSE
    <3>1. /\ pc'[v] \in {"insert", "idle", "open"}
          /\ \A w \in Threads \ {v} : pc'[w] = pc[w] /\ file'[w] = file[w]
          /\ UNCHANGED path
      <4>1. CASE InsertKey(v) /\ Goto(v, "open")
        BY <4>1 DEF IInv, TypeOK, InsertKey, Goto
      <4>2. CASE InsertKey(v) /\ MutationBusy(v)
        BY <4>2, BusyStep DEF IInv, InsertKey
      <4>3. CASE ReleaseKey(v)
        BY <4>3, BusyStep DEF IInv, TypeOK, ReleaseKey, Goto
      <4> QED
        BY SMTT(30), <2>4, <4>1, <4>2, <4>3, ReturnIsBusy DEF InsertKey
    <3> QED
      BY SMTT(30), <1>2, <1>4, <3>1 DEF Guarding, SameFile
  <2>5. ASSUME NEW v \in Threads, ConfirmSave(v)
        PROVE  FALSE
    BY <1>2, <1>4, <2>5
    DEF IInv, TypeOK, Goto, Guarding, SameFile, ConfirmSave, Confirm
  <2>6. PICK v \in Threads : ValidateLock(v)
    BY <2>1, <2>2, <2>3, <2>4, <2>5 DEF Next, Step
  <2>7. v = u
    BY <1>2, <1>4, <2>6 DEF IInv, TypeOK, Goto, Guarding, SameFile, ValidateLock
  <2>8. HasLock(t) /\ HasLock(u) /\ file[t] = file[u]
    BY <1>1, <1>2, <2>6, <2>7 DEF ValidateLock, HasLock, Guarding, SameFile
  <2> QED
    BY <1>1, <2>8, LockExcludes DEF IInv
<1> QED
  BY <1>3, <1>4

(* The lock implements the mutex its callers assume. *)
THEOREM LockIsMutex == Spec => ImplementsMutex
<1>1. Init => Abstract!Init
  BY HolderIsLive DEF Init, Abstract!Init, LiveGuards, Guarding
<1>2. ASSUME IInv, IInv', [Next]_vars PROVE [Abstract!Next]_Holder
  <2>1. CASE UNCHANGED vars
    BY <2>1 DEF vars, Holder, LiveGuards, Guarding, SameFile
  <2>2. CASE Next
    <3>1. Holder = NoThread \/ Holder \in LiveGuards
      BY HolderIsLive
    <3>2. Holder' = NoThread \/ (Holder' \in LiveGuards' /\ Holder' \in Threads)
      BY DEF Holder, LiveGuards
    <3>3. CASE Holder = NoThread
      BY <3>2, <3>3 DEF Abstract!Next, Abstract!Grant
    <3>4. CASE Holder \in LiveGuards
      <4>1. Holder # NoThread
        BY <3>4, LockAssumption DEF LiveGuards
      <4>2. CASE Holder' = NoThread
        BY <4>1, <4>2 DEF Abstract!Next, Abstract!Lose
      <4>3. CASE Holder' \in LiveGuards' /\ Holder' \in Threads
        BY <1>2, <2>2, <3>4, <4>3, NoHandover
      <4> QED
        BY <3>2, <4>2, <4>3
    <3> QED
      BY <3>1, <3>3, <3>4
  <2> QED
    BY <1>2, <2>1, <2>2
<1> QED
  BY <1>1, <1>2, LockInvariance, PTL DEF Spec, ImplementsMutex, Abstract!Spec
====
