---- MODULE MCMutationLock ----
(***************************************************************************)
(* Instances of MutationLock: two threads of one process and one of        *)
(* another.                                                                *)
(***************************************************************************)
EXTENDS MutationLock

CONSTANTS t1, t2, t3, p1, p2

MCThreads == {t1, t2, t3}

MCProcesses == {p1, p2}

MCProcessOf == [t \in MCThreads |-> IF t = t3 THEN p2 ELSE p1]
====
