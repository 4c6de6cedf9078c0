---- MODULE Mutex ----
(***************************************************************************)
(* What the callers of the mutation lock rely on: at any time one thread   *)
(* at most holds it, it is handed out only when nobody does, and it can be *)
(* lost (given back, or taken away by a crash or by a replaced lock file)  *)
(* at any moment.                                                          *)
(***************************************************************************)
CONSTANTS Threads, NoThread

VARIABLE holder

Init == holder = NoThread

Grant(t) == holder = NoThread /\ holder' = t

Lose == holder # NoThread /\ holder' = NoThread

Next == Lose \/ \E t \in Threads : Grant(t)

Spec == Init /\ [][Next]_holder
====
