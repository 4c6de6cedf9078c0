------------------------------ MODULE MCStore -------------------------------
(***************************************************************************)
(* The state root and the image registry in it, on small instances.  A     *)
(* behaviour is one of two: a writer and a reader of the record files,     *)
(* with kills and power losses between the file system's steps, or         *)
(* commands that register, unregister and use images while a user works on *)
(* the base files.  part says which; the other rests.                      *)
(***************************************************************************)
EXTENDS Store, TLC

VARIABLE part   \* "files" or "images"

\* An image, a cell and an operation: rewritten, written once, and retired.
Manifests == {"image", "cell", "op"}

Base == [hash |-> 1, size |-> 1, format |-> "qcow2", type |-> "base", parent |-> FALSE]

\* A base, another of its size, an overlay and a file of another format.
MCContents == {Base, [Base EXCEPT !.hash = 2],
               [Base EXCEPT !.hash = 3, !.size = 2, !.type = "overlay"],
               [Base EXCEPT !.hash = 4, !.format = "other"]}

MCExtension == [f \in Files |-> "qcow2"]

MCInit ==
  /\ part \in {"files", "images"}
  /\ \/ part = "images"
     \/ /\ part = "files" /\ platform = "linux" /\ disk = [n \in Inodes |-> Base]
        /\ path = CHOOSE p \in [Files -> Inodes] : TRUE
  /\ Init /\ Registry!Init

MCNext ==
  \/ part = "files" /\ Next /\ UNCHANGED <<part, registry_vars>>
  \/ part = "images" /\ Registry!Next /\ UNCHANGED <<part, vars>>

MCSpec == MCInit /\ [][MCNext]_<<part, vars, registry_vars>>

Symmetry == Permutations(Processes) \cup Permutations(Cells) \cup Permutations(Inodes)
=============================================================================
