----------------------------- MODULE StateFiles ------------------------------
(***************************************************************************)
(* The files of the state store, on Unix.  One writer, which holds the     *)
(* mutation lock, replaces records by writing a temporary, syncing it,     *)
(* renaming it and syncing the directory.  Readers take no lock: they list *)
(* a directory, open a file, check that its path still names it, and read. *)
(* The writer may be killed between any two steps, and the machine may     *)
(* lose its power; then every file has what was synced, or anything, and   *)
(* every name what was synced or a later value.                            *)
(***************************************************************************)
EXTENDS Naturals, Sequences, FiniteSets

CONSTANTS
  Records,       \* the records in use, of those below
  MaxWrites,     \* bound on writes and removals
  MaxCrashes,    \* bound on kills of the writer
  MaxPowerLoss,  \* bound on power losses
  None           \* no error

AllRecords == {"image", "cell", "op", "file", "manifest"}

ASSUME StateFilesAssumption ==
  /\ Records \subseteq AllRecords
  /\ {MaxWrites, MaxCrashes, MaxPowerLoss} \subseteq Nat
  /\ None \notin {"NotFound", "UnsafeRuntimePath", "Json", "Integrity"}

VARIABLES
  dir,      \* record -> the last write its name shows, 0 when never written
  synced,   \* the same, as it is on the disk
  label,    \* write -> "file", "final" (an operation with an artifact) or "gone"
  data,     \* write -> "part" or "whole"
  safe,     \* write -> its data is on the disk
  writes,   \* writes so far
  acked,    \* record -> the last write that was reported as done
  w,        \* the writer: what it does, to which record, as which write
  rd,       \* the reader
  crashes, powers

files == <<dir, synced, label, data, safe, writes, acked>>
vars  == <<files, w, rd, crashes, powers>>

Writes == 1 .. MaxWrites
Idle   == [pc |-> "idle", rec |-> "cell", n |-> 0]

Exists(r) == dir[r] # 0 /\ label[dir[r]] # "gone"

-----------------------------------------------------------------------------
(***************************************************************************)
(* The writer                                                              *)
(***************************************************************************)

\* What has to be there: the cell for its operation, the operation for its
\* files, the files for the manifest that names them.
Needs(r) ==
  CASE r = "op" -> {"cell"} [] r = "file" -> {"op"} [] r = "manifest" -> {"op", "file"} [] OTHER -> {}

\* An operation is only begun on a cell that was started, which takes saves of
\* the cell that were reported.  Images, artifact files and manifests
\* are only ever written new.
OnlyNew == {"image", "file", "manifest"}

\* Mutant: the record is written where it stands.
MutantCreateTemporary(r) ==
  /\ w.pc = "idle" /\ writes < MaxWrites
  /\ \A p \in Needs(r) : Exists(p)
  /\ r = "op" => acked["cell"] # 0
  /\ r \in OnlyNew => ~Exists(r)
  /\ writes' = writes + 1
  /\ dir' = [dir EXCEPT ![r] = writes + 1]
  /\ w' = [pc |-> "write", rec |-> r, n |-> writes + 1]
  /\ UNCHANGED <<synced, label, data, safe, acked, rd, crashes, powers>>

CreateTemporary(r) ==
  /\ w.pc = "idle" /\ writes < MaxWrites
  /\ \A p \in Needs(r) : Exists(p)
  /\ r = "op" => acked["cell"] # 0
  /\ r \in OnlyNew => ~Exists(r)
  /\ writes' = writes + 1
  /\ label' = [label EXCEPT ![writes + 1] = IF r = "op" /\ Exists("manifest") THEN "final" ELSE "file"]
  /\ data' = [data EXCEPT ![writes + 1] = "part"]
  /\ w' = [pc |-> "write", rec |-> r, n |-> writes + 1]
  /\ UNCHANGED <<dir, synced, safe, acked, rd, crashes, powers>>

WriteAll ==
  /\ w.pc = "write"
  /\ data' = [data EXCEPT ![w.n] = "whole"]
  /\ w' = [w EXCEPT !.pc = "sync"]
  /\ UNCHANGED <<dir, synced, label, safe, writes, acked, rd, crashes, powers>>

SyncTemporary ==
  /\ w.pc = "sync"
  /\ safe' = [safe EXCEPT ![w.n] = TRUE]
  /\ w' = [w EXCEPT !.pc = "rename"]
  /\ UNCHANGED <<dir, synced, label, data, writes, acked, rd, crashes, powers>>

\* Readers from here on find the new record.
Rename ==
  /\ w.pc = "rename"
  /\ dir' = [dir EXCEPT ![w.rec] = w.n]
  /\ w' = [w EXCEPT !.pc = "syncdir"]
  /\ rd' = [rd EXCEPT !.moved = @ \cup {w.rec}]
  /\ UNCHANGED <<synced, label, data, safe, writes, acked, crashes, powers>>

\* Mutant: no directory is synced.
SyncsNoDirectory == {}

\* write_json_atomic syncs the directory of the record, write_bytes_new_atomic does not.
SyncsDirectory == {"image", "cell", "op", "manifest"}

SyncDirectory ==
  /\ w.pc = "syncdir"
  /\ synced' = IF w.rec \in SyncsDirectory THEN [synced EXCEPT ![w.rec] = dir[w.rec]] ELSE synced
  /\ acked' = [acked EXCEPT ![w.rec] = w.n]
  /\ w' = Idle
  /\ UNCHANGED <<dir, label, data, safe, writes, rd, crashes, powers>>

\* A step fails: the temporary is removed and the error returned.  What was
\* renamed already stays, although the caller is told that the write failed.
WriteFails ==
  /\ w.pc \in {"write", "sync", "rename", "syncdir"}
  /\ w' = Idle
  /\ UNCHANGED <<files, rd, crashes, powers>>

\* remove_image_record: the record's name goes, then the directory is synced.
RetireImage ==
  /\ w.pc = "idle" /\ writes < MaxWrites /\ Exists("image")
  /\ writes' = writes + 1
  /\ label' = [label EXCEPT ![writes + 1] = "gone"]
  /\ data' = [data EXCEPT ![writes + 1] = "whole"]
  /\ safe' = [safe EXCEPT ![writes + 1] = TRUE]
  /\ dir' = [dir EXCEPT !["image"] = writes + 1]
  /\ w' = [pc |-> "syncdir", rec |-> "image", n |-> writes + 1]
  /\ rd' = [rd EXCEPT !.moved = @ \cup {"image"}]
  /\ UNCHANGED <<synced, acked, crashes, powers>>

-----------------------------------------------------------------------------
(***************************************************************************)
(* A reader: state check                                                   *)
(***************************************************************************)

\* Images, cells, operations; then the parent of the operation; then its
\* artifact: manifest, operation again, files.
Order == <<"image", "cell", "op", "cell", "manifest", "op", "file">>

\* since and moved are history: the writes that were reported before the read
\* began, and the records whose name was given to another file during it.
Resting == [pc |-> "idle", at |-> 1, n |-> 0, got |-> [r \in AllRecords |-> 0], err |-> None,
            since |-> [r \in AllRecords |-> 0], moved |-> {}]

Read(f) == rd' = f /\ UNCHANGED <<files, w, crashes, powers>>

Refuse(why) == Read([rd EXCEPT !.pc = "done", !.err = why])

Begin ==
  /\ rd.pc \in {"idle", "done"}
  /\ Read([Resting EXCEPT !.pc = "list", !.since = acked])

\* Whether the next item is read at all: a parent only for an operation, an
\* artifact only for an operation that has one.
Wanted ==
  /\ rd.at >= 4 => rd.got["op"] # 0
  /\ rd.at >= 5 => label[rd.got["op"]] = "final"

\* The cell of an operation has to be among the cells that were listed first.
Complete ==
  IF rd.got["op"] # 0 /\ rd.got["cell"] = 0 THEN Refuse("Integrity")
                                            ELSE Read([rd EXCEPT !.pc = "done"])

\* read_json_directory lists only what is there.
List ==
  /\ rd.pc = "list"
  /\ CASE rd.at > Len(Order) -> Complete
       [] rd.at <= Len(Order) /\ ~Wanted -> Complete
       [] OTHER ->
            Read(IF rd.at <= 3 /\ ~Exists(Order[rd.at]) THEN [rd EXCEPT !.at = @ + 1]
                                                        ELSE [rd EXCEPT !.pc = "open"])

OpenStateFile ==
  /\ rd.pc = "open"
  /\ IF Exists(Order[rd.at])
     THEN Read([rd EXCEPT !.pc = "identify", !.n = dir[Order[rd.at]]])
     ELSE Refuse("NotFound")

\* validate_open_path_identity
Identify ==
  /\ rd.pc = "identify"
  /\ IF dir[Order[rd.at]] = rd.n THEN Read([rd EXCEPT !.pc = "read"]) ELSE Refuse("UnsafeRuntimePath")

\* A parent that is read again does not replace what was listed.
ReadJson ==
  /\ rd.pc = "read"
  /\ IF data[rd.n] = "whole"
     THEN Read([rd EXCEPT !.pc = "list", !.at = @ + 1,
                          !.got[Order[rd.at]] = IF rd.at \in {4, 6} THEN @ ELSE rd.n])
     ELSE Refuse("Json")

-----------------------------------------------------------------------------
(***************************************************************************)
(* Faults                                                                  *)
(***************************************************************************)

KillWriter ==
  /\ w.pc # "idle" /\ crashes < MaxCrashes
  /\ crashes' = crashes + 1 /\ w' = Idle
  /\ UNCHANGED <<files, rd, powers>>

\* Names that were not synced may be lost, each for itself; data that was not
\* synced may be incomplete.
PowerLoss ==
  /\ powers < MaxPowerLoss
  /\ \E lost \in SUBSET {r \in AllRecords : dir[r] # synced[r]},
        torn \in SUBSET {n \in Writes : n <= writes /\ ~safe[n]} :
       /\ dir' = [r \in AllRecords |-> IF r \in lost THEN synced[r] ELSE dir[r]]
       /\ data' = [n \in Writes |-> IF n \in torn THEN "part" ELSE data[n]]
  /\ synced' = dir' /\ safe' = [n \in Writes |-> n <= writes]
  /\ w' = Idle /\ rd' = Resting /\ powers' = powers + 1
  /\ UNCHANGED <<label, writes, acked, crashes>>

Init ==
  /\ dir = [r \in AllRecords |-> 0] /\ synced = dir /\ acked = dir
  /\ label = [n \in Writes |-> "file"] /\ data = [n \in Writes |-> "part"]
  /\ safe = [n \in Writes |-> FALSE] /\ writes = 0
  /\ w = Idle /\ rd = Resting /\ crashes = 0 /\ powers = 0

Next ==
  \/ \E r \in Records : CreateTemporary(r)
  \/ WriteAll \/ SyncTemporary \/ Rename \/ SyncDirectory \/ WriteFails \/ RetireImage
  \/ Begin \/ List \/ OpenStateFile \/ Identify \/ ReadJson
  \/ KillWriter \/ PowerLoss

Spec == Init /\ [][Next]_vars

-----------------------------------------------------------------------------
(***************************************************************************)
(* Properties                                                              *)
(***************************************************************************)

\* Every variable has its type; no name shows a write that was not begun.
TypeOK ==
  /\ dir \in [AllRecords -> 0 .. writes] /\ synced \in [AllRecords -> 0 .. writes]
  /\ label \in [Writes -> {"file", "final", "gone"}] /\ data \in [Writes -> {"part", "whole"}]
  /\ safe \in [Writes -> BOOLEAN] /\ writes \in 0 .. MaxWrites
  /\ acked \in [AllRecords -> 0 .. writes]
  /\ w.pc \in {"idle", "write", "sync", "rename", "syncdir"} /\ w.rec \in AllRecords
  /\ rd.pc \in {"idle", "list", "open", "identify", "read", "done"}
  /\ rd.err \in {None, "NotFound", "UnsafeRuntimePath", "Json", "Integrity"}

\* No reader ever finds a record half written, whether the writer is at work,
\* was killed, or lost the machine's power (write_json_atomic).
ReadsWhole == rd.err # "Json"

\* A write that was reported as done survives everything that follows: no crash
\* and no power loss brings an older record, or a retired image, back.
ReportedIsDurable ==
  \A r \in AllRecords \ {"file"} : dir[r] >= acked[r] /\ synced[r] >= acked[r]

\* What a record depends on is never lost before the record itself: an
\* operation always has its cell, whatever the power loss took.
ParentsSurvive == Exists("op") => Exists("cell")

\* A check of the state is exact, although it takes no lock.  When it refuses,
\* then not because of a record it found half written, but because the writer
\* gave the very record's name to another file during the read
\* (validate_open_path_identity, open_state_file), or wrote the cell after the
\* cells were listed: kills and power losses leave nothing it refuses, and
\* neither do writes to other records.  When it accepts, it has read every
\* record that was reported as written before it began, or a later one, except
\* for an image that has been retired since.
CheckIsExact ==
  /\ ReadsWhole
  /\ rd.err \in {"NotFound", "UnsafeRuntimePath"} => Order[rd.at] \in rd.moved
  /\ rd.err = "Integrity" => "cell" \in rd.moved
  /\ rd.pc = "done" /\ rd.err = None =>
       \A r \in {"image", "cell", "op"} :
         \/ rd.got[r] >= rd.since[r]
         \/ r = "image" /\ \E n \in Writes : n >= rd.since[r] /\ label[n] = "gone"
=============================================================================
