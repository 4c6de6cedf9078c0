--------------------------- MODULE StoreProofs --------------------------
(***************************************************************************)
(* The files of the state root, for any number of writes, kills and power  *)
(* losses: what was reported as done survives, no reader finds a           *)
(* half-written record, an operation keeps its cell, and a check of the    *)
(* state refuses only what the writer moved under it and misses nothing.   *)
(* Then the image registry, for any images, cells, files, contents and     *)
(* processes: cells keep their images, and an accepted overlay comes from  *)
(* the registered content.                                                 *)
(*                                                                         *)
(* The inductive invariant of the files: whatever a name shows, now or on  *)
(* the disk, is whole and on the disk, and the disk is never ahead of what *)
(* is shown (Named); the writer works on the newest write and is as far    *)
(* with its data as its step says (Writer); what was reported is on the    *)
(* disk (Reported); an operation is only begun after a reported save of    *)
(* its cell (Parent); and what a reader holds is whole (Reader).  Checks   *)
(* of the state need CheckInv on top of it: what a reader has found and    *)
(* nobody has moved is still there (Found), and what it has passed is as   *)
(* new as what was reported when it began (Current).  The invariant of the *)
(* registry is RegistryInv of ImageRegistry.                               *)
(***************************************************************************)
EXTENDS Store, TLAPS

WriterType == [pc : {"idle", "write", "sync", "rename", "syncdir"}, rec : AllRecords, n : Nat]

ReaderType ==
  [pc : {"idle", "list", "open", "identify", "read", "done"}, at : 1 .. 8, n : Nat,
   got : [AllRecords -> Nat], err : {None, "NotFound", "UnsafeRuntimePath", "Json", "Integrity"},
   since : [AllRecords -> Nat], moved : SUBSET AllRecords]

\* The write n, which the name of r shows, if it is one.
Shown(r, n) == n # 0 => data[n] = "whole" /\ safe[n] /\ (r # "image" => label[n] # "gone")

Named ==
  \A r \in AllRecords : Shown(r, dir[r]) /\ Shown(r, synced[r]) /\ synced[r] <= dir[r]

Writer ==
  w.pc # "idle" =>
    /\ w.n = writes /\ w.n # 0
    /\ w.pc # "write" => data[w.n] = "whole"
    /\ w.pc \in {"rename", "syncdir"} => safe[w.n]
    /\ w.pc = "syncdir" => dir[w.rec] = w.n
    /\ w.rec # "image" => label[w.n] # "gone"

Reported == \A r \in AllRecords \ {"file"} : acked[r] <= synced[r]

Parent ==
  dir["op"] # 0 \/ synced["op"] # 0 \/ (w.pc # "idle" /\ w.rec = "op") => acked["cell"] # 0

Reader ==
  /\ rd.pc \in {"open", "identify", "read"} => rd.at \in 1 .. 7
  /\ rd.pc \in {"identify", "read"} => rd.n \in 1 .. writes /\ data[rd.n] = "whole"
  /\ rd.err # "Json"

IInv ==
  /\ TypeOK /\ w \in WriterType /\ rd \in ReaderType
  /\ Named /\ Writer /\ Reported /\ Parent /\ Reader

-----------------------------------------------------------------------------
(***************************************************************************)
(* The reader                                                              *)
(***************************************************************************)

\* A step of the reader changes nothing but the reader.
LEMMA ReadKeeps ==
  ASSUME IInv, UNCHANGED <<files, w, crashes, powers>>, rd' \in ReaderType, Reader'
  PROVE  IInv'
<1>1. UNCHANGED <<dir, synced, label, data, safe, writes, acked, w>>
  BY Zenon DEF files
<1>2. TypeOK'
  BY <1>1, Zenon DEF IInv, TypeOK, ReaderType
<1>3. Named' /\ Writer' /\ Reported' /\ Parent'
  BY <1>1, Zenon DEF IInv, Named, Shown, Writer, Reported, Parent
<1>. QED  BY <1>1, <1>2, <1>3, Zenon DEF IInv

\* Refuse ends the reading with an error that is not about the text.
LEMMA RefuseKeeps ==
  ASSUME IInv, NEW why \in {"NotFound", "UnsafeRuntimePath", "Integrity"}, Refuse(why)
  PROVE  IInv'
<1>1. rd' = [rd EXCEPT !.pc = "done", !.err = why] /\ UNCHANGED <<files, w, crashes, powers>>
  BY Zenon DEF Refuse, Read
<1>2. rd' \in ReaderType /\ rd'.pc = "done" /\ rd'.err = why
  BY <1>1, ZenonT(30) DEF IInv, ReaderType
<1>3. Reader'
  BY <1>2, Zenon DEF Reader
<1>. QED  BY <1>1, <1>2, <1>3, ReadKeeps, Zenon

\* Begin, List, OpenStateFile and Identify read no data.
LEMMA SeekKeeps ==
  ASSUME IInv, Begin \/ List \/ OpenStateFile \/ Identify
  PROVE  IInv'
<1> DEFINE Quiet(f) == /\ f \in ReaderType /\ (f.pc = "open" => f.at \in 1 .. 7)
                       /\ f.pc \in {"list", "open", "done"} /\ f.err # "Json"
<1>0. rd \in ReaderType /\ rd.err # "Json"
  BY Zenon DEF IInv, Reader
<1>1. ASSUME NEW f, Quiet(f), Read(f) PROVE IInv'
  <2>1. rd' = f /\ UNCHANGED <<files, w, crashes, powers>>
    BY <1>1, Zenon DEF Read
  <2>2. Reader'
    BY <1>1, <2>1, Zenon DEF Reader
  <2>. QED  BY <1>1, <2>1, <2>2, ReadKeeps, Zenon
<1>2. CASE Begin
  <2> DEFINE f == [Resting EXCEPT !.pc = "list", !.since = acked]
  <2>1. acked \in [AllRecords -> Nat] /\ None # "Json"
    BY StateFilesAssumption DEF IInv, TypeOK
  <2>2. Resting \in ReaderType /\ Resting.err = None
    BY DEF Resting, ReaderType
  <2>3. f \in ReaderType /\ f.pc = "list" /\ f.err = None
    BY <2>1, <2>2, ZenonT(30) DEF ReaderType
  <2>. QED  BY <1>1, <1>2, <2>1, <2>3, ZenonT(30) DEF Begin
<1>3. CASE List
  <2>1. CASE Complete
    <3>1. CASE Refuse("Integrity")
      BY <3>1, RefuseKeeps, Zenon
    <3>2. CASE Read([rd EXCEPT !.pc = "done"])
      <4>1. Quiet([rd EXCEPT !.pc = "done"])
        BY <1>0, Zenon DEF ReaderType
      <4>. QED  BY <1>1, <3>2, <4>1, ZenonT(30)
    <3>. QED  BY <2>1, <3>1, <3>2, Zenon DEF Complete
  <2>2. CASE rd.at <= Len(Order) /\ Read([rd EXCEPT !.pc = "open"])
    <3>1. Quiet([rd EXCEPT !.pc = "open"])
      BY <1>0, <2>2 DEF ReaderType, Order
    <3>. QED  BY <1>1, <2>2, <3>1, ZenonT(30)
  <2>3. CASE rd.pc = "list" /\ rd.at <= 3 /\ Read([rd EXCEPT !.at = @ + 1])
    <3>1. Quiet([rd EXCEPT !.at = @ + 1])
      BY <1>0, <2>3 DEF ReaderType
    <3>. QED  BY <1>1, <2>3, <3>1, ZenonT(30)
  <2>4. rd.at \in 1 .. 8 /\ Len(Order) = 7
    BY <1>0, Zenon DEF ReaderType, Order
  <2>. QED  BY <1>3, <2>1, <2>2, <2>3, <2>4 DEF List
<1>4. CASE OpenStateFile
  <2>1. CASE rd.pc = "open" /\ Exists(Order[rd.at]) /\ Read([rd EXCEPT !.pc = "identify", !.n = dir[Order[rd.at]]])
    <3>1. rd.at \in 1 .. 7
      BY <2>1, Zenon DEF IInv, Reader
    <3>2. Order[rd.at] \in AllRecords
      BY <3>1 DEF Order, AllRecords
    <3>3. dir[Order[rd.at]] \in 1 .. writes /\ dir[Order[rd.at]] \in Nat /\ data[dir[Order[rd.at]]] = "whole"
      BY <2>1, <3>2 DEF IInv, TypeOK, Exists, Named, Shown
    <3>4. rd' = [rd EXCEPT !.pc = "identify", !.n = dir[Order[rd.at]]] /\ UNCHANGED <<files, w, crashes, powers>>
      BY <2>1, Zenon DEF Read
    <3>5. rd' \in ReaderType /\ rd'.at = rd.at /\ rd'.n = dir[Order[rd.at]] /\ rd'.err = rd.err /\ rd'.pc = "identify"
      BY <1>0, <3>3, <3>4, ZenonT(30) DEF ReaderType
    <3>6. Reader'
      BY <1>0, <3>1, <3>3, <3>4, <3>5, Zenon DEF Reader, files
    <3>. QED  BY <3>4, <3>5, <3>6, ReadKeeps, Zenon
  <2>. QED  BY <1>4, <2>1, RefuseKeeps, Zenon DEF OpenStateFile
<1>5. CASE Identify
  <2>1. CASE rd.pc = "identify" /\ Read([rd EXCEPT !.pc = "read"])
    <3>1. rd' = [rd EXCEPT !.pc = "read"] /\ UNCHANGED <<files, w, crashes, powers>>
      BY <2>1, Zenon DEF Read
    <3>2. rd' \in ReaderType /\ rd'.at = rd.at /\ rd'.n = rd.n /\ rd'.err = rd.err
      BY <1>0, <3>1, Zenon DEF ReaderType
    <3>3. Reader'
      BY <2>1, <3>1, <3>2, Zenon DEF IInv, Reader, files
    <3>. QED  BY <3>1, <3>2, <3>3, ReadKeeps, Zenon
  <2>. QED  BY <1>5, <2>1, RefuseKeeps, Zenon DEF Identify
<1>. QED  BY <1>2, <1>3, <1>4, <1>5, Zenon

\* What is read is whole, so it is never refused as half written.
LEMMA ReadJsonKeeps ==
  ASSUME IInv, ReadJson
  PROVE  IInv'
<1>1. rd \in ReaderType /\ rd.at \in 1 .. 7 /\ rd.n \in 1 .. writes /\ data[rd.n] = "whole" /\ rd.err # "Json"
  BY Zenon DEF IInv, Reader, ReadJson
<1>2. Order[rd.at] \in AllRecords
  BY <1>1 DEF Order, AllRecords
<1>3. /\ rd' = [rd EXCEPT !.pc = "list", !.at = @ + 1,
                          !.got[Order[rd.at]] = IF rd.at \in {4, 6} THEN @ ELSE rd.n]
      /\ UNCHANGED <<files, w, crashes, powers>>
  BY <1>1, Zenon DEF ReadJson, Read
<1>4. rd' \in ReaderType /\ rd'.pc = "list" /\ rd'.err = rd.err
  <2> DEFINE o == Order[rd.at]
             g == [rd.got EXCEPT ![o] = IF rd.at \in {4, 6} THEN @ ELSE rd.n]
  <2>1. o \in AllRecords /\ rd.n \in Nat /\ rd.at + 1 \in 1 .. 8 /\ rd.got \in [AllRecords -> Nat]
    BY <1>1, <1>2 DEF ReaderType
  <2>2. g \in [AllRecords -> Nat]
    BY <2>1, Zenon
  <2>3. rd' = [rd EXCEPT !.pc = "list", !.at = rd.at + 1, !.got = g]
    BY <1>1, <1>3, Zenon DEF ReaderType
  <2> HIDE DEF g
  <2>. QED  BY <1>1, <2>1, <2>2, <2>3, ZenonT(30) DEF ReaderType
<1>5. Reader'
  BY <1>1, <1>4, Zenon DEF Reader
<1>. QED  BY <1>3, <1>4, <1>5, ReadKeeps, Zenon


-----------------------------------------------------------------------------
(***************************************************************************)
(* The writer                                                              *)
(***************************************************************************)

\* What a name shows was begun before.
LEMMA ShownIsOld ==
  ASSUME IInv, NEW r \in AllRecords
  PROVE  /\ dir[r] \in Nat /\ synced[r] \in Nat /\ acked[r] \in Nat /\ writes \in Nat
         /\ dir[r] <= writes /\ synced[r] <= writes /\ acked[r] <= writes
  BY StateFilesAssumption DEF IInv, TypeOK

\* A reader under which a name is moved is still the reader it was.
LEMMA MovedReader ==
  ASSUME rd \in ReaderType, NEW r \in AllRecords, rd' = [rd EXCEPT !.moved = @ \cup {r}]
  PROVE  /\ rd' \in ReaderType /\ rd'.pc = rd.pc /\ rd'.at = rd.at /\ rd'.n = rd.n /\ rd'.err = rd.err
         /\ rd'.got = rd.got /\ rd'.since = rd.since /\ rd'.moved = rd.moved \cup {r}
  BY ZenonT(30) DEF ReaderType

\* A temporary is a new write, which no name shows yet.
LEMMA CreateKeeps ==
  ASSUME IInv, NEW r \in Records, CreateTemporary(r)
  PROVE  IInv'
<1> DEFINE m == writes + 1
<1>1. /\ r \in AllRecords /\ writes \in Nat /\ MaxWrites \in Nat /\ writes < MaxWrites /\ m \in Writes /\ m \in Nat
      /\ m # 0
  BY StateFilesAssumption DEF CreateTemporary, IInv, TypeOK, Writes
<1>2. /\ UNCHANGED <<dir, synced, safe, acked, rd, crashes, powers>>
      /\ writes' = m /\ w' = [pc |-> "write", rec |-> r, n |-> m]
      /\ (r = "op" => acked["cell"] # 0)
      /\ \E l \in {"final", "file"} : label' = [label EXCEPT ![m] = l]
      /\ data' = [data EXCEPT ![m] = "part"]
  BY ZenonT(30) DEF CreateTemporary
<1>3. w' \in WriterType /\ w'.pc = "write" /\ w'.rec = r /\ w'.n = m
  BY <1>1, <1>2, Zenon DEF WriterType
<1>4. /\ label' \in [Writes -> {"file", "final", "gone"}] /\ data' \in [Writes -> {"part", "whole"}]
      /\ label'[m] # "gone" /\ \A n \in Nat : n <= writes /\ n # 0 => label'[n] = label[n] /\ data'[n] = data[n]
  BY <1>1, <1>2 DEF IInv, TypeOK, Writes
<1>5. /\ dir \in [AllRecords -> 0 .. m] /\ synced \in [AllRecords -> 0 .. m] /\ acked \in [AllRecords -> 0 .. m]
      /\ m \in 0 .. MaxWrites
  BY <1>1 DEF IInv, TypeOK
<1> HIDE DEF m
<1>6. TypeOK'
  BY <1>2, <1>3, <1>4, <1>5, Zenon DEF IInv, TypeOK, WriterType
<1>7. Named'
  BY <1>2, <1>4, ShownIsOld DEF IInv, Named, Shown
<1>8. Writer' /\ Reported'
  BY <1>1, <1>2, <1>3, <1>4, Zenon DEF IInv, Writer, Reported
<1>9. Parent'
  BY <1>2, <1>3, Zenon DEF IInv, Parent
<1>10. Reader'
  <2>1. CASE rd.pc \in {"identify", "read"}
    <3>1. rd.n \in 1 .. writes /\ data[rd.n] = "whole"
      BY <2>1, Zenon DEF IInv, Reader
    <3>2. data'[rd.n] = "whole" /\ rd.n \in 1 .. m
      BY <1>1, <1>4, <3>1 DEF m
    <3>. QED  BY <1>2, <3>2, Zenon DEF IInv, Reader
  <2>2. CASE rd.pc \notin {"identify", "read"}
    BY <1>2, <2>2, Zenon DEF IInv, Reader
  <2>. QED  BY <2>1, <2>2, Zenon
<1>. QED  BY <1>2, <1>3, <1>6, <1>7, <1>8, <1>9, <1>10, Zenon DEF IInv

\* Writing and syncing the temporary make data whole and safe, never less.
LEMMA FillKeeps ==
  ASSUME IInv, WriteAll \/ SyncTemporary
  PROVE  IInv'
<1>1. /\ UNCHANGED <<dir, synced, label, writes, acked, rd, crashes, powers>> /\ w.pc \in {"write", "sync"}
      /\ \/ w.pc = "write" /\ data' = [data EXCEPT ![w.n] = "whole"] /\ safe' = safe /\ w' = [w EXCEPT !.pc = "sync"]
         \/ w.pc = "sync" /\ safe' = [safe EXCEPT ![w.n] = TRUE] /\ data' = data /\ w' = [w EXCEPT !.pc = "rename"]
  BY Zenon DEF WriteAll, SyncTemporary
<1>2. w.n = writes /\ w.n # 0 /\ w.n \in Writes
  BY <1>1, StateFilesAssumption DEF IInv, Writer, TypeOK, Writes
<1>3. /\ w' \in WriterType /\ w'.rec = w.rec /\ w'.n = w.n /\ w'.pc \in {"sync", "rename"}
      /\ (w'.pc = "rename" <=> w.pc = "sync")
  BY <1>1, Zenon DEF IInv, WriterType
<1>4. /\ data' \in [Writes -> {"part", "whole"}] /\ safe' \in [Writes -> BOOLEAN]
      /\ \A n \in Writes : (data[n] = "whole" => data'[n] = "whole") /\ (safe[n] => safe'[n])
      /\ data'[w.n] = "whole" /\ (w'.pc = "rename" => safe'[w.n])
  <2>1. data \in [Writes -> {"part", "whole"}] /\ safe \in [Writes -> BOOLEAN]
    BY Zenon DEF IInv, TypeOK
  <2>2. CASE w.pc = "write"
    <3>1. data' = [data EXCEPT ![w.n] = "whole"] /\ safe' = safe /\ w'.pc # "rename"
      BY <1>1, <1>3, <2>2, Zenon
    <3>. QED  BY <1>2, <2>1, <3>1, Zenon
  <2>3. CASE w.pc = "sync"
    <3>1. safe' = [safe EXCEPT ![w.n] = TRUE] /\ data' = data
      BY <1>1, <2>3, Zenon
    <3>2. data[w.n] = "whole"
      BY <2>3, Zenon DEF IInv, Writer
    <3>. QED  BY <1>2, <2>1, <3>1, <3>2, Zenon
  <2>. QED  BY <1>1, <2>2, <2>3, Zenon
<1>5. \A r \in AllRecords : (dir[r] # 0 => dir[r] \in Writes) /\ (synced[r] # 0 => synced[r] \in Writes)
  BY ShownIsOld, StateFilesAssumption, SMTT(30) DEF IInv, TypeOK, Writes
<1>6. TypeOK'
  BY <1>1, <1>3, <1>4, Zenon DEF IInv, TypeOK, WriterType
<1>7. Named'
  BY <1>1, <1>4, <1>5, Zenon DEF IInv, Named, Shown
<1>8. Writer'
  BY <1>1, <1>2, <1>3, <1>4, Zenon DEF IInv, Writer
<1>9. Reported' /\ Parent'
  BY <1>1, <1>3, Zenon DEF IInv, Reported, Parent
<1>10. Reader'
  <2>1. rd.n \in 1 .. writes => rd.n \in Writes
    BY StateFilesAssumption DEF IInv, TypeOK, Writes
  <2>. QED  BY <1>1, <1>4, <2>1, Zenon DEF IInv, Reader
<1>. QED  BY <1>1, <1>3, <1>6, <1>7, <1>8, <1>9, <1>10, Zenon DEF IInv

\* The name of a record only moves on to a write that is whole and on the disk.
LEMMA RenameKeeps ==
  ASSUME IInv, Rename
  PROVE  IInv'
<1>1. /\ UNCHANGED <<synced, label, data, safe, writes, acked, crashes, powers>> /\ w.pc = "rename"
      /\ dir' = [dir EXCEPT ![w.rec] = w.n] /\ w' = [w EXCEPT !.pc = "syncdir"]
      /\ rd' = [rd EXCEPT !.moved = @ \cup {w.rec}]
  BY Zenon DEF Rename
<1>2. /\ w.n = writes /\ w.n # 0 /\ data[w.n] = "whole" /\ safe[w.n] /\ (w.rec # "image" => label[w.n] # "gone")
      /\ w.rec \in AllRecords /\ w.n \in 0 .. writes
  BY <1>1 DEF IInv, Writer, WriterType, TypeOK
<1>3. w' \in WriterType /\ w'.rec = w.rec /\ w'.n = w.n /\ w'.pc = "syncdir"
  BY <1>1, Zenon DEF IInv, WriterType
<1>4. /\ dir' \in [AllRecords -> 0 .. writes] /\ dir'[w.rec] = w.n
      /\ \A r \in AllRecords : r # w.rec => dir'[r] = dir[r]
  BY <1>1, <1>2, Zenon DEF IInv, TypeOK
<1>5. rd' \in ReaderType /\ rd'.pc = rd.pc /\ rd'.at = rd.at /\ rd'.n = rd.n /\ rd'.err = rd.err
  BY <1>1, <1>2, MovedReader, Zenon DEF IInv
<1>6. TypeOK'
  BY <1>1, <1>3, <1>4, <1>5, Zenon DEF IInv, TypeOK, WriterType, ReaderType
<1>7. Named'
  <2> SUFFICES ASSUME NEW r \in AllRecords
               PROVE  Shown(r, dir[r])' /\ Shown(r, synced[r])' /\ synced'[r] <= dir'[r]
    BY Zenon DEF Named
  <2>1. CASE r = w.rec
    BY <1>1, <1>2, <1>4, <2>1, ShownIsOld DEF IInv, Named, Shown
  <2>2. CASE r # w.rec
    BY <1>1, <1>4, <2>2, Zenon DEF IInv, Named, Shown
  <2>. QED  BY <2>1, <2>2, Zenon
<1>8. Writer' /\ Reported'
  BY <1>1, <1>2, <1>3, <1>4 DEF IInv, Writer, Reported
<1>9. Parent'
  BY <1>1, <1>3, <1>4, Zenon DEF IInv, Parent, AllRecords
<1>10. Reader'
  BY <1>1, <1>5, Zenon DEF IInv, Reader
<1>. QED  BY <1>3, <1>5, <1>6, <1>7, <1>8, <1>9, <1>10, Zenon DEF IInv


\* A write is reported once its name is on the disk, artifact files excepted.
LEMMA SyncDirectoryKeeps ==
  ASSUME IInv, SyncDirectory
  PROVE  IInv'
<1>1. /\ UNCHANGED <<dir, label, data, safe, writes, rd, crashes, powers>> /\ w.pc = "syncdir" /\ w' = Idle
      /\ synced' = IF w.rec \in SyncsDirectory THEN [synced EXCEPT ![w.rec] = dir[w.rec]] ELSE synced
      /\ acked' = [acked EXCEPT ![w.rec] = w.n]
  BY Zenon DEF SyncDirectory
<1>2. w.n = writes /\ w.n # 0 /\ dir[w.rec] = w.n /\ w.rec \in AllRecords /\ w.n \in 0 .. writes
  BY <1>1 DEF IInv, Writer, WriterType, TypeOK
<1>3. w' \in WriterType /\ w'.pc = "idle"
  BY <1>1, Zenon DEF Idle, WriterType, AllRecords
<1>4. /\ synced' \in [AllRecords -> 0 .. writes] /\ acked' \in [AllRecords -> 0 .. writes]
      /\ acked'[w.rec] = w.n /\ \A r \in AllRecords : r # w.rec => synced'[r] = synced[r] /\ acked'[r] = acked[r]
      /\ synced'[w.rec] \in {synced[w.rec], dir[w.rec]} /\ (w.rec \in SyncsDirectory => synced'[w.rec] = w.n)
  BY <1>1, <1>2, Zenon DEF IInv, TypeOK
<1>5. TypeOK'
  BY <1>1, <1>3, <1>4, Zenon DEF IInv, TypeOK, WriterType
<1>6. Named'
  <2> SUFFICES ASSUME NEW r \in AllRecords
               PROVE  Shown(r, dir[r])' /\ Shown(r, synced[r])' /\ synced'[r] <= dir'[r]
    BY Zenon DEF Named
  <2>1. synced'[r] \in {synced[r], dir[r]}
    BY <1>4, Zenon
  <2>. QED  BY <1>1, <2>1, ShownIsOld DEF IInv, Named, Shown
<1>7. Writer' /\ Reader'
  BY <1>1, <1>3, Zenon DEF IInv, Writer, Reader
<1>8. Reported'
  <2> SUFFICES ASSUME NEW r \in AllRecords \ {"file"} PROVE acked'[r] <= synced'[r]
    BY Zenon DEF Reported
  <2>1. CASE r = w.rec
    BY <1>2, <1>4, <2>1, ShownIsOld DEF AllRecords, SyncsDirectory
  <2>2. CASE r # w.rec
    BY <1>4, <2>2, Zenon DEF IInv, Reported
  <2>. QED  BY <2>1, <2>2, Zenon
<1>9. Parent'
  <2>1. acked["cell"] # 0 => acked'["cell"] # 0
    BY <1>2, <1>4, Zenon DEF AllRecords
  <2>2. dir["op"] # 0 \/ synced["op"] # 0 \/ w.rec = "op" => acked["cell"] # 0
    BY <1>1, Zenon DEF IInv, Parent
  <2>3. synced'["op"] # 0 => synced["op"] # 0 \/ dir["op"] # 0
    BY <1>4, Zenon DEF AllRecords
  <2>. QED  BY <1>1, <1>3, <2>1, <2>2, <2>3, Zenon DEF Parent
<1>. QED  BY <1>1, <1>3, <1>5, <1>6, <1>7, <1>8, <1>9, Zenon DEF IInv

\* A retired image is a write like the others: its name shows that it is gone.
LEMMA RetireKeeps ==
  ASSUME IInv, RetireImage
  PROVE  IInv'
<1> DEFINE m == writes + 1
<1>1. writes \in Nat /\ MaxWrites \in Nat /\ writes < MaxWrites /\ m \in Writes /\ m \in Nat /\ m # 0
  BY StateFilesAssumption DEF RetireImage, IInv, TypeOK, Writes
<1>2. /\ UNCHANGED <<synced, acked, crashes, powers>> /\ writes' = m
      /\ label' = [label EXCEPT ![m] = "gone"] /\ data' = [data EXCEPT ![m] = "whole"]
      /\ safe' = [safe EXCEPT ![m] = TRUE] /\ dir' = [dir EXCEPT !["image"] = m]
      /\ w' = [pc |-> "syncdir", rec |-> "image", n |-> m]
      /\ rd' = [rd EXCEPT !.moved = @ \cup {"image"}]
  BY Zenon DEF RetireImage
<1>3. w' \in WriterType /\ w'.pc = "syncdir" /\ w'.rec = "image" /\ w'.n = m
  BY <1>1, <1>2, Zenon DEF WriterType, AllRecords
<1>4. /\ label' \in [Writes -> {"file", "final", "gone"}] /\ data' \in [Writes -> {"part", "whole"}]
      /\ safe' \in [Writes -> BOOLEAN] /\ data'[m] = "whole" /\ safe'[m]
      /\ \A n \in Nat : n <= writes /\ n # 0 => label'[n] = label[n] /\ data'[n] = data[n] /\ (safe[n] => safe'[n])
  <2>1. /\ label \in [Writes -> {"file", "final", "gone"}] /\ data \in [Writes -> {"part", "whole"}]
        /\ safe \in [Writes -> BOOLEAN]
    BY Zenon DEF IInv, TypeOK
  <2>2. \A n \in Nat : n <= writes /\ n # 0 => n \in Writes /\ n # m
    BY <1>1 DEF Writes
  <2>3. /\ label' \in [Writes -> {"file", "final", "gone"}] /\ data' \in [Writes -> {"part", "whole"}]
        /\ data'[m] = "whole" /\ \A n \in Writes : n # m => label'[n] = label[n] /\ data'[n] = data[n]
    BY <1>1, <1>2, <2>1, Zenon
  <2>4. safe' \in [Writes -> BOOLEAN] /\ safe'[m] /\ \A n \in Writes : n # m => (safe[n] => safe'[n])
    BY <1>1, <1>2, <2>1, Zenon
  <2>. QED  BY <2>2, <2>3, <2>4, Zenon
<1>5. /\ synced \in [AllRecords -> 0 .. m] /\ acked \in [AllRecords -> 0 .. m] /\ m \in 0 .. MaxWrites
      /\ dir \in [AllRecords -> 0 .. m] /\ m \in 0 .. m
  BY <1>1 DEF IInv, TypeOK
<1>6. rd' \in ReaderType /\ rd'.pc = rd.pc /\ rd'.at = rd.at /\ rd'.n = rd.n /\ rd'.err = rd.err
  BY <1>2, MovedReader, Zenon DEF IInv, AllRecords
<1>7. Reader'
  <2>1. CASE rd.pc \in {"identify", "read"}
    <3>1. rd.n \in 1 .. writes /\ data[rd.n] = "whole"
      BY <2>1, Zenon DEF IInv, Reader
    <3>2. data'[rd.n] = "whole" /\ rd.n \in 1 .. m
      BY <1>1, <1>4, <3>1
    <3>. QED  BY <1>2, <1>6, <3>2, Zenon DEF IInv, Reader
  <2>2. CASE rd.pc \notin {"identify", "read"}
    BY <1>2, <1>6, <2>2, Zenon DEF IInv, Reader
  <2>. QED  BY <2>1, <2>2, Zenon
<1>8. \A r \in AllRecords : synced[r] <= m
  BY <1>1, ShownIsOld
<1> HIDE DEF m
<1>9. /\ dir' \in [AllRecords -> 0 .. m] /\ dir'["image"] = m
      /\ \A r \in AllRecords : r # "image" => dir'[r] = dir[r]
  BY <1>2, <1>5, Zenon DEF AllRecords
<1>10. TypeOK'
  BY <1>2, <1>3, <1>4, <1>5, <1>6, <1>9, Zenon DEF IInv, TypeOK, WriterType, ReaderType
<1>11. Named'
  <2> SUFFICES ASSUME NEW r \in AllRecords
               PROVE  Shown(r, dir[r])' /\ Shown(r, synced[r])' /\ synced'[r] <= dir'[r]
    BY Zenon DEF Named
  <2>1. Shown(r, synced[r])'
    BY <1>2, <1>4, ShownIsOld DEF IInv, Named, Shown
  <2>2. CASE r = "image"
    BY <1>2, <1>4, <1>8, <1>9, <2>1, <2>2 DEF Shown
  <2>3. CASE r # "image"
    BY <1>2, <1>4, <1>9, <2>1, <2>3, ShownIsOld DEF IInv, Named, Shown
  <2>. QED  BY <2>2, <2>3, Zenon
<1>12. Writer' /\ Reported'
  BY <1>1, <1>2, <1>3, <1>4, <1>9 DEF IInv, Writer, Reported
<1>13. Parent'
  BY <1>2, <1>3, <1>9, Zenon DEF IInv, Parent, AllRecords
<1>. QED  BY <1>3, <1>6, <1>7, <1>10, <1>11, <1>12, <1>13, Zenon DEF IInv

-----------------------------------------------------------------------------
(***************************************************************************)
(* Faults                                                                  *)
(***************************************************************************)

\* A writer that stops leaves at most a temporary that no name shows.
LEMMA StopKeeps ==
  ASSUME IInv, WriteFails \/ KillWriter
  PROVE  IInv'
<1>1. UNCHANGED <<dir, synced, label, data, safe, writes, acked, rd>> /\ w' = Idle
  BY Zenon DEF WriteFails, KillWriter, files
<1>2. w' \in WriterType /\ w'.pc = "idle"
  BY <1>1, Zenon DEF Idle, WriterType, AllRecords
<1>3. TypeOK'
  BY <1>1, <1>2, Zenon DEF IInv, TypeOK, WriterType
<1>4. Named' /\ Reported' /\ Reader'
  BY <1>1, Zenon DEF IInv, Named, Shown, Reported, Reader
<1>5. Writer' /\ Parent'
  BY <1>1, <1>2, Zenon DEF IInv, Writer, Parent
<1>. QED  BY <1>1, <1>2, <1>3, <1>4, <1>5, Zenon DEF IInv

\* A power loss takes names back to what is on the disk, and data that was
\* not synced; no name shows such data.
LEMMA PowerLossKeeps ==
  ASSUME IInv, PowerLoss
  PROVE  IInv'
<1>1. PICK lost \in SUBSET {r \in AllRecords : dir[r] # synced[r]},
           torn \in SUBSET {n \in Writes : n <= writes /\ ~safe[n]} :
        /\ dir' = [r \in AllRecords |-> IF r \in lost THEN synced[r] ELSE dir[r]]
        /\ data' = [n \in Writes |-> IF n \in torn THEN "part" ELSE data[n]]
  BY Zenon DEF PowerLoss
<1>2. /\ synced' = dir' /\ safe' = [n \in Writes |-> n <= writes] /\ w' = Idle /\ rd' = Resting
      /\ UNCHANGED <<label, writes, acked>>
  BY Zenon DEF PowerLoss
<1>3. w' \in WriterType /\ w'.pc = "idle"
  BY <1>2, Zenon DEF Idle, WriterType, AllRecords
<1>4. rd' \in ReaderType /\ rd'.pc = "idle" /\ rd'.err = None
  BY <1>2 DEF Resting, ReaderType
<1>5. \A r \in AllRecords : dir'[r] \in {dir[r], synced[r]}
  BY <1>1, Zenon
<1>6. dir' \in [AllRecords -> 0 .. writes] /\ data' \in [Writes -> {"part", "whole"}] /\ safe' \in [Writes -> BOOLEAN]
  BY <1>1, <1>2 DEF IInv, TypeOK
<1>7. TypeOK'
  BY <1>2, <1>3, <1>4, <1>6, Zenon DEF IInv, TypeOK, WriterType, ReaderType
<1>8. Named'
  <2>1. ASSUME NEW r \in AllRecords, NEW n \in {dir[r], synced[r]}, n # 0
        PROVE  data'[n] = "whole" /\ safe'[n] /\ (r # "image" => label[n] # "gone")
    <3>1. n \in Writes /\ n <= writes
      BY <2>1, ShownIsOld, StateFilesAssumption DEF IInv, TypeOK, Writes
    <3>2. data[n] = "whole" /\ safe[n] /\ (r # "image" => label[n] # "gone")
      BY <2>1 DEF IInv, Named, Shown
    <3>. QED  BY <1>1, <1>2, <3>1, <3>2, ZenonT(30)
  <2>2. \A r \in AllRecords : dir'[r] <= dir'[r]
    BY <1>2, <1>6 DEF IInv, TypeOK
  <2>. QED  BY <1>2, <1>5, <2>1, <2>2 DEF Named, Shown
<1>9. Writer' /\ Reader'
  BY <1>3, <1>4, StateFilesAssumption, Zenon DEF Writer, Reader
<1>10. Reported'
  <2>1. \A r \in AllRecords : synced[r] <= dir'[r]
    BY <1>5, ShownIsOld DEF IInv, Named
  <2>. QED  BY <1>2, <1>6, <2>1, ShownIsOld DEF IInv, Reported, TypeOK
<1>11. Parent'
  BY <1>2, <1>3, <1>5, Zenon DEF IInv, Parent, AllRecords
<1>. QED  BY <1>3, <1>4, <1>7, <1>8, <1>9, <1>10, <1>11, Zenon DEF IInv

-----------------------------------------------------------------------------
(***************************************************************************)
(* The theorems                                                            *)
(***************************************************************************)

\* An empty store.
LEMMA InitInv == Init => IInv
<1> SUFFICES ASSUME Init PROVE IInv
  BY Zenon
<1>1. writes = 0 /\ dir = [r \in AllRecords |-> 0] /\ synced = dir /\ acked = dir
  BY Zenon DEF Init
<1>2. w \in WriterType /\ w.pc = "idle"
  BY Zenon DEF Init, Idle, WriterType, AllRecords
<1>3. rd \in ReaderType /\ rd.pc = "idle" /\ rd.err = None
  BY DEF Init, Resting, ReaderType
<1>4. TypeOK
  BY <1>1, <1>2, <1>3, StateFilesAssumption DEF Init, TypeOK, WriterType, ReaderType
<1>5. Named /\ Reported
  BY <1>1 DEF Named, Shown, Reported
<1>6. Writer /\ Parent /\ Reader
  BY <1>1, <1>2, <1>3, StateFilesAssumption, Zenon DEF Writer, Parent, Reader, AllRecords
<1>. QED  BY <1>2, <1>3, <1>4, <1>5, <1>6, Zenon DEF IInv

\* An operation that is there has its cell.
LEMMA OperationHasCell ==
  ASSUME IInv, Exists("op")
  PROVE  Exists("cell")
<1>1. acked["cell"] # 0
  BY Zenon DEF IInv, Parent, Exists
<1>2. dir["cell"] # 0
  BY <1>1, ShownIsOld DEF IInv, Reported, Named, AllRecords
<1> QED
  BY <1>2, Zenon DEF IInv, Named, Shown, Exists, AllRecords

\* The strengthened invariant of the store's files.
THEOREM Invariance == Spec => []IInv
<1>1. ASSUME IInv, [Next]_vars PROVE IInv'
  <2>1. CASE UNCHANGED vars
    <3>1. UNCHANGED <<files, w, crashes, powers, rd>>
      BY <2>1, Zenon DEF vars
    <3>2. rd' \in ReaderType /\ Reader'
      BY <1>1, <3>1, Zenon DEF IInv, Reader, files
    <3>. QED  BY <1>1, <3>1, <3>2, ReadKeeps, Zenon
  <2>. QED  BY <1>1, <2>1, CreateKeeps, FillKeeps, RenameKeeps, SyncDirectoryKeeps, RetireKeeps, StopKeeps,
               PowerLossKeeps, SeekKeeps, ReadJsonKeeps, Zenon DEF Next
<1>. QED  BY <1>1, InitInv, PTL DEF Spec

\* A write of write_json_atomic, or a removal of remove_image_record, that
\* returned Ok is never undone, by any number of kills and power losses.
THEOREM Durable == Spec => []ReportedIsDurable
<1>1. IInv => ReportedIsDurable
  <2> SUFFICES ASSUME IInv, NEW r \in AllRecords \ {"file"} PROVE dir[r] >= acked[r] /\ synced[r] >= acked[r]
    BY Zenon DEF ReportedIsDurable
  <2>. QED  BY ShownIsOld DEF IInv, Named, Reported
<1>. QED  BY <1>1, Invariance, PTL

\* A reader of read_state_file never meets a half-written record, although it
\* takes no lock and may run during any write, kill or power loss.
THEOREM WholeReads == Spec => []ReadsWhole
<1>1. IInv => ReadsWhole
  BY Zenon DEF IInv, Reader, ReadsWhole
<1>. QED  BY <1>1, Invariance, PTL

\* An operation record is never left without the record of its cell.
THEOREM KeptParents == Spec => []ParentsSurvive
<1>1. IInv => ParentsSurvive
  BY OperationHasCell, Zenon DEF ParentsSurvive
<1>. QED  BY <1>1, Invariance, PTL

-----------------------------------------------------------------------------
(***************************************************************************)
(* What a check of the state finds                                         *)
(***************************************************************************)

\* No manifest is written, so no operation has an artifact.
NoManifest ==
  /\ w.rec # "manifest" /\ dir["manifest"] = 0 /\ synced["manifest"] = 0
  /\ \A n \in Writes : label[n] # "final"

\* The reader f only refuses what was changed under it.
Told(f) ==
  /\ f.pc # "done" => f.err = None
  /\ f.pc = "done" /\ f.err = None => f.at >= 4
  /\ f.err \in {"NotFound", "UnsafeRuntimePath"} => Order[f.at] \in f.moved
  /\ f.err = "Integrity" => "cell" \in f.moved

\* What the reader f has found and nobody has moved is still there.
Found(f) ==
  /\ f.pc \in {"open", "identify", "read"} => f.at \in 1 .. 4
  /\ f.pc \in {"open", "identify"} /\ Order[f.at] \notin f.moved => Exists(Order[f.at])
  /\ f.pc = "identify" /\ Order[f.at] \notin f.moved => f.n = dir[Order[f.at]]
  /\ f.pc \in {"identify", "read"} => dir[Order[f.at]] # 0
  /\ f.got["op"] <= writes
  /\ f.got["op"] # 0 => dir["op"] # 0
  /\ f.at > 2 /\ f.got["cell"] = 0 /\ "cell" \notin f.moved => dir["cell"] = 0

\* The reader f has record r as it was reported when the reading began, or later.
Fresh(f, r) ==
  \/ f.got[r] >= f.since[r]
  \/ r = "image" /\ \E n \in 1 .. writes : n >= f.since[r] /\ label[n] = "gone"

Listed == {"image", "cell", "op"}

\* So it is with every record whose turn is over; names only move on.
Current(f) ==
  /\ \A r \in Listed : f.since[r] <= dir[r]
  /\ f.pc \in {"identify", "read"} /\ f.at <= 3 => f.n >= f.since[Order[f.at]]
  /\ f.at > 1 => Fresh(f, "image")
  /\ f.at > 2 => Fresh(f, "cell")
  /\ f.at > 3 => Fresh(f, "op")

CheckInv == NoManifest /\ Told(rd) /\ Found(rd) /\ Current(rd)

\* The first four turns of a reader.
LEMMA Turns == /\ Order[1] = "image" /\ Order[2] = "cell" /\ Order[3] = "op" /\ Order[4] = "cell"
               /\ Len(Order) = 7 /\ \A i \in 1 .. 7 : Order[i] \in AllRecords
  BY DEF Order, AllRecords

\* A step of the writer: the reader notes the names that it moves.
LEMMA WriterMeets ==
  ASSUME IInv, CheckInv, NoManifest', writes' \in Nat, writes <= writes', rd.moved \subseteq rd'.moved,
         rd'.pc = rd.pc, rd'.at = rd.at, rd'.n = rd.n, rd'.got = rd.got, rd'.err = rd.err, rd'.since = rd.since,
         \A r \in AllRecords : dir'[r] \in Nat /\ dir[r] <= dir'[r] /\ (r \notin rd'.moved => dir'[r] = dir[r]),
         \A n \in 1 .. writes : label'[n] = label[n]
  PROVE  CheckInv'
<1>1. /\ rd \in ReaderType /\ writes \in Nat /\ rd.at \in 1 .. 8 /\ rd.got \in [AllRecords -> Nat]
      /\ rd.since \in [AllRecords -> Nat] /\ \A r \in AllRecords : dir[r] \in 0 .. writes
  BY ShownIsOld DEF IInv, ReaderType, AllRecords
<1>2. Told(rd)'
  BY Zenon DEF CheckInv, Told
<1>3. \A r \in AllRecords : r \notin rd'.moved /\ Exists(r) => Exists(r)'
  BY <1>1 DEF Exists
<1>4. Found(rd)'
  <2>1. rd.got["op"] <= writes' /\ (dir["op"] # 0 => dir'["op"] # 0)
    BY <1>1 DEF CheckInv, Found, AllRecords
  <2>2. rd.at \in 1 .. 4 => Order[rd.at] \in AllRecords
    BY Turns
  <2>3. "cell" \in AllRecords
    BY DEF AllRecords
  <2>4. /\ rd.pc \in {"open", "identify"} /\ Order[rd.at] \notin rd'.moved => Exists(Order[rd.at])'
        /\ rd.pc = "identify" /\ Order[rd.at] \notin rd'.moved => rd.n = dir'[Order[rd.at]]
    BY <1>3, <2>2, Zenon DEF CheckInv, Found
  <2>5. \A r \in AllRecords : dir[r] # 0 => dir'[r] # 0
    BY <1>1
  <2>6. rd.pc \in {"identify", "read"} => dir'[Order[rd.at]] # 0
    BY <2>2, <2>5, Zenon DEF CheckInv, Found
  <2> QED
    BY <2>1, <2>3, <2>4, <2>6, Zenon DEF CheckInv, Found
<1>5. Current(rd)'
  <2>1. \A r \in Listed : rd.since[r] <= dir'[r]
    BY <1>1 DEF CheckInv, Current, Listed, AllRecords
  <2>2. \A r \in Listed : Fresh(rd, r) => Fresh(rd, r)'
    <3> SUFFICES ASSUME NEW r \in Listed, Fresh(rd, r) PROVE Fresh(rd, r)'
      OBVIOUS
    <3>1. \A n \in 1 .. writes : n \in 1 .. writes'
      BY <1>1
    <3> QED
      BY <3>1, Zenon DEF Fresh
  <2> QED
    BY <2>1, <2>2, Zenon DEF CheckInv, Current, Listed
<1> QED
  BY <1>2, <1>4, <1>5, Zenon DEF CheckInv

\* The writer, its failures and its death.
LEMMA WriterRaces ==
  ASSUME IInv, CheckInv, "manifest" \notin Records,
         \/ \E r \in Records : CreateTemporary(r)
         \/ WriteAll \/ SyncTemporary \/ Rename \/ SyncDirectory \/ WriteFails \/ RetireImage \/ KillWriter
  PROVE  CheckInv'
<1>1. /\ writes \in Nat /\ dir \in [AllRecords -> 0 .. writes] /\ synced \in [AllRecords -> 0 .. writes]
      /\ w \in WriterType /\ label \in [Writes -> {"file", "final", "gone"}] /\ MaxWrites \in Nat
      /\ rd \in ReaderType /\ writes <= MaxWrites
  BY ShownIsOld, StateFilesAssumption DEF IInv, TypeOK, AllRecords
<1>2. NoManifest
  BY Zenon DEF CheckInv
<1>3. \A n \in 1 .. writes : n \in Writes /\ n # writes + 1
  BY <1>1 DEF Writes
<1>4. \A r \in AllRecords : dir[r] \in Nat /\ dir[r] <= dir[r] /\ dir[r] <= writes
  BY <1>1
<1>5. ASSUME NEW r \in Records, CreateTemporary(r) PROVE CheckInv'
  <2>1. /\ rd' = rd /\ dir' = dir /\ synced' = synced /\ writes' = writes + 1 /\ writes < MaxWrites
        /\ label' = [label EXCEPT ![writes + 1] = IF r = "op" /\ Exists("manifest") THEN "final" ELSE "file"]
        /\ w' = [pc |-> "write", rec |-> r, n |-> writes + 1]
    BY <1>5, Zenon DEF CreateTemporary
  <2>2. ~Exists("manifest") /\ w'.rec = r
    BY <1>2, <2>1, Zenon DEF NoManifest, Exists
  <2>3. label' = [label EXCEPT ![writes + 1] = "file"]
    BY <2>1, <2>2, Zenon
  <2>4. NoManifest'
    BY <1>1, <1>2, <2>1, <2>2, <2>3, Zenon DEF NoManifest, Writes
  <2>5. \A n \in 1 .. writes : label'[n] = label[n]
    BY <1>1, <1>3, <2>3, Zenon
  <2>6. writes' \in Nat /\ writes <= writes'
    BY <1>1, <2>1
  <2> QED
    BY <1>4, <2>1, <2>4, <2>5, <2>6, WriterMeets, Zenon
<1>6. CASE WriteAll \/ SyncTemporary \/ SyncDirectory \/ WriteFails \/ KillWriter
  <2>1. rd' = rd /\ dir' = dir /\ writes' = writes /\ label' = label
    BY <1>6, Zenon DEF WriteAll, SyncTemporary, SyncDirectory, WriteFails, KillWriter, files
  <2>2. w'.rec # "manifest"
    BY <1>1, <1>2, <1>6 DEF WriteAll, SyncTemporary, SyncDirectory, WriteFails, KillWriter, NoManifest,
         Idle, WriterType
  <2>3. synced' = synced \/ (w.rec \in AllRecords /\ synced' = [synced EXCEPT ![w.rec] = dir[w.rec]])
    BY <1>1, <1>6, Zenon DEF WriteAll, SyncTemporary, SyncDirectory, WriteFails, KillWriter, files, WriterType
  <2>4. NoManifest'
    BY <1>1, <1>2, <2>1, <2>2, <2>3, Zenon DEF NoManifest, AllRecords
  <2>5. writes <= writes
    BY <1>1
  <2> QED
    BY <1>1, <1>4, <2>1, <2>4, <2>5, WriterMeets, Zenon
<1>7. CASE Rename
  <2>1. /\ rd' = [rd EXCEPT !.moved = @ \cup {w.rec}] /\ writes' = writes /\ label' = label /\ synced' = synced
        /\ dir' = [dir EXCEPT ![w.rec] = w.n] /\ w' = [w EXCEPT !.pc = "syncdir"] /\ w.pc = "rename"
    BY <1>7, Zenon DEF Rename
  <2>2. NoManifest'
    BY <1>1, <1>2, <2>1, Zenon DEF NoManifest, WriterType, AllRecords
  <2>3. /\ rd'.pc = rd.pc /\ rd'.at = rd.at /\ rd'.n = rd.n /\ rd'.got = rd.got /\ rd'.err = rd.err
        /\ rd'.since = rd.since /\ rd'.moved = rd.moved \cup {w.rec}
    BY <1>1, <2>1, MovedReader, Zenon DEF WriterType
  <2>4. w.n = writes /\ w.n \in Nat
    BY <1>1, <2>1, Zenon DEF IInv, Writer
  <2>5. \A r \in AllRecords : dir'[r] \in Nat /\ dir[r] <= dir'[r] /\ (r \notin rd'.moved => dir'[r] = dir[r])
    BY <1>1, <1>4, <2>1, <2>3, <2>4, Zenon
  <2>6. writes <= writes
    BY <1>1
  <2> QED
    BY <1>1, <2>1, <2>2, <2>3, <2>5, <2>6, WriterMeets, Zenon
<1>8. CASE RetireImage
  <2>1. /\ rd' = [rd EXCEPT !.moved = @ \cup {"image"}] /\ writes' = writes + 1 /\ synced' = synced
        /\ label' = [label EXCEPT ![writes + 1] = "gone"]
        /\ dir' = [dir EXCEPT !["image"] = writes + 1]
        /\ w' = [pc |-> "syncdir", rec |-> "image", n |-> writes + 1]
    BY <1>8, Zenon DEF RetireImage
  <2>2. NoManifest'
    BY <1>1, <1>2, <2>1, Zenon DEF NoManifest, AllRecords
  <2>3. /\ rd'.pc = rd.pc /\ rd'.at = rd.at /\ rd'.n = rd.n /\ rd'.got = rd.got /\ rd'.err = rd.err
        /\ rd'.since = rd.since /\ rd'.moved = rd.moved \cup {"image"}
    BY <1>1, <2>1, MovedReader, Zenon DEF AllRecords
  <2>4. writes + 1 \in Nat /\ writes <= writes + 1 /\ \A r \in AllRecords : dir[r] <= writes + 1
    BY <1>1
  <2>5. \A r \in AllRecords : dir'[r] \in Nat /\ dir[r] <= dir'[r] /\ (r \notin rd'.moved => dir'[r] = dir[r])
    BY <1>1, <1>4, <2>1, <2>3, <2>4, Zenon
  <2>6. \A n \in 1 .. writes : label'[n] = label[n]
    BY <1>1, <1>3, <2>1, Zenon
  <2> QED
    BY <2>1, <2>2, <2>3, <2>4, <2>5, <2>6, WriterMeets, Zenon
<1> QED
  BY <1>5, <1>6, <1>7, <1>8, Zenon

\* A power loss ends the reading.
LEMMA PowerLossRaces ==
  ASSUME IInv, IInv', CheckInv, PowerLoss
  PROVE  CheckInv'
<1>1. /\ rd' = Resting /\ w' = Idle /\ synced' = dir' /\ label' = label /\ writes' = writes
      /\ dir'["manifest"] \in {dir["manifest"], synced["manifest"]}
  BY Zenon DEF PowerLoss, AllRecords
<1>2. NoManifest'
  BY <1>1, Zenon DEF CheckInv, NoManifest, Idle
<1>3. writes' \in Nat /\ \A r \in AllRecords : dir'[r] \in Nat
  BY StateFilesAssumption DEF IInv, TypeOK
<1>4. /\ Resting.err = None /\ Resting.at = 1 /\ Resting.pc = "idle"
      /\ \A r \in AllRecords : Resting.got[r] = 0 /\ Resting.since[r] = 0
  BY DEF Resting
<1>5. Told(rd)'
  BY <1>1, <1>4, StateFilesAssumption, Zenon DEF Told
<1>6. Found(rd)'
  BY <1>1, <1>3, <1>4 DEF Found, AllRecords
<1>7. Current(rd)'
  BY <1>1, <1>3, <1>4 DEF Current, Listed, AllRecords
<1> QED
  BY <1>2, <1>5, <1>6, <1>7, Zenon DEF CheckInv

\* A step of the reader changes nothing but the reader.
LEMMA ReaderRaces ==
  ASSUME CheckInv, NEW f, Read(f), Told(f), Found(f), Current(f)
  PROVE  CheckInv'
<1>1. rd' = f /\ UNCHANGED <<dir, synced, label, writes, w>>
  BY Zenon DEF Read, files
<1>2. NoManifest'
  BY <1>1, Zenon DEF CheckInv, NoManifest
<1>3. Told(rd)' /\ Found(rd)'
  BY <1>1, Zenon DEF Told, Found, Exists
<1>4. Current(rd)'
  BY <1>1, Zenon DEF Current, Fresh
<1> QED
  BY <1>2, <1>3, <1>4, Zenon DEF CheckInv

\* A reader only refuses a record that was moved under it.
LEMMA RefuseRaces ==
  ASSUME IInv, CheckInv, NEW why, Refuse(why),
         \/ why \in {"NotFound", "UnsafeRuntimePath"} /\ Order[rd.at] \in rd.moved
         \/ why = "Integrity" /\ "cell" \in rd.moved
  PROVE  CheckInv'
<1> DEFINE f == [rd EXCEPT !.pc = "done", !.err = why]
<1>1. rd \in ReaderType /\ Read(f)
  BY Zenon DEF IInv, Refuse
<1>2. /\ f.pc = "done" /\ f.err = why /\ f.at = rd.at /\ f.got = rd.got /\ f.since = rd.since
      /\ f.moved = rd.moved /\ f.n = rd.n
  BY <1>1, Zenon DEF ReaderType
<1> HIDE DEF f
<1>3. Told(f)
  BY <1>2, StateFilesAssumption, Zenon DEF Told
<1>4. Found(f)
  BY <1>2, Zenon DEF CheckInv, Found
<1>5. Current(f)
  BY <1>2, Zenon DEF CheckInv, Current, Fresh
<1> QED
  BY <1>1, <1>3, <1>4, <1>5, ReaderRaces, Zenon

\* Every step of state check: a reader finds what it listed, what it opened, and
\* the cell of every operation, unless the writer has moved that very record.
LEMMA SeekRaces ==
  ASSUME IInv, CheckInv, Begin \/ List \/ OpenStateFile \/ Identify \/ ReadJson
  PROVE  CheckInv'
<1>1. /\ rd \in ReaderType /\ writes \in Nat /\ rd.at \in 1 .. 8 /\ rd.got \in [AllRecords -> Nat]
      /\ rd.since \in [AllRecords -> Nat] /\ rd.n \in Nat
      /\ \A r \in AllRecords : dir[r] \in Nat /\ acked[r] \in Nat /\ dir[r] <= writes
  BY ShownIsOld DEF IInv, ReaderType, AllRecords
<1>2. Told(rd) /\ Found(rd) /\ Current(rd)
  BY Zenon DEF CheckInv
<1>3. ASSUME NEW r \in Listed, ~Exists(r)
      PROVE  dir[r] >= rd.since[r] /\ (dir[r] = 0 \/ (r = "image" /\ label[dir[r]] = "gone"))
  BY <1>1, <1>2, <1>3 DEF Current, Listed, AllRecords, Exists, IInv, Named, Shown
<1>4. CASE Begin
  <2> DEFINE f == [Resting EXCEPT !.pc = "list", !.since = acked]
  <2>1. Read(f)
    BY <1>4, Zenon DEF Begin
  <2>2. /\ f.pc = "list" /\ f.err = None /\ f.at = 1 /\ f.since = acked
        /\ \A r \in AllRecords : f.got[r] = 0
    BY DEF Resting
  <2> HIDE DEF f
  <2>3. Told(f)
    BY <2>2, StateFilesAssumption, Zenon DEF Told
  <2>4. Found(f)
    BY <1>1, <2>2 DEF Found, AllRecords
  <2>5. Current(f)
    BY <1>1, <2>2, ShownIsOld DEF Current, Listed, AllRecords, IInv, Reported, Named
  <2> QED
    BY <2>1, <2>3, <2>4, <2>5, ReaderRaces, Zenon
<1>5. CASE List
  <2>0. rd.pc = "list" /\ rd.err = None
    BY <1>2, <1>5, Zenon DEF List, Told
  <2>1. CASE Complete /\ rd.at >= 4
    <3>1. CASE rd.got["op"] # 0 /\ rd.got["cell"] = 0
      <4>1. dir["op"] # 0 /\ Exists("op")
        BY <1>2, <3>1, Zenon DEF Found, IInv, Named, Shown, Exists, AllRecords
      <4>2. dir["cell"] # 0
        BY <4>1, OperationHasCell, Zenon DEF Exists
      <4>3. "cell" \in rd.moved
        BY <1>1, <1>2, <2>1, <3>1, <4>2 DEF Found
      <4> QED
        BY <2>1, <3>1, <4>3, RefuseRaces, Zenon DEF Complete
    <3>2. CASE ~(rd.got["op"] # 0 /\ rd.got["cell"] = 0)
      <4> DEFINE f == [rd EXCEPT !.pc = "done"]
      <4>1. Read(f)
        BY <2>1, <3>2, Zenon DEF Complete
      <4>2. /\ f.pc = "done" /\ f.err = rd.err /\ f.got = rd.got /\ f.at = rd.at /\ f.since = rd.since
            /\ f.moved = rd.moved
        BY <1>1, Zenon DEF ReaderType
      <4> HIDE DEF f
      <4>3. Told(f)
        BY <1>2, <2>0, <2>1, <4>2, StateFilesAssumption, Zenon DEF Told
      <4>4. Found(f) /\ Current(f)
        BY <1>2, <4>2, Zenon DEF Found, Current, Fresh
      <4> QED
        BY <4>1, <4>3, <4>4, ReaderRaces, Zenon
    <3> QED
      BY <3>1, <3>2, Zenon
  <2>2. CASE rd.at <= 3 /\ ~Exists(Order[rd.at]) /\ Read([rd EXCEPT !.at = @ + 1])
    <3> DEFINE f == [rd EXCEPT !.at = @ + 1]
    <3>1. /\ f.pc = "list" /\ f.err = None /\ f.got = rd.got /\ f.at = rd.at + 1 /\ f.since = rd.since
          /\ f.moved = rd.moved
      BY <1>1, <2>0, Zenon DEF ReaderType
    <3>2. Read(f)
      BY <2>2, Zenon
    <3> HIDE DEF f
    <3>3. Told(f)
      BY <3>1, StateFilesAssumption, Zenon DEF Told
    <3>4. rd.at = 2 => dir["cell"] = 0
      BY <1>3, <2>2, Turns, Zenon DEF Listed
    <3>5. Found(f)
      BY <1>1, <1>2, <2>2, <3>1, <3>4 DEF Found
    <3>6. \A r \in Listed : r = Order[rd.at] => Fresh(f, r)
      <4> SUFFICES ASSUME NEW r \in Listed, r = Order[rd.at] PROVE Fresh(f, r)
        OBVIOUS
      <4>1. r \in AllRecords /\ dir[r] >= rd.since[r] /\ (dir[r] = 0 \/ (r = "image" /\ label[dir[r]] = "gone"))
        BY <1>3, <2>2, Zenon DEF Listed, AllRecords
      <4>2. CASE dir[r] = 0
        BY <1>1, <3>1, <4>1, <4>2 DEF Fresh
      <4>3. CASE dir[r] # 0
        <5>1. dir[r] \in 1 .. writes
          BY <1>1, <4>1, <4>3
        <5> QED
          BY <3>1, <4>1, <4>3, <5>1, Zenon DEF Fresh
      <4> QED
        BY <4>2, <4>3
    <3>7. \A r \in Listed : Fresh(rd, r) => Fresh(f, r)
      BY <3>1, Zenon DEF Fresh
    <3>8. /\ rd.at = 1 => Fresh(f, "image")
          /\ rd.at = 2 => Fresh(f, "cell")
          /\ rd.at = 3 => Fresh(f, "op")
      BY <3>6, Turns, Zenon DEF Listed
    <3>9. /\ rd.at > 1 => Fresh(f, "image")
          /\ rd.at > 2 => Fresh(f, "cell")
          /\ rd.at > 3 => Fresh(f, "op")
      BY <1>2, <3>7, Zenon DEF Current, Listed
    <3>10. Current(f)
      <4>1. \A r \in Listed : f.since[r] <= dir[r]
        BY <1>2, <3>1, Zenon DEF Current
      <4> HIDE DEF Fresh
      <4> QED
        BY <1>1, <3>1, <3>8, <3>9, <4>1 DEF Current
    <3> QED
      BY <3>2, <3>3, <3>5, <3>10, ReaderRaces, Zenon
  <2>3. CASE /\ rd.at <= 7 /\ Wanted /\ ~(rd.at <= 3 /\ ~Exists(Order[rd.at]))
             /\ Read([rd EXCEPT !.pc = "open"])
    <3> DEFINE f == [rd EXCEPT !.pc = "open"]
    <3>1. /\ f.pc = "open" /\ f.err = None /\ f.got = rd.got /\ f.at = rd.at /\ f.since = rd.since
          /\ f.moved = rd.moved
      BY <1>1, <2>0, Zenon DEF ReaderType
    <3>2. rd.at \in 1 .. 4
      <4>1. rd.got["op"] # 0 => label[rd.got["op"]] # "final"
        <5>1. rd.got["op"] \in Nat /\ rd.got["op"] <= writes
          BY <1>1, <1>2, Zenon DEF Found, AllRecords
        <5>2. writes <= MaxWrites /\ MaxWrites \in Nat
          BY <1>1, StateFilesAssumption DEF IInv, TypeOK
        <5>3. rd.got["op"] # 0 => rd.got["op"] \in Writes
          BY <1>1, <5>1, <5>2 DEF Writes
        <5> QED
          BY <5>3, Zenon DEF CheckInv, NoManifest
      <4> QED
        BY <1>1, <2>3, <4>1 DEF Wanted
    <3>3. Exists(Order[rd.at])
      <4>1. CASE rd.at = 4
        <5>1. dir["op"] # 0
          BY <1>2, <2>3, <4>1 DEF Wanted, Found
        <5>2. Exists("op")
          BY <5>1, Zenon DEF IInv, Named, Shown, Exists, AllRecords
        <5> QED
          BY <4>1, <5>2, OperationHasCell, Turns, Zenon
      <4>2. CASE rd.at <= 3
        BY <2>3, <4>2, Zenon
      <4> QED
        BY <3>2, <4>1, <4>2
    <3> HIDE DEF f
    <3>4. Told(f)
      BY <3>1, StateFilesAssumption, Zenon DEF Told
    <3>5. Found(f)
      BY <1>2, <3>1, <3>2, <3>3, Zenon DEF Found
    <3>6. Current(f)
      BY <1>2, <3>1, Zenon DEF Current, Fresh
    <3>7. Read(f)
      BY <2>3, Zenon DEF f
    <3> QED
      BY <3>4, <3>5, <3>6, <3>7, ReaderRaces, Zenon
  <2>4. Len(Order) = 7 /\ (~Wanted => rd.at >= 4)
    BY <1>1, Turns DEF Wanted
  <2> QED
    BY <1>1, <1>5, <2>1, <2>2, <2>3, <2>4 DEF List
<1>6. CASE OpenStateFile
  <2>0. rd.pc = "open" /\ rd.err = None /\ rd.at \in 1 .. 4
    BY <1>2, <1>6, Zenon DEF OpenStateFile, Told, Found
  <2>1. CASE ~Exists(Order[rd.at])
    <3>1. Order[rd.at] \in rd.moved
      BY <1>2, <2>0, <2>1, Zenon DEF Found
    <3> QED
      BY <1>6, <2>1, <3>1, RefuseRaces, Zenon DEF OpenStateFile
  <2>2. CASE Exists(Order[rd.at])
    <3> DEFINE f == [rd EXCEPT !.pc = "identify", !.n = dir[Order[rd.at]]]
    <3>1. /\ f.pc = "identify" /\ f.n = dir[Order[rd.at]] /\ f.err = None /\ f.got = rd.got /\ f.at = rd.at
          /\ f.since = rd.since /\ f.moved = rd.moved
      BY <1>1, <2>0, Zenon DEF ReaderType
    <3>2. Read(f)
      BY <1>6, <2>2, Zenon DEF OpenStateFile
    <3> HIDE DEF f
    <3>3. Told(f)
      BY <3>1, StateFilesAssumption, Zenon DEF Told
    <3>4. Found(f)
      BY <1>2, <2>0, <2>2, <3>1, Zenon DEF Found, Exists
    <3>5. rd.at <= 3 => dir[Order[rd.at]] >= rd.since[Order[rd.at]]
      <4>1. rd.at <= 3 => rd.at = 1 \/ rd.at = 2 \/ rd.at = 3
        BY <2>0
      <4>2. \A r \in Listed : dir[r] >= rd.since[r]
        BY <1>1, <1>2 DEF Current, Listed, AllRecords
      <4> QED
        BY <4>1, <4>2, Turns, Zenon DEF Listed
    <3>6. Current(f)
      BY <1>2, <3>1, <3>5, Zenon DEF Current, Fresh
    <3> QED
      BY <3>2, <3>3, <3>4, <3>6, ReaderRaces, Zenon
  <2> QED
    BY <2>1, <2>2, Zenon
<1>7. CASE Identify
  <2>0. rd.pc = "identify" /\ rd.err = None /\ rd.at \in 1 .. 4
    BY <1>2, <1>7, Zenon DEF Identify, Told, Found
  <2>1. CASE dir[Order[rd.at]] # rd.n
    <3>1. Order[rd.at] \in rd.moved
      BY <1>2, <2>0, <2>1, Zenon DEF Found
    <3> QED
      BY <1>7, <2>1, <3>1, RefuseRaces, Zenon DEF Identify
  <2>2. CASE dir[Order[rd.at]] = rd.n
    <3> DEFINE f == [rd EXCEPT !.pc = "read"]
    <3>1. /\ f.pc = "read" /\ f.n = rd.n /\ f.err = None /\ f.got = rd.got /\ f.at = rd.at
          /\ f.since = rd.since /\ f.moved = rd.moved
      BY <1>1, <2>0, Zenon DEF ReaderType
    <3>2. Read(f)
      BY <1>7, <2>2, Zenon DEF Identify
    <3> HIDE DEF f
    <3>3. Told(f)
      BY <3>1, StateFilesAssumption, Zenon DEF Told
    <3>4. Found(f) /\ Current(f)
      BY <1>2, <2>0, <3>1, Zenon DEF Found, Current, Fresh
    <3> QED
      BY <3>2, <3>3, <3>4, ReaderRaces, Zenon
  <2> QED
    BY <2>1, <2>2, Zenon
<1>8. CASE ReadJson
  <2> DEFINE o == Order[rd.at]
             g == [rd.got EXCEPT ![o] = IF rd.at \in {4, 6} THEN @ ELSE rd.n]
             f == [rd EXCEPT !.pc = "list", !.at = @ + 1, !.got = g]
  <2>1. /\ rd.pc = "read" /\ rd.at \in 1 .. 4 /\ rd.n \in 1 .. writes /\ data[rd.n] = "whole" /\ rd.err = None
    BY <1>2, <1>8, Zenon DEF IInv, Reader, ReadJson, Told, Found
  <2>2. Read(f)
    BY <1>1, <1>8, <2>1, Zenon DEF ReadJson, ReaderType
  <2>3. o \in AllRecords /\ rd.n <= writes /\ rd.n # 0
    BY <1>1, <2>1, Turns
  <2>4. /\ f.pc = "list" /\ f.err = None /\ f.got = g /\ f.at = rd.at + 1 /\ f.since = rd.since
        /\ f.moved = rd.moved
    BY <1>1, <2>1, Zenon DEF ReaderType
  <2>5. /\ rd.at = 1 => g["image"] = rd.n /\ g["cell"] = rd.got["cell"] /\ g["op"] = rd.got["op"]
        /\ rd.at = 2 => g["image"] = rd.got["image"] /\ g["cell"] = rd.n /\ g["op"] = rd.got["op"]
        /\ rd.at = 3 => g["image"] = rd.got["image"] /\ g["cell"] = rd.got["cell"] /\ g["op"] = rd.n
        /\ rd.at = 4 => g["image"] = rd.got["image"] /\ g["cell"] = rd.got["cell"] /\ g["op"] = rd.got["op"]
    BY <1>1, <2>1, <2>3, Turns DEF AllRecords
  <2>6. rd.at \in {1, 2, 3, 4}
    BY <2>1
  <2>7. rd.at <= 3 => rd.n >= rd.since[o]
    BY <1>2, <2>1, Zenon DEF Current
  <2> HIDE DEF f, g
  <2>8. Told(f)
    BY <2>4, StateFilesAssumption, Zenon DEF Told
  <2>9. rd.at = 3 => dir["op"] # 0
    BY <1>2, <2>1, Turns, Zenon DEF Found
  <2>10. Found(f)
    BY <1>1, <1>2, <2>3, <2>4, <2>5, <2>6, <2>9 DEF Found, AllRecords
  <2>11. Current(f)
    <3>1. \A r \in Listed : f.since[r] <= dir[r]
      BY <1>2, <2>4, Zenon DEF Current
    <3>2. /\ rd.at = 1 => Fresh(f, "image")
          /\ rd.at = 2 => Fresh(f, "cell")
          /\ rd.at = 3 => Fresh(f, "op")
      BY <2>4, <2>5, <2>7, Turns DEF Fresh
    <3>3. /\ rd.at \in {2, 3, 4} => Fresh(f, "image")
          /\ rd.at \in {3, 4} => Fresh(f, "cell")
          /\ rd.at = 4 => Fresh(f, "op")
      <4>1. /\ rd.at \in {2, 3, 4} => Fresh(rd, "image")
            /\ rd.at \in {3, 4} => Fresh(rd, "cell")
            /\ rd.at = 4 => Fresh(rd, "op")
        BY <1>2 DEF Current
      <4> QED
        BY <2>4, <2>5, <4>1, Zenon DEF Fresh
    <3>4. /\ f.at > 1 => Fresh(f, "image")
          /\ f.at > 2 => Fresh(f, "cell")
          /\ f.at > 3 => Fresh(f, "op")
      BY <2>4, <2>6, <3>2, <3>3
    <3> QED
      BY <2>4, <3>1, <3>4, Zenon DEF Current
  <2> QED
    BY <2>2, <2>8, <2>10, <2>11, ReaderRaces, Zenon
<1> QED
  BY <1>4, <1>5, <1>6, <1>7, <1>8, Zenon

\* state check, which takes no lock, refuses a store only because of a record that
\* the writer renamed or removed during the check, and a check that passes has read
\* everything reported before it began: kills and power losses leave nothing that
\* is refused or missed (read_state_file, validate_open_path_identity).  That is
\* for a store without artifact manifests: the directory of an artifact's file is
\* not synced, so a power loss may take a file whose manifest stays.
THEOREM ExactChecks == "manifest" \notin Records => (Spec => []CheckIsExact)
<1> SUFFICES ASSUME "manifest" \notin Records PROVE Spec => []CheckIsExact
  OBVIOUS
<1>1. Init => CheckInv
  <2> SUFFICES ASSUME Init PROVE CheckInv
    OBVIOUS
  <2>1. /\ rd.err = None /\ rd.at = 1 /\ rd.pc = "idle" /\ writes = 0
        /\ \A r \in AllRecords : rd.got[r] = 0 /\ rd.since[r] = 0 /\ dir[r] = 0
    BY DEF Init, Resting
  <2>2. NoManifest
    BY DEF Init, NoManifest, Idle, AllRecords
  <2>3. Told(rd)
    BY <2>1, StateFilesAssumption, Zenon DEF Told
  <2>4. Found(rd) /\ Current(rd)
    BY <2>1 DEF Found, Current, Listed, AllRecords
  <2> QED
    BY <2>2, <2>3, <2>4, Zenon DEF CheckInv
<1>2. ASSUME IInv, IInv', CheckInv, [Next]_vars PROVE CheckInv'
  <2>1. CASE UNCHANGED vars
    <3>1. Read(rd)
      BY <2>1, Zenon DEF vars, Read
    <3> QED
      BY <1>2, <3>1, ReaderRaces, Zenon DEF CheckInv
  <2>2. CASE Next
    BY <1>2, <2>2, WriterRaces, PowerLossRaces, SeekRaces, Zenon DEF Next
  <2> QED
    BY <1>2, <2>1, <2>2, Zenon
<1>3. IInv /\ CheckInv => CheckIsExact
  <2> SUFFICES ASSUME IInv, CheckInv PROVE CheckIsExact
    OBVIOUS
  <2>1. \A n \in 1 .. writes : n \in Writes
    BY StateFilesAssumption DEF IInv, TypeOK, Writes
  <2>2. rd.pc = "done" /\ rd.err = None => rd.at > 1 /\ rd.at > 2 /\ rd.at > 3
    BY DEF CheckInv, Told, IInv, ReaderType
  <2>3. rd.pc = "done" /\ rd.err = None => \A r \in Listed : Fresh(rd, r)
    BY <2>2, Zenon DEF CheckInv, Current, Listed
  <2> QED
    BY <2>1, <2>3, Zenon DEF CheckIsExact, ReadsWhole, CheckInv, Told, IInv, Reader, Fresh, Listed
<1> QED
  BY <1>1, <1>2, <1>3, Invariance, PTL DEF Spec

-----------------------------------------------------------------------------
(***************************************************************************)
(* The image registry                                                      *)
(***************************************************************************)

\* An idle process remembers nothing, and is well typed.
LEMMA IdleJob == Registry!Idle \in Registry!Jobs /\ Registry!Idle.pc = "idle"
BY SMTT(30) DEF Registry!Idle, Registry!Jobs, Registry!Labels, Registry!Sizes

\* Nothing is asked of an idle process.
LEMMA IdleHolds ==
  ASSUME NEW j, j.pc = "idle"
  PROVE  Registry!GuardHolds(j) /\ Registry!RegisterHolds(j) /\ Registry!CreateHolds(j)
BY DEF Registry!GuardHolds, Registry!RegisterHolds, Registry!CreateHolds, Registry!Verifying,
       Registry!Building

\* The registry starts empty and nobody is at work.
LEMMA RegistryInitially == Registry!Init => Registry!RegistryInv
<1> SUFFICES ASSUME Registry!Init PROVE Registry!RegistryInv
  OBVIOUS
<1>1. \A p \in Processes : job[p] = Registry!Idle
  BY DEF Registry!Init
<1>2. Registry!TypeOK
  BY IdleJob DEF Registry!Init, Registry!TypeOK, Registry!NoCell, Registry!CellRecords
<1>3. Registry!OneAtWork
  BY <1>1, IdleJob DEF Registry!OneAtWork
<1>4. Registry!CellsHold
  BY SMTT(30) DEF Registry!Init, Registry!CellsHold, Registry!NoCell
<1> QED
  BY <1>1, <1>2, <1>3, <1>4, IdleJob, IdleHolds DEF Registry!RegistryInv

\* The step of a process that has, takes or gives up the lock: every other
\* process is idle and stays so.
LEMMA StepUnderLock ==
  ASSUME Registry!RegistryInv, NEW p \in Processes, lock \in {p, NoProcess},
         Registry!TypeOK', Registry!CellsHold', \A q \in Processes : q # p => job'[q] = job[q],
         job'[p].pc # "idle" => lock' = p,
         Registry!GuardHolds(job[p])', Registry!RegisterHolds(job[p])', Registry!CreateHolds(job[p])'
  PROVE  Registry!RegistryInv'
<1>1. \A q \in Processes : q # p => job'[q].pc = "idle"
  BY RegistryAssumption DEF Registry!RegistryInv, Registry!OneAtWork
<1>2. \A q \in Processes : q # p => /\ Registry!GuardHolds(job[q])' /\ Registry!RegisterHolds(job[q])'
                                  /\ Registry!CreateHolds(job[q])'
  BY <1>1, ZenonT(30) DEF Registry!GuardHolds, Registry!RegisterHolds, Registry!CreateHolds, Registry!Verifying,
       Registry!Building
<1>3. Registry!OneAtWork'
  BY <1>1, ZenonT(30) DEF Registry!OneAtWork
<1> QED
  BY <1>2, <1>3, SMTT(30) DEF Registry!RegistryInv

\* The same for a step that ends the command.
LEMMA StepReleases ==
  ASSUME Registry!RegistryInv, NEW p \in Processes, job[p].pc # "idle", Registry!Release(p),
         /\ image' \in [Images -> Registry!ImageRecords \cup {None}]
         /\ cell' \in [Cells -> Registry!CellRecords]
         /\ UNCHANGED <<built, path, disk>>,
         Registry!CellsHold'
  PROVE  Registry!RegistryInv'
<1>1. job' = [job EXCEPT ![p] = Registry!Idle] /\ lock' = NoProcess /\ lock = p
  BY DEF Registry!Release, Registry!RegistryInv, Registry!OneAtWork
<1>2. job \in [Processes -> Registry!Jobs]
  BY DEF Registry!RegistryInv, Registry!TypeOK
<1>3. job' \in [Processes -> Registry!Jobs] /\ job'[p].pc = "idle"
  BY <1>1, <1>2, IdleJob
<1>4. Registry!TypeOK'
  BY <1>1, <1>3, SMTT(30) DEF Registry!RegistryInv, Registry!TypeOK
<1>5. Registry!GuardHolds(job[p])' /\ Registry!RegisterHolds(job[p])' /\ Registry!CreateHolds(job[p])'
  BY <1>3, ZenonT(30) DEF Registry!GuardHolds, Registry!RegisterHolds, Registry!CreateHolds, Registry!Verifying,
       Registry!Building
<1> QED
  BY <1>1, <1>2, <1>3, <1>4, <1>5, StepUnderLock
\* The process is killed: the registry and the cells stay as they are.
LEMMA CrashKeeps ==
  ASSUME Registry!RegistryInv, NEW p \in Processes, Registry!Crash(p)
  PROVE  Registry!RegistryInv'
<1>1. Registry!CellsHold'
  BY ZenonT(30) DEF Registry!RegistryInv, Registry!CellsHold, Registry!Crash, Registry!registry
<1>2. /\ image' = image /\ cell' = cell /\ UNCHANGED <<built, path, disk>>
      /\ job[p].pc # "idle" /\ Registry!Release(p)
  BY ZenonT(30) DEF Registry!Crash, Registry!registry, Registry!files
<1> QED
  BY <1>1, <1>2, StepReleases DEF Registry!RegistryInv, Registry!TypeOK

\* register_image takes the lock and opens the base.
LEMMA RegisterImageKeeps ==
  ASSUME Registry!RegistryInv, NEW p \in Processes, NEW i \in Images, NEW v \in Providers,
         NEW g \in GuestSystems, NEW f \in Files, Registry!RegisterImage(p, i, v, g, f)
  PROVE  Registry!RegistryInv'
<1> DEFINE j == [Registry!Idle EXCEPT !.pc = "reg_inspect", !.image = i, !.provider = v,
                    !.guest = g, !.file = f, !.inode = path[f],
                    !.size = disk[path[f]].size]
<1> USE DEF Registry!RegistryInv, Registry!TypeOK
<1>1. /\ lock = NoProcess /\ lock' = p /\ path[f] # None
      /\ job' = [job EXCEPT ![p] = j]
      /\ UNCHANGED <<image, cell, built, path, disk>>
  BY DEF Registry!RegisterImage, Registry!CanOpen, Registry!registry, Registry!files
<1>2. path[f] \in Inodes /\ disk[path[f]] \in Contents
  BY <1>1
<1>3. j \in Registry!Jobs /\ j.pc = "reg_inspect" /\ j.file = f /\ j.inode = path[f] /\ j.image = i
      /\ j.provider = v /\ j.guest = g
  BY <1>2, ZenonT(30) DEF Registry!Idle, Registry!Jobs, Registry!Labels, Registry!Sizes
<1> HIDE DEF j
<1>4. job'[p] = j /\ job' \in [Processes -> Registry!Jobs] /\ \A q \in Processes : q # p => job'[q] = job[q]
  BY <1>1, <1>3
<1>5. Registry!TypeOK'
  BY <1>1, <1>4
<1>6. Registry!CellsHold'
  BY <1>1, ZenonT(30) DEF Registry!CellsHold
<1>7. Registry!GuardHolds(job[p])'
  BY <1>1, <1>2, <1>3, <1>4, ZenonT(30) DEF Registry!GuardHolds
<1>8. Registry!RegisterHolds(job[p])' /\ Registry!CreateHolds(job[p])'
  BY <1>3, <1>4, ZenonT(30) DEF Registry!RegisterHolds, Registry!CreateHolds, Registry!Verifying, Registry!Building
<1> QED
  BY <1>1, <1>4, <1>5, <1>6, <1>7, <1>8, StepUnderLock

\* The provider's inspection of a base that is being registered.
LEMMA RegisterInspectKeeps ==
  ASSUME Registry!RegistryInv, NEW p \in Processes, Registry!RegisterInspect(p)
  PROVE  Registry!RegistryInv'
<1> USE DEF Registry!RegistryInv, Registry!TypeOK
<1>1. /\ job[p].pc = "reg_inspect" /\ lock = p /\ UNCHANGED <<image, cell, built, path, disk>>
      /\ job[p] \in Registry!Jobs
  BY SMTT(30) DEF Registry!RegisterInspect, Registry!registry, Registry!files, Registry!OneAtWork
<1>2. Registry!CellsHold'
  BY <1>1, ZenonT(30) DEF Registry!CellsHold
<1>3. CASE Registry!CanOpen(job[p].file)
  <2>1. /\ job' = [job EXCEPT ![p].pc = "reg_hash", ![p].info = disk[path[job[p].file]]]
        /\ lock' = lock
    BY <1>3 DEF Registry!RegisterInspect
  <2>2. disk[path[job[p].file]] \in Contents
    BY <1>1, <1>3, ZenonT(30) DEF Registry!CanOpen, Registry!GuardHolds
  <2>3. /\ job' \in [Processes -> Registry!Jobs] /\ \A q \in Processes : q # p => job'[q] = job[q]
        /\ job'[p] = [job[p] EXCEPT !.pc = "reg_hash", !.info = disk[path[job[p].file]]]
    BY <1>1, <2>1, <2>2, ZenonT(30) DEF Registry!Jobs, Registry!Labels
  <2>4. /\ job'[p].pc = "reg_hash" /\ job'[p].info \in Contents /\ job'[p].file = job[p].file
        /\ job'[p].inode = job[p].inode /\ job'[p].changed = job[p].changed
        /\ job'[p].image = job[p].image /\ job'[p].provider = job[p].provider
        /\ job'[p].guest = job[p].guest
    BY <1>1, <2>2, <2>3 DEF Registry!Jobs
  <2>5. Registry!TypeOK'
    BY <1>1, <2>1, <2>3
  <2>6. Registry!GuardHolds(job[p])' /\ Registry!RegisterHolds(job[p])' /\ Registry!CreateHolds(job[p])'
    BY <1>1, <2>4, ZenonT(30) DEF Registry!GuardHolds, Registry!RegisterHolds, Registry!CreateHolds,
                      Registry!Verifying, Registry!Building
  <2> QED
    BY <1>1, <1>2, <2>1, <2>3, <2>5, <2>6, StepUnderLock
<1>4. CASE ~Registry!CanOpen(job[p].file)
  BY <1>1, <1>2, <1>4, StepReleases, SMTT(30) DEF Registry!RegisterInspect
<1> QED
  BY <1>3, <1>4

\* The record is saved only under a free id: no record that a cell refers to
\* changes.
LEMMA RegisterSaveKeeps ==
  ASSUME Registry!RegistryInv, NEW p \in Processes, Registry!RegisterSave(p)
  PROVE  Registry!RegistryInv'
<1> USE DEF Registry!RegistryInv, Registry!TypeOK
<1> DEFINE j == job[p]
           usable == Registry!BaseIssues(j.provider, j.size, j.info) = {}
<1>1. /\ j.pc = "reg_hash" /\ Registry!Release(p) /\ UNCHANGED <<cell, built, path, disk>>
      /\ image' = [image EXCEPT ![j.image] =
                      IF usable /\ image[j.image] = None THEN Registry!NewRecord(j) ELSE image[j.image]]
  BY DEF Registry!RegisterSave, Registry!files
<1>2. /\ j.image \in Images /\ j.provider \in Providers /\ j.guest \in GuestSystems
      /\ j.info \in Contents /\ j.file \in Files /\ j.inode \in Inodes /\ j.size \in Registry!Sizes
  BY <1>1, SMTT(30) DEF Registry!RegisterHolds, Registry!GuardHolds, Registry!Jobs
<1> HIDE DEF usable
<1>3. Registry!NewRecord(j) \in Registry!ImageRecords
  <2>1. disk[j.inode] \in Contents
    BY <1>2, ZenonT(30)
  <2> HIDE DEF j, Registry!RegistryInv, Registry!TypeOK
  <2> QED
    BY <1>2, <2>1, ZenonT(30) DEF Registry!NewRecord, Registry!ImageRecords, Registry!Variants, Registry!Handle
<1> HIDE DEF j
<1>4. image' \in [Images -> Registry!ImageRecords \cup {None}]
      /\ \A i \in Images : image[i] # None => image'[i] = image[i]
  BY <1>1, <1>2, <1>3, ZenonT(30)
<1>5. Registry!CellsHold'
  <2>1. cell' = cell /\ built' = built
    BY <1>1
  <2>2. Registry!CellsHold
    OBVIOUS
  <2> HIDE DEF Registry!RegistryInv, Registry!TypeOK
  <2> QED
    BY <1>4, <2>1, <2>2, ZenonT(30) DEF Registry!CellsHold
<1> QED
  BY <1>1, <1>4, <1>5, StepReleases, SMTT(30) DEF j

\* unregister_image takes the lock and looks for cells of the image.
LEMMA UnregisterKeeps ==
  ASSUME Registry!RegistryInv, NEW p \in Processes, NEW i \in Images, Registry!UnregisterImage(p, i)
  PROVE  Registry!RegistryInv'
<1> DEFINE j == [Registry!Idle EXCEPT !.pc = "unregister", !.image = i]
<1> USE DEF Registry!RegistryInv, Registry!TypeOK
<1>1. /\ lock = NoProcess /\ lock' = p /\ Registry!Blocking(i) = {}
      /\ job' = [job EXCEPT ![p] = j]
      /\ UNCHANGED <<image, cell, built, path, disk>>
  BY DEF Registry!UnregisterImage, Registry!registry, Registry!files
<1>3. j \in Registry!Jobs /\ j.pc = "unregister" /\ j.image = i
  BY ZenonT(30) DEF Registry!Idle, Registry!Jobs, Registry!Labels, Registry!Sizes
<1> HIDE DEF j
<1>4. job'[p] = j /\ job' \in [Processes -> Registry!Jobs] /\ \A q \in Processes : q # p => job'[q] = job[q]
  BY <1>1, <1>3
<1>5. Registry!TypeOK'
  BY <1>1, <1>4
<1>6. Registry!CellsHold'
  BY <1>1, ZenonT(30) DEF Registry!CellsHold
<1>7. Registry!RegisterHolds(job[p])'
  BY <1>1, <1>3, <1>4, ZenonT(30) DEF Registry!RegisterHolds, Registry!Blocking
<1>8. Registry!GuardHolds(job[p])' /\ Registry!CreateHolds(job[p])'
  BY <1>3, <1>4, ZenonT(30) DEF Registry!GuardHolds, Registry!CreateHolds, Registry!Verifying, Registry!Building
<1> QED
  BY <1>1, <1>4, <1>5, <1>6, <1>7, <1>8, StepUnderLock, ZenonT(30)

\* remove_image_record: no cell that is not destroyed has the image.
LEMMA RetireRecordKeeps ==
  ASSUME Registry!RegistryInv, NEW p \in Processes, Registry!RetireRecord(p)
  PROVE  Registry!RegistryInv'
<1> USE DEF Registry!RegistryInv, Registry!TypeOK
<1>1. /\ job[p].pc = "unregister" /\ Registry!Release(p) /\ UNCHANGED <<cell, built, path, disk>>
      /\ image' = [image EXCEPT ![job[p].image] = None]
  BY DEF Registry!RetireRecord, Registry!files
<1>2. job[p].image \in Images /\ Registry!Blocking(job[p].image) = {}
  BY <1>1, ZenonT(30) DEF Registry!RegisterHolds
<1>3. \A c \in Cells : cell[c].state \in {"Creating", "Failed"} => cell[c].image # job[p].image
  BY <1>2, ZenonT(30) DEF Registry!Blocking
<1>4. image' \in [Images -> Registry!ImageRecords \cup {None}]
      /\ \A i \in Images : i # job[p].image => image'[i] = image[i]
  BY <1>1, <1>2
<1>5. Registry!CellsHold'
  BY <1>1, <1>3, <1>4, ZenonT(30) DEF Registry!CellsHold
<1> QED
  BY <1>1, <1>4, <1>5, StepReleases
\* create takes the lock and opens the base of the record it read.
LEMMA CreateCellKeeps ==
  ASSUME Registry!RegistryInv, NEW p \in Processes, NEW c \in Cells, NEW i \in Images,
         NEW v \in Providers, Registry!CreateCell(p, c, i, v)
  PROVE  Registry!RegistryInv'
<1> DEFINE f == image[i].variant.file
           j == [Registry!Idle EXCEPT !.pc = "inspect", !.image = i, !.provider = v,
                          !.cell = c, !.file = f, !.inode = path[f],
                          !.size = disk[path[f]].size]
<1> USE DEF Registry!RegistryInv, Registry!TypeOK
<1>1. /\ lock = NoProcess /\ lock' = p /\ path[f] # None /\ cell[c].state = "Absent"
      /\ image[i] # None
      /\ job' = [job EXCEPT ![p] = j]
      /\ UNCHANGED <<image, cell, built, path, disk>>
  BY DEF Registry!CreateCell, Registry!CanOpen, Registry!registry, Registry!files
<1>2. f \in Files /\ path[f] \in Inodes /\ disk[path[f]] \in Contents
  BY <1>1 DEF Registry!Variants, Registry!ImageRecords
<1>3. j \in Registry!Jobs /\ j.pc = "inspect" /\ j.file = f /\ j.inode = path[f] /\ j.image = i
      /\ j.cell = c
  BY <1>2, ZenonT(30) DEF Registry!Idle, Registry!Jobs, Registry!Labels, Registry!Sizes
<1> HIDE DEF j
<1>4. job'[p] = j /\ job' \in [Processes -> Registry!Jobs] /\ \A q \in Processes : q # p => job'[q] = job[q]
  BY <1>1, <1>3, ZenonT(30)
<1>5. Registry!TypeOK'
  BY <1>1, <1>4
<1>6. Registry!CellsHold'
  BY <1>1, ZenonT(30) DEF Registry!CellsHold
<1>7. Registry!GuardHolds(job[p])'
  BY <1>1, <1>2, <1>3, <1>4, ZenonT(30) DEF Registry!GuardHolds
<1>8. Registry!RegisterHolds(job[p])' /\ Registry!CreateHolds(job[p])'
  BY <1>1, <1>3, <1>4, ZenonT(30) DEF Registry!RegisterHolds, Registry!CreateHolds, Registry!Verifying, Registry!Building
<1> QED
  BY <1>1, <1>4, <1>5, <1>6, <1>7, <1>8, StepUnderLock, ZenonT(30)

\* A step of a create that only moves its next, the registry, the cells and
\* the files staying as they are.
LEMMA LabelMoves ==
  ASSUME Registry!RegistryInv, NEW p \in Processes, job[p].pc \in Registry!Verifying \cup Registry!Building,
         NEW next \in Registry!Labels, job' = [job EXCEPT ![p].pc = next],
         UNCHANGED <<lock, image, cell, built, path, disk>>,
         Registry!CreateHolds([job[p] EXCEPT !.pc = next]),
         next \in Registry!Verifying \cup Registry!Building
  PROVE  Registry!RegistryInv'
<1> DEFINE j == [job[p] EXCEPT !.pc = next]
<1> USE DEF Registry!RegistryInv, Registry!TypeOK
<1>0. job[p] \in Registry!Jobs
  OBVIOUS
<1> HIDE DEF Registry!RegistryInv, Registry!TypeOK
<1>1. j \in Registry!Jobs /\ j.pc = next /\ j.file = job[p].file /\ j.inode = job[p].inode
      /\ j.changed = job[p].changed
  BY <1>0 DEF Registry!Jobs
<1> USE DEF Registry!RegistryInv, Registry!TypeOK
<1>2. job'[p] = j /\ job' \in [Processes -> Registry!Jobs] /\ \A q \in Processes : q # p => job'[q] = job[q]
  BY <1>1
<1>3. Registry!CreateHolds(j)
  OBVIOUS
<1> HIDE DEF j
<1>4. Registry!TypeOK'
  BY <1>2
<1>5. Registry!CellsHold'
  BY DEF Registry!CellsHold
<1>6. lock = p
  BY DEF Registry!OneAtWork, Registry!Verifying, Registry!Building
<1>7. Registry!GuardHolds(job[p])'
  BY <1>1, <1>2, SMTT(30) DEF Registry!GuardHolds, Registry!Verifying, Registry!Building
<1>8. Registry!RegisterHolds(job[p])'
  BY <1>1, <1>2, SMTT(30) DEF Registry!RegisterHolds, Registry!Verifying, Registry!Building
<1>9. Registry!CreateHolds(job[p])'
  BY <1>2, <1>3 DEF Registry!CreateHolds
<1> QED
  BY <1>2, <1>4, <1>5, <1>6, <1>7, <1>8, <1>9, StepUnderLock

\* What a command of a create knows of itself.
LEMMA CreateJob ==
  ASSUME Registry!RegistryInv, NEW p \in Processes, job[p].pc \in Registry!Verifying \cup Registry!Building
  PROVE  /\ lock = p /\ job[p] \in Registry!Jobs /\ job[p].pc # "idle"
         /\ job[p].cell \in Cells /\ job[p].image \in Images /\ image[job[p].image] # None
         /\ image[job[p].image].variant \in Registry!Variants
         /\ job[p].file = image[job[p].image].variant.file
         /\ job[p].file \in Files /\ job[p].inode \in Inodes
         /\ job[p].changed \in BOOLEAN
         /\ ~job[p].changed => path[job[p].file] = job[p].inode
         /\ Registry!CreateHolds(job[p])
<1>1. /\ job[p] \in Registry!Jobs /\ Registry!GuardHolds(job[p]) /\ Registry!CreateHolds(job[p])
      /\ image \in [Images -> Registry!ImageRecords \cup {None}]
  BY DEF Registry!RegistryInv, Registry!TypeOK
<1>2. lock = p /\ job[p].pc # "idle"
  BY DEF Registry!RegistryInv, Registry!OneAtWork, Registry!Verifying, Registry!Building
<1>3. /\ job[p].cell \in Cells /\ job[p].image \in Images /\ image[job[p].image] # None
      /\ job[p].file = image[job[p].image].variant.file
  BY <1>1, ZenonT(30) DEF Registry!CreateHolds
<1>4. /\ job[p].file \in Files /\ job[p].inode \in Inodes
      /\ ~job[p].changed => path[job[p].file] = job[p].inode
  BY <1>1 DEF Registry!GuardHolds, Registry!Verifying, Registry!Building
<1>5. job[p].changed \in BOOLEAN
  BY <1>1, SMTT(30) DEF Registry!Jobs
<1>6. image[job[p].image].variant \in Registry!Variants
  BY <1>1, <1>3, SMTT(30) DEF Registry!ImageRecords
<1> QED
  BY <1>1, <1>2, <1>3, <1>4, <1>5, <1>6, ZenonT(30)

\* The cells hold as long as they, the registry and the overlays stay.
LEMMA CellsStay ==
  ASSUME Registry!RegistryInv, UNCHANGED <<image, cell, built>>
  PROVE  Registry!CellsHold'
BY DEF Registry!RegistryInv, Registry!CellsHold

\* Types of what stays.
LEMMA TypesStay ==
  ASSUME Registry!RegistryInv, UNCHANGED <<image, cell>>
  PROVE  /\ image' \in [Images -> Registry!ImageRecords \cup {None}]
         /\ cell' \in [Cells -> Registry!CellRecords]
BY DEF Registry!RegistryInv, Registry!TypeOK

\* The inspection of verify_registered_image.
LEMMA VerifyInspectKeeps ==
  ASSUME Registry!RegistryInv, NEW p \in Processes, Registry!VerifyInspect(p)
  PROVE  Registry!RegistryInv'
<1>1. /\ job[p].pc = "inspect" /\ UNCHANGED <<image, cell, built, path, disk>>
      /\ \/ job' = [job EXCEPT ![p].pc = "hash"] /\ lock' = lock
         \/ Registry!Release(p)
  BY SMTT(30) DEF Registry!VerifyInspect, Registry!registry, Registry!files
<1>2. job[p].pc \in Registry!Verifying \cup Registry!Building
  BY <1>1, SMTT(30) DEF Registry!Verifying
<1>3. job[p] \in Registry!Jobs /\ Registry!CreateHolds(job[p]) /\ job[p].pc # "idle"
  BY <1>2, CreateJob
<1>4. Registry!CreateHolds([job[p] EXCEPT !.pc = "hash"])
  BY <1>1, <1>3 DEF Registry!CreateHolds, Registry!Jobs, Registry!Verifying, Registry!Building
<1>5. "hash" \in Registry!Labels /\ "hash" \in Registry!Verifying \cup Registry!Building
  BY DEF Registry!Labels, Registry!Verifying
<1>6. Registry!CellsHold'
  BY <1>1, CellsStay
<1> QED
  BY <1>1, <1>2, <1>3, <1>4, <1>5, <1>6, LabelMoves, StepReleases, TypesStay

\* The digest is that of the open handle, and equals the registered one.
LEMMA VerifyHashKeeps ==
  ASSUME Registry!RegistryInv, NEW p \in Processes, Registry!VerifyHash(p)
  PROVE  Registry!RegistryInv'
<1>1. /\ job[p].pc = "hash" /\ UNCHANGED <<image, cell, built, path, disk>>
      /\ \/ /\ job' = [job EXCEPT ![p].pc = "intent"] /\ lock' = lock
            /\ disk[job[p].inode].hash = image[job[p].image].variant.hash
         \/ Registry!Release(p)
  BY DEF Registry!VerifyHash, Registry!registry, Registry!files, Registry!Handle
<1>2. job[p].pc \in Registry!Verifying \cup Registry!Building
  BY <1>1 DEF Registry!Verifying
<1>3. job[p] \in Registry!Jobs /\ Registry!CreateHolds(job[p]) /\ job[p].pc # "idle"
  BY <1>2, CreateJob
<1>4. disk[job[p].inode].hash = image[job[p].image].variant.hash
        => Registry!CreateHolds([job[p] EXCEPT !.pc = "intent"])
  BY <1>1, <1>3 DEF Registry!CreateHolds, Registry!Jobs, Registry!Verifying, Registry!Building
<1>5. "intent" \in Registry!Labels /\ "intent" \in Registry!Verifying \cup Registry!Building
  BY DEF Registry!Labels, Registry!Verifying
<1>6. Registry!CellsHold'
  BY <1>1, CellsStay
<1> QED
  BY <1>1, <1>2, <1>3, <1>4, <1>5, <1>6, LabelMoves, StepReleases, TypesStay

\* The first record of the cell copies the variant that the create read and
\* that nobody could unregister meanwhile.
LEMMA SaveIntentKeeps ==
  ASSUME Registry!RegistryInv, NEW p \in Processes, Registry!SaveIntent(p)
  PROVE  Registry!RegistryInv'
<1> DEFINE i == job[p].image
           d == job[p].cell
           r == [state |-> "Creating", phase |-> "IntentRecorded", image |-> i,
                 binding |-> image[i].variant]
           j == [job[p] EXCEPT !.pc = "precheck"]
<1>1. /\ job[p].pc = "intent" /\ cell' = [cell EXCEPT ![d] = r]
      /\ job' = [job EXCEPT ![p] = j] /\ UNCHANGED <<lock, image, built, path, disk>>
  BY DEF Registry!SaveIntent, Registry!registry, Registry!files
<1>2. job[p].pc \in Registry!Verifying \cup Registry!Building
  BY <1>1 DEF Registry!Verifying
<1>3. /\ lock = p /\ job[p] \in Registry!Jobs /\ d \in Cells /\ i \in Images /\ image[i] # None
      /\ image[i].variant \in Registry!Variants /\ Registry!CreateHolds(job[p])
      /\ job[p].file \in Files /\ job[p].inode \in Inodes
      /\ Registry!GuardHolds(job[p])
  BY <1>2, CreateJob, ZenonT(30) DEF Registry!RegistryInv
<1>4. /\ j \in Registry!Jobs /\ j.pc = "precheck" /\ j.image = i /\ j.cell = d
      /\ j.file = job[p].file /\ j.inode = job[p].inode /\ j.changed = job[p].changed
  BY <1>3, SMTT(30) DEF Registry!Jobs, Registry!Labels
<1>5. r \in Registry!CellRecords
  BY <1>3, SMTT(30) DEF Registry!CellRecords
<1>6. r.state = "Creating" /\ r.phase = "IntentRecorded" /\ r.image = i /\ r.binding = image[i].variant
  BY SMTT(30)
<1> HIDE DEF j, r
<1>7. job'[p] = j /\ \A q \in Processes : q # p => job'[q] = job[q]
  BY <1>1 DEF Registry!RegistryInv, Registry!TypeOK
<1>8. cell'[d] = r /\ \A c \in Cells : c # d => cell'[c] = cell[c]
  BY <1>1, <1>3, SMTT(30) DEF Registry!RegistryInv, Registry!TypeOK
<1>9. Registry!TypeOK'
  BY <1>1, <1>4, <1>5, ZenonT(30) DEF Registry!RegistryInv, Registry!TypeOK
<1>10. Registry!CellsHold'
  <2> SUFFICES ASSUME NEW c \in Cells
      PROVE /\ cell'[c].state \in {"Creating", "Failed"} =>
                 /\ cell'[c].image \in Images /\ image[cell'[c].image] # None
                 /\ image[cell'[c].image].variant = cell'[c].binding
            /\ cell'[c].state = "Absent" => cell'[c].phase = "Absent"
            /\ cell'[c].phase = "OverlayCreated" =>
                 built[c] # None /\ built[c].hash = cell'[c].binding.hash
    BY <1>1, ZenonT(30) DEF Registry!CellsHold
  <2>1. CASE c = d
    BY <1>3, <1>6, <1>8, <2>1, ZenonT(30)
  <2>2. CASE c # d
    <3>1. cell'[c] = cell[c]
      BY <1>8, <2>2, Zenon
    <3> QED
      BY <3>1, ZenonT(30) DEF Registry!RegistryInv, Registry!CellsHold
  <2> QED
    BY <2>1, <2>2, ZenonT(30)
<1>11. Registry!GuardHolds(job[p])'
  BY <1>1, <1>3, <1>4, <1>7, ZenonT(30) DEF Registry!GuardHolds
<1>12. Registry!RegisterHolds(job[p])'
  BY <1>4, <1>7 DEF Registry!RegisterHolds
<1>13. Registry!CreateHolds(job[p])'
  <2>1. /\ job[p].file = image[i].variant.file
        /\ ~job[p].changed => disk[job[p].inode].hash = image[i].variant.hash
    BY <1>1, <1>2, <1>3, ZenonT(30) DEF Registry!CreateHolds
  <2>2. /\ job'[p].pc = "precheck" /\ job'[p].image = i /\ job'[p].cell = d
        /\ job'[p].file = job[p].file /\ job'[p].inode = job[p].inode
        /\ job'[p].changed = job[p].changed
    BY <1>4, <1>7, ZenonT(30)
  <2>3. image' = image /\ disk' = disk /\ cell'[d] = r
    BY <1>1, <1>8
  <2> QED
    BY <1>3, <2>1, <2>2, <2>3, ZenonT(30) DEF Registry!CreateHolds, Registry!Verifying, Registry!Building, r
<1> QED
  BY <1>1, <1>3, <1>7, <1>9, <1>10, <1>11, <1>12, <1>13, StepUnderLock, ZenonT(30)

\* fail_record keeps the binding, and gives up a cell without an overlay.
LEMMA FailKeeps ==
  ASSUME Registry!RegistryInv, NEW p \in Processes, job[p].pc \in Registry!Building, Registry!Fail(p),
         UNCHANGED <<image, built, path, disk>>
  PROVE  Registry!RegistryInv'
<1> DEFINE d == job[p].cell
           r == [cell[d] EXCEPT !.state = "Failed"]
<1>1. /\ d \in Cells /\ job[p].image \in Images /\ image[job[p].image] # None /\ job[p].pc # "idle"
      /\ Registry!CreateHolds(job[p])
  BY CreateJob, ZenonT(30)
<1>2. cell[d] = [state |-> "Creating", phase |-> "IntentRecorded", image |-> job[p].image,
                 binding |-> image[job[p].image].variant]
  BY <1>1, ZenonT(30) DEF Registry!CreateHolds
<1>3. /\ r.state = "Failed" /\ r.phase = "IntentRecorded" /\ r.image = job[p].image
      /\ r.binding = image[job[p].image].variant
  BY <1>2
<1>4. cell' = [cell EXCEPT ![d] = r] /\ Registry!Release(p)
  BY DEF Registry!Fail
<1>5. r \in Registry!CellRecords
  BY <1>1 DEF Registry!RegistryInv, Registry!TypeOK, Registry!CellRecords
<1> HIDE DEF r
<1>6. cell'[d] = r /\ \A c \in Cells : c # d => cell'[c] = cell[c]
  BY <1>1, <1>4 DEF Registry!RegistryInv, Registry!TypeOK
<1>7. Registry!CellsHold'
  <2> SUFFICES ASSUME NEW c \in Cells
      PROVE /\ cell'[c].state \in {"Creating", "Failed"} =>
                 /\ cell'[c].image \in Images /\ image[cell'[c].image] # None
                 /\ image[cell'[c].image].variant = cell'[c].binding
            /\ cell'[c].state = "Absent" => cell'[c].phase = "Absent"
            /\ cell'[c].phase = "OverlayCreated" =>
                 built[c] # None /\ built[c].hash = cell'[c].binding.hash
    BY DEF Registry!CellsHold
  <2>1. CASE c = d
    BY <1>1, <1>3, <1>6, <2>1, ZenonT(30)
  <2>2. CASE c # d
    <3>1. cell'[c] = cell[c]
      BY <1>6, <2>2, Zenon
    <3> QED
      BY <3>1, ZenonT(30) DEF Registry!RegistryInv, Registry!CellsHold
  <2> QED
    BY <2>1, <2>2, ZenonT(30)
<1>8. /\ image' \in [Images -> Registry!ImageRecords \cup {None}]
      /\ cell' \in [Cells -> Registry!CellRecords]
  BY <1>4, <1>5, ZenonT(30) DEF Registry!RegistryInv, Registry!TypeOK
<1> QED
  BY <1>1, <1>4, <1>7, <1>8, StepReleases, ZenonT(30)

\* The path is checked before the overlay is derived.
LEMMA PrecheckKeeps ==
  ASSUME Registry!RegistryInv, NEW p \in Processes, Registry!Precheck(p)
  PROVE  Registry!RegistryInv'
<1>1. /\ job[p].pc = "precheck" /\ UNCHANGED <<image, built, path, disk>>
      /\ \/ job' = [job EXCEPT ![p].pc = "overlay"] /\ lock' = lock /\ cell' = cell
         \/ Registry!Fail(p)
  BY DEF Registry!Precheck, Registry!registry, Registry!files
<1>2. job[p].pc \in Registry!Building
  BY <1>1, SMTT(30) DEF Registry!Building
<1>3. job[p] \in Registry!Jobs /\ Registry!CreateHolds(job[p])
  BY <1>2, CreateJob, ZenonT(30)
<1>4. Registry!CreateHolds([job[p] EXCEPT !.pc = "overlay"])
  BY <1>1, <1>3 DEF Registry!CreateHolds, Registry!Jobs, Registry!Verifying, Registry!Building
<1>5. "overlay" \in Registry!Labels /\ "overlay" \in Registry!Verifying \cup Registry!Building
  BY DEF Registry!Labels, Registry!Building
<1> QED
  BY <1>1, <1>2, <1>3, <1>4, <1>5, LabelMoves, FailKeeps

\* The overlay is derived from the registered content unless the guard saw a
\* change.
LEMMA CreateOverlayKeeps ==
  ASSUME Registry!RegistryInv, NEW p \in Processes, Registry!CreateOverlay(p)
  PROVE  Registry!RegistryInv'
<1> DEFINE d == job[p].cell
           b == disk[path[job[p].file]]
           j == [job[p] EXCEPT !.pc = "postcheck"]
<1>1. job[p].pc = "overlay" /\ UNCHANGED <<image, path, disk>>
  BY DEF Registry!CreateOverlay, Registry!registry, Registry!files
<1>2. job[p].pc \in Registry!Building
  BY <1>1 DEF Registry!Building
<1>3. /\ lock = p /\ job[p] \in Registry!Jobs /\ d \in Cells /\ Registry!CreateHolds(job[p])
      /\ job[p].file \in Files /\ Registry!GuardHolds(job[p])
      /\ ~job[p].changed => path[job[p].file] = job[p].inode
  BY <1>2, CreateJob, ZenonT(30) DEF Registry!RegistryInv
<1>4. CASE Registry!Fail(p) /\ UNCHANGED built
  BY <1>1, <1>2, <1>4, FailKeeps
<1>5. CASE /\ path[job[p].file] # None /\ built' = [built EXCEPT ![d] = b]
           /\ job' = [job EXCEPT ![p] = j] /\ UNCHANGED <<cell, lock>>
  <2>1. b \in Contents
    BY <1>3, <1>5 DEF Registry!RegistryInv, Registry!TypeOK
  <2>2. /\ j \in Registry!Jobs /\ j.pc = "postcheck" /\ j.image = job[p].image /\ j.cell = d
        /\ j.file = job[p].file /\ j.inode = job[p].inode /\ j.changed = job[p].changed
    BY <1>3 DEF Registry!Jobs, Registry!Labels
  <2>3. cell[d].phase = "IntentRecorded"
    <3>1. cell[d] = [state |-> "Creating", phase |-> "IntentRecorded", image |-> job[p].image,
                     binding |-> image[job[p].image].variant]
      BY <1>2, <1>3, ZenonT(30) DEF Registry!CreateHolds
    <3> QED
      BY <3>1
  <2> HIDE DEF j
  <2>4. job'[p] = j /\ \A q \in Processes : q # p => job'[q] = job[q]
    BY <1>5 DEF Registry!RegistryInv, Registry!TypeOK
  <2>5. built'[d] = b /\ \A c \in Cells : c # d => built'[c] = built[c]
    BY <1>3, <1>5 DEF Registry!RegistryInv, Registry!TypeOK
  <2>6. Registry!TypeOK'
    BY <1>1, <1>5, <2>1, <2>2, ZenonT(30) DEF Registry!RegistryInv, Registry!TypeOK
  <2>7. Registry!CellsHold'
    BY <1>1, <1>5, <2>3, <2>5, ZenonT(30) DEF Registry!RegistryInv, Registry!CellsHold
  <2>8. Registry!GuardHolds(job[p])'
    BY <1>1, <1>3, <2>2, <2>4, ZenonT(30) DEF Registry!GuardHolds
  <2>9. Registry!RegisterHolds(job[p])'
    BY <2>2, <2>4, ZenonT(30) DEF Registry!RegisterHolds
  <2>10. Registry!CreateHolds(job[p])'
    <3>1. /\ job[p].image \in Images /\ image[job[p].image] # None
          /\ job[p].file = image[job[p].image].variant.file
          /\ cell[d] = [state |-> "Creating", phase |-> "IntentRecorded", image |-> job[p].image,
                        binding |-> image[job[p].image].variant]
          /\ ~job[p].changed => disk[job[p].inode].hash = image[job[p].image].variant.hash
      BY <1>2, <1>3, ZenonT(30) DEF Registry!CreateHolds
    <3>2. /\ job'[p].pc = "postcheck" /\ job'[p].image = job[p].image /\ job'[p].cell = d
          /\ job'[p].file = job[p].file /\ job'[p].inode = job[p].inode
          /\ job'[p].changed = job[p].changed
      BY <2>2, <2>4, ZenonT(30)
    <3>3. built'[d] # None /\ (~job[p].changed => built'[d] = disk[job[p].inode])
      BY <1>3, <2>1, <2>5, RegistryAssumption, ZenonT(30)
    <3>4. image' = image /\ disk' = disk /\ cell' = cell
      BY <1>1, <1>5, ZenonT(30)
    <3> QED
      BY <1>3, <3>1, <3>2, <3>3, <3>4, ZenonT(30) DEF Registry!CreateHolds, Registry!Verifying, Registry!Building
  <2> QED
    BY <1>3, <1>5, <2>4, <2>6, <2>7, <2>8, <2>9, <2>10, StepUnderLock, ZenonT(30)
<1> QED
  BY <1>4, <1>5 DEF Registry!CreateOverlay

\* The overlay is accepted only by a guard that saw no change.
LEMMA PostcheckKeeps ==
  ASSUME Registry!RegistryInv, NEW p \in Processes, Registry!Postcheck(p)
  PROVE  Registry!RegistryInv'
<1> DEFINE d == job[p].cell
           r == [cell[d] EXCEPT !.phase = "OverlayCreated"]
<1>1. job[p].pc = "postcheck" /\ UNCHANGED <<image, built, path, disk>>
  BY DEF Registry!Postcheck, Registry!registry, Registry!files
<1>2. job[p].pc \in Registry!Building
  BY <1>1 DEF Registry!Building
<1>3. CASE Registry!Fail(p)
  BY <1>1, <1>2, <1>3, FailKeeps
<1>4. CASE Registry!PathIdentity(job[p]) /\ Registry!Release(p)
           /\ cell' = [cell EXCEPT ![d] = r]
  <2>1. /\ d \in Cells /\ job[p].image \in Images /\ image[job[p].image] # None /\ job[p].pc # "idle"
        /\ Registry!CreateHolds(job[p])
    BY <1>2, CreateJob
  <2>2. /\ cell[d] = [state |-> "Creating", phase |-> "IntentRecorded", image |-> job[p].image,
                      binding |-> image[job[p].image].variant]
        /\ built[d] # None /\ built[d].hash = image[job[p].image].variant.hash
    BY <1>1, <1>2, <1>4, <2>1 DEF Registry!CreateHolds, Registry!PathIdentity
  <2>3. /\ r.state = "Creating" /\ r.phase = "OverlayCreated" /\ r.image = job[p].image
        /\ r.binding = image[job[p].image].variant
    BY <2>2
  <2>4. r \in Registry!CellRecords
    BY <2>1 DEF Registry!RegistryInv, Registry!TypeOK, Registry!CellRecords
  <2> HIDE DEF r
  <2>5. cell'[d] = r /\ \A c \in Cells : c # d => cell'[c] = cell[c]
    BY <1>4, <2>1, SMTT(30) DEF Registry!RegistryInv, Registry!TypeOK
  <2>6. Registry!CellsHold'
    <3> SUFFICES ASSUME NEW c \in Cells
        PROVE /\ cell'[c].state \in {"Creating", "Failed"} =>
                   /\ cell'[c].image \in Images /\ image[cell'[c].image] # None
                   /\ image[cell'[c].image].variant = cell'[c].binding
              /\ cell'[c].state = "Absent" => cell'[c].phase = "Absent"
              /\ cell'[c].phase = "OverlayCreated" =>
                   built[c] # None /\ built[c].hash = cell'[c].binding.hash
      BY <1>1, ZenonT(30) DEF Registry!CellsHold
    <3>1. CASE c = d
      BY <2>1, <2>2, <2>3, <2>5, <3>1, ZenonT(30)
    <3>2. CASE c # d
      <4>1. cell'[c] = cell[c]
        BY <2>5, <3>2, Zenon
      <4> QED
        BY <4>1, ZenonT(30) DEF Registry!RegistryInv, Registry!CellsHold
    <3> QED
      BY <3>1, <3>2
  <2>7. /\ image' \in [Images -> Registry!ImageRecords \cup {None}]
        /\ cell' \in [Cells -> Registry!CellRecords]
    BY <1>1, <1>4, <2>4, ZenonT(30) DEF Registry!RegistryInv, Registry!TypeOK
  <2> QED
    BY <1>1, <1>4, <2>1, <2>6, <2>7, StepReleases, ZenonT(30)
<1> QED
  BY <1>3, <1>4 DEF Registry!Postcheck

\* A destroy needs the lock, so no command relies on the cell.
LEMMA DestroyCellKeeps ==
  ASSUME Registry!RegistryInv, NEW d \in Cells, Registry!DestroyCell(d)
  PROVE  Registry!RegistryInv'
<1> DEFINE r == [cell[d] EXCEPT !.state = "Destroyed", !.phase = "Destroyed"]
<1>1. /\ lock = NoProcess /\ cell' = [cell EXCEPT ![d] = r]
      /\ UNCHANGED <<lock, job, image, built, path, disk>>
  BY ZenonT(30) DEF Registry!DestroyCell, Registry!registry, Registry!files
<1>2. \A p \in Processes : job'[p].pc = "idle"
  BY <1>1, RegistryAssumption DEF Registry!RegistryInv, Registry!OneAtWork
<1>3. cell[d] \in Registry!CellRecords
  BY DEF Registry!RegistryInv, Registry!TypeOK
<1>4. /\ r.state = "Destroyed" /\ r.phase = "Destroyed"
      /\ r \in Registry!CellRecords
  BY <1>3, ZenonT(30) DEF Registry!CellRecords
<1> HIDE DEF r
<1>5. cell'[d] = r /\ \A c \in Cells : c # d => cell'[c] = cell[c]
  BY <1>1 DEF Registry!RegistryInv, Registry!TypeOK
<1>6. Registry!TypeOK'
  BY <1>1, <1>4 DEF Registry!RegistryInv, Registry!TypeOK
<1>7. Registry!CellsHold'
  BY <1>1, <1>4, <1>5, ZenonT(30) DEF Registry!RegistryInv, Registry!CellsHold
<1>8. Registry!OneAtWork'
  BY <1>2 DEF Registry!OneAtWork
<1>9. \A p \in Processes : /\ Registry!GuardHolds(job[p])' /\ Registry!RegisterHolds(job[p])'
                           /\ Registry!CreateHolds(job[p])'
  BY <1>2, ZenonT(30) DEF Registry!GuardHolds, Registry!RegisterHolds, Registry!CreateHolds, Registry!Verifying,
       Registry!Building
<1> QED
  BY <1>6, <1>7, <1>8, <1>9, ZenonT(30) DEF Registry!RegistryInv

\* A change of a base file: a guard on what changes saw it, and every other
\* guard still has its path and its content.
LEMMA UserEditsKeep ==
  ASSUME Registry!RegistryInv, NEW fs, NEW ns, Registry!UserEdits(fs, ns),
         path' \in [Files -> Inodes \cup {None}], disk' \in [Inodes -> Contents],
         \A f \in Files : f \notin fs => path'[f] = path[f],
         \A n \in Inodes : n \notin ns => disk'[n] = disk[n]
  PROVE  Registry!RegistryInv'
<1>1. /\ job' = [p \in Processes |-> [job[p] EXCEPT !.changed = @ \/ p \in Registry!Guards(fs, ns)]]
      /\ UNCHANGED <<lock, image, cell, built>>
  BY DEF Registry!UserEdits, Registry!registry
<1>2. ASSUME NEW p \in Processes
      PROVE  /\ job'[p] \in Registry!Jobs /\ job'[p].pc = job[p].pc /\ job'[p].image = job[p].image
             /\ job'[p].provider = job[p].provider /\ job'[p].guest = job[p].guest
             /\ job'[p].cell = job[p].cell /\ job'[p].file = job[p].file /\ job'[p].inode = job[p].inode
             /\ job'[p].info = job[p].info
             /\ ~job'[p].changed => ~job[p].changed /\ p \notin Registry!Guards(fs, ns)
  <2>1. job[p] \in Registry!Jobs
    BY DEF Registry!RegistryInv, Registry!TypeOK
  <2>2. job'[p] = [job[p] EXCEPT !.changed = @ \/ p \in Registry!Guards(fs, ns)]
    BY <1>1
  <2> QED
    BY <2>1, <2>2, ZenonT(30) DEF Registry!Jobs
<1>3. Registry!TypeOK'
  <2>1. job' \in [Processes -> Registry!Jobs]
    BY <1>1, <1>2
  <2> QED
    BY <1>1, <2>1 DEF Registry!RegistryInv, Registry!TypeOK
<1>4. Registry!OneAtWork'
  BY <1>1, <1>2 DEF Registry!RegistryInv, Registry!OneAtWork
<1>5. Registry!CellsHold'
  BY <1>1, CellsStay
<1>6. ASSUME NEW p \in Processes
      PROVE  /\ Registry!GuardHolds(job[p])' /\ Registry!RegisterHolds(job[p])'
             /\ Registry!CreateHolds(job[p])'
  <2>1. Registry!GuardHolds(job[p]) /\ Registry!RegisterHolds(job[p]) /\ Registry!CreateHolds(job[p])
    BY ZenonT(30) DEF Registry!RegistryInv
  <2>2. job[p].pc \notin {"idle", "unregister"} /\ ~job'[p].changed =>
          /\ ~job[p].changed /\ path'[job[p].file] = path[job[p].file]
          /\ disk'[job[p].inode] = disk[job[p].inode]
    BY <1>2, <2>1, ZenonT(30) DEF Registry!GuardHolds, Registry!Guards
  <2>3. Registry!GuardHolds(job[p])'
    BY <1>2, <2>1, <2>2, ZenonT(30) DEF Registry!GuardHolds
  <2>4. Registry!RegisterHolds(job[p])'
    BY <1>1, <1>2, <2>1, SMTT(30) DEF Registry!RegisterHolds, Registry!Blocking
  <2>5. Registry!CreateHolds(job[p])'
    BY <1>1, <1>2, <2>1, <2>2 DEF Registry!CreateHolds, Registry!Verifying, Registry!Building
  <2> QED
    BY <2>3, <2>4, <2>5, ZenonT(30)
<1> QED
  BY <1>3, <1>4, <1>5, <1>6, ZenonT(30) DEF Registry!RegistryInv

\* The three changes a user may make.
LEMMA BaseFileKeeps ==
  ASSUME Registry!RegistryInv,
         \/ \E n \in Inodes, content \in Contents : Registry!WriteContent(n, content)
         \/ \E f \in Files, n \in Inodes : Registry!RenameOver(f, n)
         \/ \E f \in Files : Registry!DeleteBase(f)
  PROVE  Registry!RegistryInv'
<1>1. path \in [Files -> Inodes \cup {None}] /\ disk \in [Inodes -> Contents]
  BY DEF Registry!RegistryInv, Registry!TypeOK
<1>2. ASSUME NEW n \in Inodes, NEW content \in Contents, Registry!WriteContent(n, content)
      PROVE  Registry!RegistryInv'
  <2>1. Registry!UserEdits({}, {n}) /\ path' = path /\ disk' = [disk EXCEPT ![n] = content]
    BY <1>2 DEF Registry!WriteContent
  <2>2. /\ disk' \in [Inodes -> Contents] /\ path' \in [Files -> Inodes \cup {None}]
        /\ \A m \in Inodes : m \notin {n} => disk'[m] = disk[m]
        /\ \A f \in Files : f \notin {} => path'[f] = path[f]
    BY <1>1, <2>1
  <2> QED
    BY <2>1, <2>2, UserEditsKeep
<1>3. ASSUME NEW f \in Files, NEW n \in Inodes, Registry!RenameOver(f, n)
      PROVE  Registry!RegistryInv'
  <2>1. Registry!UserEdits({f}, {path[f], n}) /\ disk' = disk /\ path' = [path EXCEPT ![f] = n]
    BY <1>3 DEF Registry!RenameOver
  <2>2. /\ disk' \in [Inodes -> Contents] /\ path' \in [Files -> Inodes \cup {None}]
        /\ \A m \in Inodes : m \notin {path[f], n} => disk'[m] = disk[m]
        /\ \A g \in Files : g \notin {f} => path'[g] = path[g]
    BY <1>1, <2>1
  <2> QED
    BY <2>1, <2>2, UserEditsKeep
<1>4. ASSUME NEW f \in Files, Registry!DeleteBase(f)
      PROVE  Registry!RegistryInv'
  <2>1. Registry!UserEdits({f}, {path[f]}) /\ disk' = disk /\ path' = [path EXCEPT ![f] = None]
    BY <1>4 DEF Registry!DeleteBase
  <2>2. /\ disk' \in [Inodes -> Contents] /\ path' \in [Files -> Inodes \cup {None}]
        /\ \A m \in Inodes : m \notin {path[f]} => disk'[m] = disk[m]
        /\ \A g \in Files : g \notin {f} => path'[g] = path[g]
    BY <1>1, <2>1
  <2> QED
    BY <2>1, <2>2, UserEditsKeep
<1> QED
  BY <1>2, <1>3, <1>4

\* The strengthened invariant of the registry.
LEMMA RegistryInvariant == Registry!Spec => []Registry!RegistryInv
<1>1. ASSUME Registry!RegistryInv, [Registry!Next]_Registry!vars
      PROVE  Registry!RegistryInv'
  <2>1. CASE UNCHANGED Registry!vars
    <3>1. UNCHANGED <<lock, job, image, cell, built, path, disk>>
      BY <2>1 DEF Registry!vars
    <3>2. Registry!TypeOK' /\ Registry!OneAtWork'
      BY <1>1, <3>1 DEF Registry!RegistryInv, Registry!TypeOK, Registry!OneAtWork
    <3>3. Registry!CellsHold'
      BY <1>1, <3>1, CellsStay
    <3>4. ASSUME NEW p \in Processes
          PROVE  /\ Registry!GuardHolds(job[p])' /\ Registry!RegisterHolds(job[p])'
                 /\ Registry!CreateHolds(job[p])'
      BY <1>1, <3>1, ZenonT(30) DEF Registry!RegistryInv, Registry!GuardHolds, Registry!RegisterHolds,
           Registry!CreateHolds, Registry!Blocking
    <3> QED
      BY <3>2, <3>3, <3>4 DEF Registry!RegistryInv
  <2>2. CASE Registry!Next
    BY <1>1, <2>2, RegisterImageKeeps, RegisterInspectKeeps, RegisterSaveKeeps, UnregisterKeeps,
       RetireRecordKeeps, CreateCellKeeps, VerifyInspectKeeps, VerifyHashKeeps, SaveIntentKeeps, PrecheckKeeps,
       CreateOverlayKeeps, PostcheckKeeps, CrashKeeps, DestroyCellKeeps, BaseFileKeeps, ZenonT(30)
    DEF Registry!Next
  <2> QED
    BY <1>1, <2>1, <2>2
<1> QED
  BY <1>1, RegistryInitially, PTL DEF Registry!Spec

\* No interleaving of register, unregister, create, destroy and crashes leaves a
\* cell whose image is gone or was registered anew (unregister_image,
\* create_cell).
THEOREM RegisteredDependencies == Registry!Spec => []DependenciesRegistered
<1>1. Registry!RegistryInv => DependenciesRegistered
  BY ZenonT(30) DEF DependenciesRegistered, Registry!DependenciesRegistered, Registry!RegistryInv, Registry!CellsHold
<1> QED
  BY <1>1, RegistryInvariant, PTL

\* Whatever a user does to the base files, and however often, an overlay that
\* create accepted has the registered content below it (ImmutableParentGuard).
THEOREM RegisteredOverlays == Registry!Spec => []OverlayFromRegisteredBase
<1>1. Registry!RegistryInv => OverlayFromRegisteredBase
  BY ZenonT(30) DEF OverlayFromRegisteredBase, Registry!OverlayFromRegisteredBase, Registry!RegistryInv,
         Registry!CellsHold
<1> QED
  BY <1>1, RegistryInvariant, PTL

\* validate_registered_image finds every fault that create's own checks,
\* verify_registered_image and validate_base_image, would find.
THEOREM UsableIsCreatable == Registry!Spec => []UsableMeansCreatable
<1>1. UsableMeansCreatable
  <2> SUFFICES ASSUME NEW i \in Images, NEW v \in Providers, image[i] # None, Registry!RegisteredUsable(i, v)
      PROVE  LET variant == image[i].variant
                 now == disk[path[variant.file]]
             IN /\ variant.provider = v /\ Registry!CanOpen(variant.file)
                /\ now.size = variant.size
                /\ Registry!ValidBase(v, now.size, now)
                /\ now.hash = variant.hash
    BY ZenonT(30) DEF UsableMeansCreatable, Registry!UsableMeansCreatable
  <2> DEFINE variant == image[i].variant
             now == disk[path[variant.file]]
  <2>1. /\ variant.provider = v /\ path[variant.file] # None
        /\ Registry!BaseIssues(v, now.size, now) = {}
        /\ Registry!DriftIssues(variant, variant.file, now.size, now.hash, now) = {}
    BY ZenonT(30) DEF Registry!RegisteredUsable
  <2> HIDE DEF variant, now
  <2>2. Registry!ValidBase(v, now.size, now)
    BY <2>1, ZenonT(30) DEF Registry!BaseIssues, Registry!ValidBase
  <2>3. now.size = variant.size /\ now.hash = variant.hash
    BY <2>1 DEF Registry!DriftIssues
  <2> QED
    BY <2>1, <2>2, <2>3, ZenonT(30) DEF Registry!CanOpen, variant, now
<1> QED
  BY <1>1, PTL
=============================================================================
