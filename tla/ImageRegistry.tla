---------------------------- MODULE ImageRegistry ----------------------------
(***************************************************************************)
(* The image registry of vmcell: register, unregister and validate images, *)
(* and the part of create that derives a cell's overlay from a registered  *)
(* base.  The base files belong to the user, who may write to them and     *)
(* rename others over them at any time; the registry and the cells live    *)
(* under the mutation lock.                                                *)
(*                                                                         *)
(* A base path names an inode and the inode has a content.  An open base   *)
(* is an ImmutableParentGuard: on Linux the inotify watch of its path and  *)
(* inode, on Windows a handle that denies write and delete sharing.        *)
(***************************************************************************)
EXTENDS Naturals, FiniteSets

CONSTANTS
  Images,      \* image ids
  Cells,       \* cell ids
  Files,       \* canonical paths of base files
  Extension,   \* Extension[f]: the file name's extension
  Inodes,      \* the files a user may put at these paths
  Contents,    \* what an inode may hold: hash, size, format, type, parent
  Platforms,   \* the hosts checked
  Providers,   \* the providers a command may select
  GuestSystems,\* the guest_os and guest_arch a registration may state
  Processes,   \* vmcell invocations sharing the state root
  NoProcess,   \* the mutation lock is free
  None,        \* no record, no file
  MaxEdits,    \* bound on the user's changes to base files
  MaxRecords   \* bound on the records ever registered

VARIABLES
  platform,  \* the host
  lock,      \* the holder of the mutation lock
  job,       \* job[p]: the command of process p, in memory only
  image,     \* image[i]: the durable record images/<i>.json
  retired,   \* how many records were renamed out of the registry
  cell,      \* cell[c]: the durable cell record, its binding and phase
  built,     \* built[c]: the content the overlay of c was derived from
  path,      \* path[f]: the inode at f
  disk,      \* disk[n]: the content of inode n
  edits      \* how often the user changed a base file

vars == <<platform, lock, job, image, retired, cell, built, path, disk, edits>>

registry == <<image, retired>>
files == <<path, disk, edits>>

\* What a process holds: the pc, its request, its guard on a base (file,
\* inode, changed) and what it read of it.
Idle == [pc |-> "idle", image |-> None, provider |-> None, guest |-> None,
         cell |-> None, file |-> None, inode |-> None, changed |-> FALSE,
         size |-> 0, info |-> None]

NoCell == [state |-> "Absent", phase |-> "Absent", image |-> None, binding |-> None]

Init ==
  /\ platform \in Platforms
  /\ lock = NoProcess
  /\ job = [p \in Processes |-> Idle]
  /\ image = [i \in Images |-> None]
  /\ retired = 0
  /\ cell = [c \in Cells |-> NoCell]
  /\ built = [c \in Cells |-> None]
  /\ path \in [Files -> Inodes]
  /\ \A f, g \in Files : path[f] = path[g] => f = g
  /\ disk \in [Inodes -> Contents]
  /\ edits = 0

-----------------------------------------------------------------------------
(***************************************************************************)
(* Image validation                                                        *)
(***************************************************************************)

\* provider_image_format
ProviderFormat(v) == IF v = "hyperv" THEN "vhdx" ELSE "qcow2"

\* The issues validate_image_path finds in an open base: what its handle has,
\* and what the provider says of the path.  An extension of another provider
\* and a base that cannot be opened end the validation earlier.
BaseIssues(v, size, info) ==
  {issue \in {"ProviderFormatMismatch", "BackingParentPresent",
              "DifferencingBase", "ProviderSizeMismatch"} :
     \/ issue = "ProviderFormatMismatch" /\ info.format # ProviderFormat(v)
     \/ issue = "BackingParentPresent" /\ info.parent
     \/ issue = "DifferencingBase" /\ info.type \in {"differencing", "overlay"}
     \/ issue = "ProviderSizeMismatch" /\ info.size # size}

MutantDriftIssues(variant, file, size, hash, info) ==
  IF size = variant.size THEN {} ELSE {"RegisteredSizeDrift"}

\* The further issues of a registered image that drifted.
DriftIssues(variant, file, size, hash, info) ==
  {issue \in {"RegisteredPathDrift", "RegisteredFormatDrift",
              "RegisteredSizeDrift", "RegisteredHashDrift"} :
     \/ issue = "RegisteredPathDrift" /\ file # variant.file
     \/ issue = "RegisteredFormatDrift" /\ info.format # variant.format
     \/ issue = "RegisteredSizeDrift" /\ size # variant.size
     \/ issue = "RegisteredHashDrift" /\ hash # variant.hash}

\* validate_registered_image on a base nobody changes meanwhile.
RegisteredUsable(i, v) ==
  LET variant == image[i].variant
      now == disk[path[variant.file]]
  IN /\ variant.provider = v
     /\ Extension[variant.file] = ProviderFormat(v)
     /\ path[variant.file] # None
     /\ BaseIssues(v, now.size, now) = {}
     /\ DriftIssues(variant, variant.file, now.size, now.hash, now) = {}

\* validate_base_image
ValidBase(v, size, info) ==
  /\ info.format = ProviderFormat(v)
  /\ ~info.parent /\ info.type # "differencing"
  /\ info.size = size

-----------------------------------------------------------------------------
(***************************************************************************)
(* Open bases                                                              *)
(***************************************************************************)

\* The processes with a guard on a path of fs or an inode of ns.
Guards(fs, ns) ==
  {p \in Processes : job[p].inode # None
                     /\ (job[p].file \in fs \/ job[p].inode \in ns)}

\* canonical_image_path and open_immutable_parent
CanOpen(f) == path[f] # None

MutantPathIdentity(j) == path[j.file] = j.inode

\* ImmutableParentGuard::validate_path_identity: no watched event, and the
\* path still names the open inode.
PathIdentity(j) == ~j.changed /\ path[j.file] = j.inode

\* What reading the open handle returns: the inode's content, whatever the
\* path names by now.
Handle(j) == disk[j.inode]

\* A user changes a base file: sharing denies it on Windows while the base is
\* open; on Linux the watch of each guard on it sees the change.
UserEdits(fs, ns) ==
  /\ edits < MaxEdits
  /\ edits' = edits + 1
  /\ platform = "windows" => Guards(fs, ns) = {}
  /\ job' = [p \in Processes |->
               [job[p] EXCEPT !.changed = @ \/ p \in Guards(fs, ns)]]
  /\ UNCHANGED <<platform, lock, registry, cell, built>>

\* In place, through this path or another hard link.
WriteContent(n, content) ==
  /\ disk[n] # content
  /\ UserEdits({}, {n})
  /\ disk' = [disk EXCEPT ![n] = content]
  /\ UNCHANGED path

\* Another file is renamed to the path, perhaps the one that was there before.
RenameOver(f, n) ==
  /\ \A g \in Files : path[g] # n
  /\ UserEdits({f}, {path[f], n})
  /\ path' = [path EXCEPT ![f] = n]
  /\ UNCHANGED disk

DeleteBase(f) ==
  /\ path[f] # None
  /\ UserEdits({f}, {path[f]})
  /\ path' = [path EXCEPT ![f] = None]
  /\ UNCHANGED disk

-----------------------------------------------------------------------------
(***************************************************************************)
(* register_image                                                          *)
(***************************************************************************)

Release(p) == job' = [job EXCEPT ![p] = Idle] /\ lock' = NoProcess

\* Take the lock, open the base and read its size.
RegisterImage(p, i, v, g, f) ==
  /\ job[p].pc = "idle" /\ lock = NoProcess
  /\ Extension[f] = ProviderFormat(v) /\ CanOpen(f)
  /\ lock' = p
  /\ job' = [job EXCEPT ![p] =
       [Idle EXCEPT !.pc = "reg_inspect", !.image = i, !.provider = v,
                    !.guest = g, !.file = f, !.inode = path[f],
                    !.size = disk[path[f]].size]]
  /\ UNCHANGED <<platform, registry, cell, built, files>>

\* The provider inspects the path, which may be gone by now.
RegisterInspect(p) ==
  /\ job[p].pc = "reg_inspect"
  /\ IF CanOpen(job[p].file)
     THEN /\ job' = [job EXCEPT ![p].pc = "reg_hash",
                                ![p].info = disk[path[job[p].file]]]
          /\ UNCHANGED lock
     ELSE Release(p)
  /\ UNCHANGED <<platform, registry, cell, built, files>>

NewRecord(j) ==
  [guest |-> j.guest,
   variant |-> [provider |-> j.provider, format |-> j.info.format,
                file |-> j.file, hash |-> Handle(j).hash, size |-> j.size]]

\* Hash the handle.  A usable base is registered when the id is free; the same
\* record is returned as it is, another one is an ImageConflict.
RegisterSave(p) ==
  /\ job[p].pc = "reg_hash"
  /\ Release(p)
  /\ LET j == job[p]
         usable == BaseIssues(j.provider, j.size, j.info) = {}
     IN image' = [image EXCEPT ![j.image] =
                    IF usable /\ @ = None THEN NewRecord(j) ELSE @]
  /\ Cardinality({i \in Images : image'[i] # None}) + retired <= MaxRecords
  /\ UNCHANGED <<platform, retired, cell, built, files>>

-----------------------------------------------------------------------------
(***************************************************************************)
(* unregister_image and the cells that block it                            *)
(***************************************************************************)

MutantBlocking(i) ==
  {c \in Cells : cell[c].image = i /\ cell[c].state = "Creating"}

\* collect_image_dependencies: the cells of i that are not destroyed.
Blocking(i) ==
  {c \in Cells : /\ cell[c].state # "Absent" /\ cell[c].image = i
                 /\ cell[c].state # "Destroyed" \/ cell[c].phase # "Destroyed"}

\* validate_image_record_for_metadata_removal: the record's own shape.
Removable(i) == Extension[image[i].variant.file] = image[i].variant.format

UnregisterImage(p, i) ==
  /\ job[p].pc = "idle" /\ lock = NoProcess
  /\ Blocking(i) = {}
  /\ image[i] # None /\ Removable(i)
  /\ lock' = p
  /\ job' = [job EXCEPT ![p] = [Idle EXCEPT !.pc = "unregister", !.image = i]]
  /\ UNCHANGED <<platform, registry, cell, built, files>>

\* remove_image_record: one rename within images/.
RetireRecord(p) ==
  /\ job[p].pc = "unregister"
  /\ image' = [image EXCEPT ![job[p].image] = None]
  /\ retired' = retired + 1
  /\ Release(p)
  /\ UNCHANGED <<platform, cell, built, files>>

-----------------------------------------------------------------------------
(***************************************************************************)
(* create_cell, up to the overlay                                          *)
(***************************************************************************)

\* The lock, the record, its variant for this provider, an open base of the
\* recorded path and size.
CreateCell(p, c, i, v) ==
  /\ job[p].pc = "idle" /\ lock = NoProcess
  /\ cell[c].state = "Absent"
  /\ image[i] # None /\ image[i].variant.provider = v
  /\ LET f == image[i].variant.file
     IN /\ CanOpen(f) /\ disk[path[f]].size = image[i].variant.size
        /\ job' = [job EXCEPT ![p] =
             [Idle EXCEPT !.pc = "inspect", !.image = i, !.provider = v,
                          !.cell = c, !.file = f, !.inode = path[f],
                          !.size = disk[path[f]].size]]
  /\ lock' = p
  /\ UNCHANGED <<platform, registry, cell, built, files>>

\* verify_registered_image: the provider's inspection, then the digest, each
\* followed by validate_path_identity.
VerifyInspect(p) ==
  /\ job[p].pc = "inspect"
  /\ LET j == job[p]
     IN IF PathIdentity(j) /\ ValidBase(j.provider, j.size, disk[path[j.file]])
        THEN job' = [job EXCEPT ![p].pc = "hash"] /\ UNCHANGED lock
        ELSE Release(p)
  /\ UNCHANGED <<platform, registry, cell, built, files>>

VerifyHash(p) ==
  /\ job[p].pc = "hash"
  /\ LET j == job[p]
     IN IF PathIdentity(j) /\ Handle(j).hash = image[j.image].variant.hash
        THEN job' = [job EXCEPT ![p].pc = "intent"] /\ UNCHANGED lock
        ELSE Release(p)
  /\ UNCHANGED <<platform, registry, cell, built, files>>

\* The first durable record of the cell, with the binding it copies.
SaveIntent(p) ==
  /\ job[p].pc = "intent"
  /\ cell' = [cell EXCEPT ![job[p].cell] =
       [state |-> "Creating", phase |-> "IntentRecorded",
        image |-> job[p].image, binding |-> image[job[p].image].variant]]
  /\ job' = [job EXCEPT ![p].pc = "precheck"]
  /\ UNCHANGED <<platform, lock, registry, built, files>>

\* fail_record
Fail(p) ==
  /\ cell' = [cell EXCEPT ![job[p].cell].state = "Failed"]
  /\ Release(p)

Precheck(p) ==
  /\ job[p].pc = "precheck"
  /\ IF PathIdentity(job[p])
     THEN job' = [job EXCEPT ![p].pc = "overlay"] /\ UNCHANGED <<cell, lock>>
     ELSE Fail(p)
  /\ UNCHANGED <<platform, registry, built, files>>

\* The provider derives the overlay from what the path names, or fails.
CreateOverlay(p) ==
  /\ job[p].pc = "overlay"
  /\ \/ /\ path[job[p].file] # None
        /\ built' = [built EXCEPT ![job[p].cell] = disk[path[job[p].file]]]
        /\ job' = [job EXCEPT ![p].pc = "postcheck"]
        /\ UNCHANGED <<cell, lock>>
     \/ Fail(p) /\ UNCHANGED built
  /\ UNCHANGED <<platform, registry, files>>

Postcheck(p) ==
  /\ job[p].pc = "postcheck"
  /\ IF PathIdentity(job[p])
     THEN /\ cell' = [cell EXCEPT ![job[p].cell].phase = "OverlayCreated"]
          /\ Release(p)
     ELSE Fail(p)
  /\ UNCHANGED <<platform, registry, built, files>>

\* destroy_cell; the steps of a destroy are those of CellEngine.
DestroyCell(c) ==
  /\ lock = NoProcess
  /\ cell[c].state \in {"Creating", "Failed"}
  /\ cell' = [cell EXCEPT ![c].state = "Destroyed", ![c].phase = "Destroyed"]
  /\ UNCHANGED <<platform, lock, job, registry, built, files>>

\* The process dies: the kernel drops its lock, its handles and its watches.
Crash(p) ==
  /\ job[p].pc # "idle"
  /\ Release(p)
  /\ UNCHANGED <<platform, registry, cell, built, files>>

Next ==
  \/ \E p \in Processes :
       \/ \E i \in Images, v \in Providers, g \in GuestSystems, f \in Files :
            RegisterImage(p, i, v, g, f)
       \/ RegisterInspect(p) \/ RegisterSave(p)
       \/ \E i \in Images : UnregisterImage(p, i)
       \/ RetireRecord(p)
       \/ \E c \in Cells, i \in Images, v \in Providers : CreateCell(p, c, i, v)
       \/ VerifyInspect(p) \/ VerifyHash(p) \/ SaveIntent(p)
       \/ Precheck(p) \/ CreateOverlay(p) \/ Postcheck(p)
       \/ Crash(p)
  \/ \E c \in Cells : DestroyCell(c)
  \/ \E n \in Inodes, content \in Contents : WriteContent(n, content)
  \/ \E f \in Files, n \in Inodes : RenameOver(f, n)
  \/ \E f \in Files : DeleteBase(f)

Spec == Init /\ [][Next]_vars

-----------------------------------------------------------------------------
(***************************************************************************)
(* Properties                                                              *)
(***************************************************************************)

\* Every cell that is not destroyed has its image registered, with the very
\* variant the cell copied: unregister rechecks the dependencies under the
\* lock that create holds from reading the record to saving the cell.
DependenciesRegistered ==
  \A c \in Cells :
    cell[c].state \in {"Creating", "Failed"} =>
      /\ image[cell[c].image] # None
      /\ image[cell[c].image].variant = cell[c].binding

\* An overlay that create accepted was derived from the registered content,
\* whatever the user did to the base meanwhile, a replacement that was undone
\* included.
OverlayFromRegisteredBase ==
  \A c \in Cells :
    cell[c].phase = "OverlayCreated" =>
      built[c] # None /\ built[c].hash = cell[c].binding.hash

\* image validate --id never calls an image usable that create would refuse:
\* the two checks are written separately.
UsableMeansCreatable ==
  \A i \in Images, v \in Providers :
    image[i] # None /\ RegisteredUsable(i, v) =>
      LET variant == image[i].variant
          now == disk[path[variant.file]]
      IN /\ variant.provider = v /\ CanOpen(variant.file)
         /\ now.size = variant.size
         /\ ValidBase(v, now.size, now)
         /\ now.hash = variant.hash

-----------------------------------------------------------------------------
(***************************************************************************)
(* The inductive invariant behind the first two                            *)
(***************************************************************************)

Labels == {"idle", "reg_inspect", "reg_hash", "unregister", "inspect", "hash", "intent", "precheck",
           "overlay", "postcheck"}

\* The steps of a create before and after the cell's first record.
Verifying == {"inspect", "hash", "intent"}
Building  == {"precheck", "overlay", "postcheck"}

Sizes    == {0} \cup {c.size : c \in Contents}
Variants == [provider : Providers, format : {c.format : c \in Contents}, file : Files,
             hash : {c.hash : c \in Contents}, size : Sizes]
Jobs     == [pc : Labels, image : Images \cup {None}, provider : Providers \cup {None},
             guest : GuestSystems \cup {None}, cell : Cells \cup {None}, file : Files \cup {None},
             inode : Inodes \cup {None}, changed : BOOLEAN, size : Sizes, info : Contents \cup {None}]

ImageRecords == [guest : GuestSystems, variant : Variants]
CellRecords  == [state : {"Absent", "Creating", "Failed", "Destroyed"},
                 phase : {"Absent", "IntentRecorded", "OverlayCreated", "Destroyed"},
                 image : Images \cup {None}, binding : Variants \cup {None}]

TypeOK ==
  /\ lock \in Processes \cup {NoProcess}
  /\ job \in [Processes -> Jobs]
  /\ image \in [Images -> ImageRecords \cup {None}]
  /\ cell \in [Cells -> CellRecords]
  /\ built \in [Cells -> Contents \cup {None}]
  /\ path \in [Files -> Inodes \cup {None}]
  /\ disk \in [Inodes -> Contents]

\* Only the holder of the lock is at work.
OneAtWork == \A p \in Processes : job[p].pc # "idle" => lock = p

\* A guard that saw no change still has its inode at its path.
GuardHolds(j) ==
  j.pc \notin {"idle", "unregister"} =>
    /\ j.file \in Files /\ j.inode \in Inodes /\ j.inode # None
    /\ ~j.changed => path[j.file] = j.inode

RegisterHolds(j) ==
  /\ j.pc \in {"reg_inspect", "reg_hash"} =>
       j.image \in Images /\ j.provider \in Providers /\ j.guest \in GuestSystems
  /\ j.pc = "reg_hash" => j.info \in Contents
  /\ j.pc = "unregister" => j.image \in Images /\ Blocking(j.image) = {}

\* What a create has read of the registry is still there, and what it hashed is
\* still in the base, and went into the overlay, unless the guard saw a change.
CreateHolds(j) ==
  LET variant == image[j.image].variant IN
  /\ j.pc \in Verifying \cup Building =>
       /\ j.cell \in Cells /\ j.image \in Images /\ image[j.image] # None
       /\ j.file = variant.file
  /\ j.pc \in Verifying => cell[j.cell].state = "Absent"
  /\ j.pc \in Building =>
       cell[j.cell] = [state |-> "Creating", phase |-> "IntentRecorded", image |-> j.image,
                       binding |-> variant]
  /\ j.pc \in {"intent"} \cup Building /\ ~j.changed => disk[j.inode].hash = variant.hash
  /\ j.pc = "postcheck" =>
       built[j.cell] # None /\ (~j.changed => built[j.cell].hash = variant.hash)

CellsHold ==
  \A c \in Cells :
    /\ cell[c].state \in {"Creating", "Failed"} =>
         /\ cell[c].image \in Images /\ image[cell[c].image] # None
         /\ image[cell[c].image].variant = cell[c].binding
    /\ cell[c].state = "Absent" => cell[c].phase = "Absent"
    /\ cell[c].phase = "OverlayCreated" =>
         built[c] # None /\ built[c].hash = cell[c].binding.hash

RegistryInv ==
  /\ TypeOK /\ OneAtWork /\ CellsHold
  /\ \A p \in Processes : GuardHolds(job[p]) /\ RegisterHolds(job[p]) /\ CreateHolds(job[p])

=============================================================================
