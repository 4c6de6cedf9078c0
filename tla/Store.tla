------------------------------- MODULE Store --------------------------------
(***************************************************************************)
(* The state root: the files of its records (StateFiles), and the image    *)
(* registry that is kept in such records (ImageRegistry), in which saving  *)
(* a record is one step.                                                   *)
(***************************************************************************)
EXTENDS StateFiles

CONSTANTS
  Images, Cells, Files, Extension, Inodes, Contents, Platforms, Providers, GuestSystems, Processes,
  NoProcess, MaxEdits, MaxRecords

VARIABLES
  platform, lock, job, image, retired, cell, built, path, disk, edits

registry_vars == <<platform, lock, job, image, retired, cell, built, path, disk, edits>>

ASSUME RegistryAssumption == NoProcess \notin Processes /\ None \notin Contents

Registry == INSTANCE ImageRegistry

\* Every cell that is not destroyed has its image registered, with the variant
\* it copied (unregister_image, create_cell).
DependenciesRegistered == Registry!DependenciesRegistered

\* An overlay that create accepted was derived from the registered content
\* (ImmutableParentGuard, verify_registered_image).
OverlayFromRegisteredBase == Registry!OverlayFromRegisteredBase

\* image validate never calls an image usable that create would refuse.
UsableMeansCreatable == Registry!UsableMeansCreatable
=============================================================================
