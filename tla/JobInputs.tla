------------------------------ MODULE JobInputs ------------------------------
(***************************************************************************)
(* The input files of a job.  They are read and bound (size and digest)    *)
(* before the cell is created, and read again, minutes later, right before *)
(* each copy into the guest.  In between, and during each read, somebody   *)
(* else edits, replaces, removes or redirects them.  A file is read in two *)
(* pieces, so that an edit may come between them; looking at a path and    *)
(* resolving it is one step.                                               *)
(***************************************************************************)
EXTENDS Integers, Sequences, FiniteSets

CONSTANTS
  NSources,   \* files in the directory of the job's document: 1..NSources
  NCopies,    \* copy_in actions of the document
  Contents,   \* whole contents of a file, as sequences of pieces
  MaxBytes,   \* the max_bytes of every copy action, in pieces
  Spellings,  \* destinations a document may write, as <<name, letter case, separator>>
  MaxEdits,   \* bound on edits
  Host,       \* the operating system vmcell runs on: "windows" or "linux"
  Guest,      \* the operating system of the guest
  None        \* nothing

VARIABLES
  order,     \* the source of each copy action
  target,    \* its destination, as written
  overwrite, \* whether the actions replace what is there
  names,     \* path -> inode, Absent, or a link In or Out of the directory
  inodes,    \* inode -> content
  edits,     \* edits so far
  pc,        \* what the job is doing: <<phase, step>>
  at,        \* the copy action it is doing it for
  handle,    \* the inode of the open file, or None
  seen,      \* what was read so far
  bound,     \* copy action -> the content bound to it, or None
  cell,      \* the cell exists
  ops,       \* copy operations recorded
  guest,     \* file in the guest -> content
  fail       \* why the job failed, or None

document == <<order, target, overwrite>>
files    == <<names, inodes, edits>>
io       == <<handle, seen>>
effects  == <<bound, cell, ops, guest>>
vars     == <<document, files, pc, at, io, effects, fail>>

Sources == 1 .. NSources
Copies  == 1 .. NCopies
Inodes  == 1 .. (NSources + MaxEdits)
Absent  == 0
In      == -1
Out     == -2
Links   == {In, Out}

Source == names[order[at]]

Fail(why) ==
  /\ fail' = why /\ pc' = <<"failed", pc[1]>> /\ handle' = None /\ seen' = <<>>
  /\ UNCHANGED <<document, files, at, effects>>

Go(step) == pc' = <<pc[1], step>> /\ UNCHANGED <<document, files, at, effects, fail>>

\* The next copy action, or the end of the phase.
Advance(first, end) ==
  IF at < NCopies THEN at' = at + 1 /\ pc' = first ELSE at' = at /\ pc' = end

-----------------------------------------------------------------------------
(***************************************************************************)
(* The document                                                            *)
(***************************************************************************)

\* GuestPath::parse: one separator.
Parsed(t) == <<t[1], t[2]>>

\* Destinations must be unique, as parsed strings.
Admit ==
  /\ pc = <<"load", "admit">>
  /\ IF \A i, j \in Copies : i # j => Parsed(target[i]) # Parsed(target[j])
     THEN /\ pc' = <<"bind", "look">>
          /\ UNCHANGED <<document, files, at, io, effects, fail>>
     ELSE Fail("InvalidValue")

-----------------------------------------------------------------------------
(***************************************************************************)
(* read_ordinary_copy_source, for the binding and for the copy             *)
(***************************************************************************)

\* No link on the way, and the path must exist.
Look ==
  /\ pc[2] = "look"
  /\ CASE Source \in Links    -> Fail("PathViolation")
       [] Source = Absent   -> Fail("InvalidCellRequest")
       [] OTHER -> Go("open") /\ UNCHANGED io

\* Opening follows no link; a file that is too large is refused.
Open ==
  /\ pc[2] = "open"
  /\ CASE Source \in Links -> Fail(IF Host = "windows" THEN "PathViolation" ELSE "InvalidCellRequest")
       [] Source = Absent -> Fail("InvalidCellRequest")
       [] Source \in Inodes /\ Len(inodes[Source]) > MaxBytes -> Fail("PathViolation")
       [] OTHER -> handle' = Source /\ seen' = <<>> /\ Go("verify")

\* validate_copy_source_identity: the path still names the open file.  Windows
\* only compares paths: there the open handle keeps the file in its place.
SameFile == IF Host = "windows" THEN Source \in Inodes ELSE Source = handle

Verify ==
  /\ pc[2] = "verify"
  /\ IF SameFile THEN Go("first") /\ UNCHANGED io ELSE Fail("PartialCopy")

ReadFirst ==
  /\ pc[2] = "first"
  /\ seen' = SubSeq(inodes[handle], 1, 1)
  /\ Go("rest") /\ UNCHANGED handle

\* No more than one piece above the limit is read.
ReadRest ==
  /\ pc[2] = "rest"
  /\ seen' = seen \o SelectSeq(SubSeq(inodes[handle] \o [i \in 1 .. MaxBytes + 1 |-> None],
                                      2, MaxBytes + 1), LAMBDA x : x # None)
  /\ Go("check") /\ UNCHANGED handle

\* The size did not change and the path still names the file, which is closed.
Check ==
  /\ pc[2] = "check"
  /\ IF Len(seen) <= MaxBytes /\ Len(inodes[handle]) = Len(seen) /\ SameFile
     THEN Go("done") /\ handle' = None /\ UNCHANGED seen
     ELSE Fail("PartialCopy")

-----------------------------------------------------------------------------
(***************************************************************************)
(* Binding, the cell, and copying                                          *)
(***************************************************************************)

\* bind_job_copy_source: the path is still below the directory; what was read is bound.
Bind ==
  /\ pc = <<"bind", "done">>
  /\ CASE Source = Absent -> Fail("InvalidCellRequest")
       [] Source = Out    -> Fail("PathViolation")
       [] OTHER -> /\ bound' = [bound EXCEPT ![at] = seen]
                   /\ seen' = <<>>
                   /\ Advance(<<"bind", "look">>, <<"bound", "create">>)
                   /\ UNCHANGED <<document, files, handle, cell, ops, guest, fail>>

\* The request is complete: the cell is created and started.
Create ==
  /\ pc = <<"bound", "create">>
  /\ cell' = TRUE /\ at' = 1
  /\ pc' = <<"copy", "recheck">>
  /\ UNCHANGED <<document, files, io, bound, ops, guest, fail>>

\* read_job_copy_source, before the read: the path resolves to itself.
Recheck ==
  /\ pc = <<"copy", "recheck">>
  /\ CASE Source = Absent -> Fail("InvalidCellRequest")
       [] Source = Out    -> Fail("PathViolation")
       [] Source = In     -> Fail("PartialCopy")
       [] OTHER -> Go("look") /\ UNCHANGED io

\* The file a destination is in the guest: Windows does not tell letter cases apart.
GuestFile(t) == IF Guest = "windows" THEN t[1] ELSE Parsed(t)

\* The operation is recorded, then the transport refuses or writes.
Send ==
  LET f == GuestFile(target[at])
  IN  /\ ops' = ops + 1
      /\ handle' = None /\ seen' = <<>>
      /\ IF guest[f] # None /\ ~overwrite
         THEN /\ fail' = "DestinationExists" /\ pc' = <<"failed", "copy">>
              /\ UNCHANGED <<at, guest>>
         ELSE /\ guest' = [guest EXCEPT ![f] = seen]
              /\ Advance(<<"copy", "recheck">>, <<"done", "copied">>)
              /\ UNCHANGED fail
      /\ UNCHANGED <<document, files, bound, cell>>

\* Mutant: only the size is compared with the binding.
CopyBySize ==
  /\ pc = <<"copy", "done">>
  /\ IF Source \in Inodes /\ Len(seen) = Len(bound[at]) THEN Send ELSE Fail("PartialCopy")

\* read_job_copy_source, after the read: the path once more, then size and
\* digest; only then is a guest operation recorded and the content sent.
Copy ==
  /\ pc = <<"copy", "done">>
  /\ IF Source \in Inodes /\ seen = bound[at] THEN Send ELSE Fail("PartialCopy")

-----------------------------------------------------------------------------
(***************************************************************************)
(* The editor                                                              *)
(***************************************************************************)

\* On Windows nobody writes to, replaces or removes a file vmcell has open.
MayEdit(s) == edits < MaxEdits /\ (Host = "windows" => handle = None \/ names[s] # handle)

Edited == edits' = edits + 1 /\ UNCHANGED <<document, pc, at, io, effects, fail>>

Rewrite ==
  \E s \in Sources, c \in Contents :
    /\ names[s] \in Inodes /\ MayEdit(s) /\ inodes[names[s]] # c
    /\ inodes' = [inodes EXCEPT ![names[s]] = c]
    /\ names' = names /\ Edited

Replace ==
  \E s \in Sources, c \in Contents :
    /\ MayEdit(s)
    /\ LET n == NSources + edits + 1
       IN  inodes' = [inodes EXCEPT ![n] = c] /\ names' = [names EXCEPT ![s] = n]
    /\ Edited

Remove ==
  \E s \in Sources, to \in {Absent} \cup Links :
    /\ MayEdit(s) /\ names[s] \in Inodes
    /\ names' = [names EXCEPT ![s] = to]
    /\ inodes' = inodes /\ Edited

Init ==
  /\ order \in [Copies -> Sources] /\ target \in [Copies -> Spellings] /\ overwrite \in BOOLEAN
  /\ names = [s \in Sources |-> s]
  /\ \E c \in [Sources -> Contents] :
       inodes = [i \in Inodes |-> IF i \in Sources THEN c[i] ELSE None]
  /\ edits = 0 /\ pc = <<"load", "admit">> /\ at = 1 /\ handle = None /\ seen = <<>>
  /\ bound = [i \in Copies |-> None] /\ cell = FALSE /\ ops = 0
  /\ guest = [f \in {GuestFile(t) : t \in Spellings} |-> None] /\ fail = None

Next ==
  Admit \/ Look \/ Open \/ Verify \/ ReadFirst \/ ReadRest \/ Check \/ Bind \/ Create \/ Recheck
    \/ Copy \/ Rewrite \/ Replace \/ Remove

Spec == Init /\ [][Next]_vars

-----------------------------------------------------------------------------
(***************************************************************************)
(* Properties                                                              *)
(***************************************************************************)

\* A job works with the inputs it bound before its cell was created, whatever
\* happens to the host's files after the binding or during either read
\* (read_job_copy_source): no cell is created before all are bound, a file in the
\* guest has exactly a bound content, and an input that changed is refused before
\* an operation is recorded for it.
OnlyBoundInputs ==
  /\ cell => \A i \in Copies : bound[i] # None
  /\ \A f \in DOMAIN guest : guest[f] # None =>
       \E i \in Copies : GuestFile(target[i]) = f /\ guest[f] = bound[i]
  /\ ops = Cardinality({i \in Copies : pc[1] = "done" \/ (cell /\ i < at)})
             + (IF fail = "DestinationExists" THEN 1 ELSE 0)

=============================================================================
