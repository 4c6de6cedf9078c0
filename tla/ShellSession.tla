---------------------------- MODULE ShellSession ----------------------------
(***************************************************************************)
(* A session of `vmcell shell`: a loop that reads one line after another   *)
(* from the console and runs each as a guest operation of its own.  Ctrl-C *)
(* only sets a flag, which the loop looks at in three places; other vmcell *)
(* processes work on the same cell between two lines.                      *)
(***************************************************************************)
EXTENDS Integers

CONSTANTS
  Codes,     \* exit codes of guest commands
  None       \* no line, no end

VARIABLES
  pc,        \* where the loop is
  line,      \* the line last read: blank, help, exit or a command
  flag,      \* Ctrl-C was pressed since the handler was installed
  op,        \* the operation the session recorded last, or None
  loose,     \* an operation before it whose command did not complete
  foreign,   \* another process left a nonterminal operation in the cell
  late,      \* the line last read was entered after Ctrl-C
  last,      \* last_exit_code
  end,       \* how the session ended
  told,      \* what the last message on standard error names
  exit       \* the exit code of the process

vars == <<pc, line, flag, op, loose, foreign, late, last, end, told, exit>>

Lines == {"blank", "help", "exit", "command"}

guest_exit_status(code) == IF code \in 0 .. 255 THEN code ELSE 1

\* An error exits with the code of its class.
Stop(how, what) ==
  /\ pc' = "over" /\ end' = how /\ told' = what
  /\ exit' \in CASE how = "interrupted" -> {130}
                 [] how \in {"eof", "exit"} -> {guest_exit_status(last)}
                 [] how = "input" -> {2}
                 [] how = "failure" -> 2 .. 14
                 [] how = "io" -> {10}

\* A message on standard error goes before; if it cannot be written, that is the
\* error of the session.
Leave(how, what) == Stop(how, what) \/ Stop("io", "none")

-----------------------------------------------------------------------------
\* The top of the loop.
Prompt ==
  /\ pc = "top"
  /\ \/ flag /\ Leave("interrupted", "none")
     \/ ~flag /\ Stop("io", "none")
     \/ ~flag /\ pc' = "read" /\ UNCHANGED <<end, told, exit>>
  /\ UNCHANGED <<line, flag, op, loose, foreign, late, last>>

\* read_shell_line: a line of at most 8 KiB, in as many pieces as the console
\* gives; end of input only with nothing read.
ReadLine ==
  /\ pc = "read"
  /\ line' \in Lines
  /\ late' = flag
  /\ pc' = "directive"
  /\ UNCHANGED <<flag, op, loose, foreign, last, end, told, exit>>

\* End of input, an aborted read, a line too long or not text, a broken console.
\* Windows may answer a read that Ctrl-C aborts with nothing, which is end of input.
ReadFails ==
  /\ pc = "read"
  /\ \E how \in {"eof", "input", "io"} \cup (IF flag THEN {"interrupted"} ELSE {}) :
       Stop(how, "none")
  /\ UNCHANGED <<line, flag, op, loose, foreign, late, last>>

\* Blank lines and .help go round again, .exit leaves, anything else is a
\* command unless the flag was set while the line was being typed.
Directive ==
  /\ pc = "directive"
  /\ \/ line \in {"blank", "help"} /\ pc' = "top" /\ UNCHANGED <<end, told, exit>>
     \/ line = "help" /\ Stop("io", "none")
     \/ line = "exit" /\ Leave("exit", "none")
     \/ line = "command" /\ flag /\ Leave("interrupted", "none")
     \/ line = "command" /\ ~flag /\ pc' = "dispatch" /\ UNCHANGED <<end, told, exit>>
  /\ UNCHANGED <<line, flag, op, loose, foreign, late, last>>

\* execute: the engine refuses before it records anything.
Refused ==
  /\ pc = "dispatch"
  /\ Leave("failure", "none")
  /\ UNCHANGED <<line, flag, op, loose, foreign, late, last>>

\* The operation is recorded (and its id remembered) if no other one of the
\* cell is nonterminal.
Recorded ==
  /\ pc = "dispatch"
  /\ ~foreign
  /\ op # "unknown"
  /\ op' = "active"
  /\ loose' = (loose \/ op = "failed")
  /\ pc' = "running"
  /\ UNCHANGED <<line, flag, foreign, late, last, end, told, exit>>

\* Mutant: a failed command is treated like one that returned an error code.
FailedGoesOn ==
  /\ pc = "running"
  /\ op' \in {"failed", "unknown"}
  /\ pc' = "top"
  /\ UNCHANGED <<line, flag, loose, foreign, late, last, end, told, exit>>

\* A failure after the recording stops the session and names the operation.
Failed ==
  /\ pc = "running"
  /\ op' \in {"failed", "unknown"}
  /\ Leave("failure", "operation")
  /\ UNCHANGED <<line, flag, loose, foreign, late, last>>

Completed ==
  /\ pc = "running"
  /\ \E c \in Codes : last' = c
  /\ op' = "completed"
  /\ pc' = "output"
  /\ UNCHANGED <<line, flag, loose, foreign, late, end, told, exit>>

\* The output of the command, and the flag once more.
Output ==
  /\ pc = "output"
  /\ \/ Stop("io", "none")
     \/ flag /\ Stop("interrupted", "operation")
     \/ ~flag /\ pc' = "top" /\ told' = "operation" /\ UNCHANGED <<end, exit>>
  /\ UNCHANGED <<line, flag, op, loose, foreign, late, last>>

-----------------------------------------------------------------------------
Press ==
  /\ pc # "over" /\ ~flag
  /\ flag' = TRUE
  /\ UNCHANGED <<pc, line, op, loose, foreign, late, last, end, told, exit>>

\* Other processes may leave an operation behind, or reconcile one that was
\* only recorded; the lock keeps them out while an operation runs.
Others ==
  /\ pc \notin {"running", "over"}
  /\ foreign' = ~foreign
  /\ UNCHANGED <<pc, line, flag, op, loose, late, last, end, told, exit>>

Init ==
  /\ pc = "top" /\ line = None /\ flag = FALSE /\ op = None /\ loose = FALSE
  /\ foreign = FALSE /\ late = FALSE /\ last = 0 /\ end = None /\ told = "none" /\ exit = None

Loop ==
  Prompt \/ ReadLine \/ ReadFails \/ Directive \/ Refused \/ Recorded \/ Failed \/ Completed
    \/ Output

Next == Loop \/ Press \/ Others

Spec == Init /\ [][Next]_vars

-----------------------------------------------------------------------------

\* A command whose outcome is not known is the last thing the session does, and
\* the session names its operation so that it can be reconciled ("stops the
\* console without replay or automatic cleanup"), unless standard error is
\* broken.  A line entered after Ctrl-C is never run, although the prompt was
\* already there.  An exit of 0 hides no failed command.
SessionStops ==
  /\ ~loose
  /\ op \in {"failed", "unknown"} =>
       pc = "over" /\ ((end = "failure" /\ told = "operation") \/ end = "io")
  /\ pc \in {"dispatch", "running", "output"} => ~late
  /\ exit = 0 => last = 0 /\ end \in {"eof", "exit"} /\ op \in {None, "completed"}

=============================================================================
