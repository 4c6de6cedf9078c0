------------------------------ MODULE QgaSession ------------------------------
(***************************************************************************)
(* The QEMU guest agent transport: guest actions as sessions on one serial *)
(* channel to the agent.  A session proves the VM over QMP, synchronises   *)
(* the channel, and then sends one request at a time and takes the next    *)
(* answer for the answer to it.  A session that is given up leaves its     *)
(* request, its answer and its guest processes behind; what is still in    *)
(* the channel can meet the next session.                                  *)
(***************************************************************************)
EXTENDS Naturals, Sequences, FiniteSets, SequencesExt

CONSTANTS
  Sessions,   \* the guest actions, in order: 1 .. n
  Verbs,      \* the actions tried
  Chunks,     \* the chunks of a file
  MaxPolls,   \* bound on the guest-exec-status requests of one command
  None        \* no answer, result, file

VARIABLES
  client,   \* the session at work
  result,   \* result[n]: how session n ended
  requests, \* on the way to the agent
  answers,  \* on the way back
  procs,    \* processes the agent started: who asked, what, exit code
  tmp,      \* tmp[n]: chunks in the temporary file of session n
  dest,     \* the destination: whose content, how many chunks
  left,     \* left[n]: chunks not yet read of the file session n has open
  got,      \* got[n]: chunks session n has read
  ran       \* the sessions whose program ran in the guest

vars == <<client, result, requests, answers, got, procs, tmp, dest, left, ran>>

guest == <<procs, tmp, dest, left, ran>>

Errors == {"not_ready", "ownership", "invalid", "timeout", "transport",
           "partial", "limit", "violation"}

Programs == {"run", "mkdir", "ln", "rm", "mv"}

FileSteps == {"info", "open", "write", "flush", "source", "read", "close"}

\* What each action sends, in order (SystemQgaExecutor).
WriteSteps == <<"sync", "mkdir", "open">> \o [i \in 1 .. Chunks |-> "write"]
                \o <<"flush", "close">>

Script(verb) ==
  CASE verb = "probe"   -> <<"sync", "info">>
    [] verb = "exec"    -> <<"sync", "run">>
    [] verb = "deny"    -> WriteSteps \o <<"ln", "rm">>
    [] verb = "replace" -> WriteSteps \o <<"mv">>
    [] verb = "out"     -> <<"sync", "source", "read", "close">>

NoSession == [pc |-> "idle", verb |-> None, n |-> 0, at |-> 0, status |-> FALSE,
              polls |-> 0, error |-> None, ready |-> FALSE]

Files == [n : Sessions \cup {0}, chunks : 0 .. Chunks]

Init ==
  /\ client = NoSession
  /\ result = [n \in Sessions |-> None]
  /\ requests = <<>> /\ answers = <<>>
  /\ procs = {}
  /\ tmp = [n \in Sessions |-> None]
  /\ left = [n \in Sessions |-> None]
  /\ got = [n \in Sessions |-> 0]
  /\ dest \in {None, [n |-> 0, chunks |-> Chunks]}
  /\ ran = {}

Step == Script(client.verb)[client.at]

-----------------------------------------------------------------------------
(***************************************************************************)
(* The client                                                              *)
(***************************************************************************)

\* probe_ready: an agent that refuses to answer is not ready yet.
ProbeReady(r) == IF r = "transport" THEN "not_ready" ELSE r

\* The session ends and its stream is closed; the host may or may not keep
\* what is still in the channel.
Finish(r, unread) ==
  /\ result' = [result EXCEPT ![client.n] =
                  IF client.verb = "probe" THEN ProbeReady(r) ELSE r]
  /\ client' = [NoSession EXCEPT !.n = client.n, !.ready = client.verb = "probe" /\ r = "ok"]
  /\ requests' \in {requests, <<>>}
  /\ answers' \in {unread, <<>>}
  /\ UNCHANGED got

\* The next session: wait_for_guest_ready probes, again if the agent is not
\* ready, and the action follows the probe that succeeds.
Begin(verb) ==
  /\ client.pc = "idle" /\ client.n + 1 \in Sessions
  /\ verb = "probe" \/ client.ready
  /\ client' = [NoSession EXCEPT !.pc = "prove", !.n = client.n + 1, !.verb = verb]
  /\ UNCHANGED <<result, requests, answers, got, guest>>

\* prove_vm: the VM behind QMP is the expected one, or the channel to the
\* agent is not touched (provider_to_guest).
Prove ==
  /\ client.pc = "prove"
  /\ \/ /\ client' = [client EXCEPT !.pc = "send", !.at = 1]
        /\ UNCHANGED <<result, requests, answers, got>>
     \/ \E r \in {"not_ready", "ownership", "invalid"} : Finish(r, answers)
  /\ UNCHANGED guest

\* execute, first half: a request is sent; a process is asked after by its id.
SendRequest ==
  /\ client.pc = "send"
  /\ requests' = Append(requests,
       [n |-> client.n, of |-> Step, status |-> client.status, val |-> None])
  /\ client' = [client EXCEPT !.pc = "wait"]
  /\ UNCHANGED <<result, answers, got, guest>>

\* On to the request at this place of the script.
GoTo(i, error) ==
  /\ client' = [client EXCEPT !.pc = "send", !.at = i, !.status = FALSE,
                              !.polls = 0, !.error = error]
  /\ answers' = Tail(answers)
  /\ UNCHANGED <<result, requests>>

\* The step is done.  An error kept for after the close, or for after the
\* temporary file is removed, ends the session there.
Advance ==
  IF client.at < Len(Script(client.verb)) /\ ~(Step = "close" /\ client.error # None)
  THEN GoTo(client.at + 1, client.error) /\ UNCHANGED got
  ELSE Finish(IF client.error = None THEN "ok" ELSE client.error, Tail(answers))

\* copy_in and copy_out close the file before they report what went wrong
\* with its content.
CloseThenFail(error) ==
  GoTo(SelectInSeq(Script(client.verb), LAMBDA s : s = "close"), error) /\ UNCHANGED got

\* Mutant: any answer will do.
SynchronisedByAny(a) == Advance

\* connect: the first answer must be the one to this session's guest-sync.
Synchronised(a) ==
  IF a.of = "sync" /\ a.n = client.n THEN Advance ELSE Finish("invalid", Tail(answers))

\* file_open, file_write_all, file_close, and guest-info.
FileAnswer(a) ==
  CASE a.val = "ok"    -> Advance
    [] a.val = "short" -> CloseThenFail("partial")
    [] a.val = "error" -> IF Step \in {"write", "flush"} THEN CloseThenFail("transport")
                          ELSE Finish("transport", Tail(answers))

\* Mutant: an empty chunk is taken for the end of the file.
ReadToEmpty(a) ==
  LET Take == got' = [got EXCEPT ![client.n] = @ + 1] IN
  CASE a.val = "data"  -> GoTo(client.at, None) /\ Take
    [] a.val = "last"  -> GoTo(client.at + 1, None) /\ Take
    [] a.val \in {"eof", "empty"} -> GoTo(client.at + 1, None) /\ UNCHANGED got
    [] a.val = "short" -> CloseThenFail("partial")
    [] a.val = "error" -> CloseThenFail("transport")

\* file_read_all: chunks are taken until the agent says the file ends, or the
\* limit of the action is exceeded.
ReadAnswer(a) ==
  LET Take == got' = [got EXCEPT ![client.n] = @ + 1] IN
  CASE a.val = "data"  -> \/ GoTo(client.at, None) /\ Take
                          \/ CloseThenFail("limit")
    [] a.val = "last"  -> \/ GoTo(client.at + 1, None) /\ Take
                          \/ CloseThenFail("limit")
    [] a.val = "eof"   -> GoTo(client.at + 1, None) /\ UNCHANGED got
    [] a.val = "short" -> CloseThenFail("partial")
    [] a.val = "empty" -> CloseThenFail("invalid")
    [] a.val = "error" -> CloseThenFail("transport")

\* commit_copy_in and exec_simple: an ln that fails has found the destination
\* taken, and the temporary file is removed before that is reported.
CommandExited(code) ==
  CASE code = "zero" \/ Step = "run"       -> Advance
    [] code = "nonzero" /\ Step = "ln"     -> GoTo(client.at + 1, "violation") /\ UNCHANGED got
    [] code = "nonzero" /\ Step \notin {"run", "ln"} -> Finish("transport", Tail(answers))

\* exec: the process is polled until it has exited or the time is up.
ExecAnswer(a) ==
  CASE a.val = "error" -> Finish("transport", Tail(answers))
    [] a.val \in {"pid", "running"} /\ client.polls < MaxPolls ->
         /\ client' = [client EXCEPT !.pc = "send", !.status = TRUE, !.polls = @ + 1]
         /\ answers' = Tail(answers)
         /\ UNCHANGED <<result, requests, got>>
    [] a.val = "running" /\ client.polls = MaxPolls -> Finish("timeout", Tail(answers))
    [] a.val \in {"zero", "nonzero"} -> CommandExited(a.val)

\* execute, second half: the next answer is taken for the answer to the request.
TakeAnswer ==
  /\ client.pc = "wait" /\ answers # <<>>
  /\ LET a == Head(answers) IN
       \/ Step = "sync" /\ Synchronised(a)
       \/ Step \in FileSteps \ {"read"} /\ FileAnswer(a)
       \/ Step = "read" /\ ReadAnswer(a)
       \/ Step \in Programs /\ ExecAnswer(a)
  /\ UNCHANGED guest

\* The deadline of the session, while it connects, writes or reads; or the
\* connection is refused, before anything is sent.
TimesOut ==
  /\ client.pc \in {"send", "wait"}
  /\ \/ Finish("timeout", answers)
     \/ client.pc = "send" /\ Step = "sync" /\ Finish("not_ready", answers)
  /\ UNCHANGED guest

-----------------------------------------------------------------------------
(***************************************************************************)
(* The agent and the guest                                                 *)
(***************************************************************************)

\* guest-exec-status: the exit code of the process the request names.
StatusOf(r) == (CHOOSE p \in procs : p.n = r.n /\ p.of = r.of).val

\* The agent serves the requests in order, each with one answer.
AgentServes ==
  /\ requests # <<>>
  /\ LET r == Head(requests)
         Answer(val) == answers' = Append(answers, [r EXCEPT !.val = val])
     IN \/ r.of \in {"sync", "info", "flush", "close"} /\ Answer("ok") /\ UNCHANGED guest
        \/ r.status /\ Answer(StatusOf(r)) /\ UNCHANGED guest
        \/ r.of \in Programs /\ ~r.status /\ Answer("pid")
             /\ procs' = procs \cup {[n |-> r.n, of |-> r.of, val |-> "running"]}
             /\ UNCHANGED <<tmp, dest, left, ran>>
        \/ r.of = "open" /\ Answer("ok")
             /\ tmp' = [tmp EXCEPT ![r.n] = 0] /\ UNCHANGED <<procs, dest, left, ran>>
        \/ r.of = "write" /\ UNCHANGED <<procs, dest, left, ran>>
             /\ \/ tmp' = [tmp EXCEPT ![r.n] = @ + 1] /\ Answer("ok")
                \/ UNCHANGED tmp /\ Answer("short")
        \/ r.of = "source" /\ dest # None /\ Answer("ok")
             /\ left' = [left EXCEPT ![r.n] = dest.chunks] /\ UNCHANGED <<procs, tmp, dest, ran>>
        \/ r.of = "read" /\ left[r.n] > 0
             /\ \E v \in {"data"} \cup (IF left[r.n] = 1 THEN {"last"} ELSE {}) : Answer(v)
             /\ left' = [left EXCEPT ![r.n] = @ - 1] /\ UNCHANGED <<procs, tmp, dest, ran>>
        \/ r.of = "read" /\ UNCHANGED guest
             /\ \E v \in {"short", "empty"} \cup (IF left[r.n] = 0 THEN {"eof"} ELSE {}) : Answer(v)
        \/ r.of # "sync" /\ Answer("error") /\ UNCHANGED guest
  /\ requests' = Tail(requests)
  /\ UNCHANGED <<client, result, got>>

\* A process in the guest ends, whenever it comes to run.
ProcessEnds(p) ==
  /\ p.val = "running"
  /\ LET End(code) == procs' = (procs \ {p}) \cup {[p EXCEPT !.val = code]}
         content   == [n |-> p.n, chunks |-> tmp[p.n]]
     IN \/ /\ p.of = "run" /\ \E code \in {"zero", "nonzero"} : End(code)
           /\ ran' = ran \cup {p.n} /\ UNCHANGED <<tmp, dest>>
        \/ p.of = "mkdir" /\ End("zero") /\ UNCHANGED <<tmp, dest, ran>>
        \/ p.of = "ln" /\ dest = None /\ End("zero") /\ dest' = content
             /\ UNCHANGED <<tmp, ran>>
        \/ p.of = "rm" /\ End("zero") /\ tmp' = [tmp EXCEPT ![p.n] = None]
             /\ UNCHANGED <<dest, ran>>
        \/ p.of = "mv" /\ End("zero") /\ dest' = content
             /\ tmp' = [tmp EXCEPT ![p.n] = None] /\ UNCHANGED ran
        \/ p.of # "run" /\ End("nonzero") /\ UNCHANGED <<tmp, dest, ran>>
  /\ UNCHANGED <<client, result, requests, answers, got, left>>

Next ==
  \/ \E verb \in Verbs : Begin(verb)
  \/ Prove \/ SendRequest \/ TakeAnswer \/ TimesOut
  \/ AgentServes
  \/ \E p \in procs : ProcessEnds(p)

Spec == Init /\ [][Next]_vars

-----------------------------------------------------------------------------
(***************************************************************************)
(* Properties                                                              *)
(***************************************************************************)

\* Once a session is synchronised, nothing is in the channel but the request it
\* waits on, or the answer to it: no answer of an action that was given up is
\* taken for the answer to another.
OwnAnswers ==
  client.pc \in {"send", "wait"} /\ client.at > 1 =>
    /\ Len(requests) + Len(answers) = IF client.pc = "wait" THEN 1 ELSE 0
    /\ \A m \in ToSet(requests \o answers) : m.n = client.n /\ m.of = Step

\* guest_failure_class: the errors after which the action is known not to have
\* taken effect.
KnownFailure(r) == r \in {"not_ready", "ownership", "violation"}

\* What a session reports of the guest is true.  After a success its commands
\* have ended, its program ran, its copy is complete and no longer temporary and
\* what it read is a whole file.  What is recorded as known not to have happened
\* did not happen, and does not happen later either.  A copy that is short, given
\* up or still under way never shows at the destination.
ResultIsTrue ==
  /\ \A n \in Sessions : result[n] = "ok" =>
       /\ \A p \in procs : p.n = n => p.val # "running" /\ (p.of = "run" => n \in ran)
       /\ tmp[n] = None
       /\ left[n] # None => left[n] = 0 /\ got[n] = Chunks
  /\ \A n \in Sessions : KnownFailure(result[n]) =>
       n \notin ran /\ (dest # None => dest.n # n)
  /\ dest # None => dest.chunks = Chunks

=============================================================================
