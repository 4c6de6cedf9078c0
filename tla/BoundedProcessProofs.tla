------------------------ MODULE BoundedProcessProofs -------------------------
(***************************************************************************)
(* A result is whole, and an error leaves nothing of the tree running, for *)
(* every limit and any amount of output.                                   *)
(*                                                                         *)
(* The inductive invariant: a reader that is done has read all there will  *)
(* be (Whole), the results the supervisor counts are successes (Counted),  *)
(* and once it only joins its threads, or has returned an error, the child *)
(* is reaped and nothing of its tree is left (Gone).                       *)
(***************************************************************************)
EXTENDS BoundedProcess, TLAPS

Whole == \A s \in Streams : read[s] <= written[s] /\ (thread[s] = "done" => read[s] = written[s])

Counted ==
  /\ sup.pc \in {"spawn", "assign"} => sup.got = {} /\ ~sup.status
  /\ \A t \in sup.got : thread[t] = "done"
  /\ sup.pc \in {"join_out", "join_err"} => thread["in"] = "done"
  /\ sup.pc = "join_err" => thread["out"] = "done"
  /\ sup.result # None => sup.pc = "done"
  /\ sup.status => child = "reaped"

Joining == {"join_in", "join_out", "join_err", "join_late"}

Gone ==
  sup.pc \in Joining \/ sup.result \in {"io", "limit", "timeout"} =>
    child = "reaped" /\ ~(desc.alive /\ desc.inTree)

IInv == TypeOK /\ Whole /\ Counted /\ Gone /\ OkIsWhole

-----------------------------------------------------------------------------
(***************************************************************************)
(* The child, its descendant, the host and the threads                     *)
(***************************************************************************)

\* Nothing the child, its descendant or the clock does takes a result back.
LEMMA HostKeeps ==
  ASSUME IInv,
         \/ \E s \in Streams : ChildWrites(s)
         \/ ChildForks \/ DescendantMoves \/ ChildExits \/ DeadlinePasses \/ UNCHANGED vars
  PROVE  IInv'
<1> USE DEF IInv
<1>1. ASSUME NEW s \in Streams, ChildWrites(s) PROVE IInv'
  <2>1. /\ thread[s] = "busy" /\ written' = [written EXCEPT ![s] = @ + 1] /\ written[s] < MaxBytes
        /\ UNCHANGED <<kind, child, desc, thread, read, sup, late>>
    BY <1>1 DEF ChildWrites, io
  <2>2. written' \in [Streams -> 0 .. MaxBytes]
    BY <2>1, BoundsAssumption DEF TypeOK
  <2>3. \A x \in Streams : thread[x] = "done" => written'[x] = written[x]
    BY <2>1 DEF TypeOK
  <2>4. TypeOK'
    BY <2>1, <2>2 DEF TypeOK
  <2>5. Whole'
    <3>1. \A x \in Streams : written[x] <= written'[x] /\ read[x] \in Nat /\ written[x] \in Nat /\ written'[x] \in Nat
      BY <2>1, <2>2, BoundsAssumption DEF TypeOK
    <3>. QED  BY <2>1, <2>3, <3>1 DEF Whole
  <2>7. Counted' /\ Gone'
    BY <2>1 DEF Counted, Gone
  <2>6. OkIsWhole'
    BY <2>1, <2>3 DEF OkIsWhole
  <2>. QED  BY <2>4, <2>5, <2>6, <2>7
<1>2. CASE ChildForks
  <2>1. /\ child = "running" /\ desc' \in [alive : BOOLEAN, inTree : BOOLEAN, holds : BOOLEAN]
        /\ UNCHANGED <<kind, child, written, thread, read, sup, late>>
    BY <1>2 DEF ChildForks, io, PowerShell
  <2>. QED  BY <2>1 DEF TypeOK, Whole, Counted, Gone, OkIsWhole
<1>3. CASE DescendantMoves
  <2>1. /\ desc' \in [alive : BOOLEAN, inTree : BOOLEAN, holds : BOOLEAN]
        /\ (desc'.alive => desc.alive) /\ (desc'.inTree => desc.inTree)
        /\ UNCHANGED <<kind, child, written, thread, read, sup, late>>
    BY <1>3 DEF DescendantMoves, io, TypeOK
  <2>. QED  BY <2>1 DEF TypeOK, Whole, Counted, Gone, OkIsWhole
<1>4. CASE ChildExits
  BY <1>4 DEF ChildExits, io, TypeOK, Whole, Counted, Gone, OkIsWhole
<1>5. CASE DeadlinePasses \/ UNCHANGED vars
  <2>1. UNCHANGED <<kind, child, desc, written, thread, read, sup>> /\ late' \in BOOLEAN
    BY <1>5 DEF DeadlinePasses, vars, io, host, TypeOK
  <2>2. TypeOK'
    BY <2>1 DEF TypeOK
  <2>. QED  BY <2>1, <2>2 DEF Whole, Counted, Gone, OkIsWhole
<1>. QED  BY <1>1, <1>2, <1>3, <1>4, <1>5

\* A thread that ends changes neither what is counted nor what was read.
LEMMA ThreadKeeps ==
  ASSUME IInv, NEW t \in Threads, ThreadStep(t)
  PROVE  IInv'
<1> USE DEF IInv
<1>1. thread[t] = "busy" /\ UNCHANGED <<kind, child, desc, written, sup, late>>
  BY DEF ThreadStep, WriterEnds, ReaderStep, host
<1>2. thread' \in [Threads -> {"idle", "busy", "done", "failed"}] /\ \A x \in Threads : x # t => thread'[x] = thread[x]
  BY DEF ThreadStep, WriterEnds, ReaderStep, TypeOK, Threads
<1>3. CASE t = "in"
  <2>1. UNCHANGED read
    BY <1>3 DEF ThreadStep, WriterEnds
  <2>2. \A s \in Streams : s \in Threads /\ s # t
    BY <1>3 DEF Streams, Threads
  <2>3. Whole'
    BY <1>1, <1>2, <2>1, <2>2 DEF Whole
  <2>. QED  BY <1>1, <1>2, <2>1, <2>2, <2>3 DEF TypeOK, Counted, Gone, OkIsWhole, Threads, Streams
<1>4. CASE t \in Streams
  <2>1. ReaderStep(t)
    BY <1>4 DEF ThreadStep, Streams
  <2>2. read' \in [Streams -> 0 .. Limit] /\ (\A x \in Streams : x # t => read'[x] = read[x])
    <3>1. CASE UNCHANGED read
      BY <3>1 DEF TypeOK
    <3>2. CASE read' = [read EXCEPT ![t] = @ + 1] /\ ~(read[t] + 1 > Limit)
      BY <1>4, <3>2, BoundsAssumption DEF TypeOK
    <3>. QED  BY <2>1, <3>1, <3>2 DEF ReaderStep
  <2>3. read'[t] <= written[t] /\ (thread'[t] = "done" => read'[t] = written[t])
    <3>1. read[t] \in Nat /\ written[t] \in Nat /\ read[t] <= written[t]
      BY <1>4, BoundsAssumption DEF TypeOK, Whole
    <3>2. CASE read[t] < written[t] /\ UNCHANGED read /\ thread'[t] = "failed"
      BY <3>1, <3>2
    <3>3. CASE read[t] < written[t] /\ read'[t] = read[t] + 1 /\ UNCHANGED thread
      BY <1>1, <3>1, <3>3
    <3>4. CASE ~(read[t] < written[t]) /\ UNCHANGED read
      BY <3>1, <3>4
    <3>. QED  BY <1>1, <1>4, <2>1, <3>2, <3>3, <3>4 DEF ReaderStep, TypeOK, Threads
  <2>4. Whole'
    BY <1>1, <1>2, <2>2, <2>3 DEF Whole, Threads
  <2>. QED  BY <1>1, <1>2, <1>4, <2>2, <2>4 DEF TypeOK, Counted, Gone, OkIsWhole, Threads, Streams
<1>. QED  BY <1>3, <1>4 DEF Threads

-----------------------------------------------------------------------------
(***************************************************************************)
(* The supervisors                                                         *)
(***************************************************************************)

\* Terminating the tree leaves nothing of it.
LEMMA TreeTerminated ==
  ASSUME TypeOK, TerminateTree
  PROVE  /\ desc' \in [alive : BOOLEAN, inTree : BOOLEAN, holds : BOOLEAN]
         /\ ~(desc'.alive /\ desc'.inTree)
  BY DEF TypeOK, TerminateTree

\* The error path ends with an error and nothing left running.
LEMMA AbortKeeps ==
  ASSUME IInv, NEW e \in {"io", "limit", "timeout"}, Abort(e),
         UNCHANGED <<kind, written, thread, read, late>>
  PROVE  IInv'
<1>1. /\ sup' = [sup EXCEPT !.pc = "done", !.result = e] /\ child' = "reaped" /\ TerminateTree
  BY DEF Abort
<1>2. sup'.pc = "done" /\ sup'.result = e /\ sup'.got = sup.got
  BY <1>1 DEF IInv, TypeOK
<1>3. TypeOK'
  BY <1>1, TreeTerminated DEF IInv, TypeOK, Results
<1>4. Gone' /\ Counted' /\ Whole'
  BY <1>1, <1>2, TreeTerminated DEF IInv, Gone, Counted, Whole
<1>5. OkIsWhole'
  BY <1>2 DEF OkIsWhole
<1>. QED  BY <1>3, <1>4, <1>5 DEF IInv

\* A child that cannot be started, or not be assigned, is an error by itself.
LEMMA StartKeeps ==
  ASSUME IInv, Spawn \/ Assign
  PROVE  IInv'
<1>1. sup.pc \in {"spawn", "assign"} /\ sup.got = {} /\ sup.result = None
  BY DEF IInv, Counted, Spawn, Assign
<1>2. CASE Spawn
  <2>1. /\ UNCHANGED <<kind, desc, written, thread, read, late>>
        /\ child' \in {child, "running"} /\ (child' # child => sup' = [sup EXCEPT !.pc = "assign"])
        /\ sup' \in {[sup EXCEPT !.pc = "assign"], [sup EXCEPT !.pc = "done", !.result = "spawn"]}
    BY <1>2 DEF Spawn, io
  <2>2. /\ sup'.got = {} /\ sup'.status = sup.status /\ sup'.pc \in {"assign", "done"}
        /\ sup'.result \in {None, "spawn"} /\ (sup'.result # None => sup'.pc = "done")
    BY <1>1, <2>1 DEF IInv, TypeOK
  <2>3. TypeOK'
    <3>1. sup' \in [pc : {"spawn", "assign", "drain", "poll", "join_in", "join_out", "join_err", "join_late", "done"},
                  got : SUBSET Threads, status : BOOLEAN, swept : BOOLEAN, result : Results \cup {None}]
      BY <2>1 DEF IInv, TypeOK, Results
    <3>. QED  BY <2>1, <3>1 DEF IInv, TypeOK, Threads
  <2>4. ~sup.status
    BY <1>1 DEF IInv, Counted
  <2>5. Whole' /\ Counted'
    BY <2>1, <2>2, <2>4 DEF IInv, Whole, Counted
  <2>6. Gone' /\ OkIsWhole'
    BY <2>2, NoneAssumption DEF Gone, OkIsWhole, Joining
  <2>. QED  BY <2>3, <2>5, <2>6 DEF IInv
<1>3. CASE Assign
  <2>1. /\ UNCHANGED <<kind, desc, written, read, late>>
        /\ \/ /\ sup' = [sup EXCEPT !.pc = IF PowerShell THEN "poll" ELSE "drain"]
              /\ thread' = [t \in Threads |-> "busy"] /\ UNCHANGED child
           \/ child' = "reaped" /\ sup' = [sup EXCEPT !.pc = "done", !.result = "spawn"] /\ UNCHANGED thread
    BY <1>3 DEF Assign
  <2>2. /\ sup'.got = {} /\ sup'.status = sup.status /\ sup'.pc \in {"poll", "drain", "done"}
        /\ sup'.result \in {None, "spawn"} /\ (sup'.result # None => sup'.pc = "done")
    BY <1>1, <2>1 DEF IInv, TypeOK
  <2>3. TypeOK'
    <3>1. sup' \in [pc : {"spawn", "assign", "drain", "poll", "join_in", "join_out", "join_err", "join_late", "done"},
                  got : SUBSET Threads, status : BOOLEAN, swept : BOOLEAN, result : Results \cup {None}]
      BY <2>1 DEF IInv, TypeOK, Results
    <3>. QED  BY <2>1, <3>1 DEF IInv, TypeOK, Threads
  <2>4. Whole'
    BY <2>1 DEF IInv, Whole, Threads
  <2>5. Counted'
    BY <2>1, <2>2 DEF IInv, Counted
  <2>6. Gone' /\ OkIsWhole'
    BY <2>2, NoneAssumption DEF Gone, OkIsWhole, Joining
  <2>. QED  BY <2>3, <2>4, <2>5, <2>6 DEF IInv
<1>. QED  BY <1>2, <1>3

\* Only successes are counted.
LEMMA DrainKeeps ==
  ASSUME IInv, Drain
  PROVE  IInv'
<1> DEFINE got == {t \in Threads : thread[t] \in {"done", "failed"}}
           bad == {t \in got : thread[t] = "failed"}
<1>1. UNCHANGED <<kind, written, thread, read, late>> /\ sup.pc = "drain"
  BY DEF Drain, io
<1>2. CASE bad # {} /\ Abort(IF "in" \in bad THEN "io" ELSE "limit")
  BY <1>1, <1>2, AbortKeeps
<1>3. CASE bad = {} /\ sup' = [sup EXCEPT !.got = got, !.pc = "poll"] /\ UNCHANGED <<child, desc>>
  <2>1. got \subseteq Threads /\ \A t \in got : thread[t] = "done"
    BY <1>3
  <2> HIDE DEF got
  <2>2. sup'.got = got /\ sup'.pc = "poll" /\ sup'.result = sup.result /\ sup'.status = sup.status
    BY <1>3 DEF IInv, TypeOK
  <2>3. sup.result = None
    BY <1>1 DEF IInv, Counted
  <2>4. TypeOK'
    BY <1>1, <1>3, <2>1 DEF IInv, TypeOK
  <2>5. Whole' /\ Counted'
    BY <1>1, <1>3, <2>1, <2>2, <2>3 DEF IInv, Whole, Counted
  <2>6. Gone' /\ OkIsWhole'
    BY <2>2, <2>3, NoneAssumption DEF Gone, OkIsWhole, Joining
  <2>. QED  BY <2>4, <2>5, <2>6 DEF IInv
<1>. QED  BY <1>2, <1>3 DEF Drain

\* run_bounded only returns a result once its child and all its threads are done.
LEMMA PollKeeps ==
  ASSUME IInv, Poll
  PROVE  IInv'
<1> DEFINE status == sup.status \/ child = "exited"
           reaped == IF child = "exited" THEN "reaped" ELSE child
           sweep  == status /\ ~(sup.got = Threads) /\ ~sup.swept
<1>1. /\ UNCHANGED <<kind, written, thread, read, late>> /\ sup.pc = "poll" /\ sup.result = None
  BY DEF Poll, io, IInv, Counted
<1>2. status \in BOOLEAN /\ sweep \in BOOLEAN /\ (status => reaped = "reaped")
        /\ reaped \in {"none", "running", "exited", "reaped"}
  BY DEF IInv, TypeOK, Counted
<1>3. CASE /\ status /\ sup.got = Threads /\ sup' = [sup EXCEPT !.pc = "done", !.status = TRUE, !.result = "ok"]
           /\ child' = reaped /\ UNCHANGED desc
  <2> HIDE DEF status, reaped, sweep
  <2>1. sup'.pc = "done" /\ sup'.status = TRUE /\ sup'.result = "ok" /\ sup'.got = sup.got
    BY <1>3 DEF IInv, TypeOK
  <2>2. TypeOK'
    BY <1>1, <1>2, <1>3 DEF IInv, TypeOK, Results
  <2>3. Whole' /\ Counted'
    BY <1>1, <1>2, <1>3, <2>1 DEF IInv, Whole, Counted
  <2>4. Gone'
    BY <2>1 DEF Gone, Joining
  <2>5. \A t \in Threads : thread[t] = "done"
    BY <1>3 DEF IInv, Counted
  <2>6. OkIsWhole'
    BY <1>1, <1>2, <1>3, <2>5 DEF IInv, OkIsWhole, Whole, Threads
  <2>. QED  BY <2>2, <2>3, <2>4, <2>6 DEF IInv
<1>4. CASE Abort("timeout")
  BY <1>1, <1>4, AbortKeeps
<1>5. CASE /\ sup' = [sup EXCEPT !.pc = "drain", !.status = status, !.swept = @ \/ sweep]
           /\ child' = reaped /\ IF sweep THEN TerminateTree ELSE UNCHANGED desc
  <2>1. sup'.pc = "drain" /\ sup'.status = status /\ sup'.result = sup.result /\ sup'.got = sup.got
    BY <1>5 DEF IInv, TypeOK
  <2> HIDE DEF status, reaped, sweep
  <2>2. TypeOK'
    <3>1. desc' \in [alive : BOOLEAN, inTree : BOOLEAN, holds : BOOLEAN]
      BY <1>5, TreeTerminated DEF IInv, TypeOK
    <3>2. (sup.swept \/ sweep) \in BOOLEAN
      OBVIOUS
    <3>3. sup' \in [pc : {"spawn", "assign", "drain", "poll", "join_in", "join_out", "join_err", "join_late", "done"},
                    got : SUBSET Threads, status : BOOLEAN, swept : BOOLEAN, result : Results \cup {None}]
      BY <1>2, <1>5, <3>2 DEF IInv, TypeOK
    <3>. QED  BY <1>1, <1>2, <1>5, <3>1, <3>3 DEF IInv, TypeOK
  <2>3. Whole' /\ Counted'
    BY <1>1, <1>2, <1>5, <2>1 DEF IInv, Whole, Counted
  <2>4. Gone' /\ OkIsWhole'
    BY <1>1, <2>1, NoneAssumption DEF Gone, OkIsWhole, Joining
  <2>. QED  BY <2>2, <2>3, <2>4 DEF IInv
<1>. QED  BY <1>3, <1>4, <1>5 DEF Poll


\* The PowerShell supervisors join only after the tree is ended.
LEMMA ChildOrDeadlineKeeps ==
  ASSUME IInv, ChildOrDeadline
  PROVE  IInv'
<1>1. /\ UNCHANGED <<kind, written, thread, read, late>> /\ child' = "reaped" /\ TerminateTree
      /\ sup' = [sup EXCEPT !.pc = IF child = "exited" THEN "join_in" ELSE "join_late", !.status = TRUE]
      /\ sup.result = None
  BY DEF ChildOrDeadline, io, IInv, Counted
<1>2. /\ sup'.pc \in {"join_in", "join_late"} /\ sup'.status = TRUE /\ sup'.result = None /\ sup'.got = sup.got
  BY <1>1 DEF IInv, TypeOK
<1>3. /\ desc' \in [alive : BOOLEAN, inTree : BOOLEAN, holds : BOOLEAN]
      /\ ~(desc'.alive /\ desc'.inTree)
  BY <1>1, TreeTerminated DEF IInv, TypeOK
<1>4. TypeOK'
  <2>1. sup' \in [pc : {"spawn", "assign", "drain", "poll", "join_in", "join_out", "join_err", "join_late", "done"},
                  got : SUBSET Threads, status : BOOLEAN, swept : BOOLEAN, result : Results \cup {None}]
    BY <1>1 DEF IInv, TypeOK
  <2>. QED  BY <1>1, <1>3, <2>1 DEF IInv, TypeOK
<1>5. Whole' /\ Counted'
  BY <1>1, <1>2 DEF IInv, Whole, Counted
<1>6. Gone' /\ OkIsWhole'
  BY <1>1, <1>2, <1>3, NoneAssumption DEF Gone, OkIsWhole
<1>. QED  BY <1>4, <1>5, <1>6 DEF IInv

\* A join passes its thread's success on, or returns its failure.
LEMMA JoinKeeps ==
  ASSUME IInv,
         \/ Join("in", "join_in", "join_out") \/ Join("out", "join_out", "join_err")
         \/ Join("err", "join_err", "done") \/ JoinLate
  PROVE  IInv'
<1>1. /\ UNCHANGED <<kind, child, desc, written, thread, read, late>>
      /\ sup.pc \in Joining /\ sup.result = None
  BY DEF Join, JoinLate, Joining, host, io, IInv, Counted
<1>2. child = "reaped" /\ ~(desc.alive /\ desc.inTree)
  BY <1>1 DEF IInv, Gone
<1>3. \E pc \in {"join_out", "join_err", "done"}, r \in {"ok", "io", "limit", "timeout", None} :
        /\ sup' = [sup EXCEPT !.pc = pc, !.result = r]
        /\ r = None <=> pc # "done"
        /\ pc = "join_out" => thread["in"] = "done"
        /\ pc = "join_err" => thread["in"] = "done" /\ thread["out"] = "done"
        /\ r = "ok" => \A t \in Threads : thread[t] = "done"
  <2>1. CASE Join("in", "join_in", "join_out")
    <3>1. CASE thread["in"] = "failed"
      BY <2>1, <3>1, NoneAssumption DEF Join
    <3>2. CASE thread["in"] = "done"
      BY <2>1, <3>2, NoneAssumption DEF Join
    <3>. QED  BY <2>1, <3>1, <3>2 DEF Join
  <2>2. CASE Join("out", "join_out", "join_err")
    <3>0. thread["in"] = "done"
      BY <2>2 DEF Join, IInv, Counted
    <3>1. CASE thread["out"] = "failed"
      BY <2>2, <3>1, NoneAssumption DEF Join
    <3>2. CASE thread["out"] = "done"
      BY <2>2, <3>0, <3>2, NoneAssumption DEF Join
    <3>. QED  BY <2>2, <3>1, <3>2 DEF Join
  <2>3. CASE Join("err", "join_err", "done")
    <3>0. thread["in"] = "done" /\ thread["out"] = "done"
      BY <2>3 DEF Join, IInv, Counted
    <3>1. CASE thread["err"] = "failed"
      BY <2>3, <3>1, NoneAssumption DEF Join
    <3>2. CASE thread["err"] = "done"
      BY <2>3, <3>0, <3>2, NoneAssumption DEF Join, Threads, Streams
    <3>. QED  BY <2>3, <3>1, <3>2 DEF Join
  <2>4. CASE JoinLate
    BY <2>4, NoneAssumption DEF JoinLate
  <2>. QED  BY <2>1, <2>2, <2>3, <2>4
<1>4. PICK pc \in {"join_out", "join_err", "done"}, r \in {"ok", "io", "limit", "timeout", None} :
        /\ sup' = [sup EXCEPT !.pc = pc, !.result = r]
        /\ r = None <=> pc # "done"
        /\ pc = "join_out" => thread["in"] = "done"
        /\ pc = "join_err" => thread["in"] = "done" /\ thread["out"] = "done"
        /\ r = "ok" => \A t \in Threads : thread[t] = "done"
  BY <1>3
<1>5. sup'.pc = pc /\ sup'.result = r /\ sup'.got = sup.got /\ sup'.status = sup.status
  BY <1>4 DEF IInv, TypeOK
<1>6. TypeOK'
  <2>1. sup' \in [pc : {"spawn", "assign", "drain", "poll", "join_in", "join_out", "join_err", "join_late", "done"},
                  got : SUBSET Threads, status : BOOLEAN, swept : BOOLEAN, result : Results \cup {None}]
    BY <1>4 DEF IInv, TypeOK, Results
  <2>. QED  BY <1>1, <2>1 DEF IInv, TypeOK
<1>7. Whole' /\ Counted'
  BY <1>1, <1>4, <1>5 DEF IInv, Whole, Counted
<1>8. Gone'
  BY <1>1, <1>2 DEF Gone
<1>9. OkIsWhole'
  BY <1>1, <1>2, <1>4, <1>5 DEF IInv, OkIsWhole, Whole, Threads, Streams
<1>. QED  BY <1>6, <1>7, <1>8, <1>9 DEF IInv

-----------------------------------------------------------------------------
(***************************************************************************)
(* The theorems                                                            *)
(***************************************************************************)

\* Before the child is spawned nothing was read, written or counted.
LEMMA InitInv == Init => IInv
<1> SUFFICES ASSUME Init PROVE IInv
  OBVIOUS
<1>1. TypeOK
  <2>1. 0 \in 0 .. MaxBytes /\ 0 \in 0 .. Limit
    BY BoundsAssumption
  <2>2. written \in [Streams -> 0 .. MaxBytes] /\ read \in [Streams -> 0 .. Limit]
    BY <2>1 DEF Init
  <2>3. sup \in [pc : {"spawn", "assign", "drain", "poll", "join_in", "join_out", "join_err", "join_late", "done"},
                got : SUBSET Threads, status : BOOLEAN, swept : BOOLEAN, result : Results \cup {None}]
    BY DEF Init
  <2>4. desc \in [alive : BOOLEAN, inTree : BOOLEAN, holds : BOOLEAN]
    BY DEF Init
  <2>. QED  BY <2>2, <2>3, <2>4 DEF Init, TypeOK
<1>2. Whole /\ Counted
  BY DEF Init, Whole, Counted, Streams, Threads
<1>3. Gone /\ OkIsWhole
  BY NoneAssumption DEF Init, Gone, OkIsWhole, Joining
<1>. QED  BY <1>1, <1>2, <1>3 DEF IInv

\* The strengthened invariant of the three supervisors of child processes.
THEOREM Invariance == Spec => []IInv
<1>1. ASSUME IInv, [Next]_vars PROVE IInv'
  <2>1. CASE Supervise
    BY <1>1, <2>1, StartKeeps, DrainKeeps, PollKeeps, ChildOrDeadlineKeeps, JoinKeeps
       DEF Supervise, PollHyperV, PollDirect
  <2>2. CASE \E t \in Threads : ThreadStep(t)
    BY <1>1, <2>2, ThreadKeeps
  <2>. QED  BY <1>1, <2>1, <2>2, HostKeeps DEF Next
<1>. QED  BY <1>1, InitInv, PTL DEF Spec

\* An `Ok` of run_bounded and of the PowerShell supervisors carries all the
\* child wrote, whatever the limit, the amount written and the interleaving
\* of child, descendant, readers, deadline and supervisor.
THEOREM WholeResult == Spec => []OkIsWhole
<1>1. IInv => OkIsWhole
  BY DEF IInv
<1>. QED  BY <1>1, Invariance, PTL

\* After the error of a limit, of a deadline or of an unwritable input, the
\* child is reaped and no descendant in its group or job runs.
THEOREM NoTreeAfterError == Spec => []ErrorLeavesNoTree
<1>1. IInv => ErrorLeavesNoTree
  BY DEF IInv, Gone, ErrorLeavesNoTree, Results
<1>. QED  BY <1>1, Invariance, PTL

=============================================================================
