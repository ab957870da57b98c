--------------------------- MODULE ChatRunsProofs ---------------------------
(***************************************************************************)
(* Theorems about ChatRuns: type correctness, that a cancelled record is   *)
(* overwritten only by a run that had already answered, that no request is *)
(* reported running when nobody works on it, unless its run was cancelled, *)
(* that registry and chat log agree on how a run ended, and that a request *)
(* has one live stream run: while no handler of an earlier run struck its  *)
(* record, and always if no record is ever pruned.                         *)
(***************************************************************************)
EXTENDS ChatRuns, FiniteSetTheorems, TLAPS

States == {"absent", "running"} \cup Final
-----------------------------------------------------------------------------
(* What the registry's operations do *)

\* start writes one running record and forgets ended ones only.
LEMMA StartWrites ==
    ASSUME TypeOK, NEW q \in Requests, Start(q)
    PROVE  /\ reg' \in [Requests -> States]
           /\ reg'[q] = "running"
           /\ \A x \in Requests \ {q} :
                reg'[x] = reg[x] \/ (reg'[x] = "absent" /\ reg[x] \in Final)
BY DEF TypeOK, Start, States, Final

\* complete ends the record, if there is one.
LEMMA CompleteWrites ==
    ASSUME TypeOK, NEW q \in Requests, NEW out, Complete(q, out)
    PROVE  /\ reg' \in [Requests -> States]
           /\ task' \in [Requests -> Streams \cup {None}]
           /\ reg'[q] # "running"
           /\ reg'[q] = "absent" <=> reg[q] = "absent"
           /\ \A x \in Requests \ {q} : reg'[x] = reg[x] /\ task'[x] = task[x]
BY DEF TypeOK, Complete, States, Final

\* fail ends the record, unless it is cancelled.
LEMMA FailWrites ==
    ASSUME TypeOK, NEW q \in Requests, Fail(q)
    PROVE  /\ reg' \in [Requests -> States]
           /\ task' \in [Requests -> Streams \cup {None}]
           /\ reg'[q] # "running"
           /\ reg'[q] = "absent" <=> reg[q] = "absent"
           /\ reg[q] = "cancelled" => reg'[q] = "cancelled"
           /\ \A x \in Requests \ {q} : reg'[x] = reg[x] /\ task'[x] = task[x]
<1>1. CASE reg[q] \in {"absent", "cancelled"}
    BY <1>1 DEF TypeOK, Fail, States, Final
<1>2. CASE reg[q] \notin {"absent", "cancelled"}
    BY <1>2 DEF TypeOK, Fail, States, Final
<1> QED
    BY <1>1, <1>2

\* The end of a stream's run, recorded by its callback or by its handler,
\* changes at most the record of its request, which runs no more unless the
\* run was cancelled and only its handler is told.
LEMMA EndWrites ==
    ASSUME TypeOK, NEW c \in Streams, RecordDone(c) \/ StreamSees(c) \/ WriteFails(c)
    PROVE  /\ reg' \in [Requests -> States]
           /\ task' \in [Requests -> Streams \cup {None}]
           /\ \A x \in Requests : /\ reg'[x] = "absent" <=> reg[x] = "absent"
                                  /\ reg'[x] = "running" => reg[x] = "running"
           /\ \A x \in Requests \ {RequestOf[c]} : reg'[x] = reg[x] /\ task'[x] = task[x]
           /\ RecordDone(c) => reg'[RequestOf[c]] # "running"
           /\ run[c].out \notin {"success", "unfinished"} /\ reg[RequestOf[c]] = "cancelled"
                => reg'[RequestOf[c]] = "cancelled"
<1> DEFINE q == RequestOf[c]
<1>1. q \in Requests
    BY ChatRunsAssumption
<1>2. \/ run[c].out \in {"success", "unfinished"} /\ Complete(q, run[c].out)
      \/ Fail(q)
      \/ UNCHANGED <<reg, task>> /\ ~RecordDone(c)
    <2>1. CASE RecordDone(c)
        BY <2>1 DEF RecordDone
    <2>2. CASE ~RecordDone(c)
        BY <2>2 DEF StreamSees, WriteFails
    <2> QED
        BY <2>1, <2>2
<1>3. CASE run[c].out \in {"success", "unfinished"} /\ Complete(q, run[c].out)
    BY <1>1, <1>3, CompleteWrites
<1>4. CASE Fail(q)
    BY <1>1, <1>4, FailWrites
<1>5. CASE UNCHANGED <<reg, task>> /\ ~RecordDone(c)
    BY <1>5 DEF TypeOK, States
<1>6. RecordDone(c) => Complete(q, run[c].out) \/ Fail(q)
    BY DEF RecordDone
<1>7. RecordDone(c) /\ Complete(q, run[c].out) => run[c].out \in {"success", "unfinished"} \/ Fail(q)
    BY DEF RecordDone
<1> QED
    BY <1>2, <1>3, <1>4, <1>5, <1>6, <1>7
-----------------------------------------------------------------------------
(* Type correctness *)

LEMMA InitTyped == Init => TypeOK
BY ChatRunsAssumption DEF Init, TypeOK, Idle, Run, Finished

\* A run that ends.
LEMMA OverWrites ==
    ASSUME TypeOK, NEW c \in Calls, NEW out \in {"none"} \cup Finished, Over(c, out)
    PROVE  /\ run' \in [Calls -> Run]
           /\ run'[c].pc = "over" /\ run'[c].out = out /\ run'[c].kill = run[c].kill
           /\ run'[c].due <=> c \in Streams
           /\ \A d \in Calls \ {c} : run'[d] = run[d]
<1> DEFINE b == c \in Streams
<1>1. b \in BOOLEAN
    OBVIOUS
<1>2. run' = [run EXCEPT ![c] = [run[c] EXCEPT !.pc = "over", !.out = out, !.due = b]]
    BY DEF Over, TypeOK
<1> HIDE DEF b
<1>3. run[c] \in Run /\ run \in [Calls -> Run]
    BY DEF TypeOK
<1>4. [run[c] EXCEPT !.pc = "over", !.out = out, !.due = b] \in Run
    BY <1>1, <1>3 DEF Run
<1>5. /\ run' \in [Calls -> Run]
      /\ run'[c] = [run[c] EXCEPT !.pc = "over", !.out = out, !.due = b]
      /\ \A d \in Calls \ {c} : run'[d] = run[d]
    BY <1>2, <1>3, <1>4
<1>6. /\ run'[c].pc = "over" /\ run'[c].out = out /\ run'[c].kill = run[c].kill
      /\ run'[c].due = b
    BY <1>3, <1>5 DEF Run
<1> QED
    BY <1>5, <1>6 DEF b

\* One run's record changes to a run: runs stay typed.
LEMMA RunTyped ==
    ASSUME TypeOK, NEW c \in Calls, NEW r \in Run, run' = [run EXCEPT ![c] = r]
    PROVE  run' \in [Calls -> Run]
<1>1. run \in [Calls -> Run]
    BY DEF TypeOK
<1> QED
    BY <1>1

\* What the steps change in a run's record leaves it a run.
LEMMA RunFields ==
    ASSUME TypeOK, NEW c \in Calls
    PROVE  /\ [run[c] EXCEPT !.pc = "work"] \in Run
           /\ [run[c] EXCEPT !.pc = "closing", !.out = "raised"] \in Run
           /\ [run[c] EXCEPT !.pc = "over", !.due = FALSE] \in Run
           /\ [run[c] EXCEPT !.due = FALSE] \in Run
           /\ [run[c] EXCEPT !.kill = TRUE] \in Run
           /\ Begun \in Run /\ [Idle EXCEPT !.pc = "over"] \in Run
<1>1. run[c] \in Run
    BY DEF TypeOK
<1>2. [run[c] EXCEPT !.pc = "work"] \in Run
    BY <1>1 DEF Run
<1>3. [run[c] EXCEPT !.pc = "closing", !.out = "raised"] \in Run
    BY <1>1 DEF Run, Finished
<1>4. [run[c] EXCEPT !.pc = "over", !.due = FALSE] \in Run
    BY <1>1 DEF Run
<1>5. [run[c] EXCEPT !.due = FALSE] \in Run
    BY <1>1 DEF Run
<1>6. [run[c] EXCEPT !.kill = TRUE] \in Run
    BY <1>1 DEF Run
<1>7. Begun \in Run
    BY DEF Begun, Idle, Run
<1>8. [Idle EXCEPT !.pc = "over"] \in Run
    BY DEF Idle, Run
<1> QED
    BY <1>2, <1>3, <1>4, <1>5, <1>6, <1>7, <1>8

LEMMA RunStepTyped ==
    ASSUME TypeOK, NEW c \in Calls, RunStep(c)
    PROVE  TypeOK'
<1>1. RequestOf[c] \in Requests
    BY ChatRunsAssumption DEF Calls
<1>2. CASE SessionReady(c)
    <2>1. run' \in [Calls -> Run]
        <3>1. run' = [run EXCEPT ![c] = [run[c] EXCEPT !.pc = "work"]]
            BY <1>2 DEF SessionReady
        <3> QED
            BY <3>1, RunFields, RunTyped
    <2>2. /\ log' \in [Requests -> {"absent", "running", "success", "failed"}]
          /\ left' \in [Requests -> BOOLEAN]
        BY <1>1, <1>2 DEF SessionReady, TypeOK
    <2> QED
        BY <1>2, <2>1, <2>2 DEF SessionReady, TypeOK
<1>3. CASE SessionGone(c)
    BY <1>3, OverWrites DEF SessionGone, TypeOK, Finished
<1>4. CASE Answered(c)
    <2>1. PICK out \in {"success", "unfinished"} :
            /\ run' = [run EXCEPT ![c].pc = "closing", ![c].out = out]
            /\ log' = [log EXCEPT ![RequestOf[c]] = IF out = "success" THEN "success" ELSE "failed"]
        BY <1>4 DEF Answered
    <2>2. run' \in [Calls -> Run]
        <3>1. run[c] \in Run
            BY DEF TypeOK
        <3>2. [run[c] EXCEPT !.pc = "closing", !.out = out] \in Run
            BY <2>1, <3>1 DEF Run, Finished
        <3>3. run' = [run EXCEPT ![c] = [run[c] EXCEPT !.pc = "closing", !.out = out]]
            BY <2>1
        <3> QED
            BY <3>2, <3>3, RunTyped
    <2> QED
        BY <1>1, <1>4, <2>1, <2>2 DEF Answered, TypeOK
<1>5. CASE WorkFails(c)
    <2>1. run' \in [Calls -> Run]
        <3>1. run' = [run EXCEPT ![c] = [run[c] EXCEPT !.pc = "closing", !.out = "raised"]]
            BY <1>5 DEF WorkFails
        <3> QED
            BY <3>1, RunFields, RunTyped
    <2>2. log' \in [Requests -> {"absent", "running", "success", "failed"}]
        BY <1>1, <1>5 DEF WorkFails, TypeOK
    <2> QED
        BY <1>5, <2>1, <2>2 DEF WorkFails, TypeOK
<1>6. CASE Closes(c)
    <2>1. run[c].out \in {"none"} \cup Finished
        BY DEF TypeOK, Run
    <2> QED
        BY <1>6, <2>1, OverWrites DEF Closes, TypeOK
<1>7. CASE RunCancelled(c)
    BY <1>7, OverWrites DEF RunCancelled, TypeOK, Finished
<1> QED
    BY <1>2, <1>3, <1>4, <1>5, <1>6, <1>7 DEF RunStep

LEMMA NextTyped == TypeOK /\ [Next]_vars => TypeOK'
<1> SUFFICES ASSUME TypeOK, [Next]_vars PROVE TypeOK'
    OBVIOUS
<1>1. ASSUME NEW c \in Calls, RunStep(c) PROVE TypeOK'
    BY <1>1, RunStepTyped
<1>2. ASSUME NEW c \in Chats, ChatBegin(c) PROVE TypeOK'
    <2>1. c \in Calls
        BY DEF Calls
    <2>4. PICK r \in Run : run' = [run EXCEPT ![c] = r]
        BY <1>2, <2>1, RunFields DEF ChatBegin
    <2>5. run' \in [Calls -> Run]
        BY <2>1, <2>4, RunTyped
    <2> QED
        BY <1>2, <2>5 DEF ChatBegin, TypeOK
<1>3. ASSUME NEW c \in Streams, StreamBegin(c) PROVE TypeOK'
    <2>1. RequestOf[c] \in Requests
        BY ChatRunsAssumption
    <2>2. reg' \in [Requests -> States]
        BY <1>3, <2>1, StartWrites DEF StreamBegin
    <2>3. c \in Calls
        BY DEF Calls
    <2>4. run' = [run EXCEPT ![c] = Begun]
        BY <1>3 DEF StreamBegin
    <2>5. run' \in [Calls -> Run]
        BY <2>3, <2>4, RunFields, RunTyped
    <2>6. /\ task' \in [Requests -> Streams \cup {None}]
          /\ view' \in [Streams -> {"idle", "live", "breaking", "last", "watch", "done"}]
        BY <1>3, <2>1 DEF StreamBegin, TypeOK
    <2> QED
        BY <1>3, <2>2, <2>5, <2>6 DEF StreamBegin, TypeOK, States
<1>4. ASSUME NEW c \in Streams, StreamWatches(c) \/ Disconnect(c) \/ ViewerEnds(c) PROVE TypeOK'
    BY <1>4 DEF StreamWatches, Disconnect, ViewerEnds, TypeOK
<1>5. ASSUME NEW c \in Streams, RecordDone(c) \/ StreamSees(c) \/ WriteFails(c) PROVE TypeOK'
    <2>1. reg' \in [Requests -> States] /\ task' \in [Requests -> Streams \cup {None}]
        BY <1>5, EndWrites
    <2>2. run' \in [Calls -> Run] /\ view' \in [Streams -> {"idle", "live", "breaking", "last", "watch", "done"}]
        <3>1. CASE RecordDone(c)
            <4>1. c \in Calls
                BY DEF Calls
            <4>2. run' = [run EXCEPT ![c] = [run[c] EXCEPT !.due = FALSE]] /\ view' = view
                BY <3>1 DEF RecordDone
            <4> QED
                BY <4>1, <4>2, RunFields, RunTyped DEF TypeOK
        <3>2. CASE StreamSees(c) \/ WriteFails(c)
            BY <3>2 DEF StreamSees, WriteFails, TypeOK
        <3> QED
            BY <1>5, <3>1, <3>2
    <2>3. UNCHANGED <<phase, crashes, log, left, cn>>
        BY <1>5 DEF RecordDone, StreamSees, WriteFails
    <2>4. struck' \subseteq Requests
        <3>1. struck' = struck \/ Strike(c)
            BY <1>5 DEF RecordDone, StreamSees, WriteFails
        <3> QED
            BY <3>1, ChatRunsAssumption DEF Strike, TypeOK
    <2> QED
        BY <2>1, <2>2, <2>3, <2>4 DEF TypeOK, States
<1>6. ASSUME NEW c \in Streams, StreamBreaks(c) PROVE TypeOK'
    <2>1. c \in Calls
        BY DEF Calls
    <2>2. run' = [run EXCEPT ![c] = [run[c] EXCEPT !.kill = TRUE]]
        BY <1>6 DEF StreamBreaks
    <2>3. run' \in [Calls -> Run]
        BY <2>1, <2>2, RunFields, RunTyped
    <2> QED
        BY <1>6, <2>3 DEF StreamBreaks, TypeOK
<1>7. ASSUME NEW k \in Cancels, CancelBegin(k) PROVE TypeOK'
    BY <1>7 DEF CancelBegin, TypeOK
<1>8. ASSUME NEW k \in Cancels, CancelFinish(k) PROVE TypeOK'
    <2>1. RequestOf[k] \in Requests
        BY ChatRunsAssumption
    <2>2. CASE reg[RequestOf[k]] = "running"
        <3>1. \A c \in Calls : [run[c] EXCEPT !.kill = TRUE] \in Run /\ run[c] \in Run
            BY RunFields DEF TypeOK
        <3>2. run' \in [Calls -> Run]
            BY <1>8, <2>2, <3>1 DEF CancelFinish
        <3>3. /\ reg' = [reg EXCEPT ![RequestOf[k]] = "cancelled"]
              /\ task' = [task EXCEPT ![RequestOf[k]] = None]
              /\ cn' = [cn EXCEPT ![k] = "done"]
              /\ UNCHANGED <<phase, crashes, log, left, view, struck>>
            BY <1>8, <2>2 DEF CancelFinish
        <3>4. "cancelled" \in States
            BY DEF States, Final
        <3>5. /\ reg' \in [Requests -> States]
              /\ task' \in [Requests -> Streams \cup {None}]
            BY <2>1, <3>3, <3>4 DEF TypeOK, States
        <3>6. cn' \in [Cancels -> {"idle", "remote", "done"}]
            BY <3>3 DEF TypeOK
        <3> QED
            BY <3>2, <3>3, <3>5, <3>6 DEF TypeOK, States
    <2>3. CASE reg[RequestOf[k]] # "running"
        BY <1>8, <2>3 DEF CancelFinish, TypeOK
    <2> QED
        BY <2>2, <2>3
<1>9. CASE Crash
    <2>1. \A c \in Calls : [run[c] EXCEPT !.pc = "over", !.due = FALSE] \in Run
        BY RunFields
    <2>2. Idle \in Run
        BY DEF Idle, Run
    <2>3. run' \in [Calls -> Run]
        BY <1>9, <2>1, <2>2 DEF Crash
    <2>4. crashes' \in 0..MaxCrashes
        <3>1. crashes \in 0..MaxCrashes /\ crashes < MaxCrashes /\ crashes' = crashes + 1
            BY <1>9 DEF Crash, TypeOK
        <3> QED
            BY <3>1, ChatRunsAssumption
    <2>5. /\ reg' \in [Requests -> States] /\ task' \in [Requests -> Streams \cup {None}]
          /\ view' \in [Streams -> {"idle", "live", "breaking", "last", "watch", "done"}]
          /\ cn' \in [Cancels -> {"idle", "remote", "done"}]
        BY <1>9 DEF Crash, States, TypeOK
    <2> QED
        BY <1>9, <2>3, <2>4, <2>5 DEF Crash, TypeOK, States
<1>10. CASE Recover
    BY <1>10 DEF Recover, TypeOK
<1>11. CASE UNCHANGED vars
    BY <1>11 DEF vars, TypeOK
<1> QED
    BY <1>1, <1>2, <1>3, <1>4, <1>5, <1>6, <1>7, <1>8, <1>9, <1>10, <1>11 DEF Next

\* Every variable stays in its type (the states the registry, the chat log and
\* the handlers can be in).
THEOREM TypeCorrect == Spec => []TypeOK
<1>1. Init => TypeOK
    BY InitTyped
<1>2. TypeOK /\ [Next]_vars => TypeOK'
    BY NextTyped
<1> QED
    BY <1>1, <1>2, PTL DEF Spec
-----------------------------------------------------------------------------
(***************************************************************************)
(* Cancelled records.  A run whose task was cancelled ends as cancelled,   *)
(* so neither its callback nor its handler completes the record.           *)
(***************************************************************************)

KilledEndsCancelled ==
    \A c \in Streams :
        /\ run[c].due => run[c].pc = "over"
        /\ /\ run[c].kill /\ run[c].pc = "over"
           /\ run[c].due \/ view[c] \in {"live", "breaking"}
           => run[c].out = "cancelled"

LEMMA KilledStep == TypeOK /\ KilledEndsCancelled /\ [Next]_vars => KilledEndsCancelled'
<1> SUFFICES ASSUME TypeOK, KilledEndsCancelled, [Next]_vars, NEW d \in Streams
             PROVE  /\ run'[d].due => run'[d].pc = "over"
                    /\ /\ run'[d].kill /\ run'[d].pc = "over"
                       /\ run'[d].due \/ view'[d] \in {"live", "breaking"}
                       => run'[d].out = "cancelled"
    BY DEF KilledEndsCancelled
<1> DEFINE Good == /\ run'[d].due => run'[d].pc = "over"
                   /\ /\ run'[d].kill /\ run'[d].pc = "over"
                      /\ run'[d].due \/ view'[d] \in {"live", "breaking"}
                      => run'[d].out = "cancelled"
<1>0. d \in Calls /\ run \in [Calls -> Run] /\ run[d] \in Run
    BY DEF TypeOK, Calls
<1>1. ASSUME NEW c \in Calls, RunStep(c) PROVE Good
    <2>1. CASE SessionReady(c) \/ Answered(c) \/ WorkFails(c)
        <3>1. view' = view /\ (d # c => run'[d] = run[d])
            BY <1>0, <2>1 DEF SessionReady, Answered, WorkFails
        <3>2. run[c].pc # "over" /\ run'[c].due = run[c].due /\ run'[c].pc # "over"
            BY <1>0, <2>1 DEF SessionReady, Answered, WorkFails, Step, Run
        <3> QED
            BY <3>1, <3>2 DEF KilledEndsCancelled
    <2>2. ASSUME NEW out \in {"none"} \cup Finished, Over(c, out), view' = view,
                 ~run[c].kill \/ out = "cancelled"
          PROVE  Good
        BY <2>2, <1>0, OverWrites DEF KilledEndsCancelled
    <2>3. CASE SessionGone(c)
        BY <2>2, <2>3 DEF SessionGone, Step, Finished
    <2>4. CASE Closes(c)
        <3>1. run[c].out \in {"none"} \cup Finished
            BY DEF TypeOK, Run
        <3> QED
            BY <2>2, <2>4, <3>1 DEF Closes, Step
    <2>5. CASE RunCancelled(c)
        BY <2>2, <2>5 DEF RunCancelled, Finished
    <2> QED
        BY <1>1, <2>1, <2>3, <2>4, <2>5 DEF RunStep
<1>2. ASSUME NEW c \in Chats, ChatBegin(c) PROVE Good
    <2>1. c # d
        BY ChatRunsAssumption
    <2> QED
        BY <1>0, <1>2, <2>1 DEF ChatBegin, KilledEndsCancelled
<1>3. ASSUME NEW c \in Streams, StreamBegin(c) PROVE Good
    <2>1. CASE c = d
        BY <1>0, <1>3, <2>1 DEF StreamBegin, Begun, Idle
    <2>2. CASE c # d
        BY <1>0, <1>3, <2>2 DEF StreamBegin, KilledEndsCancelled, TypeOK
    <2> QED
        BY <2>1, <2>2
<1>4. ASSUME NEW c \in Streams, StreamWatches(c) \/ Disconnect(c) \/ ViewerEnds(c) PROVE Good
    <2>1. run' = run /\ (view'[d] = view[d] \/ view'[d] \in {"watch", "done"})
        BY <1>4 DEF StreamWatches, Disconnect, ViewerEnds, TypeOK
    <2> QED
        BY <2>1 DEF KilledEndsCancelled
<1>5. ASSUME NEW c \in Streams, RecordDone(c) PROVE Good
    <2>1. /\ view' = view
          /\ run'[d] = run[d] \/ run'[d] = [run[d] EXCEPT !.due = FALSE]
        BY <1>0, <1>5 DEF RecordDone
    <2> QED
        BY <1>0, <2>1 DEF KilledEndsCancelled, Run
<1>6. ASSUME NEW c \in Streams, StreamSees(c) \/ WriteFails(c) PROVE Good
    <2>1. run' = run /\ (view'[d] = view[d] \/ view'[d] \in {"last", "done"})
        BY <1>6 DEF StreamSees, WriteFails, TypeOK
    <2> QED
        BY <2>1 DEF KilledEndsCancelled
<1>7. ASSUME NEW c \in Streams, StreamBreaks(c) PROVE Good
    <2>1. CASE c = d
        BY <1>0, <1>7, <2>1 DEF StreamBreaks, KilledEndsCancelled, Run
    <2>2. CASE c # d
        BY <1>0, <1>7, <2>2 DEF StreamBreaks, KilledEndsCancelled, TypeOK
    <2> QED
        BY <2>1, <2>2
<1>8. ASSUME NEW k \in Cancels, CancelBegin(k) PROVE Good
    BY <1>8 DEF CancelBegin, KilledEndsCancelled
<1>9. ASSUME NEW k \in Cancels, CancelFinish(k) PROVE Good
    <2>1. view' = view
        BY <1>9 DEF CancelFinish
    <2>2. \/ run'[d] = run[d]
          \/ Alive(d) /\ run'[d] = [run[d] EXCEPT !.kill = TRUE]
        BY <1>0, <1>9 DEF CancelFinish
    <2>3. CASE Alive(d) /\ run'[d] = [run[d] EXCEPT !.kill = TRUE]
        BY <1>0, <2>3 DEF Alive, KilledEndsCancelled, Run
    <2> QED
        BY <2>1, <2>2, <2>3 DEF KilledEndsCancelled
<1>10. CASE Crash
    <2>1. run'[d] = Idle \/ run'[d] = [run[d] EXCEPT !.pc = "over", !.due = FALSE]
        BY <1>0, <1>10 DEF Crash
    <2>2. run'[d].due = FALSE
        <3>1. CASE run'[d] = Idle
            BY <3>1 DEF Idle
        <3>2. CASE run'[d] = [run[d] EXCEPT !.pc = "over", !.due = FALSE]
            BY <1>0, <3>2 DEF Run
        <3> QED
            BY <2>1, <3>1, <3>2
    <2>3. view'[d] \notin {"live", "breaking"}
        <3>1. view' = [c \in Streams |-> IF view[c] = "idle" THEN "idle" ELSE "done"]
            BY <1>10 DEF Crash
        <3> QED
            BY <3>1
    <2> QED
        BY <2>2, <2>3
<1>11. CASE Recover \/ UNCHANGED vars
    BY <1>11 DEF Recover, vars, KilledEndsCancelled
<1> QED
    BY <1>1, <1>2, <1>3, <1>4, <1>5, <1>6, <1>7, <1>8, <1>9, <1>10, <1>11 DEF Next

LEMMA CancelStep ==
    TypeOK /\ KilledEndsCancelled /\ [Next]_vars =>
        \A q \in Requests :
         reg[q] = "cancelled" =>
             \/ reg'[q] \in {"cancelled", "absent"}
             \/ \E c \in Streams : /\ RequestOf[c] = q /\ run[c].pc = "over" /\ ~run[c].kill
                                   /\ run[c].out \in {"success", "unfinished"}
<1> SUFFICES ASSUME TypeOK, KilledEndsCancelled, [Next]_vars,
                    NEW q \in Requests, reg[q] = "cancelled", reg'[q] \notin {"cancelled", "absent"}
             PROVE  \E c \in Streams : /\ RequestOf[c] = q /\ run[c].pc = "over" /\ ~run[c].kill
                                       /\ run[c].out \in {"success", "unfinished"}
    OBVIOUS
<1>1. PICK c \in Streams : RecordDone(c) \/ StreamSees(c)
    <2>1. ASSUME NEW c \in Streams, StreamBegin(c) PROVE FALSE
        <3>1. RequestOf[c] \in Requests /\ RequestOf[c] # q
            BY <2>1, ChatRunsAssumption DEF StreamBegin
        <3> QED
            BY <2>1, <3>1, StartWrites DEF StreamBegin
    <2>2. ASSUME NEW k \in Cancels, CancelFinish(k) PROVE FALSE
        BY <2>2 DEF CancelFinish, TypeOK
    <2>3. CASE Crash
        BY <2>3 DEF Crash
    <2>6. ASSUME NEW c \in Streams, WriteFails(c) PROVE FALSE
        <3>1. RequestOf[c] \in Requests
            BY ChatRunsAssumption
        <3> QED
            BY <2>6, <3>1, FailWrites DEF WriteFails
    <2>4. reg' # reg
        OBVIOUS
    <2>5. ASSUME NEW c \in Calls, RunStep(c) PROVE reg' = reg
        BY <2>5 DEF RunStep, SessionReady, SessionGone, Answered, WorkFails, Closes, RunCancelled
    <2> QED
        BY <2>1, <2>2, <2>3, <2>4, <2>5, <2>6
           DEF Next, ChatBegin, StreamWatches, Disconnect, StreamBreaks, ViewerEnds, CancelBegin,
               Recover, vars
<1>2. /\ \A x \in Requests \ {RequestOf[c]} : reg'[x] = reg[x]
      /\ run[c].out \notin {"success", "unfinished"} /\ reg[RequestOf[c]] = "cancelled"
            => reg'[RequestOf[c]] = "cancelled"
    BY <1>1, EndWrites
<1>3. RequestOf[c] = q
    BY <1>2
<1>4. run[c].out \in {"success", "unfinished"}
    BY <1>2, <1>3
<1>5. run[c].pc = "over" /\ (run[c].due \/ view[c] \in {"live", "breaking"})
    BY <1>1 DEF RecordDone, StreamSees, KilledEndsCancelled
<1>6. ~run[c].kill
    BY <1>4, <1>5 DEF KilledEndsCancelled
<1> QED
    BY <1>3, <1>4, <1>5, <1>6

\* A cancelled record keeps its state while it is kept, unless the run it was
\* for had already ended with an answer (cancel, complete and fail of the
\* registry, the task's callback and the stream handler).
THEOREM CancelHolds == Spec => CancelStands
<1>1. Init => KilledEndsCancelled
    BY ChatRunsAssumption DEF Init, KilledEndsCancelled, Idle, Calls
<1>2. TypeOK /\ KilledEndsCancelled /\ [Next]_vars => KilledEndsCancelled'
    BY KilledStep
<1>3. TypeOK /\ KilledEndsCancelled /\ [Next]_vars =>
        [\A q \in Requests :
         reg[q] = "cancelled" =>
             \/ reg'[q] \in {"cancelled", "absent"}
             \/ \E c \in Streams : /\ RequestOf[c] = q /\ run[c].pc = "over" /\ ~run[c].kill
                                   /\ run[c].out \in {"success", "unfinished"}]_vars
    BY CancelStep
<1> QED
    BY <1>1, <1>2, <1>3, TypeCorrect, PTL DEF Spec, CancelStands
-----------------------------------------------------------------------------
(***************************************************************************)
(* One live run, with room for every request.  A registry that never has to *)
(* forget a record keeps the one of every request whose stream run lives,  *)
(* so the next stream of the request finds it; a restart ends the runs     *)
(* with the registry.                                                      *)
(***************************************************************************)

NeverPrunes == IsFiniteSet(Requests) /\ Cardinality(Requests) <= MaxRecords

LiveIsRecorded ==
    /\ \A c \in Streams : Alive(c) => reg[RequestOf[c]] # "absent"
    /\ \A c, d \in Streams : Alive(c) /\ Alive(d) /\ RequestOf[c] = RequestOf[d] => c = d

\* With room for every request, start forgets nothing.
LEMMA StartKeeps ==
    ASSUME TypeOK, NeverPrunes, NEW q \in Requests, Start(q)
    PROVE  \A x \in Requests \ {q} : reg'[x] = reg[x]
<1> DEFINE new   == [reg EXCEPT ![q] = "running"]
           held  == {x \in Requests : new[x] # "absent"}
           final == {x \in Requests : new[x] \in Final}
           Gone(D) == Cardinality(held \ D) <= MaxRecords \/ D = final
           Least(D) == \A D2 \in SUBSET D : Gone(D2) => D2 = D
<1>1. PICK D \in SUBSET final :
        /\ Gone(D) /\ Least(D)
        /\ reg' = [x \in Requests |-> IF x \in D THEN "absent" ELSE new[x]]
    BY Zenon DEF Start
<1>2. Gone({})
    <2>1. held \subseteq Requests
        OBVIOUS
    <2> HIDE DEF held
    <2>2. IsFiniteSet(held) /\ Cardinality(held) <= Cardinality(Requests)
        BY <2>1, FS_Subset DEF NeverPrunes
    <2>3. Cardinality(held) \in Nat /\ Cardinality(Requests) \in Nat /\ MaxRecords \in Nat
        BY <2>2, FS_CardinalityType, ChatRunsAssumption DEF NeverPrunes
    <2>4. Cardinality(held) <= MaxRecords
        BY <2>2, <2>3 DEF NeverPrunes
    <2>5. held \ {} = held
        OBVIOUS
    <2> QED
        BY <2>4, <2>5
<1> HIDE DEF Gone
<1>3. D = {}
    BY <1>1, <1>2
<1> QED
    <2>1. reg' = [x \in Requests |-> [reg EXCEPT ![q] = "running"][x]]
        BY <1>1, <1>3
    <2>2. reg \in [Requests -> {"absent", "running"} \cup Final]
        BY DEF TypeOK
    <2> QED
        BY <2>1, <2>2

\* Only the start of a run makes a run alive.
LEMMA AliveBefore ==
    ASSUME TypeOK, [Next]_vars, NEW d \in Streams, Alive(d)'
    PROVE  Alive(d) \/ StreamBegin(d)
<1>0. d \in Calls /\ run \in [Calls -> Run] /\ run[d] \in Run
    BY DEF TypeOK, Calls
<1>1. ASSUME NEW c \in Calls, RunStep(c) PROVE Alive(d)
    <2>1. CASE SessionReady(c) \/ Answered(c) \/ WorkFails(c)
        BY <1>0, <2>1 DEF SessionReady, Answered, WorkFails, Step, Alive
    <2>2. CASE SessionGone(c) \/ Closes(c) \/ RunCancelled(c)
        <3>1. PICK out : Over(c, out)
            BY <2>2 DEF SessionGone, Closes, RunCancelled
        <3>2. run'[c].pc = "over" /\ (d # c => run'[d] = run[d])
            BY <1>0, <3>1 DEF Over, Run
        <3> QED
            BY <3>2 DEF Alive
    <2> QED
        BY <1>1, <2>1, <2>2 DEF RunStep
<1>2. ASSUME NEW c \in Chats, ChatBegin(c) PROVE Alive(d)
    BY <1>0, <1>2, ChatRunsAssumption DEF ChatBegin, Alive
<1>3. ASSUME NEW c \in Streams, StreamBegin(c), c # d PROVE Alive(d)
    BY <1>0, <1>3 DEF StreamBegin, Alive
<1>4. ASSUME NEW c \in Streams, RecordDone(c) \/ StreamBreaks(c) PROVE Alive(d)
    <2>1. run'[d].pc = run[d].pc
        BY <1>0, <1>4 DEF RecordDone, StreamBreaks, Run
    <2> QED
        BY <2>1 DEF Alive
<1>5. ASSUME NEW k \in Cancels, CancelFinish(k) PROVE Alive(d)
    <2>1. run'[d].pc = run[d].pc
        BY <1>0, <1>5 DEF CancelFinish, Run
    <2> QED
        BY <2>1 DEF Alive
<1>6. CASE Crash
    <2>1. run'[d] = Idle \/ run'[d] = [run[d] EXCEPT !.pc = "over", !.due = FALSE]
        BY <1>0, <1>6 DEF Crash
    <2>2. run'[d].pc \in {"idle", "over"}
        <3>1. CASE run'[d] = Idle
            BY <3>1 DEF Idle
        <3>2. CASE run'[d] = [run[d] EXCEPT !.pc = "over", !.due = FALSE]
            BY <1>0, <3>2 DEF Run
        <3> QED
            BY <2>1, <3>1, <3>2
    <2> QED
        BY <2>2 DEF Alive
<1>7. CASE UNCHANGED run
    BY <1>7 DEF Alive
<1> QED
    BY <1>1, <1>2, <1>3, <1>4, <1>5, <1>6, <1>7
       DEF Next, StreamWatches, StreamSees, WriteFails, Disconnect, ViewerEnds, CancelBegin,
           Recover, vars

\* A record is forgotten only by a start or by a restart.
LEMMA RecordKept ==
    ASSUME TypeOK, NeverPrunes, [Next]_vars, NEW q \in Requests, reg[q] # "absent", ~Crash
    PROVE  reg'[q] # "absent"
<1>1. ASSUME NEW c \in Streams, StreamBegin(c) PROVE reg'[q] # "absent"
    <2>1. RequestOf[c] \in Requests
        BY ChatRunsAssumption
    <2> QED
        BY <1>1, <2>1, StartWrites, StartKeeps DEF StreamBegin
<1>2. ASSUME NEW c \in Streams, RecordDone(c) \/ StreamSees(c) \/ WriteFails(c)
      PROVE  reg'[q] # "absent"
    BY <1>2, EndWrites
<1>3. ASSUME NEW k \in Cancels, CancelFinish(k) PROVE reg'[q] # "absent"
    BY <1>3 DEF CancelFinish, TypeOK
<1>4. ASSUME NEW c \in Calls, RunStep(c) PROVE reg' = reg
    BY <1>4 DEF RunStep, SessionReady, SessionGone, Answered, WorkFails, Closes, RunCancelled
<1> QED
    BY <1>1, <1>2, <1>3, <1>4
       DEF Next, ChatBegin, StreamWatches, Disconnect, StreamBreaks, ViewerEnds, CancelBegin,
           Recover, vars

LEMMA LiveStep ==
    TypeOK /\ NeverPrunes /\ LiveIsRecorded /\ [Next]_vars => LiveIsRecorded'
<1> SUFFICES ASSUME TypeOK, NeverPrunes, LiveIsRecorded, [Next]_vars PROVE LiveIsRecorded'
    OBVIOUS
<1>1. \A c \in Streams : RequestOf[c] \in Requests
    BY ChatRunsAssumption
<1>2. ASSUME NEW c \in Streams, Alive(c)' PROVE reg'[RequestOf[c]] # "absent"
    <2>1. CASE StreamBegin(c)
        BY <1>1, <2>1, StartWrites DEF StreamBegin
    <2>2. CASE Alive(c) /\ ~Crash
        BY <1>1, <2>2, RecordKept DEF LiveIsRecorded
    <2>3. ~Crash
        <3>1. ASSUME Crash PROVE run'[c].pc \in {"idle", "over"}
            <4>1. c \in Calls /\ run[c] \in Run
                BY DEF TypeOK, Calls
            <4>2. run'[c] = Idle \/ run'[c] = [run[c] EXCEPT !.pc = "over", !.due = FALSE]
                BY <3>1, <4>1 DEF Crash
            <4>3. CASE run'[c] = Idle
                BY <4>3 DEF Idle
            <4>4. CASE run'[c] = [run[c] EXCEPT !.pc = "over", !.due = FALSE]
                BY <4>1, <4>4 DEF Run
            <4> QED
                BY <4>2, <4>3, <4>4
        <3> QED
            BY <1>2, <3>1 DEF Alive
    <2> QED
        BY <1>2, <2>1, <2>2, <2>3, AliveBefore
<1>3. ASSUME NEW c \in Streams, NEW d \in Streams, Alive(c)', Alive(d)', RequestOf[c] = RequestOf[d]
      PROVE  c = d
    <2>1. ASSUME NEW x \in Streams, NEW y \in Streams, RequestOf[x] = RequestOf[y],
                 StreamBegin(x), Alive(y)
          PROVE  FALSE
        BY <2>1 DEF StreamBegin, LiveIsRecorded
    <2>2. ASSUME StreamBegin(c), StreamBegin(d) PROVE c = d
        <3>1. /\ view' = [view EXCEPT ![c] = "live"] /\ view[c] = "idle"
              /\ view' = [view EXCEPT ![d] = "live"] /\ view[d] = "idle"
              /\ view \in [Streams -> {"idle", "live", "breaking", "last", "watch", "done"}]
            BY <2>2 DEF StreamBegin, TypeOK
        <3> QED
            BY <3>1
    <2> QED
        BY <1>3, <2>1, <2>2, AliveBefore DEF LiveIsRecorded
<1> QED
    BY <1>2, <1>3 DEF LiveIsRecorded, Alive

Alone ==
    \A c, d \in Streams : Alive(c) /\ Alive(d) /\ RequestOf[c] = RequestOf[d] => c = d

\* A registry with room for every request lets one stream of a request at a
\* time execute it, whatever connects, disconnects, cancels or restarts, and
\* however late a handler is (chat_stream_handler's look-up, start and
\* attach_task).
THEOREM AloneWithRoom == NeverPrunes => (Spec => []Alone)
<1> SUFFICES ASSUME NeverPrunes PROVE Spec => []Alone
    OBVIOUS
<1>1. Init => LiveIsRecorded
    BY ChatRunsAssumption DEF Init, LiveIsRecorded, Alive, Idle, Calls
<1>2. TypeOK /\ LiveIsRecorded /\ [Next]_vars => LiveIsRecorded'
    BY LiveStep
<1>3. LiveIsRecorded => Alone
    BY DEF LiveIsRecorded, Alone
<1> QED
    BY <1>1, <1>2, <1>3, TypeCorrect, PTL DEF Spec
-----------------------------------------------------------------------------
(***************************************************************************)
(* One live run, whatever is pruned.  The record of a request whose run    *)
(* lives runs, with that run's task attached, until a handler of an earlier *)
(* run strikes it; a running record is not pruned and turns streams away.  *)
(***************************************************************************)

OwnsRecord ==
    \A c \in Streams : Live(c) /\ RequestOf[c] \notin struck =>
        reg[RequestOf[c]] = "running" /\ task[RequestOf[c]] = c

\* A run that lives has lived before the step, unless the step begins it.
LEMMA LiveBefore ==
    ASSUME TypeOK, [Next]_vars, NEW d \in Streams, Live(d)'
    PROVE  ~Crash /\ (Live(d) \/ StreamBegin(d))
<1>0. d \in Calls /\ run \in [Calls -> Run] /\ run[d] \in Run
    BY DEF TypeOK, Calls
<1>1. Alive(d)' /\ ~run'[d].kill
    BY DEF Live
<1>2. ~Crash
    <2>1. ASSUME Crash PROVE run'[d].pc \in {"idle", "over"}
        <3>1. run'[d] = Idle \/ run'[d] = [run[d] EXCEPT !.pc = "over", !.due = FALSE]
            BY <1>0, <2>1 DEF Crash
        <3>2. CASE run'[d] = Idle
            BY <3>2 DEF Idle
        <3>3. CASE run'[d] = [run[d] EXCEPT !.pc = "over", !.due = FALSE]
            BY <1>0, <3>3 DEF Run
        <3> QED
            BY <3>1, <3>2, <3>3
    <2> QED
        BY <1>1, <2>1 DEF Alive
<1>3. ASSUME ~StreamBegin(d) PROVE Live(d)
    <2>1. Alive(d)
        BY <1>1, <1>3, AliveBefore
    <2>2. ASSUME NEW c \in Calls, RunStep(c) PROVE ~run[d].kill
        <3>1. CASE SessionReady(c) \/ Answered(c) \/ WorkFails(c)
            <4>1. run'[d].kill = run[d].kill
                BY <1>0, <3>1 DEF SessionReady, Answered, WorkFails, Run
            <4> QED
                BY <1>1, <4>1
        <3>2. CASE SessionGone(c) \/ Closes(c) \/ RunCancelled(c)
            <4>1. PICK out : Over(c, out)
                BY <3>2 DEF SessionGone, Closes, RunCancelled
            <4>2. run'[d].kill = run[d].kill
                BY <1>0, <4>1 DEF Over, Run
            <4> QED
                BY <1>1, <4>2
        <3> QED
            BY <2>2, <3>1, <3>2 DEF RunStep
    <2>3. ASSUME NEW c \in Chats, ChatBegin(c) PROVE ~run[d].kill
        BY <1>0, <1>1, <2>3, ChatRunsAssumption DEF ChatBegin
    <2>4. ASSUME NEW c \in Streams, StreamBegin(c) PROVE ~run[d].kill
        BY <1>0, <1>1, <1>3, <2>4 DEF StreamBegin
    <2>5. ASSUME NEW c \in Streams, RecordDone(c) \/ StreamBreaks(c) PROVE ~run[d].kill
        <3>1. run'[d].kill = run[d].kill \/ run'[d].kill
            BY <1>0, <2>5 DEF RecordDone, StreamBreaks, Run
        <3> QED
            BY <1>1, <3>1
    <2>6. ASSUME NEW k \in Cancels, CancelFinish(k) PROVE ~run[d].kill
        <3>1. run'[d] = run[d] \/ run'[d] = [run[d] EXCEPT !.kill = TRUE]
            BY <1>0, <2>6 DEF CancelFinish
        <3>2. [run[d] EXCEPT !.kill = TRUE].kill
            BY <1>0 DEF Run
        <3> QED
            BY <1>1, <3>1, <3>2
    <2>7. ASSUME UNCHANGED run PROVE ~run[d].kill
        BY <1>1, <2>7
    <2>8. ~run[d].kill
        BY <1>2, <2>2, <2>3, <2>4, <2>5, <2>6, <2>7
           DEF Next, StreamWatches, StreamSees, WriteFails, Disconnect, ViewerEnds, CancelBegin,
               Recover, vars
    <2> QED
        BY <2>1, <2>8 DEF Live
<1> QED
    BY <1>2, <1>3

\* Only a run that is over is recorded as ended; where another lives, the
\* request is struck.
LEMMA EndStrikes ==
    ASSUME TypeOK, KilledEndsCancelled, OwnsRecord,
           NEW c \in Streams, RecordDone(c) \/ StreamSees(c) \/ WriteFails(c),
           NEW d \in Streams, Live(d), RequestOf[d] \notin struck'
    PROVE  reg'[RequestOf[d]] = "running" /\ task'[RequestOf[d]] = d
<1>1. /\ RequestOf[c] \in Requests /\ RequestOf[d] \in Requests
      /\ run[c].pc = "over" /\ c # d
    BY ChatRunsAssumption
       DEF RecordDone, StreamSees, WriteFails, KilledEndsCancelled, Live, Alive
<1>2. Strike(c) \/ UNCHANGED <<reg, task, struck>>
    BY DEF RecordDone, StreamSees, WriteFails
<1>3. struck \subseteq struck'
    BY <1>2 DEF Strike
<1>4. reg[RequestOf[d]] = "running" /\ task[RequestOf[d]] = d
    BY <1>3 DEF OwnsRecord
<1>5. CASE UNCHANGED <<reg, task, struck>>
    BY <1>4, <1>5
<1>6. CASE Strike(c)
    <2>1. RequestOf[c] # RequestOf[d]
        BY <1>1, <1>4, <1>6 DEF Strike
    <2>2. /\ reg'[RequestOf[d]] = reg[RequestOf[d]]
          /\ task'[RequestOf[d]] = task[RequestOf[d]]
        BY <1>1, <2>1, EndWrites
    <2> QED
        BY <1>4, <2>2
<1> QED
    BY <1>2, <1>5, <1>6

LEMMA OwnsStep ==
    TypeOK /\ KilledEndsCancelled /\ OwnsRecord /\ [Next]_vars => OwnsRecord'
<1> SUFFICES ASSUME TypeOK, KilledEndsCancelled, OwnsRecord, [Next]_vars,
                    NEW d \in Streams, Live(d)', RequestOf[d] \notin struck'
             PROVE  reg'[RequestOf[d]] = "running" /\ task'[RequestOf[d]] = d
    BY DEF OwnsRecord, Live, Alive
<1> DEFINE q == RequestOf[d]
           Owned == reg'[q] = "running" /\ task'[q] = d
<1>1. q \in Requests /\ d \in Calls /\ run[d] \in Run /\ \A c \in Streams : RequestOf[c] \in Requests
    BY ChatRunsAssumption DEF TypeOK, Calls
<1>2. ~Crash /\ (Live(d) \/ StreamBegin(d))
    BY LiveBefore
<1>3. CASE StreamBegin(d)
    BY <1>1, <1>3, StartWrites DEF StreamBegin, TypeOK
<1>4. CASE Live(d) /\ ~StreamBegin(d)
    <2>1. ASSUME NEW c \in Streams, RecordDone(c) \/ StreamSees(c) \/ WriteFails(c) PROVE Owned
        BY <1>4, <2>1, EndStrikes
    <2>2. ASSUME UNCHANGED struck PROVE reg[q] = "running" /\ task[q] = d
        BY <1>4, <2>2 DEF OwnsRecord
    <2>3. ASSUME NEW c \in Streams, StreamBegin(c) PROVE Owned
        <3>1. reg[q] = "running" /\ task[q] = d
            BY <2>2, <2>3 DEF StreamBegin
        <3>2. RequestOf[c] # q
            BY <2>3, <3>1 DEF StreamBegin
        <3>3. reg'[q] = "running"
            BY <1>1, <2>3, <3>1, <3>2, StartWrites DEF StreamBegin, Final
        <3>4. task'[q] = task[q]
            BY <1>1, <2>3, <3>2 DEF StreamBegin, TypeOK
        <3> QED
            BY <3>1, <3>3, <3>4
    <2>4. ASSUME NEW k \in Cancels, CancelFinish(k) PROVE Owned
        <3>1. reg[q] = "running" /\ task[q] = d
            BY <2>2, <2>4 DEF CancelFinish
        <3>2. RequestOf[k] # q
            <4>1. ASSUME RequestOf[k] = q PROVE FALSE
                <5>1. run'[d] = [run[d] EXCEPT !.kill = TRUE]
                    BY <1>1, <1>4, <2>4, <3>1, <4>1 DEF CancelFinish, Live
                <5>2. run'[d].kill
                    BY <1>1, <5>1 DEF Run
                <5> QED
                    BY <5>2 DEF Live
            <4> QED
                BY <4>1
        <3>3. reg'[q] = reg[q] /\ task'[q] = task[q]
            BY <1>1, <2>4, <3>2 DEF CancelFinish, TypeOK
        <3> QED
            BY <3>1, <3>3
    <2>5. CASE UNCHANGED <<reg, task, struck>>
        BY <2>2, <2>5
    <2>6. ASSUME NEW c \in Calls, RunStep(c) PROVE UNCHANGED <<reg, task, struck>>
        BY <2>6 DEF RunStep, SessionReady, SessionGone, Answered, WorkFails, Closes, RunCancelled
    <2> QED
        BY <1>2, <2>1, <2>3, <2>4, <2>5, <2>6
           DEF Next, ChatBegin, StreamWatches, Disconnect, StreamBreaks, ViewerEnds, CancelBegin,
               Recover, vars
<1> QED
    BY <1>2, <1>3, <1>4

\* While no handler or callback of an earlier run has recorded its end on the
\* record of a live one, one stream of a request at a time executes it, however
\* small the registry (chat_stream_handler's look-up, start, attach_task and
\* the pruning of terminal records only).
THEOREM OneRunAtATime == Spec => []OneLiveRun
<1> DEFINE IInv == KilledEndsCancelled /\ OwnsRecord
<1>1. Init => IInv
    BY ChatRunsAssumption DEF Init, KilledEndsCancelled, OwnsRecord, Live, Alive, Idle, Calls
<1>2. TypeOK /\ IInv /\ [Next]_vars => IInv'
    BY KilledStep, OwnsStep
<1>3. IInv => OneLiveRun
    BY DEF OwnsRecord, OneLiveRun
<1> QED
    BY <1>1, <1>2, <1>3, TypeCorrect, PTL DEF Spec
-----------------------------------------------------------------------------
(***************************************************************************)
(* No phantom runs.  Unless its task is cancelled, a run ends every chat   *)
(* log entry it started, and a record that runs waits for the callback of  *)
(* a run of its request.                                                   *)
(***************************************************************************)

RunningIsWorkedOn ==
    /\ \A c \in Calls : run[c].pc = "idle" => ~run[c].kill
    /\ \A c \in Streams : /\ view[c] = "idle" => run[c].pc = "idle"
                          /\ view[c] = "live" => run[c].pc # "idle"
    /\ \A q \in Requests : reg[q] = "running" =>
         \E c \in Streams : RequestOf[c] = q /\ (Alive(c) \/ run[c].due)
    /\ phase = "up" => \A q \in Requests : log[q] = "running" =>
         \E c \in Calls : RequestOf[c] = q /\ (run[c].pc = "work" \/ run[c].kill)

\* A step that leaves the log alone, begins and ends no run, and only takes
\* records out of the running state.
LEMMA NothingEnds ==
    ASSUME TypeOK, RunningIsWorkedOn, phase' = phase, log' = log,
           \A c \in Calls : run'[c].pc = run[c].pc /\ (run[c].kill => run'[c].kill),
           \A c \in Calls : run[c].pc = "idle" => run'[c].kill = run[c].kill,
           \A c \in Streams : \A v \in {"idle", "live"} : view'[c] = v => view[c] = v,
           \A q \in Requests : reg'[q] = "running" =>
               /\ reg[q] = "running"
               /\ \A c \in Streams : RequestOf[c] = q => run'[c].due = run[c].due
    PROVE  RunningIsWorkedOn'
<1>0. Streams \subseteq Calls
    BY DEF Calls
<1>1. ASSUME NEW q \in Requests, reg'[q] = "running"
      PROVE  \E c \in Streams : RequestOf[c] = q /\ (Alive(c)' \/ run'[c].due)
    <2>1. PICK c \in Streams : RequestOf[c] = q /\ (Alive(c) \/ run[c].due)
        BY <1>1 DEF RunningIsWorkedOn
    <2> QED
        BY <1>0, <1>1, <2>1 DEF Alive
<1>2. ASSUME phase' = "up", NEW q \in Requests, log'[q] = "running"
      PROVE  \E c \in Calls : RequestOf[c] = q /\ (run'[c].pc = "work" \/ run'[c].kill)
    BY <1>2 DEF RunningIsWorkedOn
<1>3. /\ \A c \in Calls : run'[c].pc = "idle" => ~run'[c].kill
      /\ \A c \in Streams : /\ view'[c] = "idle" => run'[c].pc = "idle"
                            /\ view'[c] = "live" => run'[c].pc # "idle"
    BY <1>0 DEF RunningIsWorkedOn
<1> QED
    BY <1>1, <1>2, <1>3 DEF RunningIsWorkedOn, Alive

\* What a step of a run does to it, its entry and its record.
LEMMA RunMoves ==
    ASSUME TypeOK, NEW c \in Calls, RunStep(c)
    PROVE  /\ \A d \in Calls \ {c} : run'[d] = run[d]
           /\ run'[c].kill = run[c].kill
           /\ c \in Streams => Alive(c)' \/ run'[c].due
           /\ \/ run'[c].pc = "work" \/ run[c].kill
              \/ run[c].pc # "work" /\ log' = log
              \/ log' = [log EXCEPT ![RequestOf[c]] = "failed"]
              \/ log' = [log EXCEPT ![RequestOf[c]] = "success"]
           /\ \/ log' = log
              \/ run'[c].pc = "work" /\ log' = [log EXCEPT ![RequestOf[c]] = "running"]
              \/ log' = [log EXCEPT ![RequestOf[c]] = "failed"]
              \/ log' = [log EXCEPT ![RequestOf[c]] = "success"]
           /\ run[c].pc # "idle" /\ run'[c].pc # "idle"
           /\ UNCHANGED <<phase, reg, view>>
<1>0. run \in [Calls -> Run] /\ run[c] \in Run
    BY DEF TypeOK
<1>1. CASE SessionReady(c)
    BY <1>0, <1>1 DEF SessionReady, Step, Run, Alive
<1>2. CASE Answered(c)
    <2>1. PICK out \in {"success", "unfinished"} :
            /\ run' = [run EXCEPT ![c].pc = "closing", ![c].out = out]
            /\ log' = [log EXCEPT ![RequestOf[c]] = IF out = "success" THEN "success" ELSE "failed"]
        BY <1>2 DEF Answered
    <2>2. run'[c].pc = "closing" /\ run'[c].kill = run[c].kill /\ \A d \in Calls \ {c} : run'[d] = run[d]
        BY <1>0, <2>1 DEF Run
    <2>3. \/ log' = [log EXCEPT ![RequestOf[c]] = "failed"]
          \/ log' = [log EXCEPT ![RequestOf[c]] = "success"]
        BY <2>1
    <2> QED
        BY <1>2, <2>2, <2>3 DEF Answered, Step, Alive
<1>3. CASE WorkFails(c)
    BY <1>0, <1>3 DEF WorkFails, Step, Run, Alive
<1>4. CASE SessionGone(c)
    BY <1>4, OverWrites DEF SessionGone, Step, Finished
<1>5. CASE Closes(c)
    <2>1. run[c].out \in {"none"} \cup Finished
        BY <1>0 DEF Run
    <2> QED
        BY <1>5, <2>1, OverWrites DEF Closes, Step
<1>6. CASE RunCancelled(c)
    BY <1>6, OverWrites DEF RunCancelled, Alive, Finished
<1> QED
    BY <1>1, <1>2, <1>3, <1>4, <1>5, <1>6 DEF RunStep

LEMMA WorkedOnStep ==
    TypeOK /\ RunningIsWorkedOn /\ [Next]_vars => RunningIsWorkedOn'
<1> SUFFICES ASSUME TypeOK, RunningIsWorkedOn, [Next]_vars
             PROVE  RunningIsWorkedOn'
    OBVIOUS
<1>0. /\ run \in [Calls -> Run] /\ \A c \in Calls : run[c] \in Run
      /\ \A c \in Calls : RequestOf[c] \in Requests
      /\ Streams \subseteq Calls /\ Chats \subseteq Calls /\ Streams \cap Chats = {}
    BY ChatRunsAssumption DEF TypeOK, Calls
<1>1. ASSUME NEW c \in Calls, RunStep(c) PROVE RunningIsWorkedOn'
    <2>1. /\ \A d \in Calls : run'[d].kill = run[d].kill
          /\ \A d \in Calls : run'[d].pc = "idle" => run[d].pc = "idle"
          /\ \A d \in Calls : run[d].pc = "idle" => run'[d].pc = "idle"
        BY <1>1, RunMoves
    <2>2. \A d \in Calls : run'[d].pc = "idle" => ~run'[d].kill
        BY <2>1 DEF RunningIsWorkedOn
    <2>3. ASSUME NEW q \in Requests, reg'[q] = "running"
          PROVE  \E d \in Streams : RequestOf[d] = q /\ (Alive(d)' \/ run'[d].due)
        <3>1. PICK d \in Streams : RequestOf[d] = q /\ (Alive(d) \/ run[d].due)
            BY <1>1, <2>3, RunMoves DEF RunningIsWorkedOn
        <3>2. Alive(d)' \/ run'[d].due
            BY <1>0, <1>1, <3>1, RunMoves DEF Alive
        <3> QED
            BY <3>1, <3>2
    <2>4. ASSUME phase' = "up", NEW q \in Requests, log'[q] = "running"
          PROVE  \E d \in Calls : RequestOf[d] = q /\ (run'[d].pc = "work" \/ run'[d].kill)
        <3>1. log \in [Requests -> {"absent", "running", "success", "failed"}] /\ phase = "up"
            BY <1>1, <2>4, RunMoves DEF TypeOK
        <3>2. CASE (run'[c].pc = "work" \/ run[c].kill) /\ RequestOf[c] = q
            BY <2>1, <3>2
        <3>3. CASE ~((run'[c].pc = "work" \/ run[c].kill) /\ RequestOf[c] = q)
            <4>1. log[q] = "running"
                BY <1>0, <1>1, <2>4, <3>1, <3>3, RunMoves
            <4>2. PICK d \in Calls : RequestOf[d] = q /\ (run[d].pc = "work" \/ run[d].kill)
                BY <3>1, <4>1 DEF RunningIsWorkedOn
            <4>3. d # c
                BY <1>0, <1>1, <2>4, <3>1, <3>3, <4>2, RunMoves
            <4> QED
                BY <1>1, <4>2, <4>3, RunMoves
        <3> QED
            BY <3>2, <3>3
    <2>5. \A d \in Streams : /\ view'[d] = "idle" => run'[d].pc = "idle"
                             /\ view'[d] = "live" => run'[d].pc # "idle"
        BY <1>0, <1>1, <2>1, RunMoves DEF RunningIsWorkedOn
    <2> QED
        BY <2>2, <2>3, <2>4, <2>5 DEF RunningIsWorkedOn, Alive
<1>2. ASSUME NEW c \in Chats, ChatBegin(c) PROVE RunningIsWorkedOn'
    <2>1. /\ \A d \in Calls \ {c} : run'[d] = run[d]
          /\ ~run[c].kill /\ ~run'[c].kill /\ run[c].pc = "idle" /\ c \notin Streams
          /\ UNCHANGED <<phase, reg, log, view>>
        BY <1>0, <1>2 DEF ChatBegin, Begun, Idle, RunningIsWorkedOn
    <2>2. \A d \in Streams : run'[d] = run[d]
        BY <1>0, <2>1
    <2> QED
        BY <1>0, <2>1, <2>2 DEF RunningIsWorkedOn, Alive
<1>3. ASSUME NEW c \in Streams, StreamBegin(c) PROVE RunningIsWorkedOn'
    <2>1. /\ \A d \in Calls \ {c} : run'[d] = run[d]
          /\ run'[c].pc = "session" /\ ~run'[c].kill
          /\ run[c].pc = "idle" /\ ~run[c].kill
          /\ UNCHANGED <<phase, log>>
        BY <1>0, <1>3 DEF StreamBegin, Begun, Idle, RunningIsWorkedOn
    <2>2. ASSUME NEW q \in Requests, reg'[q] = "running"
          PROVE  \E d \in Streams : RequestOf[d] = q /\ (Alive(d)' \/ run'[d].due)
        <3>1. CASE q = RequestOf[c]
            BY <2>1, <3>1 DEF Alive
        <3>2. CASE q # RequestOf[c]
            <4>1. reg[q] = "running"
                BY <1>0, <1>3, <2>2, <3>2, StartWrites DEF StreamBegin
            <4>2. PICK d \in Streams : RequestOf[d] = q /\ (Alive(d) \/ run[d].due)
                BY <4>1 DEF RunningIsWorkedOn
            <4>3. run'[d] = run[d]
                BY <1>0, <2>1, <3>2, <4>2
            <4> QED
                BY <4>2, <4>3 DEF Alive
        <3> QED
            BY <3>1, <3>2
    <2>3. ASSUME phase' = "up", NEW q \in Requests, log'[q] = "running"
          PROVE  \E d \in Calls : RequestOf[d] = q /\ (run'[d].pc = "work" \/ run'[d].kill)
        <3>1. PICK d \in Calls : RequestOf[d] = q /\ (run[d].pc = "work" \/ run[d].kill)
            BY <2>1, <2>3 DEF RunningIsWorkedOn
        <3>2. d # c
            BY <2>1, <3>1
        <3> QED
            BY <2>1, <3>1, <3>2
    <2>4. \A d \in Streams : /\ view'[d] = "idle" => view[d] = "idle" /\ d # c
                             /\ view'[d] = "live" => view[d] = "live" \/ d = c
        BY <1>3 DEF StreamBegin, TypeOK
    <2>5. \A d \in Streams : /\ view'[d] = "idle" => run'[d].pc = "idle"
                             /\ view'[d] = "live" => run'[d].pc # "idle"
        BY <1>0, <2>1, <2>4 DEF RunningIsWorkedOn
    <2> QED
        BY <1>0, <2>1, <2>2, <2>3, <2>5 DEF RunningIsWorkedOn, Alive
<1>4. ASSUME NEW c \in Streams, StreamWatches(c) \/ Disconnect(c) \/ ViewerEnds(c)
      PROVE  RunningIsWorkedOn'
    <2>1. /\ UNCHANGED <<phase, reg, log, run>>
          /\ \A d \in Streams : \A v \in {"idle", "live"} : view'[d] = v => view[d] = v
        BY <1>4 DEF StreamWatches, Disconnect, ViewerEnds, TypeOK
    <2> QED
        BY <2>1 DEF RunningIsWorkedOn, Alive
<1>5. ASSUME NEW c \in Streams, RecordDone(c) PROVE RunningIsWorkedOn'
    <2>1. /\ \A d \in Calls \ {c} : run'[d] = run[d]
          /\ run'[c].pc = run[c].pc /\ run'[c].kill = run[c].kill
          /\ UNCHANGED <<phase, log, view>>
        BY <1>0, <1>5 DEF RecordDone, Run
    <2>2. ASSUME NEW q \in Requests, reg'[q] = "running"
          PROVE  \E d \in Streams : RequestOf[d] = q /\ (Alive(d)' \/ run'[d].due)
        <3>1. q # RequestOf[c] /\ reg[q] = "running"
            BY <1>5, <2>2, EndWrites
        <3>2. PICK d \in Streams : RequestOf[d] = q /\ (Alive(d) \/ run[d].due)
            BY <3>1 DEF RunningIsWorkedOn
        <3>3. run'[d] = run[d]
            BY <1>0, <2>1, <3>1, <3>2
        <3> QED
            BY <3>2, <3>3 DEF Alive
    <2>3. \A d \in Calls : run'[d].pc = run[d].pc /\ run'[d].kill = run[d].kill
        BY <2>1
    <2>4. ASSUME NEW q \in Requests, reg'[q] = "running"
          PROVE  reg[q] = "running" /\ \A d \in Streams : RequestOf[d] = q => run'[d].due = run[d].due
        BY <1>0, <1>5, <2>1, <2>4, EndWrites
    <2> QED
        BY <1>0, <2>1, <2>3, <2>4, NothingEnds
<1>6. ASSUME NEW c \in Streams, StreamSees(c) \/ WriteFails(c) PROVE RunningIsWorkedOn'
    <2>1. /\ UNCHANGED <<phase, log, run>>
          /\ \A d \in Streams : \A v \in {"idle", "live"} : view'[d] = v => view[d] = v
        BY <1>6 DEF StreamSees, WriteFails, TypeOK
    <2>2. \A q \in Requests : reg'[q] = "running" => reg[q] = "running"
        BY <1>6, EndWrites
    <2> QED
        BY <2>1, <2>2 DEF RunningIsWorkedOn, Alive
<1>7. CASE Crash
    <2>1. \A q \in Requests : reg'[q] = "absent"
        BY <1>7 DEF Crash
    <2>2. ASSUME NEW d \in Calls
          PROVE  /\ run'[d].pc = "idle" => ~run'[d].kill
                 /\ run[d].pc = "idle" => run'[d].pc = "idle"
        <3>1. \/ run'[d] = Idle
              \/ run[d].pc # "idle" /\ run'[d] = [run[d] EXCEPT !.pc = "over", !.due = FALSE]
            BY <1>7 DEF Crash
        <3>2. CASE run'[d] = Idle
            BY <3>2 DEF Idle
        <3>3. CASE run[d].pc # "idle" /\ run'[d] = [run[d] EXCEPT !.pc = "over", !.due = FALSE]
            BY <1>0, <3>3 DEF Run, RunningIsWorkedOn
        <3> QED
            BY <3>1, <3>2, <3>3
    <2>3. \A d \in Streams : view'[d] # "live" /\ (view'[d] = "idle" => view[d] = "idle")
        BY <1>7 DEF Crash
    <2>4. phase' = "down"
        BY <1>7 DEF Crash
    <2> QED
        BY <1>0, <2>1, <2>2, <2>3, <2>4 DEF RunningIsWorkedOn
<1>8. CASE Recover
    <2>1. \A q \in Requests : log'[q] # "running"
        BY <1>8 DEF Recover
    <2>2. UNCHANGED <<reg, run, view>>
        BY <1>8 DEF Recover
    <2> QED
        BY <2>1, <2>2 DEF RunningIsWorkedOn, Alive
<1>9. CASE UNCHANGED vars
    BY <1>9 DEF vars, RunningIsWorkedOn, Alive
<1>10. ASSUME NEW c \in Streams, StreamBreaks(c) PROVE RunningIsWorkedOn'
    <2>1. /\ run' = [run EXCEPT ![c].kill = TRUE] /\ view' = [view EXCEPT ![c] = "breaking"]
          /\ view[c] = "live" /\ UNCHANGED <<phase, reg, log>>
        BY <1>10 DEF StreamBreaks
    <2>2. \A d \in Calls : /\ run'[d].pc = run[d].pc /\ run'[d].due = run[d].due
                           /\ (run[d].kill => run'[d].kill) /\ (d # c => run'[d] = run[d])
        BY <1>0, <2>1 DEF Run
    <2>3. run[c].pc # "idle"
        BY <2>1 DEF RunningIsWorkedOn
    <2>4. \A d \in Calls : run[d].pc = "idle" => run'[d].kill = run[d].kill
        BY <2>2, <2>3
    <2>5. \A d \in Streams : \A v \in {"idle", "live"} : view'[d] = v => view[d] = v
        BY <2>1 DEF TypeOK
    <2> QED
        BY <1>0, <2>1, <2>2, <2>4, <2>5, NothingEnds
<1>11. ASSUME NEW k \in Cancels, CancelBegin(k) PROVE RunningIsWorkedOn'
    BY <1>11, NothingEnds DEF CancelBegin
<1>12. ASSUME NEW k \in Cancels, CancelFinish(k) PROVE RunningIsWorkedOn'
    <2>1. UNCHANGED <<phase, log, view>>
        BY <1>12 DEF CancelFinish
    <2>2. CASE reg[RequestOf[k]] = "running"
        <3>1. /\ reg' = [reg EXCEPT ![RequestOf[k]] = "cancelled"]
              /\ run' = [c \in Calls |-> IF c = task[RequestOf[k]] /\ Alive(c)
                                         THEN [run[c] EXCEPT !.kill = TRUE] ELSE run[c]]
            BY <1>12, <2>2 DEF CancelFinish
        <3>2. \A d \in Calls : /\ run'[d].pc = run[d].pc /\ run'[d].due = run[d].due
                               /\ run[d].kill => run'[d].kill
                               /\ run[d].pc = "idle" => run'[d] = run[d]
            BY <1>0, <3>1 DEF Run, Alive
        <3>3. \A q \in Requests : reg'[q] = "running" => reg[q] = "running"
            BY <3>1 DEF TypeOK
        <3> QED
            BY <1>0, <2>1, <3>2, <3>3, NothingEnds
    <2>3. CASE reg[RequestOf[k]] # "running"
        BY <1>12, <2>1, <2>3, NothingEnds DEF CancelFinish
    <2> QED
        BY <2>2, <2>3
<1> QED
    BY <1>1, <1>2, <1>3, <1>4, <1>5, <1>6, <1>7, <1>8, <1>9, <1>10, <1>11, <1>12 DEF Next

\* A request that is reported running is being worked on unless a run of it was
\* cancelled, through disconnects, pruned records, failures and restarts
\* (_record_chat_task_done, the except branches of handle_chat_payload_for_app
\* and the recovery sweep of the chat log).
THEOREM NoPhantoms == Spec => []NoPhantomRun
<1>1. Init => RunningIsWorkedOn
    BY ChatRunsAssumption DEF Init, RunningIsWorkedOn, Idle, Calls
<1>2. TypeOK /\ RunningIsWorkedOn /\ [Next]_vars => RunningIsWorkedOn'
    BY WorkedOnStep
<1>3. TypeOK /\ RunningIsWorkedOn => NoPhantomRun
    <2> SUFFICES ASSUME TypeOK, RunningIsWorkedOn, phase = "up", NEW q \in Requests,
                        Status(q) = "running"
                 PROVE  Working(q) \/ Killed(q)
        BY DEF NoPhantomRun
    <2>1. CASE reg[q] = "running"
        BY <2>1 DEF RunningIsWorkedOn, Working, Calls
    <2>2. CASE reg[q] # "running"
        <3>1. log[q] = "running"
            BY <2>2 DEF Status, TypeOK
        <3> QED
            BY <3>1 DEF RunningIsWorkedOn, Working, Alive, Killed
    <2> QED
        BY <2>1, <2>2
<1> QED
    BY <1>1, <1>2, <1>3, TypeCorrect, PTL DEF Spec
-----------------------------------------------------------------------------
(***************************************************************************)
(* Registry and chat log.  A record ends by the hand of a run that is over,*)
(* and the sole run of a request writes its entry once, at its end.        *)
(***************************************************************************)

DownIsEmpty == phase = "down" => \A q \in Requests : reg[q] = "absent"

EndedByItsRun ==
    \A q \in Requests : reg[q] \in {"completed", "failed"} =>
        \E c \in Streams : /\ RequestOf[c] = q /\ run[c].pc = "over"
                           /\ reg[q] = "completed" => run[c].out = "success"

WrittenOnce(q) ==
    /\ ~left[q]
    /\ (\A c \in Calls : RequestOf[c] = q => run[c].pc \in {"idle", "session"}) => log[q] = "absent"
    /\ \A c \in Calls : RequestOf[c] = q /\ run[c].out = "success" =>
         run[c].pc \in {"closing", "over"} /\ log[q] = "success"

SoleWritesOnce == \A q \in Requests : Sole(q) => WrittenOnce(q)

\* What a step may do to a run: nothing that is told here, a step of its own,
\* its beginning, or its end with the process.
LEMMA StepOfRun ==
    ASSUME TypeOK, RunningIsWorkedOn, [Next]_vars, NEW d \in Calls
    PROVE  \/ run'[d].pc = run[d].pc /\ run'[d].out = run[d].out
           \/ RunStep(d)
           \/ run[d].pc = "idle" /\ run'[d].pc \in {"session", "over"} /\ run'[d].out = "none"
           \/ /\ run'[d].pc \in {"idle", "over"}
              /\ run'[d].pc = "idle" <=> run[d].pc = "idle"
              /\ run'[d].out = "success" => run[d].out = "success"
              /\ run[d].pc # "idle" => run'[d].out = run[d].out
<1> DEFINE Same == run'[d].pc = run[d].pc /\ run'[d].out = run[d].out
           Begins == run[d].pc = "idle" /\ run'[d].pc \in {"session", "over"} /\ run'[d].out = "none"
           Stops == /\ run'[d].pc \in {"idle", "over"}
                    /\ run'[d].pc = "idle" <=> run[d].pc = "idle"
                    /\ run'[d].out = "success" => run[d].out = "success"
                    /\ run[d].pc # "idle" => run'[d].out = run[d].out
<1>0. /\ run \in [Calls -> Run] /\ run[d] \in Run
      /\ Streams \subseteq Calls /\ Chats \subseteq Calls
    BY DEF TypeOK, Calls
<1>1. ASSUME NEW c \in Calls, RunStep(c) PROVE Same \/ RunStep(d)
    BY <1>1, RunMoves
<1>2. ASSUME NEW c \in Chats, ChatBegin(c) PROVE Same \/ Begins
    BY <1>0, <1>2 DEF ChatBegin, Begun, Idle
<1>3. ASSUME NEW c \in Streams, StreamBegin(c) PROVE Same \/ Begins
    <2>1. run[c].pc = "idle"
        BY <1>3 DEF StreamBegin, RunningIsWorkedOn
    <2> QED
        BY <1>0, <1>3, <2>1 DEF StreamBegin, Begun, Idle
<1>4. ASSUME NEW c \in Streams, RecordDone(c) \/ StreamBreaks(c) PROVE Same
    <2>1. \/ run' = [run EXCEPT ![c].due = FALSE]
          \/ run' = [run EXCEPT ![c].kill = TRUE]
        BY <1>4 DEF RecordDone, StreamBreaks
    <2> QED
        BY <1>0, <2>1 DEF Run
<1>5. ASSUME NEW c \in Streams,
             \/ StreamWatches(c) \/ StreamSees(c) \/ WriteFails(c)
             \/ Disconnect(c) \/ ViewerEnds(c)
      PROVE  Same
    BY <1>5 DEF StreamWatches, StreamSees, WriteFails, Disconnect, ViewerEnds
<1>6. ASSUME NEW k \in Cancels, CancelBegin(k) \/ CancelFinish(k) PROVE Same
    <2>1. run' = run \/ run'[d] = run[d] \/ run'[d] = [run[d] EXCEPT !.kill = TRUE]
        BY <1>0, <1>6 DEF CancelBegin, CancelFinish
    <2> QED
        BY <1>0, <2>1 DEF Run
<1>7. CASE Crash
    <2>1. CASE run[d].pc = "idle"
        BY <1>7, <2>1 DEF Crash, Idle
    <2>2. CASE run[d].pc # "idle"
        <3>1. run'[d] = [run[d] EXCEPT !.pc = "over", !.due = FALSE]
            BY <1>7, <2>2 DEF Crash
        <3> QED
            BY <1>0, <2>2, <3>1 DEF Run
    <2> QED
        BY <2>1, <2>2
<1>8. CASE Recover \/ UNCHANGED vars
    BY <1>8 DEF Recover, vars
<1> QED
    BY <1>1, <1>2, <1>3, <1>4, <1>5, <1>6, <1>7, <1>8 DEF Next

\* A run that is over stays so, with its outcome; one that began has begun.
LEMMA OverStays ==
    ASSUME TypeOK, RunningIsWorkedOn, [Next]_vars, NEW d \in Calls
    PROVE  /\ run[d].pc = "over" => run'[d].pc = "over" /\ run'[d].out = run[d].out
           /\ run[d].pc # "idle" => run'[d].pc # "idle"
<1>1. ASSUME RunStep(d) PROVE run[d].pc # "over" /\ run'[d].pc # "idle"
    <2>1. run[d].pc # "over"
        BY <1>1 DEF RunStep, SessionReady, SessionGone, Answered, WorkFails, Closes,
                    RunCancelled, Step, Alive
    <2> QED
        BY <1>1, <2>1, RunMoves
<1> QED
    BY <1>1, StepOfRun

\* A record that becomes completed or failed is ended by a run that is over.
LEMMA EndedStep ==
    ASSUME TypeOK, RunningIsWorkedOn, KilledEndsCancelled, EndedByItsRun, [Next]_vars
    PROVE  EndedByItsRun'
<1>0. Streams \subseteq Calls /\ \A c \in Streams : RequestOf[c] \in Requests
    BY ChatRunsAssumption DEF Calls
<1> SUFFICES ASSUME NEW q \in Requests, reg'[q] \in {"completed", "failed"}
             PROVE  \E c \in Streams : /\ RequestOf[c] = q /\ run'[c].pc = "over"
                                       /\ reg'[q] = "completed" => run'[c].out = "success"
    BY DEF EndedByItsRun
<1>1. CASE reg'[q] = reg[q]
    <2>1. PICK c \in Streams : /\ RequestOf[c] = q /\ run[c].pc = "over"
                               /\ reg[q] = "completed" => run[c].out = "success"
        BY <1>1 DEF EndedByItsRun
    <2> QED
        BY <1>0, <1>1, <2>1, OverStays
<1>2. CASE reg'[q] # reg[q]
    <2>1. PICK c \in Streams : RecordDone(c) \/ StreamSees(c) \/ WriteFails(c)
        <3>1. ASSUME NEW c \in Streams, StreamBegin(c) PROVE FALSE
            BY <1>0, <1>2, <3>1, StartWrites DEF StreamBegin
        <3>2. ASSUME NEW k \in Cancels, CancelFinish(k) PROVE FALSE
            BY <1>2, <3>2 DEF CancelFinish, TypeOK
        <3>3. CASE Crash
            BY <3>3 DEF Crash
        <3>4. ASSUME NEW c \in Calls, RunStep(c) PROVE FALSE
            BY <1>2, <3>4, RunMoves
        <3>5. ~\E c \in Chats : ChatBegin(c)
            BY <1>2 DEF ChatBegin
        <3>6. ~\E c \in Streams : StreamWatches(c) \/ Disconnect(c) \/ StreamBreaks(c) \/ ViewerEnds(c)
            BY <1>2 DEF StreamWatches, Disconnect, StreamBreaks, ViewerEnds
        <3>7. ~(\E k \in Cancels : CancelBegin(k)) /\ ~Recover /\ ~(UNCHANGED vars)
            BY <1>2 DEF CancelBegin, Recover, vars
        <3> QED
            BY <3>1, <3>2, <3>3, <3>4, <3>5, <3>6, <3>7 DEF Next
    <2>2. RequestOf[c] = q
        BY <1>2, <2>1, EndWrites
    <2>3. run[c].pc = "over"
        BY <2>1 DEF RecordDone, StreamSees, WriteFails, KilledEndsCancelled
    <2>4. reg'[q] = "completed" => run[c].out = "success"
        <3>1. \/ Complete(q, run[c].out) \/ Fail(q) \/ UNCHANGED <<reg, task>>
            BY <2>1, <2>2 DEF RecordDone, StreamSees, WriteFails
        <3>2. Complete(q, run[c].out) /\ reg'[q] = "completed" => run[c].out = "success"
            BY <1>2 DEF Complete, TypeOK
        <3>3. Fail(q) => reg'[q] # "completed"
            BY <1>2 DEF Fail, TypeOK
        <3> QED
            BY <1>2, <3>1, <3>2, <3>3
    <2> QED
        BY <1>0, <2>2, <2>3, <2>4, OverStays
<1> QED
    BY <1>1, <1>2

\* While the adapter is down there is no record.
LEMMA DownStep ==
    ASSUME TypeOK, DownIsEmpty, [Next]_vars
    PROVE  DownIsEmpty'
<1>1. CASE Crash
    BY <1>1 DEF Crash, DownIsEmpty
<1>2. CASE Recover
    BY <1>2 DEF Recover, DownIsEmpty
<1>3. CASE UNCHANGED vars
    BY <1>3 DEF vars, DownIsEmpty
<1>4. ASSUME NEW c \in Calls, RunStep(c) PROVE phase' = "up"
    BY <1>4 DEF RunStep, SessionReady, SessionGone, Answered, WorkFails, Closes, RunCancelled, Step
<1>5. ASSUME NEW c \in Chats, ChatBegin(c) PROVE phase' = "up"
    BY <1>5 DEF ChatBegin
<1>6. ASSUME NEW c \in Streams,
             \/ StreamBegin(c) \/ StreamWatches(c) \/ RecordDone(c) \/ StreamSees(c)
             \/ Disconnect(c) \/ StreamBreaks(c) \/ WriteFails(c) \/ ViewerEnds(c)
      PROVE  phase' = "up"
    BY <1>6 DEF StreamBegin, StreamWatches, RecordDone, StreamSees, Disconnect, StreamBreaks,
                WriteFails, ViewerEnds
<1>7. ASSUME NEW k \in Cancels, CancelBegin(k) \/ CancelFinish(k) PROVE phase' = "up"
    BY <1>7 DEF CancelBegin, CancelFinish
<1> QED
    BY <1>1, <1>2, <1>3, <1>4, <1>5, <1>6, <1>7 DEF Next, DownIsEmpty

\* What a run's own step writes: its entry, and its outcome with it.
LEMMA LogOfRun ==
    ASSUME TypeOK, NEW c \in Calls, RunStep(c)
    PROVE  /\ \A x \in Requests \ {RequestOf[c]} : log'[x] = log[x] /\ left'[x] = left[x]
           /\ \/ /\ run[c].pc = "session" /\ run'[c].pc = "work" /\ run'[c].out = run[c].out
                 /\ left'[RequestOf[c]] <=> left[RequestOf[c]] \/ log[RequestOf[c]] = "running"
              \/ /\ run'[c].pc = "over" /\ UNCHANGED <<log, left>>
                 /\ run'[c].out = "success" => run[c].out = "success"
              \/ /\ run'[c].pc = "closing" /\ left' = left
                 /\ run'[c].out = "success" => log'[RequestOf[c]] = "success"
<1>0. run \in [Calls -> Run] /\ run[c] \in Run /\ RequestOf[c] \in Requests
    BY ChatRunsAssumption DEF TypeOK, Calls
<1>1. CASE SessionReady(c)
    <2>1. run'[c].pc = "work" /\ run'[c].out = run[c].out
        BY <1>0, <1>1 DEF SessionReady, Run
    <2> QED
        BY <1>0, <1>1, <2>1 DEF SessionReady, Step, TypeOK
<1>2. CASE Answered(c)
    <2>1. PICK out \in {"success", "unfinished"} :
            /\ run' = [run EXCEPT ![c].pc = "closing", ![c].out = out]
            /\ log' = [log EXCEPT ![RequestOf[c]] = IF out = "success" THEN "success" ELSE "failed"]
        BY <1>2 DEF Answered
    <2>2. run'[c].pc = "closing" /\ run'[c].out = out
        BY <1>0, <2>1 DEF Run
    <2> QED
        BY <1>0, <1>2, <2>1, <2>2 DEF Answered, TypeOK
<1>3. CASE WorkFails(c)
    <2>1. run'[c].pc = "closing" /\ run'[c].out = "raised"
        BY <1>0, <1>3 DEF WorkFails, Run
    <2> QED
        BY <1>0, <1>3, <2>1 DEF WorkFails, TypeOK
<1>4. CASE SessionGone(c)
    BY <1>4, OverWrites DEF SessionGone, Finished
<1>5. CASE Closes(c)
    <2>1. run[c].out \in {"none"} \cup Finished
        BY <1>0 DEF Run
    <2> QED
        BY <1>5, <2>1, OverWrites DEF Closes
<1>6. CASE RunCancelled(c)
    BY <1>6, OverWrites DEF RunCancelled, Finished
<1> QED
    BY <1>1, <1>2, <1>3, <1>4, <1>5, <1>6 DEF RunStep

\* The chat log is written by runs and by recovery only.
LEMMA LogChanges ==
    ASSUME [Next]_vars
    PROVE  UNCHANGED <<log, left>> \/ Recover \/ \E c \in Calls : RunStep(c)
BY DEF Next, ChatBegin, StreamBegin, StreamWatches, RecordDone, StreamSees, Disconnect,
       StreamBreaks, WriteFails, ViewerEnds, CancelBegin, CancelFinish, Crash, vars

LEMMA WrittenStep ==
    ASSUME TypeOK, RunningIsWorkedOn, SoleWritesOnce, [Next]_vars
    PROVE  SoleWritesOnce'
<1> SUFFICES ASSUME NEW q \in Requests, Sole(q)'
             PROVE  WrittenOnce(q)'
    BY DEF SoleWritesOnce
<1>0. \A c \in Calls : RequestOf[c] \in Requests
    BY ChatRunsAssumption DEF Calls
<1>1. Sole(q)
    BY OverStays DEF Sole
<1>2. WrittenOnce(q)
    BY <1>1 DEF SoleWritesOnce
<1>3. ASSUME NEW c \in Calls, RequestOf[c] = q, RunStep(c) PROVE WrittenOnce(q)'
    <2>1. run'[c].pc # "idle"
        BY <1>3, RunMoves
    <2>2. \A d \in Calls \ {c} : RequestOf[d] = q => run[d].pc = "idle" /\ run'[d] = run[d]
        BY <1>3, <2>1, RunMoves DEF Sole
    <2>3. \A d \in Calls \ {c} : RequestOf[d] = q => run'[d].out # "success"
        BY <1>2, <2>2 DEF WrittenOnce
    <2>4. run[c].out = "success" => run[c].pc \in {"closing", "over"} /\ log[q] = "success"
        BY <1>2, <1>3 DEF WrittenOnce
    <2>5. CASE /\ run[c].pc = "session" /\ run'[c].pc = "work" /\ run'[c].out = run[c].out
               /\ left'[q] <=> left[q] \/ log[q] = "running"
        <3>1. log[q] = "absent"
            BY <1>2, <2>2, <2>5 DEF WrittenOnce
        <3> QED
            BY <1>2, <1>3, <2>3, <2>4, <2>5, <3>1 DEF WrittenOnce
    <2>6. CASE /\ run'[c].pc = "over" /\ UNCHANGED <<log, left>>
               /\ run'[c].out = "success" => run[c].out = "success"
        BY <1>2, <1>3, <2>3, <2>4, <2>6 DEF WrittenOnce
    <2>7. CASE /\ run'[c].pc = "closing" /\ left' = left
               /\ run'[c].out = "success" => log'[q] = "success"
        BY <1>2, <1>3, <2>3, <2>7 DEF WrittenOnce
    <2> QED
        BY <1>3, <2>5, <2>6, <2>7, LogOfRun
<1>4. CASE \A c \in Calls : RequestOf[c] = q => ~RunStep(c)
    <2>1. \A c \in Calls : RequestOf[c] = q =>
            /\ run'[c].pc \in {"idle", "session"} => run[c].pc \in {"idle", "session"}
            /\ run'[c].out = "success" => run[c].out = "success"
            /\ run[c].out = "success" /\ run[c].pc \in {"closing", "over"}
                 => run'[c].pc \in {"closing", "over"}
        BY <1>4, StepOfRun
    <2>2. CASE log'[q] = log[q] /\ left'[q] = left[q]
        BY <1>2, <2>1, <2>2 DEF WrittenOnce
    <2>3. CASE Recover
        <3>1. /\ left' = left /\ run' = run
              /\ log[q] \in {"absent", "success"} => log'[q] = log[q]
            BY <1>2, <2>3 DEF Recover, WrittenOnce
        <3> QED
            BY <1>2, <3>1 DEF WrittenOnce
    <2>4. ASSUME NEW c \in Calls, RunStep(c) PROVE log'[q] = log[q] /\ left'[q] = left[q]
        BY <1>4, <2>4, LogOfRun
    <2> QED
        BY <2>2, <2>3, <2>4, LogChanges
<1> QED
    BY <1>3, <1>4

\* Of a request with one run, a record that says completed stands beside a
\* success in the chat log, and one that says failed not beside an entry that
\* still says running, unless the run was cancelled (_record_chat_task_done,
\* complete and fail against the log writes of handle_chat_payload_for_app and
\* the sweep of recovery).
THEOREM LogConfirms == Spec => []OutcomesAgree
<1> DEFINE IInv == /\ DownIsEmpty /\ EndedByItsRun /\ SoleWritesOnce
                   /\ RunningIsWorkedOn /\ KilledEndsCancelled
<1>1. Init => IInv
    BY ChatRunsAssumption
       DEF Init, DownIsEmpty, EndedByItsRun, SoleWritesOnce, WrittenOnce, RunningIsWorkedOn,
           KilledEndsCancelled, Idle, Calls
<1>2. TypeOK /\ IInv /\ [Next]_vars => IInv'
    BY DownStep, EndedStep, WrittenStep, WorkedOnStep, KilledStep
<1>3. TypeOK /\ IInv => OutcomesAgree
    <2> SUFFICES ASSUME TypeOK, IInv, NEW q \in Requests, Sole(q)
                 PROVE  /\ reg[q] = "completed" => log[q] = "success"
                        /\ reg[q] = "failed" /\ log[q] = "running" => Killed(q)
        BY DEF OutcomesAgree
    <2>1. Streams \subseteq Calls /\ WrittenOnce(q)
        BY DEF Calls, SoleWritesOnce
    <2>2. reg[q] = "completed" => log[q] = "success"
        BY <2>1 DEF EndedByItsRun, WrittenOnce
    <2>3. ASSUME reg[q] = "failed", log[q] = "running" PROVE Killed(q)
        <3>1. PICK c \in Streams : RequestOf[c] = q /\ run[c].pc = "over"
            BY <2>3 DEF EndedByItsRun
        <3>2. phase = "up"
            BY <2>3 DEF DownIsEmpty, TypeOK
        <3>3. PICK d \in Calls : RequestOf[d] = q /\ (run[d].pc = "work" \/ run[d].kill)
            BY <2>3, <3>2 DEF RunningIsWorkedOn
        <3>4. run[d].pc # "work"
            BY <2>1, <3>1, <3>3 DEF Sole
        <3> QED
            BY <3>3, <3>4 DEF Killed
    <2> QED
        BY <2>2, <2>3
<1> QED
    BY <1>1, <1>2, <1>3, TypeCorrect, PTL DEF Spec
=============================================================================
