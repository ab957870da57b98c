------------------------------ MODULE ChatRuns ------------------------------
(***************************************************************************)
(* Chat runs: the two chat routes and the cancel and status routes of      *)
(* chat_api.py, the run registry (chat_run_registry.py) that streams share *)
(* with reconnecting viewers, and the status every run leaves in the chat  *)
(* log (chatlog_store.py), on which the status falls back and which        *)
(* recovery.py sweeps after a restart.                                     *)
(*                                                                         *)
(* A run is the coroutine handle_chat_payload_for_app.  A stream starts it *)
(* as a task of its own that goes on when the client is gone; /api/chat    *)
(* awaits it and registers nothing.  Lifecycle writes of the chat log are  *)
(* on disk before the next await.                                          *)
(***************************************************************************)
EXTENDS Naturals, FiniteSets

CONSTANTS Requests,     \* request ids
          Streams,      \* POST /api/chat/stream calls
          Chats,        \* POST /api/chat calls
          Cancels,      \* POST /api/chat/runs/{id}/cancel calls
          RequestOf,    \* the request id a call names
          Breaking,     \* streams whose writer may fail without a disconnect
          MaxRecords,   \* ChatRunRegistry._max_records
          MaxCrashes,   \* bound on adapter restarts
          None          \* no task

ASSUME ChatRunsAssumption ==
    /\ RequestOf \in [Streams \cup Chats \cup Cancels -> Requests]
    /\ Streams \cap Chats = {} /\ Breaking \subseteq Streams
    /\ MaxRecords \in Nat /\ MaxCrashes \in Nat
    /\ None \notin Streams

VARIABLES
    phase,      \* "up" or "down"
    crashes,    \* restarts so far
    reg,        \* the registry: the state of a request's record
    task,       \* the registry: the task attached to a record
    log,        \* the chat log: the status of a request's latest entry
    left,       \* the chat log: an older entry of the request still says running
    run,        \* the runs
    view,       \* stream handlers: following their run, at the last writes of its
                \* answer to the client, or watching another's
    cn,         \* cancel handlers
    struck      \* history: requests with a live run whose record another run ended

vars == <<phase, crashes, reg, task, log, left, run, view, cn, struck>>

Calls    == Streams \cup Chats
Final    == {"completed", "failed", "cancelled"}    \* TERMINAL_STATES
Finished == {"success", "unfinished", "raised", "cancelled"}

\* pc: the await a run is parked at.  kill: its task was cancelled.  due: its
\* done callback has not run yet.
Run  == [pc   : {"idle", "session", "work", "closing", "over"},
         out  : {"none"} \cup Finished,
         kill : BOOLEAN,
         due  : BOOLEAN]
Idle == [pc |-> "idle", out |-> "none", kill |-> FALSE, due |-> FALSE]

Alive(c) == run[c].pc \in {"session", "work", "closing"}
Live(c)  == Alive(c) /\ ~run[c].kill

TypeOK ==
    /\ phase \in {"up", "down"}
    /\ crashes \in 0..MaxCrashes
    /\ reg \in [Requests -> {"absent", "running"} \cup Final]
    /\ task \in [Requests -> Streams \cup {None}]
    /\ log \in [Requests -> {"absent", "running", "success", "failed"}]
    /\ left \in [Requests -> BOOLEAN]
    /\ run \in [Calls -> Run]
    /\ view \in [Streams -> {"idle", "live", "breaking", "last", "watch", "done"}]
    /\ cn \in [Cancels -> {"idle", "remote", "done"}]
    /\ struck \subseteq Requests

Init ==
    /\ phase = "up" /\ crashes = 0
    /\ reg = [q \in Requests |-> "absent"]
    /\ task = [q \in Requests |-> None]
    /\ log = [q \in Requests |-> "absent"]
    /\ left = [q \in Requests |-> FALSE]
    /\ run = [c \in Calls |-> Idle]
    /\ view = [c \in Streams |-> "idle"]
    /\ cn = [k \in Cancels |-> "idle"]
    /\ struck = {}
-----------------------------------------------------------------------------
(* ChatRunRegistry and _chat_run_status_payload *)

\* start: a running record; over the cap terminal records go, oldest first.
\* (Which are oldest is left open.)
Start(q) ==
    LET new   == [reg EXCEPT ![q] = "running"]
        held  == {x \in Requests : new[x] # "absent"}
        final == {x \in Requests : new[x] \in Final}
        Gone(D) == Cardinality(held \ D) <= MaxRecords \/ D = final
        Least(D) == \A D2 \in SUBSET D : Gone(D2) => D2 = D
    IN \E D \in SUBSET final :
         /\ Gone(D) /\ Least(D)
         /\ reg' = [x \in Requests |-> IF x \in D THEN "absent" ELSE new[x]]

\* (Mutant: an unfinished answer is recorded as a completed run.)
CompleteAll(q, out) ==
    /\ reg' = IF reg[q] = "absent" THEN reg ELSE [reg EXCEPT ![q] = "completed"]
    /\ task' = [task EXCEPT ![q] = None]

\* complete: whatever the record's state is by now.
Complete(q, out) ==
    /\ reg' = IF reg[q] = "absent" THEN reg
              ELSE [reg EXCEPT ![q] = IF out = "success" THEN "completed" ELSE "failed"]
    /\ task' = [task EXCEPT ![q] = None]

\* (Mutant: a cancelled record is failed too.)
FailAll(q) ==
    /\ reg' = IF reg[q] = "absent" THEN reg ELSE [reg EXCEPT ![q] = "failed"]
    /\ task' = [task EXCEPT ![q] = None]

\* fail: not on a cancelled record.
Fail(q) ==
    IF reg[q] \in {"absent", "cancelled"} THEN UNCHANGED <<reg, task>>
    ELSE /\ reg' = [reg EXCEPT ![q] = "failed"]
         /\ task' = [task EXCEPT ![q] = None]

\* Run c is recorded as ended, maybe on the record of a later run of its request.
Strike(c) ==
    LET q == RequestOf[c]
        hit == reg[q] = "running" /\ \E d \in Streams \ {c} : RequestOf[d] = q /\ Live(d)
    IN struck' = IF hit THEN struck \cup {q} ELSE struck

\* What a client is told: the registry's state, or the chat log's.
Status(q) ==
    IF reg[q] # "absent" THEN reg[q]
    ELSE CASE log[q] = "success" -> "completed"
           [] log[q] = "absent"  -> "unknown"
           [] OTHER              -> log[q]
-----------------------------------------------------------------------------
(* Beginning a run, or a viewer of one *)

Begun == [Idle EXCEPT !.pc = "session"]

\* (Mutant: the registry is not asked for a run of the request.)
StreamBeginAlways(c) ==
    /\ phase = "up" /\ view[c] = "idle"
    /\ view' = [view EXCEPT ![c] = "live"]
    /\ run' = [run EXCEPT ![c] = Begun]
    /\ Start(RequestOf[c])
    /\ task' = [task EXCEPT ![RequestOf[c]] = c]
    /\ UNCHANGED <<phase, crashes, log, left, cn, struck>>

\* A stream starts a run, unless its request has a record: nothing between the
\* look-up and the attached task suspends.
StreamBegin(c) ==
    /\ phase = "up" /\ view[c] = "idle" /\ reg[RequestOf[c]] = "absent"
    /\ view' = [view EXCEPT ![c] = "live"]
    /\ run' = [run EXCEPT ![c] = Begun]
    /\ Start(RequestOf[c])
    /\ task' = [task EXCEPT ![RequestOf[c]] = c]
    /\ UNCHANGED <<phase, crashes, log, left, cn, struck>>

\* One that finds a record, or that asks to reconnect, watches the status.
StreamWatches(c) ==
    /\ phase = "up" /\ view[c] = "idle"
    /\ view' = [view EXCEPT ![c] = "watch"]
    /\ UNCHANGED <<phase, crashes, reg, task, log, left, run, cn, struck>>

\* /api/chat looks for a record too, but leaves none.
ChatBegin(c) ==
    /\ phase = "up" /\ run[c].pc = "idle"
    /\ run' = [run EXCEPT ![c] = IF reg[RequestOf[c]] = "absent" THEN Begun
                                 ELSE [Idle EXCEPT !.pc = "over"]]
    /\ UNCHANGED <<phase, crashes, reg, task, log, left, view, cn, struck>>
-----------------------------------------------------------------------------
(* handle_chat_payload_for_app *)

Step(c, pc) == phase = "up" /\ run[c].pc = pc /\ ~run[c].kill

\* The run ends; a stream's task calls back later.
Over(c, out) ==
    run' = [run EXCEPT ![c].pc = "over", ![c].out = out, ![c].due = c \in Streams]

\* The OpenCode session is there: the chat log gets a running entry, and one
\* the request has already is never written again.
SessionReady(c) ==
    /\ Step(c, "session")
    /\ run' = [run EXCEPT ![c].pc = "work"]
    /\ log' = [log EXCEPT ![RequestOf[c]] = "running"]
    /\ left' = [left EXCEPT ![RequestOf[c]] = @ \/ log[RequestOf[c]] = "running"]
    /\ UNCHANGED <<phase, crashes, reg, task, view, cn, struck>>

\* The session was deleted, or the request is refused: no entry is written.
SessionGone(c) ==
    /\ Step(c, "session")
    /\ Over(c, "raised")
    /\ UNCHANGED <<phase, crashes, reg, task, log, left, view, cn, struck>>

\* OpenCode answered, or the time for its answer is over: the entry is
\* finished and the portal is told.
Answered(c) ==
    /\ Step(c, "work")
    /\ \E out \in {"success", "unfinished"} :
         /\ run' = [run EXCEPT ![c].pc = "closing", ![c].out = out]
         /\ log' = [log EXCEPT ![RequestOf[c]] = IF out = "success" THEN "success" ELSE "failed"]
    /\ UNCHANGED <<phase, crashes, reg, task, left, view, cn, struck>>

\* (Mutant: an error leaves the entry as it is.)
WorkFailsSilently(c) ==
    /\ Step(c, "session") \/ Step(c, "work")
    /\ run' = [run EXCEPT ![c].pc = "closing", ![c].out = "raised"]
    /\ UNCHANGED <<phase, crashes, reg, task, log, left, view, cn, struck>>

\* OpenCode could not be reached, or anything else failed.
WorkFails(c) ==
    /\ Step(c, "session") \/ Step(c, "work")
    /\ run' = [run EXCEPT ![c].pc = "closing", ![c].out = "raised"]
    /\ log' = [log EXCEPT ![RequestOf[c]] = "failed"]
    /\ UNCHANGED <<phase, crashes, reg, task, left, view, cn, struck>>

Closes(c) ==
    /\ Step(c, "closing")
    /\ Over(c, run[c].out)
    /\ UNCHANGED <<phase, crashes, reg, task, log, left, view, cn, struck>>

\* CancelledError at the await the run is parked at: no handler catches it.
RunCancelled(c) ==
    /\ phase = "up" /\ Alive(c) /\ run[c].kill
    /\ Over(c, "cancelled")
    /\ UNCHANGED <<phase, crashes, reg, task, log, left, view, cn, struck>>
-----------------------------------------------------------------------------
(* The task's done callback and the stream handler *)

\* (Mutant: the callback forgets the runs that raised.)
RecordDoneAnswers(c) ==
    /\ phase = "up" /\ run[c].due
    /\ run' = [run EXCEPT ![c].due = FALSE]
    /\ IF run[c].out \in {"success", "unfinished"} THEN Complete(RequestOf[c], run[c].out)
       ELSE UNCHANGED <<reg, task>>
    /\ Strike(c)
    /\ UNCHANGED <<phase, crashes, log, left, view, cn>>

\* _record_chat_task_done
RecordDone(c) ==
    /\ phase = "up" /\ run[c].due
    /\ run' = [run EXCEPT ![c].due = FALSE]
    /\ IF run[c].out \in {"success", "unfinished"} THEN Complete(RequestOf[c], run[c].out)
       ELSE Fail(RequestOf[c])
    /\ Strike(c)
    /\ UNCHANGED <<phase, crashes, log, left, view, cn>>

\* The handler of a connected client sees the run end and records it as well,
\* before the last writes of an answer.
StreamSees(c) ==
    LET answer == view[c] = "live" /\ run[c].out \in {"success", "unfinished"} IN
    /\ phase = "up" /\ view[c] \in {"live", "breaking"} /\ run[c].pc = "over"
    /\ view' = [view EXCEPT ![c] = IF answer THEN "last" ELSE "done"]
    /\ CASE answer -> Complete(RequestOf[c], run[c].out) /\ Strike(c)
         [] view[c] = "live" /\ run[c].out = "cancelled" -> UNCHANGED <<reg, task, struck>>
         [] OTHER -> Fail(RequestOf[c]) /\ Strike(c)
    /\ UNCHANGED <<phase, crashes, log, left, run, cn>>

\* The client is gone: the run goes on detached.
Disconnect(c) ==
    /\ phase = "up" /\ view[c] \in {"live", "last", "watch"}
    /\ view' = [view EXCEPT ![c] = "done"]
    /\ UNCHANGED <<phase, crashes, reg, task, log, left, run, cn, struck>>

\* Any other error in the handler cancels the run and waits for it.
StreamBreaks(c) ==
    /\ phase = "up" /\ c \in Breaking /\ view[c] = "live" /\ run[c].pc # "over"
    /\ view' = [view EXCEPT ![c] = "breaking"]
    /\ run' = [run EXCEPT ![c].kill = TRUE]
    /\ UNCHANGED <<phase, crashes, reg, task, log, left, cn, struck>>

\* Once the run is over there is nothing to cancel: the record is failed, even
\* if its answer is recorded and only the last writes to the client failed.
WriteFails(c) ==
    /\ phase = "up" /\ c \in Breaking /\ view[c] \in {"live", "last"} /\ run[c].pc = "over"
    /\ view' = [view EXCEPT ![c] = "done"]
    /\ Fail(RequestOf[c]) /\ Strike(c)
    /\ UNCHANGED <<phase, crashes, log, left, run, cn>>

\* A viewer polls the status until it is terminal or unknown.
ViewerEnds(c) ==
    /\ phase = "up" /\ view[c] = "watch"
    /\ Status(RequestOf[c]) \in Final \cup {"unknown"}
    /\ view' = [view EXCEPT ![c] = "done"]
    /\ UNCHANGED <<phase, crashes, reg, task, log, left, run, cn, struck>>
-----------------------------------------------------------------------------
(* Cancelling *)

\* A recorded request: OpenCode is asked to abort its session.
CancelBegin(k) ==
    /\ phase = "up" /\ cn[k] = "idle"
    /\ cn' = [cn EXCEPT ![k] = IF reg[RequestOf[k]] = "absent" THEN "done" ELSE "remote"]
    /\ UNCHANGED <<phase, crashes, reg, task, log, left, run, view, struck>>

\* Then the record is cancelled if it still runs, and its task with it.
CancelFinish(k) ==
    LET q == RequestOf[k] IN
    /\ phase = "up" /\ cn[k] = "remote"
    /\ cn' = [cn EXCEPT ![k] = "done"]
    /\ IF reg[q] = "running"
       THEN /\ reg' = [reg EXCEPT ![q] = "cancelled"]
            /\ task' = [task EXCEPT ![q] = None]
            /\ run' = [c \in Calls |-> IF c = task[q] /\ Alive(c)
                                       THEN [run[c] EXCEPT !.kill = TRUE] ELSE run[c]]
       ELSE UNCHANGED <<reg, task, run>>
    /\ UNCHANGED <<phase, crashes, log, left, view, struck>>
-----------------------------------------------------------------------------
(* The adapter stops and is started again. *)

Crash ==
    /\ phase = "up" /\ crashes < MaxCrashes
    /\ phase' = "down" /\ crashes' = crashes + 1
    /\ reg' = [q \in Requests |-> "absent"]
    /\ task' = [q \in Requests |-> None]
    /\ run' = [c \in Calls |-> IF run[c].pc = "idle" THEN Idle
                               ELSE [run[c] EXCEPT !.pc = "over", !.due = FALSE]]
    /\ view' = [c \in Streams |-> IF view[c] = "idle" THEN "idle" ELSE "done"]
    /\ cn' = [k \in Cancels |-> IF cn[k] = "idle" THEN "idle" ELSE "done"]
    /\ struck' = {}
    /\ UNCHANGED <<log, left>>

\* (Mutant: recovery does not look at the chat log.)
RecoverBlind ==
    /\ phase = "down" /\ phase' = "up"
    /\ UNCHANGED <<crashes, reg, task, log, left, run, view, cn, struck>>

\* For every entry left running the request's latest entry is marked
\* interrupted, before anything is served.
Recover ==
    /\ phase = "down" /\ phase' = "up"
    /\ log' = [q \in Requests |-> IF log[q] = "running" \/ left[q] THEN "failed" ELSE log[q]]
    /\ UNCHANGED <<crashes, reg, task, left, run, view, cn, struck>>
-----------------------------------------------------------------------------
RunStep(c) ==
    \/ SessionReady(c) \/ SessionGone(c) \/ Answered(c)
    \/ WorkFails(c) \/ Closes(c) \/ RunCancelled(c)

Next ==
    \/ \E c \in Calls : RunStep(c)
    \/ \E c \in Chats : ChatBegin(c)
    \/ \E c \in Streams :
         \/ StreamBegin(c) \/ StreamWatches(c) \/ RecordDone(c) \/ StreamSees(c)
         \/ Disconnect(c) \/ StreamBreaks(c) \/ WriteFails(c) \/ ViewerEnds(c)
    \/ \E k \in Cancels : CancelBegin(k) \/ CancelFinish(k)
    \/ Crash \/ Recover

Spec == Init /\ [][Next]_vars
-----------------------------------------------------------------------------
(* Properties *)

\* A run of a request that will still write its outcome.
Working(q) == \E c \in Calls : RequestOf[c] = q /\ (Alive(c) \/ run[c].due)

\* Streams of one request never execute it side by side, records being pruned
\* or not, unless another run ended the record of a live one: a handler held up
\* by a slow client records the end of its run on the record of a later run of
\* the request, which can then be pruned.
OneLiveRun ==
    \A c, d \in Streams :
        /\ Live(c) /\ Live(d) /\ RequestOf[c] = RequestOf[d]
        /\ RequestOf[c] \notin struck
        => c = d

\* A run of a request whose task was cancelled.
Killed(q) == \E c \in Calls : RequestOf[c] = q /\ run[c].kill

\* A request reported as running is being worked on, unless a run of it was
\* cancelled: a client that reconnects is not left polling a run that nobody
\* will finish.
NoPhantomRun ==
    phase = "up" => \A q \in Requests : Status(q) = "running" => Working(q) \/ Killed(q)

\* The same for cancelled runs as well.
NoPhantomEver ==
    phase = "up" => \A q \in Requests : Status(q) = "running" => Working(q)

\* At most one call of the request came to anything.
Sole(q) == \A c, d \in Calls :
    RequestOf[c] = q /\ RequestOf[d] = q /\ run[c].pc # "idle" /\ run[d].pc # "idle" => c = d

\* A record that ended does not contradict what the chat log will tell once it is
\* forgotten: no success the log does not know of, no end the log still calls
\* running.  (A failed record may stand beside a success in the log, where only
\* the last writes to the client failed.  Of a request with one run, since a
\* stream handler held up by a slow client would record its run's end on the
\* record of a later run.)
OutcomesAgree ==
    \A q \in Requests : Sole(q) =>
        /\ reg[q] = "completed" => log[q] = "success"
        /\ reg[q] = "failed"    => log[q] # "running" \/ Killed(q)

\* A cancelled record stays so while it is kept, unless its run had already
\* ended with an answer when it was cancelled.
CancelStands ==
    [][\A q \in Requests :
         reg[q] = "cancelled" =>
             \/ reg'[q] \in {"cancelled", "absent"}
             \/ \E c \in Streams : /\ RequestOf[c] = q /\ run[c].pc = "over" /\ ~run[c].kill
                                   /\ run[c].out \in {"success", "unfinished"}]_vars

-----------------------------------------------------------------------------
(***************************************************************************)
(* Fairness.  The loop runs every coroutine and callback that is ready, and *)
(* every await of a run ends: calls to OpenCode and to the portal have     *)
(* timeouts, the wait for the answer has a deadline.  The adapter is       *)
(* started again.  Clients, and who cancels, are not assumed to do a thing.*)
(***************************************************************************)
Fairness ==
    /\ \A c \in Calls : WF_vars(RunStep(c))
    /\ \A c \in Streams : WF_vars(RecordDone(c)) /\ WF_vars(StreamSees(c)) /\ WF_vars(ViewerEnds(c))
    /\ \A k \in Cancels : WF_vars(CancelFinish(k))
    /\ WF_vars(Recover)

FairSpec == Spec /\ Fairness

\* Every record gets a terminal state, whoever is still connected.
RunSettles == \A q \in Requests : reg[q] = "running" ~> reg[q] # "running"

=============================================================================
