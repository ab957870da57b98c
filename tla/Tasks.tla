------------------------------- MODULE Tasks -------------------------------
(***************************************************************************)
(* Background tasks: the execute and cancel handlers of tasks_api.py, the  *)
(* collector coroutine that waits for an answer, the task records they     *)
(* share (task_store.py), the portal-to-OpenCode session map they use      *)
(* (session_store.py) and the restart recovery of recovery.py.             *)
(*                                                                         *)
(* The adapter is one asyncio loop.  A coroutine runs without interruption *)
(* between two awaits that really suspend, so every action below is the    *)
(* code between two such awaits, and a program counter names the await a   *)
(* coroutine is parked at.  EventBus.publish is awaited but never suspends,*)
(* so publishing is part of the step that does it.                         *)
(*                                                                         *)
(* A request names its task and its portal session once and for all        *)
(* (TaskOf, PortalOf).  Execute request e also names the things it may     *)
(* make: the OpenCode session e that create_session returns to it, its     *)
(* prompt e (messageID, the parentID of the answers), the permission e its *)
(* run may ask for and the collector e it may schedule.                    *)
(***************************************************************************)
EXTENDS Naturals, FiniteSets

CONSTANTS Tasks,        \* task ids
          Portals,      \* portal session ids
          Execs,        \* POST /api/tasks/execute requests
          Cancels,      \* POST /api/tasks/{id}/cancel requests
          TaskOf,       \* the task a request names
          PortalOf,     \* the portal session an execute request names
          Answers,      \* the statuses a final text may parse to
          None,         \* no session, no message
          MaxCrashes    \* bound on adapter restarts

ASSUME TasksAssumption ==
    /\ TaskOf \in [Execs \cup Cancels -> Tasks]
    /\ PortalOf \in [Execs -> Portals]
    /\ None \notin Execs
    /\ Answers \subseteq {"success", "error", "blocked"}
    /\ MaxCrashes \in Nat

VARIABLES
    phase,      \* "up", "down" or "boot" (recovery before serving)
    crashes,    \* restarts so far
    todo,       \* tasks a running recovery has still to mark
    replaced,   \* bookkeeping: tasks saved anew while a collector waited for them
    rec,        \* task_store: the record of each task
    sess,       \* session_store: the OpenCode session of a portal session
    ex,         \* execute handlers
    cn,         \* cancel handlers
    coll,       \* collector coroutines
    where,      \* OpenCode: the session a prompt arrived in, or None
    reply,      \* OpenCode: the assistant text that answers a prompt
    perm        \* OpenCode: the permission a prompt's run asks for

adapter == <<phase, crashes, todo, replaced>>
agent   == <<where, reply, perm>>
vars    == <<phase, crashes, todo, replaced, rec, sess, ex, cn, coll, where, reply, perm>>

Active   == {"accepted", "running"}                         \* ACTIVE_TASK_STATUSES
Terminal == {"success", "error", "blocked", "cancelled"}    \* TERMINAL
NoExec   == Execs \cup {None}
-----------------------------------------------------------------------------
(***************************************************************************)
(* A record keeps what decides anything: the status, the session and       *)
(* message ids answers are matched with, the pending permissions and where *)
(* output_payload came from: the prompt whose answer was parsed, or the    *)
(* code of the handler that wrote a canned payload.                        *)
(***************************************************************************)
Outputs == {"none", "skill", "dispatch", "collector", "permission", "cancelled", "restart"}

TaskRecord == [status : {"absent"} \cup Active \cup Terminal,
               sess   : NoExec,
               mid    : NoExec,
               pend   : SUBSET Execs,
               out    : Outputs \cup Execs]

NoRecord == [status |-> "absent", sess |-> None, mid |-> None, pend |-> {}, out |-> "none"]

\* The record as a collector read it, and the last permission event it heard.
Collector == [pc    : {"none", "start", "listen", "list", "sleep", "done"},
              sess  : NoExec,
              mid   : NoExec,
              pend  : SUBSET Execs,
              heard : [Execs -> {"none", "open", "resolved"}]]

Silence == [e \in Execs |-> "none"]
Parked(pc) == [pc |-> pc, sess |-> None, mid |-> None, pend |-> {}, heard |-> Silence]

Ended == [pc |-> "done", sess |-> None]     \* an execute handler that returned

Live(c) == coll[c].pc \notin {"none", "done"}

TypeOK ==
    /\ phase \in {"up", "down", "boot"}
    /\ crashes \in 0..MaxCrashes
    /\ todo \subseteq Tasks
    /\ replaced \subseteq Tasks
    /\ rec \in [Tasks -> TaskRecord]
    /\ sess \in [Portals -> NoExec]
    /\ ex \in [Execs -> [pc : {"idle", "get", "create", "list", "prompt", "done"}, sess : NoExec]]
    /\ cn \in [Cancels -> {"idle", "remote", "done"}]
    /\ coll \in [Execs -> Collector]
    /\ where \in [Execs -> NoExec]
    /\ reply \in [Execs -> {"none", "plain"} \cup Answers]
    /\ perm \in [Execs -> {"none", "open", "resolved"}]

Init ==
    /\ phase = "up" /\ crashes = 0 /\ todo = {} /\ replaced = {}
    /\ rec = [t \in Tasks |-> NoRecord]
    /\ sess = [p \in Portals |-> None]
    /\ ex = [e \in Execs |-> [pc |-> "idle", sess |-> None]]
    /\ cn = [c \in Cancels |-> "idle"]
    /\ coll = [e \in Execs |-> Parked("none")]
    /\ where = [e \in Execs |-> None]
    /\ reply = [e \in Execs |-> "none"]
    /\ perm = [e \in Execs |-> "none"]
-----------------------------------------------------------------------------
(* POST /api/tasks/execute *)

\* The record is looked up first: a known task is answered from its record.
\* Otherwise _ensure_session reads the portal session and calls OpenCode.
ExecBegin(e) ==
    /\ phase = "up" /\ ex[e].pc = "idle"
    /\ ex' = [ex EXCEPT ![e] =
          IF rec[TaskOf[e]].status # "absent" THEN Ended
          ELSE IF sess[PortalOf[e]] = None    THEN [pc |-> "create", sess |-> None]
          ELSE [pc |-> "get", sess |-> sess[PortalOf[e]]]]
    /\ UNCHANGED <<adapter, rec, sess, cn, coll, agent>>

\* What follows _ensure_session up to the next await: the record is saved
\* whatever the store holds by now, and list_messages is called ...
SaveAccepted(e, s) ==
    /\ rec' = [rec EXCEPT ![TaskOf[e]] =
         [status |-> "accepted", sess |-> s, mid |-> None, pend |-> {}, out |-> "none"]]
    /\ ex' = [ex EXCEPT ![e] = [pc |-> "list", sess |-> s]]

\* ... or an agent_async_task names a skill that cannot be used and ends here.
SkillBlocks(e, s) ==
    /\ rec' = [rec EXCEPT ![TaskOf[e]] =
         [status |-> "blocked", sess |-> s, mid |-> None, pend |-> {}, out |-> "skill"]]
    /\ ex' = [ex EXCEPT ![e] = Ended]

\* Either replaces the record a collector of an earlier request waits with.
Accept(e, s) ==
    /\ SaveAccepted(e, s) \/ SkillBlocks(e, s)
    /\ replaced' = IF \E c \in Execs : Live(c) /\ TaskOf[c] = TaskOf[e]
                   THEN replaced \cup {TaskOf[e]} ELSE replaced

SessionFound(e) ==
    /\ phase = "up" /\ ex[e].pc = "get"
    /\ Accept(e, ex[e].sess)
    /\ UNCHANGED <<phase, crashes, todo, sess, cn, coll, agent>>

\* get_session answers 404: a new OpenCode session replaces the lost one.
SessionLost(e) ==
    /\ phase = "up" /\ ex[e].pc = "get"
    /\ ex' = [ex EXCEPT ![e].pc = "create"]
    /\ UNCHANGED <<adapter, rec, sess, cn, coll, agent>>

SessionCreated(e) ==
    /\ phase = "up" /\ ex[e].pc = "create"
    /\ sess' = [sess EXCEPT ![PortalOf[e]] = e]
    /\ Accept(e, e)
    /\ UNCHANGED <<phase, crashes, todo, cn, coll, agent>>

\* schedule_task_collector: at most one unfinished coroutine of a task's name.
Schedule(e) ==
    coll' = IF \E c \in Execs : Live(c) /\ TaskOf[c] = TaskOf[e]
            THEN coll
            ELSE [coll EXCEPT ![e] = Parked("start")]

\* list_messages answered: the record becomes running under the new message
\* id whatever its status is by now, the collector is scheduled and
\* prompt_async is called on the session the record now names.  (prompt_async
\* answers 204 without a body, so no other prompt id is ever learnt.)
MessagesCounted(e) ==
    /\ phase = "up" /\ ex[e].pc = "list"
    /\ rec' = [rec EXCEPT ![TaskOf[e]].status = "running", ![TaskOf[e]].mid = e]
    /\ Schedule(e)
    /\ ex' = [ex EXCEPT ![e] = [pc |-> "prompt", sess |-> rec[TaskOf[e]].sess]]
    /\ UNCHANGED <<adapter, sess, cn, agent>>

PromptAnswered(e) ==
    /\ phase = "up" /\ ex[e].pc = "prompt" /\ where[e] # None
    /\ ex' = [ex EXCEPT ![e] = Ended]
    /\ UNCHANGED <<adapter, rec, sess, cn, coll, agent>>

\* _mark_dispatch_error: any of the handler's calls to OpenCode fails or times
\* out; the task's record becomes an error, or a new error record is saved.
DispatchFails(e) ==
    /\ phase = "up" /\ ex[e].pc \in {"get", "create", "list", "prompt"}
    /\ rec' = [rec EXCEPT ![TaskOf[e]].status = "error", ![TaskOf[e]].out = "dispatch"]
    /\ ex' = [ex EXCEPT ![e] = Ended]
    /\ UNCHANGED <<adapter, sess, cn, coll, agent>>
-----------------------------------------------------------------------------
(* POST /api/tasks/{task_id}/cancel *)

\* (Mutant: any known task is cancelled, finished or not.)
CancelBeginAlways(c) ==
    /\ phase = "up" /\ cn[c] = "idle"
    /\ cn' = [cn EXCEPT ![c] = IF rec[TaskOf[c]].status # "absent" THEN "remote" ELSE "done"]
    /\ UNCHANGED <<adapter, rec, sess, ex, coll, agent>>

CancelBegin(c) ==
    /\ phase = "up" /\ cn[c] = "idle"
    /\ cn' = [cn EXCEPT ![c] = IF rec[TaskOf[c]].status \in Active THEN "remote" ELSE "done"]
    /\ UNCHANGED <<adapter, rec, sess, ex, coll, agent>>

\* The remote abort answered or failed: either way the record is cancelled.
CancelFinish(c) ==
    /\ phase = "up" /\ cn[c] = "remote"
    /\ rec' = [rec EXCEPT ![TaskOf[c]].status = "cancelled", ![TaskOf[c]].out = "cancelled"]
    /\ cn' = [cn EXCEPT ![c] = "done"]
    /\ UNCHANGED <<adapter, sess, ex, coll, agent>>
-----------------------------------------------------------------------------
(* collect_task_completion *)

\* (Mutant: any answer of the session counts.)
MatchesSession(r, m) == where[m] # None /\ where[m] = r.sess

\* Which answers count for a record r: those of the tracked prompt, or, while
\* no message id is tracked, any assistant message of the session.
Matches(r, m) ==
    /\ where[m] # None /\ where[m] = r.sess
    /\ r.mid # None => m = r.mid

AnswersTo(r) == {m \in Execs : reply[m] # "none" /\ Matches(r, m)}

\* The answer of prompt m was read.  A final text ends the task; a plain one
\* only marks it running again and the collector polls on.
Settle(c, m, store) ==
    IF reply[m] = "plain"
    THEN /\ rec' = [store EXCEPT ![TaskOf[c]].status = "running"]
         /\ coll' = [coll EXCEPT ![c] = Parked("sleep")]
    ELSE /\ rec' = [store EXCEPT ![TaskOf[c]].status = reply[m], ![TaskOf[c]].out = m]
         /\ coll' = [coll EXCEPT ![c] = Parked("done")]

\* The loop's head, first or after a sleep inside the window: the record is
\* read, and unless it is terminal the event stream is opened.
CollectorWakes(c) ==
    /\ phase = "up" /\ coll[c].pc \in {"start", "sleep"}
    /\ LET r == rec[TaskOf[c]] IN
       coll' = [coll EXCEPT ![c] =
           IF r.status \in Active
           THEN [pc |-> "listen", sess |-> r.sess, mid |-> r.mid, pend |-> r.pend, heard |-> Silence]
           ELSE Parked("done")]
    /\ UNCHANGED <<adapter, rec, sess, ex, cn, agent>>

\* The permission events heard are applied to the list read at the loop's head.
Pending(c) ==
    {m \in Execs : \/ coll[c].heard[m] = "open"
                   \/ m \in coll[c].pend /\ coll[c].heard[m] # "resolved"}

\* The store once the pending permissions are written, if they changed.
StoreWithPending(c) ==
    IF Pending(c) = coll[c].pend THEN rec ELSE [rec EXCEPT ![TaskOf[c]].pend = Pending(c)]

\* The event window ends with an answer ...
EventAnswer(c) ==
    /\ phase = "up" /\ coll[c].pc = "listen"
    /\ \E m \in AnswersTo(coll[c]) : Settle(c, m, StoreWithPending(c))
    /\ UNCHANGED <<adapter, sess, ex, cn, agent>>

\* ... or without one: list_messages is called, for the record as updated.
EventWindowEnds(c) ==
    /\ phase = "up" /\ coll[c].pc = "listen"
    /\ LET t == TaskOf[c]
           r == IF Pending(c) = coll[c].pend THEN coll[c] ELSE StoreWithPending(c)[t]
       IN /\ rec' = StoreWithPending(c)
          /\ coll' = [coll EXCEPT ![c] =
               [pc |-> "list", sess |-> r.sess, mid |-> r.mid, pend |-> r.pend, heard |-> Silence]]
    /\ UNCHANGED <<adapter, sess, ex, cn, agent>>

\* (Mutant: a list without an answer ends the collector.)
MessagesListedOnce(c) ==
    /\ phase = "up" /\ coll[c].pc = "list"
    /\ IF AnswersTo(coll[c]) = {}
       THEN coll' = [coll EXCEPT ![c] = Parked("done")] /\ UNCHANGED rec
       ELSE \E m \in AnswersTo(coll[c]) : Settle(c, m, rec)
    /\ UNCHANGED <<adapter, sess, ex, cn, agent>>

MessagesListed(c) ==
    /\ phase = "up" /\ coll[c].pc = "list"
    /\ IF AnswersTo(coll[c]) = {}
       THEN coll' = [coll EXCEPT ![c] = Parked("sleep")] /\ UNCHANGED rec
       ELSE \E m \in AnswersTo(coll[c]) : Settle(c, m, rec)
    /\ UNCHANGED <<adapter, sess, ex, cn, agent>>

\* list_messages raises: the collector gives up with an error.
ListingFails(c) ==
    /\ phase = "up" /\ coll[c].pc = "list"
    /\ rec' = [rec EXCEPT ![TaskOf[c]].status = "error", ![TaskOf[c]].out = "collector"]
    /\ coll' = [coll EXCEPT ![c] = Parked("done")]
    /\ UNCHANGED <<adapter, sess, ex, cn, agent>>

\* (Mutant: the window's end runs on whatever is pending.)
WindowElapsesOn(c) ==
    /\ phase = "up" /\ coll[c].pc = "sleep"
    /\ coll' = [coll EXCEPT ![c] =
          Parked(IF rec[TaskOf[c]].status \in Active THEN "start" ELSE "done")]
    /\ UNCHANGED <<adapter, rec, sess, ex, cn, agent>>

\* The completion window elapsed: a terminal record ends the collector, pending
\* permissions block the task, and otherwise it runs on in a new window.
WindowElapses(c) ==
    /\ phase = "up" /\ coll[c].pc = "sleep"
    /\ LET t == TaskOf[c] IN
       IF rec[t].status \notin Active
       THEN coll' = [coll EXCEPT ![c] = Parked("done")] /\ UNCHANGED rec
       ELSE IF rec[t].pend # {}
       THEN /\ rec' = [rec EXCEPT ![t].status = "blocked", ![t].out = "permission"]
            /\ coll' = [coll EXCEPT ![c] = Parked("done")]
       ELSE /\ rec' = [rec EXCEPT ![t].status = "running",
                                  ![t].out = IF @ \in Execs THEN @ ELSE "none"]
            /\ coll' = [coll EXCEPT ![c] = Parked("start")]
    /\ UNCHANGED <<adapter, sess, ex, cn, agent>>
-----------------------------------------------------------------------------
(* The adapter stops, is started again and recovers (recovery.py). *)

Crash ==
    /\ phase # "down" /\ crashes < MaxCrashes
    /\ phase' = "down" /\ crashes' = crashes + 1 /\ todo' = {}
    /\ ex' = [e \in Execs |-> IF ex[e].pc = "idle" THEN ex[e] ELSE Ended]
    /\ cn' = [c \in Cancels |-> IF cn[c] = "idle" THEN "idle" ELSE "done"]
    /\ coll' = [e \in Execs |-> IF coll[e].pc = "none" THEN coll[e] ELSE Parked("done")]
    /\ UNCHANGED <<replaced, rec, sess, agent>>

\* (Mutant: only running records are looked for.)
BootRunningOnly ==
    /\ phase = "down"
    /\ phase' = "boot"
    /\ todo' = {t \in Tasks : rec[t].status = "running"}
    /\ UNCHANGED <<crashes, replaced, rec, sess, ex, cn, coll, agent>>

\* Recovery goes over every record left active, before anything is served.
Boot ==
    /\ phase = "down"
    /\ phase' = "boot"
    /\ todo' = {t \in Tasks : rec[t].status \in Active}
    /\ UNCHANGED <<crashes, replaced, rec, sess, ex, cn, coll, agent>>

RecoverTask(t) ==
    /\ phase = "boot" /\ t \in todo
    /\ rec' = [rec EXCEPT ![t].status = "blocked", ![t].out = "restart"]
    /\ todo' = todo \ {t}
    /\ UNCHANGED <<phase, crashes, replaced, sess, ex, cn, coll, agent>>

Serve ==
    /\ phase = "boot" /\ todo = {}
    /\ phase' = "up"
    /\ UNCHANGED <<crashes, todo, replaced, rec, sess, ex, cn, coll, agent>>
-----------------------------------------------------------------------------
(* OpenCode, as far as the adapter depends on it. *)

\* The prompt may arrive although its answer is lost later.
PromptArrives(e) ==
    /\ ex[e].pc = "prompt" /\ where[e] = None
    /\ where' = [where EXCEPT ![e] = ex[e].sess]
    /\ UNCHANGED <<adapter, rec, sess, ex, cn, coll, reply, perm>>

\* The run of prompt m writes a plain text or a final one, unless it waits.
AgentReplies(m) ==
    /\ where[m] # None /\ perm[m] # "open" /\ reply[m] \notin Answers
    /\ \E text \in Answers \cup ({"plain"} \ {reply[m]}) : reply' = [reply EXCEPT ![m] = text]
    /\ UNCHANGED <<adapter, rec, sess, ex, cn, coll, where, perm>>

\* A permission event reaches the collectors listening to its session now.
PermissionEvent(m, state) ==
    /\ perm' = [perm EXCEPT ![m] = state]
    /\ coll' = [c \in Execs |->
          IF coll[c].pc = "listen" /\ coll[c].sess = where[m]
          THEN [coll[c] EXCEPT !.heard[m] = state] ELSE coll[c]]

PermissionAsked(m) ==
    /\ where[m] # None /\ perm[m] = "none" /\ reply[m] \notin Answers
    /\ PermissionEvent(m, "open")
    /\ UNCHANGED <<adapter, rec, sess, ex, cn, where, reply>>

PermissionResolved(m) ==
    /\ perm[m] = "open"
    /\ PermissionEvent(m, "resolved")
    /\ UNCHANGED <<adapter, rec, sess, ex, cn, where, reply>>
-----------------------------------------------------------------------------
ExecStep(e) ==
    \/ SessionFound(e) \/ SessionLost(e) \/ SessionCreated(e)
    \/ MessagesCounted(e) \/ PromptAnswered(e) \/ DispatchFails(e)

CollectorStep(c) ==
    \/ CollectorWakes(c) \/ EventAnswer(c) \/ EventWindowEnds(c)
    \/ MessagesListed(c) \/ ListingFails(c) \/ WindowElapses(c)

Recovery == Boot \/ (\E t \in Tasks : RecoverTask(t)) \/ Serve

AgentStep(m) ==
    PromptArrives(m) \/ AgentReplies(m) \/ PermissionAsked(m) \/ PermissionResolved(m)

Next ==
    \/ \E e \in Execs : ExecBegin(e) \/ ExecStep(e) \/ CollectorStep(e) \/ AgentStep(e)
    \/ \E c \in Cancels : CancelBegin(c) \/ CancelFinish(c)
    \/ Crash \/ Recovery

Spec == Init /\ [][Next]_vars
-----------------------------------------------------------------------------
(* Properties *)

\* No orphan: while the adapter serves, a task that is accepted or running is
\* held by an execute handler that will dispatch it or fail it, or by a live
\* collector.  (Nothing else would ever move it: the scheduling, the collector's
\* early returns and the recovery before serving all matter.)
ActiveIsDriven ==
    phase = "up" =>
        \A t \in Tasks : rec[t].status \in Active =>
            \E e \in Execs : TaskOf[e] = t /\ (Live(e) \/ ex[e].pc = "list")

\* A running recovery still has to mark exactly the tasks left active.
RecoveryIsExact ==
    phase = "boot" => todo = {t \in Tasks : rec[t].status \in Active}

\* schedule_task_collector never lets two collectors of one task run, so no
\* answer is settled twice.
SingleCollector ==
    \A c, d \in Execs : Live(c) /\ Live(d) /\ TaskOf[c] = TaskOf[d] => c = d

\* No operation that has read an unfinished record of t is still to write it.
Quiet(t) ==
    /\ \A e \in Execs : TaskOf[e] = t =>
          ex[e].pc \in {"idle", "done"} /\ coll[e].pc \notin {"listen", "list"}
    /\ \A c \in Cancels : TaskOf[c] = t => cn[c] # "remote"

\* A finished task with no operation in flight is finished for good: whatever
\* is called later (execute, cancel, restart) leaves the whole record alone
\* and puts nothing in flight.
TerminalIsFinal ==
    [][\A t \in Tasks : rec[t].status \in Terminal /\ Quiet(t)
                          => rec'[t] = rec[t] /\ Quiet(t)']_vars

\* The record of t shows a success that the agent reported to a prompt of t.
SucceedsOnItsOwn(t) ==
    /\ rec[t].out \in Execs
    /\ TaskOf[rec[t].out] = t
    /\ reply[rec[t].out] = "success"

\* A success is one the agent reported to this task's own prompt, although
\* tasks share OpenCode sessions and so see each other's messages: unless a
\* second execute request replaced the record while a collector waited with it.
SuccessIsOwnAnswer ==
    \A t \in Tasks \ replaced : rec[t].status = "success" => SucceedsOnItsOwn(t)

\* The same of every task, however often it is executed.
SuccessIsOwnEver ==
    \A t \in Tasks : rec[t].status = "success" => SucceedsOnItsOwn(t)

\* A cancelled task stays cancelled.
CancelSticks ==
    [][\A t \in Tasks : rec[t].status = "cancelled" => rec'[t].status = "cancelled"]_vars
-----------------------------------------------------------------------------
(***************************************************************************)
(* Fairness.  A coroutine that can run is run by the loop, and every await *)
(* it is parked at ends: calls to OpenCode time out, the event window is   *)
(* bounded and sleeps end.  A collector that keeps polling sees its window *)
(* elapse, since time passes.  The adapter is started again after a stop.  *)
(* Nothing is assumed of OpenCode, of users or of who sends requests.      *)
(***************************************************************************)
Fairness ==
    /\ \A e \in Execs : /\ WF_vars(ExecStep(e))
                        /\ WF_vars(CollectorStep(e))
                        /\ SF_vars(WindowElapses(e))
    /\ \A c \in Cancels : WF_vars(CancelFinish(c))
    /\ WF_vars(Recovery)

FairSpec == Spec /\ Fairness

\* A task whose prompt got its final answer ends, adapter restarts included.
AnsweredTaskEnds ==
    \A e \in Execs :
        ( /\ rec[TaskOf[e]].status = "running" /\ rec[TaskOf[e]].mid = e
          /\ where[e] = rec[TaskOf[e]].sess /\ reply[e] \in Answers )
        ~> rec[TaskOf[e]].status \in Terminal

\* A permission nobody resolves does not keep its task running for ever.
PendingPermissionEnds ==
    \A t \in Tasks :
        rec[t].status \in Active /\ rec[t].pend # {}
        ~> rec[t].status \in Terminal \/ rec[t].pend = {}
-----------------------------------------------------------------------------
(***************************************************************************)
(* What the module promises a caller, as an abstract life of each task: an *)
(* operation is busy with a task from the step that read its unfinished    *)
(* record to the step that writes it last.                                 *)
(***************************************************************************)
Busy(t) ==
    {<<"execute", e>> : e \in {x \in Execs : TaskOf[x] = t /\ ex[x].pc \notin {"idle", "done"}}}
    \cup {<<"collect", e>> : e \in {x \in Execs : TaskOf[x] = t /\ coll[x].pc \in {"listen", "list"}}}
    \cup {<<"cancel", c>> : c \in {x \in Cancels : TaskOf[x] = t /\ cn[x] = "remote"}}

L == INSTANCE TaskLifecycle WITH
        Ops    <- ({"execute", "collect"} \X Execs) \cup ({"cancel"} \X Cancels),
        status <- [t \in Tasks |-> rec[t].status],
        busy   <- [t \in Tasks |-> Busy(t)]

\* Every behaviour of the handlers, collectors and recovery is a task life.
Lifecycle == L!Spec
=============================================================================
