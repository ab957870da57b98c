--------------------------- MODULE TaskLifecycle ---------------------------
(***************************************************************************)
(* The life of a background task as a caller of the tasks API may rely on  *)
(* it.  An operation (a request or a collector) may become busy with a     *)
(* task only while the task is unfinished, and only a busy operation, or   *)
(* one that looks at an active task and ends it in the same step, changes  *)
(* its status.  A task that is finished and has nobody busy with it can    *)
(* therefore never change again.                                           *)
(***************************************************************************)
CONSTANTS Tasks, Ops
VARIABLES status, busy

lifeVars == <<status, busy>>

Unfinished == {"absent", "accepted", "running"}
Finished   == {"success", "error", "blocked", "cancelled"}
Written    == {"accepted", "running"} \cup Finished

Init ==
    /\ status = [t \in Tasks |-> "absent"]
    /\ busy = [t \in Tasks |-> {}]

Begin(t) ==
    /\ status[t] \in Unfinished
    /\ \E o \in Ops : busy' = [busy EXCEPT ![t] = @ \cup {o}]
    /\ UNCHANGED status

\* A busy operation writes a status, whatever the status is by now.
Write(t) ==
    \E o \in busy[t], s \in Written :
        /\ status' = [status EXCEPT ![t] = s]
        /\ busy' \in {busy, [busy EXCEPT ![t] = @ \ {o}]}

Release(t) ==
    /\ \E o \in busy[t] : busy' = [busy EXCEPT ![t] = @ \ {o}]
    /\ UNCHANGED status

\* An active task is looked at and moved on without an await in between.
Touch(t) ==
    /\ status[t] \in Unfinished \ {"absent"}
    /\ \E s \in Written \ {"accepted"} : status' = [status EXCEPT ![t] = s]
    /\ UNCHANGED busy

Restart ==
    /\ busy' = [t \in Tasks |-> {}]
    /\ UNCHANGED status

Next == Restart \/ \E t \in Tasks : Begin(t) \/ Write(t) \/ Release(t) \/ Touch(t)

Spec == Init /\ [][Next]_lifeVars
-----------------------------------------------------------------------------
\* Finished with nobody busy is the end: nothing changes the task any more.
FinishedForGood ==
    [][\A t \in Tasks : status[t] \in Finished /\ busy[t] = {}
                          => status'[t] = status[t] /\ busy'[t] = {}]_lifeVars
=============================================================================
