------------------------------ MODULE MCTasks ------------------------------
(* Small instances of Tasks.                                                *)
EXTENDS Tasks

CONSTANTS t1, t2, p1, e1, e2, e3, c1

\* e1, e2 and c1 name one task and e3 another ...
TwoTasks == [r \in Execs \cup Cancels |-> IF r = e3 THEN t2 ELSE t1]

\* ... and all of them run in one portal session, so in one OpenCode session.
OnePortal == [e \in Execs |-> p1]

\* As Init, but the requests of off were handled before and left nothing, and
\* the adapter was restarted n times.
Without(off, n) ==
    /\ phase = "up" /\ crashes = n /\ todo = {} /\ replaced = {}
    /\ rec = [t \in Tasks |-> NoRecord]
    /\ sess = [p \in Portals |-> None]
    /\ ex = [e \in Execs |-> IF e \in off THEN Ended ELSE [pc |-> "idle", sess |-> None]]
    /\ cn = [c \in Cancels |-> IF c \in off THEN "done" ELSE "idle"]
    /\ coll = [e \in Execs |-> Parked("none")]
    /\ where = [e \in Execs |-> None]
    /\ reply = [e \in Execs |-> "none"]
    /\ perm = [e \in Execs |-> "none"]

\* Either t1 is executed twice and cancelled, or t1 and t2 once each, or t1 is
\* executed once and cancelled and the adapter may restart.
Few ==
    \/ Without({e3}, MaxCrashes)
    \/ Without({e2, c1}, MaxCrashes)
    \/ Without({e2, e3}, 0)

SharedSpec == Few /\ [][Next]_vars
=============================================================================
