----------------------------- MODULE MCSessions -----------------------------
(* Small instances of Sessions.  Chat b1 names p2, everything else p1; chats  *)
(* c2 and c3 are started by edits e1 and e2.                                 *)
EXTENDS Sessions

CONSTANTS p1, p2, c0, c1, c2, c3, b1, x1, e1, e2, d1, k1, r1, f1

Requests == Callers \cup Edits \cup Removals \cup Renames \cup Forces

Owner == [x \in Requests \ Clears |-> IF x = b1 THEN p2 ELSE p1]
Again == [e \in Edits |-> IF e = e1 THEN c2 ELSE c3]

\* As Init, but only the requests of on are still to come, and chat c0 may have
\* given p1 a session with one answered turn.
Begun(on, talked) ==
    /\ rec = [p \in Portals |-> IF p = p1 /\ talked
                               THEN [NoRecord EXCEPT !.at = c0, !.used = TRUE] ELSE NoRecord]
    /\ log = [p \in Portals |-> p = p1 /\ talked]
    /\ turn = [x \in Callers |-> At(IF x \in Resends THEN "unborn"
                                    ELSE IF x \in on THEN "idle" ELSE "over")]
    /\ edit = [e \in Edits |-> NoEdit(IF e \in on THEN "idle" ELSE "done")]
    /\ gone = [k \in Removals |-> [begun |-> k \notin on, todo |-> {}, cur |-> None]]
    /\ ren = [r \in Renames |-> IF r \in on THEN "idle" ELSE "done"]
    /\ title = [x \in Titlers |-> IF x \in on \cup Resends THEN "none" ELSE "done"]
    /\ oc = [x \in Ids |-> IF x = c0 /\ talked THEN "live" ELSE "none"]
    /\ talk = [x \in Ids |-> IF x = c0 /\ talked THEN <<c0>> ELSE <<>>]

Few ==
    \/ Begun({c0, c1, x1, d1}, FALSE)
    \/ Begun({c1, x1, d1, r1}, TRUE)
    \/ Begun({c0, c1, r1, f1}, FALSE)
    \/ Begun({c1, e1, d1, r1}, TRUE)
    \/ Begun({c1, e1, e2}, TRUE)
    \/ Begun({c1, b1, k1, d1}, TRUE)

FewSpec == Few /\ [][Next]_vars

\* A chat, a rename and a delete of a session that OpenCode may lose.
MoveSpec == Begun({c1, d1, r1}, TRUE) /\ [][Next]_vars
=============================================================================
