----------------------------- MODULE MCChatRuns -----------------------------
(* Small instances of ChatRuns: calls a1 to a4 and cancel k1 name request q1,*)
(* calls b1 to b3 name q2; the writer of a1 may fail.                        *)
EXTENDS ChatRuns, TLC

CONSTANTS q1, q2, a1, a2, a3, a4, b1, b2, b3, k1

TwoRequests ==
    [x \in Streams \cup Chats \cup Cancels |-> IF x \in {a1, a2, a3, a4, k1} THEN q1 ELSE q2]

\* As Init, but the calls of off came and went without effect before, and the
\* adapter has been restarted before times.
Without(off, before) ==
    /\ phase = "up" /\ crashes = before
    /\ reg = [q \in Requests |-> "absent"]
    /\ task = [q \in Requests |-> None]
    /\ log = [q \in Requests |-> "absent"]
    /\ left = [q \in Requests |-> FALSE]
    /\ run = [c \in Calls |-> IF c \in off \cap Chats THEN [Idle EXCEPT !.pc = "over"] ELSE Idle]
    /\ view = [c \in Streams |-> IF c \in off THEN "done" ELSE "idle"]
    /\ cn = [k \in Cancels |-> IF k \in off THEN "done" ELSE "idle"]
    /\ struck = {}

\* Streams a1 and b1 were answered, a1's record was pruned when b1 started and
\* b1's when a2 did; a2's run works on, its client gone, and a slow client still
\* holds up a1's handler.
Late ==
    /\ phase = "up" /\ crashes = MaxCrashes
    /\ reg = [q \in Requests |-> IF q = q1 THEN "running" ELSE "absent"]
    /\ task = [q \in Requests |-> IF q = q1 THEN a2 ELSE None]
    /\ log = [q \in Requests |-> IF q = q1 THEN "running" ELSE "success"]
    /\ left = [q \in Requests |-> FALSE]
    /\ run = [c \in Calls |->
                 CASE c \in {a1, b1} -> [Idle EXCEPT !.pc = "over", !.out = "success"]
                   [] c = a2         -> [Idle EXCEPT !.pc = "work"]
                   [] c \in Chats    -> [Idle EXCEPT !.pc = "over"]
                   [] OTHER          -> Idle]
    /\ view = [c \in Streams |->
                 CASE c = a1 -> "live" [] c \in {a2, b1} -> "done" [] OTHER -> "idle"]
    /\ cn = [k \in Cancels |-> "done"]
    /\ struck = {}

\* Streams of two requests and a chat call; streams of one request, a cancel
\* and a restart; a stream of each request, a cancel and a restart; a stream and
\* a chat call of one request and a restart; a further stream of each
\* request while the handler of an earlier one is late.
Few ==
    \/ Without({a1, a3, a4, b3, k1}, MaxCrashes)
    \/ Without({a3, a4, b1, b2, b3}, 0)
    \/ Without({a2, a3, a4, b2, b3}, 0)
    \/ Without({a1, a4, b1, b2, b3, k1}, 0)
    \/ Late

FewSpec == Few /\ [][Next]_vars /\ Fairness
=============================================================================
