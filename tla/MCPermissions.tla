--------------------------- MODULE MCPermissions ---------------------------
(* Small instances of Permissions: run r1 of session s1 asks p1 and p2, run  *)
(* r2 of s2 asks p3; p1 is announced twice.                                  *)
EXTENDS Permissions, TLC

CONSTANTS s1, s2, r1, r2, p1, p2, p3, h1, h2, d1

TwoSessions == (r1 :> s1) @@ (r2 :> s2)
ThreePerms  == (p1 :> r1) @@ (p2 :> r1) @@ (p3 :> r2)
OneSession  == (r1 :> s1)
OnePerm     == (p1 :> r1)
FirstAgain  == {p1}

\* As Init, but the permissions of goneP were dropped and the handlers of goneH
\* answered one of those before; the stream may break broken times less.
Ended(goneP, goneH, broken) ==
    /\ card = [s \in Sessions |-> NoCard]
    /\ order = <<>>
    /\ call = [h \in Handlers |->
         IF h \in goneH
         THEN [pc |-> "failed", perm |-> CHOOSE p \in goneP : TRUE, landed |-> TRUE]
         ELSE [pc |-> "idle", perm |-> None, landed |-> FALSE]]
    /\ perm = [p \in Perms |-> IF p \in goneP THEN "dropped" ELSE "none"]
    /\ again = {} /\ line = <<>> /\ over = {} /\ breaks = broken

\* One repeated permission and all three handlers; one permission of each
\* session and one handler; two of one session and two handlers.
Few ==
    \/ Ended({p2, p3}, {}, 0)
    \/ Ended({p1}, {h2, d1}, 0)
    \/ Ended({p3}, {d1}, MaxBreaks)

FewSpec == Few /\ [][Next]_vars /\ Fairness
=============================================================================
