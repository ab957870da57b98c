---------------------------- MODULE Permissions ----------------------------
(***************************************************************************)
(* Permission requests of OpenCode, the approval card the adapter keeps of *)
(* them for each portal session (pending_input.py) and the two routes that *)
(* answer them (permissions_api.py).                                       *)
(*                                                                         *)
(* OpenCode announces a request and its resolution on its event stream;    *)
(* the event bridge reads that stream in order, but later, and publishes   *)
(* what it reads.  The store observes everything published, chat_api's     *)
(* chat.completed and chat.failed included, in the step that publishes it. *)
(* A handler that answers holds a claim over its call to OpenCode; that    *)
(* call is the only await before the handler's last write.                 *)
(***************************************************************************)
EXTENDS Naturals, Sequences, SequencesExt

CONSTANTS Sessions,     \* portal sessions
          Runs,         \* chat runs
          Perms,        \* permission ids
          Requests,     \* POST /api/sessions/{id}/permission/respond
          Directs,      \* POST /api/permissions/{id}/respond
          SessionOf,    \* the session a run belongs to
          RunOf,        \* the run that asks for a permission
          Repeated,     \* permissions that OpenCode announces twice
          MaxSessions,  \* PendingInputStore.max_sessions
          MaxBreaks,    \* bound on the times the event stream breaks
          None          \* no permission

ASSUME PermissionsAssumption ==
    /\ SessionOf \in [Runs -> Sessions]
    /\ RunOf \in [Perms -> Runs]
    /\ Repeated \subseteq Perms
    /\ Requests \cap Directs = {}
    /\ MaxSessions \in Nat \ {0}
    /\ MaxBreaks \in Nat
    /\ None \notin Perms

VARIABLES
    card,       \* the pending permission of a session, and whether it is claimed
    order,      \* the sessions with a card, the one recorded longest ago first
    call,       \* the handlers that answer, and their calls to OpenCode
    perm,       \* OpenCode: the state of a permission
    again,      \* OpenCode: the permissions announced a second time
    line,       \* OpenCode's events not yet read by the bridge
    over,       \* runs whose end was published
    breaks      \* times the event stream broke

store == <<card, order>>
agent == <<perm, again, line>>
vars  == <<card, order, call, perm, again, line, over, breaks>>

Handlers == Requests \cup Directs
NoCard   == [perm |-> None, claimed |-> FALSE]
Home(p)  == SessionOf[RunOf[p]]
Asked(p)   == [kind |-> "asked", perm |-> p]
Replied(p) == [kind |-> "replied", perm |-> p]

TypeOK ==
    /\ card \in [Sessions -> [perm : Perms \cup {None}, claimed : BOOLEAN]]
    /\ \A s \in Sessions : card[s].perm # None => Home(card[s].perm) = s
    /\ call \in [Handlers -> [pc     : {"idle", "sent", "ok", "failed"},
                              perm   : Perms \cup {None},
                              landed : BOOLEAN]]
    /\ \A h \in Handlers : call[h].pc = "idle" <=> call[h].perm = None
    /\ perm \in [Perms -> {"none", "open", "answered", "dropped"}]
    /\ again \subseteq Repeated
    /\ line \in Seq([kind : {"asked", "replied"}, perm : Perms])
    /\ over \subseteq Runs
    /\ breaks \in 0..MaxBreaks

Init ==
    /\ card = [s \in Sessions |-> NoCard]
    /\ order = <<>>
    /\ call = [h \in Handlers |-> [pc |-> "idle", perm |-> None, landed |-> FALSE]]
    /\ perm = [p \in Perms |-> "none"]
    /\ again = {} /\ line = <<>> /\ over = {} /\ breaks = 0
-----------------------------------------------------------------------------
(* PendingInputStore: what observing an event does to the cards *)

Without(s) ==
    IF \E i \in DOMAIN order : order[i] = s
    THEN RemoveAt(order, CHOOSE i \in DOMAIN order : order[i] = s)
    ELSE order

\* The card of p replaces the session's; announced again, p keeps its claim.
\* Over the cap the session recorded longest ago loses its card.
Record(p) ==
    LET s      == Home(p)
        new    == [card EXCEPT ![s] = [perm |-> p, claimed |-> @.perm = p /\ @.claimed]]
        latest == Append(Without(s), s)
    IN IF Len(latest) > MaxSessions
       THEN card' = [new EXCEPT ![Head(latest)] = NoCard] /\ order' = Tail(latest)
       ELSE card' = new /\ order' = latest

ClearAny(s) == card' = [card EXCEPT ![s] = NoCard] /\ order' = Without(s)

\* (Mutant: the permission a resolution names is not compared.)
ClearUnnamed(p) == ClearAny(Home(p))

\* A resolution names the permission it resolved and clears only that card.
Clear(p) ==
    IF card[Home(p)].perm = p THEN ClearAny(Home(p)) ELSE UNCHANGED store
-----------------------------------------------------------------------------
(* The event bridge and the end of runs *)

BridgeReads ==
    /\ line # <<>> /\ line' = Tail(line)
    /\ IF Head(line).kind = "asked" THEN Record(Head(line).perm) ELSE Clear(Head(line).perm)
    /\ UNCHANGED <<call, perm, again, over, breaks>>

\* The connection is lost and opened again: what was not read never arrives.
StreamBreaks ==
    /\ breaks < MaxBreaks
    /\ breaks' = breaks + 1 /\ line' = <<>>
    /\ UNCHANGED <<store, call, perm, again, over>>

\* chat.completed or chat.failed of a run clears its session's card.  After a
\* chat timeout OpenCode goes on working, so nothing is said of its permissions.
RunEnds(r) ==
    /\ r \notin over /\ over' = over \cup {r}
    /\ ClearAny(SessionOf[r])
    /\ UNCHANGED <<call, agent, breaks>>
-----------------------------------------------------------------------------
(* POST /api/sessions/{id}/permission/respond *)

\* (Mutant: a claimed card is claimed again.)
ClaimUnchecked(h, s) ==
    /\ call[h].pc = "idle" /\ card[s].perm # None
    /\ card' = [card EXCEPT ![s].claimed = TRUE]
    /\ call' = [call EXCEPT ![h] = [pc |-> "sent", perm |-> card[s].perm, landed |-> FALSE]]
    /\ UNCHANGED <<order, agent, over, breaks>>

\* A session's card is claimed and OpenCode is called.  (No card, a card with
\* another id than the body's, and a claimed card are refused with no effect.)
Claim(h, s) ==
    /\ call[h].pc = "idle" /\ card[s].perm # None /\ ~card[s].claimed
    /\ card' = [card EXCEPT ![s].claimed = TRUE]
    /\ call' = [call EXCEPT ![h] = [pc |-> "sent", perm |-> card[s].perm, landed |-> FALSE]]
    /\ UNCHANGED <<order, agent, over, breaks>>

\* The call succeeded: the card goes, by clear and by the published resolution.
RespondSucceeds(h) ==
    /\ call[h].pc = "sent" /\ call[h].landed
    /\ call' = [call EXCEPT ![h].pc = "ok"]
    /\ Clear(call[h].perm)
    /\ UNCHANGED <<agent, over, breaks>>

\* (Mutant: the claim is kept when the call fails.)
RespondFailsHolding(h) ==
    /\ call[h].pc = "sent"
    /\ call' = [call EXCEPT ![h].pc = "failed"]
    /\ UNCHANGED <<store, agent, over, breaks>>

\* The call failed or timed out: the claim is released if the card is still
\* that permission's.
RespondFails(h) ==
    /\ call[h].pc = "sent"
    /\ call' = [call EXCEPT ![h].pc = "failed"]
    /\ LET s == Home(call[h].perm) IN
       card' = IF card[s].perm = call[h].perm THEN [card EXCEPT ![s].claimed = FALSE] ELSE card
    /\ UNCHANGED <<order, agent, over, breaks>>
-----------------------------------------------------------------------------
(* POST /api/permissions/{id}/respond: no card is needed and none claimed *)

DirectCalls(d, p) ==
    /\ call[d].pc = "idle" /\ perm[p] # "none"
    /\ call' = [call EXCEPT ![d] = [pc |-> "sent", perm |-> p, landed |-> FALSE]]
    /\ UNCHANGED <<store, agent, over, breaks>>

\* The resolution is published under the session the body names, if any.
DirectSucceeds(d) ==
    /\ call[d].pc = "sent" /\ call[d].landed
    /\ call' = [call EXCEPT ![d].pc = "ok"]
    /\ Clear(call[d].perm) \/ UNCHANGED store
    /\ UNCHANGED <<agent, over, breaks>>

DirectFails(d) ==
    /\ call[d].pc = "sent"
    /\ call' = [call EXCEPT ![d].pc = "failed"]
    /\ UNCHANGED <<store, agent, over, breaks>>
-----------------------------------------------------------------------------
(* OpenCode, as far as the adapter depends on it *)

AgentAsks(p) ==
    /\ perm[p] = "none"
    /\ perm' = [perm EXCEPT ![p] = "open"]
    /\ line' = Append(line, Asked(p))
    /\ UNCHANGED <<store, call, again, over, breaks>>

\* permission.updated arrives twice for one permission.
AgentRepeats(p) ==
    /\ p \in Repeated \ again /\ perm[p] = "open"
    /\ again' = again \cup {p}
    /\ line' = Append(line, Asked(p))
    /\ UNCHANGED <<store, call, perm, over, breaks>>

\* Somebody else answers it, or a standing approval does.
AgentResolves(p) ==
    /\ perm[p] = "open"
    /\ perm' = [perm EXCEPT ![p] = "answered"]
    /\ line' = Append(line, Replied(p))
    /\ UNCHANGED <<store, call, again, over, breaks>>

\* The waiter is dropped with its run, and nothing is announced.
AgentDrops(p) ==
    /\ perm[p] = "open"
    /\ perm' = [perm EXCEPT ![p] = "dropped"]
    /\ UNCHANGED <<store, call, again, line, over, breaks>>

\* A response arrives, possibly after its handler gave up on it.
CallLands(h) ==
    /\ call[h].pc \in {"sent", "failed"} /\ ~call[h].landed
    /\ call' = [call EXCEPT ![h].landed = TRUE]
    /\ LET p == call[h].perm IN
       IF perm[p] = "open"
       THEN perm' = [perm EXCEPT ![p] = "answered"] /\ line' = Append(line, Replied(p))
       ELSE UNCHANGED <<perm, line>>
    /\ UNCHANGED <<store, again, over, breaks>>
-----------------------------------------------------------------------------
RespondEnds(h) == RespondSucceeds(h) \/ RespondFails(h)
DirectEnds(d)  == DirectSucceeds(d) \/ DirectFails(d)

Next ==
    \/ BridgeReads \/ StreamBreaks
    \/ \E r \in Runs : RunEnds(r)
    \/ \E h \in Requests : (\E s \in Sessions : Claim(h, s)) \/ RespondEnds(h)
    \/ \E d \in Directs : (\E p \in Perms : DirectCalls(d, p)) \/ DirectEnds(d)
    \/ \E p \in Perms : AgentAsks(p) \/ AgentRepeats(p) \/ AgentResolves(p) \/ AgentDrops(p)
    \/ \E h \in Handlers : CallLands(h)

Spec == Init /\ [][Next]_vars
-----------------------------------------------------------------------------
(* Properties *)

\* A claimed card has a handler in flight for it, so no card is ever left with
\* buttons that do nothing (release on failure, clear on success).
ClaimHasOwner ==
    \A s \in Sessions : card[s].claimed =>
        \E h \in Requests : call[h].pc = "sent" /\ call[h].perm = card[s].perm

\* A handler of the session route that answers p fails in this step.
FailsFor(p) ==
    \E h \in Requests : call[h].pc = "sent" /\ call'[h].pc = "failed" /\ call[h].perm = p

\* While a card stays up, its claim is lost only by the failure of a handler of
\* that permission: an event announcing it again does not release it.
ClaimHeld ==
    [][\A s \in Sessions :
         card[s].claimed /\ card'[s].perm = card[s].perm /\ ~card'[s].claimed =>
             FailsFor(card[s].perm)]_vars

\* The claim keeps a second answer out: of the handlers of the session route
\* at most one is answering, or has answered, a permission that OpenCode
\* announces once.  A failed one may be followed by another.
OneAnswer ==
    \A g, h \in Requests :
        /\ call[g].pc \in {"sent", "ok"} /\ call[h].pc \in {"sent", "ok"}
        /\ call[g].perm = call[h].perm /\ call[g].perm \notin Repeated
        => g = h

\* The same of every permission, however often it is announced.
OneAnswerEver ==
    \A g, h \in Requests :
        /\ call[g].pc \in {"sent", "ok"} /\ call[h].pc \in {"sent", "ok"}
        /\ call[g].perm = call[h].perm
        => g = h

\* The card of a permission that still waits is taken down only for a newer
\* one, with the end of a run of its session, or at the cap.
CardSurvives ==
    [][\A s \in Sessions :
         card[s].perm # None /\ perm[card[s].perm] = "open" /\ card'[s].perm = None =>
             \/ \E r \in over' \ over : SessionOf[r] = s
             \/ Len(order) = MaxSessions /\ order[1] = s /\ Len(order') = MaxSessions]_vars

-----------------------------------------------------------------------------
(* Fairness.  The bridge reads on, and every call to OpenCode ends since it  *)
(* has a timeout.  Nothing is assumed of OpenCode or of users.               *)
Fairness ==
    /\ WF_vars(BridgeReads)
    /\ \A h \in Requests : WF_vars(RespondEnds(h))
    /\ \A d \in Directs : WF_vars(DirectEnds(d))

FairSpec == Spec /\ Fairness

\* A claim ends: the member can try again, or the card is gone.
ClaimEnds ==
    \A s \in Sessions : \A p \in Perms :
        card[s] = [perm |-> p, claimed |-> TRUE] ~> card[s] # [perm |-> p, claimed |-> TRUE]

=============================================================================
