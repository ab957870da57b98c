------------------------- MODULE PermissionsProofs -------------------------
(***************************************************************************)
(* Theorems about Permissions: type correctness, that a claim always has   *)
(* an owner and is lost only by its owner's failure, that a permission     *)
(* announced once is answered by at most one handler of the session route, *)
(* and that the card of a permission that waits survives.                  *)
(***************************************************************************)
EXTENDS Permissions, SequenceTheorems, TLAPS

-----------------------------------------------------------------------------
(* What the store's operations do to one card *)

\* Record(p) writes p's own card, possibly removes one, and touches no other.
LEMMA RecordCards ==
    ASSUME TypeOK, NEW p \in Perms, Record(p)
    PROVE  /\ card' \in [Sessions -> [perm : Perms \cup {None}, claimed : BOOLEAN]]
           /\ \A s \in Sessions :
                \/ card'[s] = NoCard
                \/ card'[s] = card[s]
                \/ /\ s = Home(p) /\ card'[s].perm = p
                   /\ card'[s].claimed <=> card[s].perm = p /\ card[s].claimed
<1> DEFINE s0  == Home(p)
           new == [card EXCEPT ![s0] = [perm |-> p, claimed |-> @.perm = p /\ @.claimed]]
<1>1. s0 \in Sessions
    BY PermissionsAssumption DEF Home
<1>2. NoCard \in [perm : Perms \cup {None}, claimed : BOOLEAN]
    BY DEF NoCard
<1>3. card \in [Sessions -> [perm : Perms \cup {None}, claimed : BOOLEAN]]
    BY DEF TypeOK
<1>4. new \in [Sessions -> [perm : Perms \cup {None}, claimed : BOOLEAN]]
    BY <1>1, <1>3
<1>5. card' = new \/ \E x : card' = [new EXCEPT ![x] = NoCard]
    BY DEF Record
<1>6. \A s \in Sessions : \/ new[s] = card[s]
                          \/ /\ s = Home(p) /\ new[s].perm = p
                             /\ new[s].claimed <=> card[s].perm = p /\ card[s].claimed
    BY <1>1, <1>3
<1>7. CASE card' = new
    BY <1>4, <1>6, <1>7
<1> HIDE DEF new
<1>8. ASSUME NEW x, card' = [new EXCEPT ![x] = NoCard]
      PROVE  /\ card' \in [Sessions -> [perm : Perms \cup {None}, claimed : BOOLEAN]]
             /\ \A s \in Sessions : card'[s] = NoCard \/ card'[s] = new[s]
    BY <1>2, <1>4, <1>8
<1> QED
    BY <1>5, <1>6, <1>7, <1>8

\* Clear(p) and the end of a run remove a card or none.
LEMMA ClearCards ==
    ASSUME TypeOK, NEW s \in Sessions, ClearAny(s)
    PROVE  /\ card' \in [Sessions -> [perm : Perms \cup {None}, claimed : BOOLEAN]]
           /\ \A x \in Sessions : card'[x] = NoCard \/ card'[x] = card[x]
           /\ card'[s] = NoCard
<1>1. NoCard \in [perm : Perms \cup {None}, claimed : BOOLEAN]
    BY DEF NoCard
<1> QED
    BY <1>1 DEF ClearAny, TypeOK

LEMMA ClearPermCards ==
    ASSUME TypeOK, NEW p \in Perms, Clear(p)
    PROVE  /\ card' \in [Sessions -> [perm : Perms \cup {None}, claimed : BOOLEAN]]
           /\ \A x \in Sessions : card'[x] = NoCard \/ card'[x] = card[x]
           /\ card'[Home(p)].perm # p
<1>1. Home(p) \in Sessions
    BY PermissionsAssumption DEF Home
<1>2. None # p
    BY PermissionsAssumption
<1>3. CASE card[Home(p)].perm = p
    <2>1. ClearAny(Home(p))
        BY <1>3 DEF Clear
    <2>2. card'[Home(p)] = NoCard
        BY <1>1, <2>1, ClearCards
    <2> QED
        BY <1>1, <1>2, <2>1, <2>2, ClearCards DEF NoCard
<1>4. CASE card[Home(p)].perm # p
    BY <1>4 DEF Clear, store, TypeOK
<1> QED
    BY <1>3, <1>4

\* Cards stay typed and in their own session when a step only removes some.
LEMMA CardsTyped ==
    ASSUME TypeOK,
           card' \in [Sessions -> [perm : Perms \cup {None}, claimed : BOOLEAN]],
           \A x \in Sessions : card'[x] = NoCard \/ card'[x] = card[x]
    PROVE  \A s \in Sessions : card'[s].perm # None => Home(card'[s].perm) = s
BY DEF TypeOK, NoCard
-----------------------------------------------------------------------------
(* Type correctness *)

LEMMA InitTyped == Init => TypeOK
BY PermissionsAssumption DEF Init, TypeOK, NoCard

\* What reading an event leaves in the line, and what is read.
LEMMA ReadTyped ==
    ASSUME TypeOK, line # <<>>, line' = Tail(line)
    PROVE  /\ line' \in Seq([kind : {"asked", "replied"}, perm : Perms])
           /\ Head(line) \in [kind : {"asked", "replied"}, perm : Perms]
<1>1. line \in Seq([kind : {"asked", "replied"}, perm : Perms])
    BY DEF TypeOK
<1> HIDE DEF TypeOK
<1> QED
    BY <1>1, HeadTailProperties

CallRecord == [pc : {"idle", "sent", "ok", "failed"}, perm : Perms \cup {None}, landed : BOOLEAN]

CallsTyped ==
    /\ call \in [Handlers -> CallRecord]
    /\ \A h \in Handlers : call[h].pc = "idle" <=> call[h].perm = None

\* One handler's record changes to a well-formed one: calls stay typed.
LEMMA CallTyped ==
    ASSUME TypeOK, NEW h \in Handlers,
           NEW r \in CallRecord,
           r.pc = "idle" <=> r.perm = None,
           call' = [call EXCEPT ![h] = r]
    PROVE  CallsTyped'
<1>1. CallsTyped
    BY DEF TypeOK, CallsTyped, CallRecord
<1>2. call' \in [Handlers -> CallRecord]
    BY <1>1 DEF CallsTyped
<1>3. \A x \in Handlers : call'[x] = IF x = h THEN r ELSE call[x]
    BY <1>1 DEF CallsTyped
<1> QED
    BY <1>1, <1>2, <1>3 DEF CallsTyped

\* What a handler that is not idle keeps: its permission, in the type.
LEMMA CallOf ==
    ASSUME TypeOK, NEW h \in Handlers, call[h].pc # "idle"
    PROVE  /\ call[h].perm \in Perms
           /\ call[h] \in CallRecord
           /\ call[h].perm # None
BY PermissionsAssumption DEF TypeOK, CallRecord

LEMMA NextTyped == TypeOK /\ [Next]_vars => TypeOK'
<1> SUFFICES ASSUME TypeOK, [Next]_vars PROVE TypeOK'
    OBVIOUS
<1>1. CASE BridgeReads
    <2>1. /\ line' \in Seq([kind : {"asked", "replied"}, perm : Perms])
          /\ Head(line) \in [kind : {"asked", "replied"}, perm : Perms]
        BY <1>1, ReadTyped DEF BridgeReads
    <2>2. Head(line).perm \in Perms
        BY <2>1
    <2>3. /\ card' \in [Sessions -> [perm : Perms \cup {None}, claimed : BOOLEAN]]
          /\ \A s \in Sessions : card'[s].perm # None => Home(card'[s].perm) = s
        <3>1. CASE Record(Head(line).perm)
            <4>1. card' \in [Sessions -> [perm : Perms \cup {None}, claimed : BOOLEAN]]
                BY <2>2, <3>1, RecordCards
            <4>2. ASSUME NEW s \in Sessions, card'[s].perm # None
                  PROVE  Home(card'[s].perm) = s
                <5>1. card'[s] = NoCard \/ card'[s] = card[s]
                        \/ (s = Home(Head(line).perm) /\ card'[s].perm = Head(line).perm)
                    BY <2>2, <3>1, RecordCards
                <5> QED
                    BY <4>2, <5>1 DEF TypeOK, NoCard
            <4> QED
                BY <4>1, <4>2
        <3>2. CASE Clear(Head(line).perm)
            BY <2>2, <3>2, ClearPermCards, CardsTyped
        <3> QED
            BY <1>1, <3>1, <3>2 DEF BridgeReads
    <2> QED
        BY <1>1, <2>1, <2>3 DEF BridgeReads, TypeOK
<1>2. CASE StreamBreaks
    BY <1>2, PermissionsAssumption DEF StreamBreaks, TypeOK, store
<1>3. ASSUME NEW r \in Runs, RunEnds(r) PROVE TypeOK'
    <2>1. SessionOf[r] \in Sessions
        BY PermissionsAssumption
    <2>2. /\ card' \in [Sessions -> [perm : Perms \cup {None}, claimed : BOOLEAN]]
          /\ \A s \in Sessions : card'[s].perm # None => Home(card'[s].perm) = s
        BY <1>3, <2>1, ClearCards, CardsTyped DEF RunEnds
    <2> QED
        BY <1>3, <2>2 DEF RunEnds, TypeOK, agent
<1>4. ASSUME NEW h \in Requests, NEW s \in Sessions, Claim(h, s) PROVE TypeOK'
    <2> DEFINE r == [pc |-> "sent", perm |-> card[s].perm, landed |-> FALSE]
    <2>1. /\ card \in [Sessions -> [perm : Perms \cup {None}, claimed : BOOLEAN]]
          /\ \A x \in Sessions : card[x].perm # None => Home(card[x].perm) = x
          /\ card[s].perm \in Perms /\ card[s].perm # None
        BY <1>4 DEF Claim, TypeOK
    <2>2. /\ card' \in [Sessions -> [perm : Perms \cup {None}, claimed : BOOLEAN]]
          /\ \A x \in Sessions : card'[x].perm = card[x].perm
        BY <1>4, <2>1 DEF Claim
    <2>3. /\ r \in CallRecord
          /\ r.pc # "idle" /\ r.perm # None
        BY <2>1 DEF CallRecord
    <2>4. call' = [call EXCEPT ![h] = r] /\ h \in Handlers
        BY <1>4 DEF Claim, Handlers
    <2> HIDE DEF r
    <2>5. CallsTyped'
        BY <2>3, <2>4, CallTyped
    <2>6. UNCHANGED <<order, perm, again, line, over, breaks>>
        BY <1>4 DEF Claim, agent
    <2> QED
        BY <2>1, <2>2, <2>5, <2>6 DEF TypeOK, CallsTyped, CallRecord
<1>5. ASSUME NEW h \in Requests, RespondSucceeds(h) PROVE TypeOK'
    <2>1. call[h].perm \in Perms
        BY <1>5 DEF RespondSucceeds, TypeOK, Handlers
    <2>2. /\ card' \in [Sessions -> [perm : Perms \cup {None}, claimed : BOOLEAN]]
          /\ \A s \in Sessions : card'[s].perm # None => Home(card'[s].perm) = s
        BY <1>5, <2>1, ClearPermCards, CardsTyped DEF RespondSucceeds
    <2> QED
        BY <1>5, <2>2 DEF RespondSucceeds, TypeOK, agent, Handlers
<1>6. ASSUME NEW h \in Requests, RespondFails(h) PROVE TypeOK'
    <2> DEFINE s0 == Home(call[h].perm)
    <2>1. /\ card' \in [Sessions -> [perm : Perms \cup {None}, claimed : BOOLEAN]]
          /\ \A s \in Sessions : card'[s].perm = card[s].perm
        <3>1. card' = card \/ card' = [card EXCEPT ![s0].claimed = FALSE]
            BY <1>6 DEF RespondFails
        <3>2. s0 \in Sessions
            BY <1>6, PermissionsAssumption DEF RespondFails, TypeOK, Handlers, Home
        <3> HIDE DEF s0
        <3>3. card \in [Sessions -> [perm : Perms \cup {None}, claimed : BOOLEAN]]
            BY DEF TypeOK
        <3>4. [card[s0] EXCEPT !.claimed = FALSE] \in [perm : Perms \cup {None}, claimed : BOOLEAN]
            BY <3>2, <3>3
        <3>5. [card[s0] EXCEPT !.claimed = FALSE].perm = card[s0].perm
            BY <3>2, <3>3
        <3>6. CASE card' = [card EXCEPT ![s0] = [card[s0] EXCEPT !.claimed = FALSE]]
            BY <3>3, <3>4, <3>5, <3>6
        <3> QED
            BY <3>1, <3>3, <3>6
    <2>2. \A s \in Sessions : card'[s].perm # None => Home(card'[s].perm) = s
        BY <2>1 DEF TypeOK
    <2>3. h \in Handlers /\ call[h].pc = "sent"
        BY <1>6 DEF RespondFails, Handlers
    <2>4. CallsTyped'
        <3>1. call' = [call EXCEPT ![h] = [call[h] EXCEPT !.pc = "failed"]]
            BY <1>6 DEF RespondFails
        <3>2. /\ [call[h] EXCEPT !.pc = "failed"] \in CallRecord
              /\ [call[h] EXCEPT !.pc = "failed"].pc # "idle"
              /\ [call[h] EXCEPT !.pc = "failed"].perm # None
            BY <2>3, CallOf DEF CallRecord
        <3> QED
            BY <2>3, <3>1, <3>2, CallTyped
    <2>5. UNCHANGED <<order, perm, again, line, over, breaks>>
        BY <1>6 DEF RespondFails, agent
    <2> QED
        BY <2>1, <2>2, <2>4, <2>5 DEF TypeOK, CallsTyped, CallRecord
<1>7. ASSUME NEW d \in Directs, NEW p \in Perms, DirectCalls(d, p) PROVE TypeOK'
    BY <1>7, PermissionsAssumption DEF DirectCalls, TypeOK, agent, store, Handlers
<1>8. ASSUME NEW d \in Directs, DirectSucceeds(d) PROVE TypeOK'
    <2>1. call[d].perm \in Perms
        BY <1>8 DEF DirectSucceeds, TypeOK, Handlers
    <2>2. /\ card' \in [Sessions -> [perm : Perms \cup {None}, claimed : BOOLEAN]]
          /\ \A s \in Sessions : card'[s].perm # None => Home(card'[s].perm) = s
        <3>1. CASE Clear(call[d].perm)
            BY <2>1, <3>1, ClearPermCards, CardsTyped
        <3>2. CASE UNCHANGED store
            BY <3>2 DEF store, TypeOK
        <3> QED
            BY <1>8, <3>1, <3>2 DEF DirectSucceeds
    <2> QED
        BY <1>8, <2>2 DEF DirectSucceeds, TypeOK, agent, Handlers
<1>9. ASSUME NEW d \in Directs, DirectFails(d) PROVE TypeOK'
    BY <1>9 DEF DirectFails, TypeOK, agent, store, Handlers
<1>10. ASSUME NEW p \in Perms, AgentAsks(p) PROVE TypeOK'
    BY <1>10 DEF AgentAsks, TypeOK, store, Asked
<1>11. ASSUME NEW p \in Perms, AgentRepeats(p) PROVE TypeOK'
    BY <1>11 DEF AgentRepeats, TypeOK, store, Asked
<1>12. ASSUME NEW p \in Perms, AgentResolves(p) PROVE TypeOK'
    BY <1>12 DEF AgentResolves, TypeOK, store, Replied
<1>13. ASSUME NEW p \in Perms, AgentDrops(p) PROVE TypeOK'
    BY <1>13 DEF AgentDrops, TypeOK, store
<1>14. ASSUME NEW h \in Handlers, CallLands(h) PROVE TypeOK'
    <2>1. call[h].perm \in Perms
        BY <1>14 DEF CallLands, TypeOK
    <2> DEFINE Event == [kind : {"asked", "replied"}, perm : Perms]
    <2>2. line' \in Seq(Event) /\ perm' \in [Perms -> {"none", "open", "answered", "dropped"}]
        <3>1. line \in Seq(Event) /\ Replied(call[h].perm) \in Event
            BY <2>1 DEF TypeOK, Replied
        <3>2. Append(line, Replied(call[h].perm)) \in Seq(Event)
            BY <3>1, AppendProperties
        <3> QED
            BY <1>14, <2>1, <3>1, <3>2 DEF CallLands, TypeOK
    <2>3. CallsTyped'
        <3>1. call[h].pc # "idle"
            BY <1>14 DEF CallLands
        <3>2. call' = [call EXCEPT ![h] = [call[h] EXCEPT !.landed = TRUE]]
            BY <1>14 DEF CallLands
        <3>3. /\ [call[h] EXCEPT !.landed = TRUE] \in CallRecord
              /\ [call[h] EXCEPT !.landed = TRUE].pc # "idle"
              /\ [call[h] EXCEPT !.landed = TRUE].perm # None
            BY <3>1, CallOf DEF CallRecord
        <3> QED
            BY <3>2, <3>3, CallTyped
    <2>4. UNCHANGED <<card, order, again, over, breaks>>
        BY <1>14 DEF CallLands, store
    <2> QED
        BY <2>2, <2>3, <2>4 DEF TypeOK, CallsTyped, CallRecord
<1>15. CASE UNCHANGED vars
    BY <1>15 DEF vars, TypeOK
<1> QED
    BY <1>1, <1>2, <1>3, <1>4, <1>5, <1>6, <1>7, <1>8, <1>9, <1>10, <1>11, <1>12, <1>13, <1>14, <1>15
    DEF Next, RespondEnds, DirectEnds

\* Every reachable state is typed; a card lies in the session of its permission.
THEOREM TypeCorrect == Spec => []TypeOK
<1>1. Init => TypeOK
    BY InitTyped
<1>2. TypeOK /\ [Next]_vars => TypeOK'
    BY NextTyped
<1> QED
    BY <1>1, <1>2, PTL DEF Spec
-----------------------------------------------------------------------------
(* Every claim has an owner *)

LEMMA ClaimOwned == TypeOK /\ ClaimHasOwner /\ [Next]_vars => ClaimHasOwner'
<1> SUFFICES ASSUME TypeOK, ClaimHasOwner, [Next]_vars,
                    NEW s \in Sessions, card'[s].claimed
             PROVE  \E h \in Requests : call'[h].pc = "sent" /\ call'[h].perm = card'[s].perm
    BY DEF ClaimHasOwner
<1> DEFINE Owned == \E h \in Requests : call'[h].pc = "sent" /\ call'[h].perm = card'[s].perm
<1>1. ASSUME card'[s] = card[s], \A h \in Requests : call[h].pc = "sent" => call'[h].pc = "sent" /\ call'[h].perm = call[h].perm
      PROVE  Owned
    BY <1>1 DEF ClaimHasOwner
<1>2. card'[s] # NoCard
    BY DEF NoCard
<1>3. CASE BridgeReads
    <2>1. call' = call
        BY <1>3 DEF BridgeReads
    <2>2. Head(line).perm \in Perms
        BY <1>3, ReadTyped DEF BridgeReads
    <2>3. CASE Record(Head(line).perm)
        <3>1. card[s].claimed /\ card'[s].perm = card[s].perm
            BY <1>2, <2>2, <2>3, RecordCards
        <3> QED
            BY <2>1, <3>1 DEF ClaimHasOwner
    <2>4. CASE Clear(Head(line).perm)
        BY <1>1, <1>2, <2>1, <2>2, <2>4, ClearPermCards
    <2> QED
        BY <1>3, <2>3, <2>4 DEF BridgeReads
<1>4. CASE StreamBreaks
    BY <1>1, <1>4 DEF StreamBreaks, store
<1>5. ASSUME NEW r \in Runs, RunEnds(r) PROVE Owned
    <2>1. SessionOf[r] \in Sessions
        BY PermissionsAssumption
    <2> QED
        BY <1>1, <1>2, <1>5, <2>1, ClearCards DEF RunEnds
<1>6. ASSUME NEW h \in Requests, NEW x \in Sessions, Claim(h, x) PROVE Owned
    <2>1. call' = [call EXCEPT ![h] = [pc |-> "sent", perm |-> card[x].perm, landed |-> FALSE]]
          /\ card' = [card EXCEPT ![x].claimed = TRUE] /\ call[h].pc = "idle"
        BY <1>6 DEF Claim
    <2>2. CASE x = s
        <3>1. call'[h].pc = "sent" /\ call'[h].perm = card'[s].perm
            BY <2>1, <2>2 DEF TypeOK, Handlers
        <3> QED
            BY <3>1
    <2>3. CASE x # s
        <3>1. card'[s] = card[s]
            BY <2>1, <2>3 DEF TypeOK
        <3>2. \A g \in Requests : call[g].pc = "sent" => call'[g] = call[g]
            BY <2>1 DEF TypeOK, Handlers
        <3> QED
            BY <1>1, <3>1, <3>2
    <2> QED
        BY <2>2, <2>3
<1>7. ASSUME NEW h \in Requests, RespondSucceeds(h) PROVE Owned
    <2>1. call[h].perm \in Perms
        BY <1>7 DEF RespondSucceeds, TypeOK, Handlers
    <2>2. card'[s] = card[s] /\ card'[Home(call[h].perm)].perm # call[h].perm
        BY <1>2, <1>7, <2>1, ClearPermCards DEF RespondSucceeds
    <2>3. PICK g \in Requests : call[g].pc = "sent" /\ call[g].perm = card[s].perm
        BY <2>2 DEF ClaimHasOwner
    <2>4. g # h
        <3>1. card[s].perm \in Perms => Home(card[s].perm) = s
            BY PermissionsAssumption DEF TypeOK
        <3> QED
            BY <2>1, <2>2, <2>3, <3>1
    <2>5. call'[g] = call[g]
        BY <1>7, <2>4 DEF RespondSucceeds, TypeOK, Handlers
    <2> QED
        BY <2>2, <2>3, <2>5
<1>8. ASSUME NEW h \in Requests, RespondFails(h) PROVE Owned
    <2> DEFINE s0 == Home(call[h].perm)
    <2>1. s0 \in Sessions /\ call[h].perm \in Perms
        BY <1>8, PermissionsAssumption DEF RespondFails, TypeOK, Handlers, Home
    <2>2. card'[s] = card[s] /\ (s = s0 => card[s].perm # call[h].perm)
        <3>1. CASE card[s0].perm = call[h].perm
            <4>1. card' = [card EXCEPT ![s0].claimed = FALSE]
                BY <1>8, <3>1 DEF RespondFails
            <4> QED
                BY <2>1, <4>1 DEF TypeOK
        <3>2. CASE card[s0].perm # call[h].perm
            BY <1>8, <3>2 DEF RespondFails
        <3> QED
            BY <3>1, <3>2
    <2>3. PICK g \in Requests : call[g].pc = "sent" /\ call[g].perm = card[s].perm
        BY <2>2 DEF ClaimHasOwner
    <2>4. g # h
        <3>1. card[s].perm \in Perms => Home(card[s].perm) = s
            BY PermissionsAssumption DEF TypeOK
        <3> QED
            BY <2>1, <2>2, <2>3, <3>1
    <2>5. call'[g] = call[g]
        BY <1>8, <2>4 DEF RespondFails, TypeOK, Handlers
    <2> QED
        BY <2>2, <2>3, <2>5
<1>9. ASSUME NEW d \in Directs, NEW p \in Perms, DirectCalls(d, p) PROVE Owned
    <2>1. \A g \in Requests : call'[g] = call[g]
        BY <1>9, PermissionsAssumption DEF DirectCalls, TypeOK, Handlers
    <2> QED
        BY <1>1, <1>9, <2>1 DEF DirectCalls, store
<1>10. ASSUME NEW d \in Directs, DirectSucceeds(d) PROVE Owned
    <2>1. call[d].perm \in Perms
        BY <1>10 DEF DirectSucceeds, TypeOK, Handlers
    <2>2. card'[s] = card[s]
        BY <1>2, <1>10, <2>1, ClearPermCards DEF DirectSucceeds, store
    <2>3. \A g \in Requests : call'[g] = call[g]
        BY <1>10, PermissionsAssumption DEF DirectSucceeds, TypeOK, Handlers
    <2> QED
        BY <1>1, <2>2, <2>3
<1>11. ASSUME NEW d \in Directs, DirectFails(d) PROVE Owned
    <2>1. \A g \in Requests : call'[g] = call[g]
        BY <1>11, PermissionsAssumption DEF DirectFails, TypeOK, Handlers
    <2> QED
        BY <1>1, <1>11, <2>1 DEF DirectFails, store
<1>12. ASSUME NEW p \in Perms, AgentAsks(p) \/ AgentRepeats(p) \/ AgentResolves(p) \/ AgentDrops(p)
       PROVE  Owned
    BY <1>1, <1>12 DEF AgentAsks, AgentRepeats, AgentResolves, AgentDrops, store
<1>13. ASSUME NEW h \in Handlers, CallLands(h) PROVE Owned
    <2>1. \A g \in Requests : call'[g].pc = call[g].pc /\ call'[g].perm = call[g].perm
        BY <1>13 DEF CallLands, TypeOK, Handlers
    <2> QED
        BY <1>1, <1>13, <2>1 DEF CallLands, store
<1>14. CASE UNCHANGED vars
    BY <1>1, <1>14 DEF vars
<1> QED
    BY <1>3, <1>4, <1>5, <1>6, <1>7, <1>8, <1>9, <1>10, <1>11, <1>12, <1>13, <1>14
    DEF Next, RespondEnds, DirectEnds

\* ClaimHasOwner for every instance, announcements repeated or lost included.
THEOREM ClaimsOwned == Spec => []ClaimHasOwner
<1>1. Init => ClaimHasOwner
    BY DEF Init, ClaimHasOwner, NoCard
<1>2. TypeOK /\ ClaimHasOwner /\ [Next]_vars => ClaimHasOwner'
    BY ClaimOwned
<1> QED
    BY <1>1, <1>2, TypeCorrect, PTL DEF Spec
-----------------------------------------------------------------------------
(* A claim is lost only by its owner's failure *)

LEMMA ClaimHeldStep ==
    TypeOK /\ ClaimHasOwner /\ [Next]_vars =>
        \A s \in Sessions :
            card[s].claimed /\ card'[s].perm = card[s].perm /\ ~card'[s].claimed =>
                FailsFor(card[s].perm)
<1> SUFFICES ASSUME TypeOK, ClaimHasOwner, [Next]_vars, NEW s \in Sessions,
                    card[s].claimed, card'[s].perm = card[s].perm, ~card'[s].claimed,
                    card[s].perm # None
             PROVE  FailsFor(card[s].perm)
    BY DEF TypeOK, ClaimHasOwner, Handlers
<1>1. card'[s] # card[s] /\ card'[s] # NoCard
    BY DEF NoCard
<1>2. ASSUME BridgeReads PROVE FailsFor(card[s].perm)
    <2>1. Head(line).perm \in Perms
        BY <1>2, ReadTyped DEF BridgeReads
    <2> QED
        BY <1>1, <1>2, <2>1, RecordCards, ClearPermCards DEF BridgeReads
<1>3. ASSUME StreamBreaks PROVE FailsFor(card[s].perm)
    BY <1>1, <1>3 DEF StreamBreaks, store
<1>4. ASSUME NEW r \in Runs, RunEnds(r) PROVE FailsFor(card[s].perm)
    <2>1. SessionOf[r] \in Sessions
        BY PermissionsAssumption
    <2> QED
        BY <1>1, <1>4, <2>1, ClearCards DEF RunEnds
<1>5. ASSUME NEW h \in Requests, NEW x \in Sessions, Claim(h, x) PROVE FailsFor(card[s].perm)
    <2>1. card' = [card EXCEPT ![x].claimed = TRUE]
        BY <1>5 DEF Claim
    <2> QED
        BY <1>1, <2>1 DEF TypeOK
<1>6. ASSUME NEW h \in Requests, RespondSucceeds(h) PROVE FailsFor(card[s].perm)
    <2>1. call[h].perm \in Perms
        BY <1>6 DEF RespondSucceeds, TypeOK, Handlers
    <2> QED
        BY <1>1, <1>6, <2>1, ClearPermCards DEF RespondSucceeds
<1>7. ASSUME NEW h \in Requests, RespondFails(h)
      PROVE  FailsFor(card[s].perm)
    <2> DEFINE s0 == Home(call[h].perm)
    <2>1. call[h].pc = "sent" /\ call'[h].pc = "failed"
        BY <1>7 DEF RespondFails, TypeOK, Handlers
    <2>2. CASE card[s0].perm = call[h].perm
        <3>1. card' = [card EXCEPT ![s0].claimed = FALSE]
            BY <1>7, <2>2 DEF RespondFails
        <3>2. s = s0
            BY <1>1, <3>1 DEF TypeOK
        <3> QED
            BY <2>1, <2>2, <3>2 DEF FailsFor
    <2>3. CASE card[s0].perm # call[h].perm
        BY <1>1, <1>7, <2>3 DEF RespondFails
    <2> QED
        BY <2>2, <2>3
<1>8. ASSUME NEW d \in Directs, DirectSucceeds(d) PROVE FailsFor(card[s].perm)
    <2>1. call[d].perm \in Perms
        BY <1>8 DEF DirectSucceeds, TypeOK, Handlers
    <2> QED
        BY <1>1, <1>8, <2>1, ClearPermCards DEF DirectSucceeds, store
<1>9. ASSUME NEW d \in Directs, NEW p \in Perms, DirectCalls(d, p) PROVE FailsFor(card[s].perm)
    BY <1>1, <1>9 DEF DirectCalls, store
<1>10. ASSUME NEW d \in Directs, DirectFails(d) PROVE FailsFor(card[s].perm)
    BY <1>1, <1>10 DEF DirectFails, store
<1>11. ASSUME NEW p \in Perms, AgentAsks(p) \/ AgentRepeats(p) \/ AgentResolves(p) \/ AgentDrops(p)
       PROVE  FailsFor(card[s].perm)
    BY <1>1, <1>11 DEF AgentAsks, AgentRepeats, AgentResolves, AgentDrops, store
<1>12. ASSUME NEW h \in Handlers, CallLands(h) PROVE FailsFor(card[s].perm)
    BY <1>1, <1>12 DEF CallLands, store
<1>13. ASSUME UNCHANGED vars PROVE FailsFor(card[s].perm)
    BY <1>1, <1>13 DEF vars
<1>14. ASSUME Next PROVE FailsFor(card[s].perm)
    BY <1>2, <1>3, <1>4, <1>5, <1>6, <1>7, <1>8, <1>9, <1>10, <1>11, <1>12, <1>14
    DEF Next, RespondEnds, DirectEnds
<1> QED
    BY <1>13, <1>14

\* ClaimHeld for every instance: no event releases a claim.
THEOREM ClaimsHeld == Spec => ClaimHeld
<1>1. TypeOK /\ ClaimHasOwner /\ [Next]_vars =>
        [\A s \in Sessions :
            card[s].claimed /\ card'[s].perm = card[s].perm /\ ~card'[s].claimed =>
                FailsFor(card[s].perm)]_vars
    BY ClaimHeldStep
<1> QED
    BY <1>1, TypeCorrect, ClaimsOwned, PTL DEF Spec, ClaimHeld
-----------------------------------------------------------------------------
(***************************************************************************)
(* One answer.  If a permission is announced once, an announcement of it   *)
(* still to be read means that it has no card and no handler: whatever     *)
(* replaces its claimed card, the card never comes back, and a card whose  *)
(* handler is in flight is claimed, so no second handler gets in.          *)
(***************************************************************************)
Once == Perms \ Repeated

ToRead(p) == \E i \in 1..Len(line) : line[i] = Asked(p)

\* An announcement is in the line once.
AskedOnce ==
    \A p \in Once : \A i, j \in 1..Len(line) :
        line[i] = Asked(p) /\ line[j] = Asked(p) => i = j

\* A permission not asked for yet is unknown to the adapter.
UnaskedUnknown ==
    \A p \in Perms : perm[p] = "none" =>
        /\ ~ToRead(p) /\ card[Home(p)].perm # p
        /\ \A h \in Handlers : call[h].perm # p

\* One whose announcement is still to be read has no card and no handler.
UnreadUnknown ==
    \A p \in Once : ToRead(p) =>
        /\ card[Home(p)].perm # p
        /\ \A h \in Requests : call[h].perm # p

\* A card that a handler answers is claimed, and is gone once it succeeded.
AnsweringClaims ==
    \A h \in Requests : \A p \in Once :
        /\ call[h].pc \in {"sent", "ok"} /\ call[h].perm = p
        /\ card[Home(p)].perm = p
        => call[h].pc = "sent" /\ card[Home(p)].claimed

AnswerInv ==
    TypeOK /\ AskedOnce /\ UnaskedUnknown /\ UnreadUnknown /\ AnsweringClaims /\ OneAnswer
-----------------------------------------------------------------------------
(* What a step does to the line *)

LEMMA TailLine ==
    ASSUME TypeOK, AskedOnce, line # <<>>, line' = Tail(line)
    PROVE  /\ AskedOnce'
           /\ \A p \in Perms : ToRead(p)' => ToRead(p)
           /\ \A p \in Once : Head(line) = Asked(p) => ToRead(p) /\ ~ToRead(p)'
<1> DEFINE Event == [kind : {"asked", "replied"}, perm : Perms]
<1>1. line \in Seq(Event)
    BY DEF TypeOK
<1>2. /\ Len(line) \in Nat /\ Len(line) > 0 /\ Len(line') = Len(line) - 1
      /\ \A i \in 1..Len(line') : line'[i] = line[i+1]
      /\ Head(line) = line[1]
    <2> HIDE DEF Event
    <2>1. Len(line) \in Nat /\ Len(line) > 0
        BY <1>1, EmptySeq, LenProperties
    <2> QED
        BY <1>1, <2>1, HeadTailProperties
<1>3. ASSUME NEW p \in Perms, NEW i \in 1..Len(line'), line'[i] = Asked(p)
      PROVE  i + 1 \in 2..Len(line) /\ line[i+1] = Asked(p)
    BY <1>2, <1>3
<1>4. AskedOnce'
    <2>1. \A p \in Once : \A i, j \in 1..Len(line') : line'[i] = Asked(p) /\ line'[j] = Asked(p) => i = j
        BY <1>2, <1>3 DEF AskedOnce, Once
    <2> QED
        BY <2>1 DEF AskedOnce, Asked, Once
<1>5. ASSUME NEW p \in Perms, ToRead(p)' PROVE \E i \in 2..Len(line) : line[i] = Asked(p)
    <2>1. PICK i \in 1..Len(line') : line'[i] = Asked(p)
        BY <1>5 DEF ToRead, Asked
    <2> QED
        BY <1>2, <1>3, <2>1
<1>6. \A p \in Perms : ToRead(p)' => ToRead(p)
    BY <1>2, <1>5 DEF ToRead
<1>7. ASSUME NEW p \in Once, Head(line) = Asked(p) PROVE ToRead(p) /\ ~ToRead(p)'
    <2>1. 1 \in 1..Len(line) /\ line[1] = Asked(p)
        BY <1>2, <1>7
    <2>2. ASSUME NEW i \in 2..Len(line), line[i] = Asked(p) PROVE FALSE
        BY <1>2, <2>1, <2>2 DEF AskedOnce
    <2> QED
        BY <1>5, <2>1, <2>2 DEF ToRead, Once
<1> QED
    BY <1>4, <1>6, <1>7

LEMMA HeadToRead ==
    ASSUME TypeOK, line # <<>>, NEW p \in Perms, Head(line) = Asked(p)
    PROVE  ToRead(p)
<1> DEFINE Event == [kind : {"asked", "replied"}, perm : Perms]
<1>1. line \in Seq(Event)
    BY DEF TypeOK
<1>2. Len(line) \in Nat /\ Len(line) > 0 /\ Head(line) = line[1]
    <2> HIDE DEF Event
    <2> QED
        BY <1>1, EmptySeq, LenProperties, HeadTailProperties
<1> QED
    BY <1>2 DEF ToRead

LEMMA EmptyLine ==
    ASSUME line' = <<>>
    PROVE  AskedOnce' /\ \A p \in Perms : ~ToRead(p)'
BY DEF AskedOnce, ToRead, Once

LEMMA RepliedLine ==
    ASSUME TypeOK, AskedOnce, NEW q \in Perms, line' = Append(line, Replied(q))
    PROVE  AskedOnce' /\ \A p \in Perms : ToRead(p)' => ToRead(p)
<1> DEFINE Event == [kind : {"asked", "replied"}, perm : Perms]
<1>1. line \in Seq(Event) /\ Replied(q) \in Event
    BY DEF TypeOK, Replied
<1>2. /\ Len(line) \in Nat /\ Len(line') = Len(line) + 1
      /\ \A i \in 1..Len(line) : line'[i] = line[i]
      /\ line'[Len(line) + 1] = Replied(q)
    <2> HIDE DEF Event
    <2> QED
        BY <1>1, AppendProperties, LenProperties
<1>3. \A p \in Perms : Asked(p) # Replied(q)
    BY DEF Asked, Replied
<1>4. \A p \in Perms : \A i \in 1..Len(line') : line'[i] = Asked(p) => i \in 1..Len(line) /\ line[i] = Asked(p)
    BY <1>2, <1>3
<1>5. \A p \in Once : \A i, j \in 1..Len(line') : line'[i] = Asked(p) /\ line'[j] = Asked(p) => i = j
    BY <1>4 DEF AskedOnce, Once
<1>6. \A p \in Perms : (\E i \in 1..Len(line') : line'[i] = Asked(p)) => ToRead(p)
    BY <1>4 DEF ToRead
<1> QED
    BY <1>5, <1>6 DEF AskedOnce, ToRead, Asked, Once

LEMMA AskedLine ==
    ASSUME TypeOK, AskedOnce, NEW q \in Perms, q \in Once => ~ToRead(q), line' = Append(line, Asked(q))
    PROVE  AskedOnce' /\ \A p \in Perms : ToRead(p)' => ToRead(p) \/ p = q
<1> DEFINE Event == [kind : {"asked", "replied"}, perm : Perms]
<1>1. line \in Seq(Event) /\ Asked(q) \in Event
    BY DEF TypeOK, Asked
<1>2. /\ Len(line) \in Nat /\ Len(line') = Len(line) + 1
      /\ \A i \in 1..Len(line) : line'[i] = line[i]
      /\ line'[Len(line) + 1] = Asked(q)
    <2> HIDE DEF Event
    <2> QED
        BY <1>1, AppendProperties, LenProperties
<1>3. \A p \in Perms : Asked(p) = Asked(q) => p = q
    BY DEF Asked
<1>4. q \in Once => \A i \in 1..Len(line) : line[i] # Asked(q)
    BY DEF ToRead
<1>5. \A p \in Perms : \A i \in 1..Len(line') : line'[i] = Asked(p) =>
          (i \in 1..Len(line) /\ line[i] = Asked(p)) \/ (i = Len(line) + 1 /\ p = q)
    BY <1>2, <1>3
<1>6. \A p \in Once : \A i, j \in 1..Len(line') : line'[i] = Asked(p) /\ line'[j] = Asked(p) => i = j
    BY <1>4, <1>5 DEF AskedOnce, Once
<1>7. \A p \in Perms : (\E i \in 1..Len(line') : line'[i] = Asked(p)) => ToRead(p) \/ p = q
    BY <1>5 DEF ToRead
<1> QED
    BY <1>6, <1>7 DEF AskedOnce, ToRead, Asked, Once
-----------------------------------------------------------------------------
(* What a step does to the rest *)

\* A step that adds no card, gives no handler of the session route a
\* permission and lets one succeed only with its card gone.
LEMMA NothingNew ==
    ASSUME AnswerInv,
           \A s \in Sessions : card'[s] = NoCard \/ card'[s] = card[s],
           \A p \in Perms : ToRead(p)' => ToRead(p),
           \A p \in Perms : perm'[p] = "none" =>
               perm[p] = "none" /\ \A h \in Handlers : call'[h].perm = p => call[h].perm = p,
           \A h \in Requests : call'[h].perm = call[h].perm,
           \A h \in Requests : call'[h].pc \in {"sent", "ok"} => call[h].pc \in {"sent", "ok"},
           \A h \in Requests : \A p \in Once :
               call[h].perm = p /\ card'[Home(p)].perm = p /\ call'[h].pc = "ok" => call[h].pc = "ok"
    PROVE  UnaskedUnknown' /\ UnreadUnknown' /\ AnsweringClaims' /\ OneAnswer'
<1>1. \A p \in Perms : Home(p) \in Sessions /\ p # None
    BY PermissionsAssumption DEF Home
<1>2. \A p \in Perms : card'[Home(p)].perm = p => card'[Home(p)] = card[Home(p)]
    BY <1>1 DEF NoCard
<1>3. \A p \in Perms : Home(p)' = Home(p)
    BY DEF Home
<1>4. UnaskedUnknown'
    BY <1>1, <1>2, <1>3 DEF AnswerInv, UnaskedUnknown
<1>5. UnreadUnknown'
    BY <1>1, <1>2, <1>3 DEF AnswerInv, UnreadUnknown, Once
<1>6. AnsweringClaims'
    <2>1. ASSUME NEW h \in Requests, NEW p \in Once,
                 call'[h].pc \in {"sent", "ok"}, call'[h].perm = p, card'[Home(p)].perm = p
          PROVE  call'[h].pc = "sent" /\ card'[Home(p)].claimed
        <3>1. card'[Home(p)] = card[Home(p)]
            BY <1>2, <2>1 DEF Once
        <3>2. call[h].perm = p
            BY <2>1
        <3>3. call[h].pc \in {"sent", "ok"}
            BY <2>1
        <3>4. call[h].pc = "sent" /\ card[Home(p)].claimed
            BY <2>1, <3>1, <3>2, <3>3 DEF AnswerInv, AnsweringClaims
        <3>5. call'[h].pc = "ok" => call[h].pc = "ok"
            BY <2>1, <3>2
        <3>6. call'[h].pc # "ok"
            BY <3>4, <3>5
        <3> QED
            BY <2>1, <3>1, <3>4, <3>6
    <2> QED
        BY <1>3, <2>1 DEF AnsweringClaims, Once
<1>7. OneAnswer'
    BY DEF AnswerInv, OneAnswer
<1> QED
    BY <1>4, <1>5, <1>6, <1>7

\* The card of an announced permission: nobody answers it yet.
LEMMA RecordAnswer ==
    ASSUME AnswerInv, BridgeReads, NEW p \in Perms, Head(line) = Asked(p)
    PROVE  AnswerInv'
<1> USE DEF AnswerInv
<1>1. Record(p) /\ call' = call /\ perm' = perm
    <2>1. Head(line).kind = "asked" /\ Head(line).perm = p
        BY DEF Asked
    <2> QED
        BY <2>1 DEF BridgeReads
<1>2. /\ AskedOnce' /\ ToRead(p) /\ (p \in Once => ~ToRead(p)')
      /\ \A q \in Perms : ToRead(q)' => ToRead(q)
    BY TailLine, HeadToRead DEF BridgeReads
<1>3. perm[p] # "none" /\ (p \in Once => \A h \in Requests : call[h].perm # p)
    BY <1>2 DEF UnaskedUnknown, UnreadUnknown
<1>4. \A q \in Perms : Home(q) \in Sessions /\ q # None /\ Home(q)' = Home(q)
    BY PermissionsAssumption DEF Home
<1>5. \A q \in Perms : q # p /\ card'[Home(q)].perm = q => card'[Home(q)] = card[Home(q)]
    BY <1>1, <1>4, RecordCards DEF NoCard
<1>6. UnaskedUnknown'
    BY <1>1, <1>2, <1>3, <1>4, <1>5 DEF UnaskedUnknown
<1>7. UnreadUnknown'
    BY <1>1, <1>2, <1>4, <1>5 DEF UnreadUnknown, Once
<1>8. AnsweringClaims'
    BY <1>1, <1>3, <1>4, <1>5 DEF AnsweringClaims, Once
<1>9. OneAnswer'
    BY <1>1 DEF OneAnswer
<1> QED
    BY <1>2, <1>6, <1>7, <1>8, <1>9, NextTyped DEF Next

\* A handler that claims a card is the only one with that permission at work.
LEMMA ClaimAnswer ==
    ASSUME AnswerInv, NEW h \in Requests, NEW s \in Sessions, Claim(h, s)
    PROVE  AnswerInv'
<1> USE DEF AnswerInv
<1> DEFINE p == card[s].perm
<1>1. p \in Perms /\ Home(p) = s /\ ~card[s].claimed
    BY DEF Claim, TypeOK
<1>2. /\ card' = [card EXCEPT ![s].claimed = TRUE]
      /\ call' = [call EXCEPT ![h] = [pc |-> "sent", perm |-> p, landed |-> FALSE]]
      /\ line' = line /\ perm' = perm /\ call[h].pc = "idle"
    BY DEF Claim, agent
<1> HIDE DEF p
<1>3. /\ \A x \in Sessions : card'[x].perm = card[x].perm
      /\ \A x \in Sessions : card[x].claimed => card'[x].claimed
      /\ card'[s].claimed
    BY <1>2 DEF TypeOK
<1>4. call'[h].perm = p /\ call'[h].pc = "sent" /\ \A g \in Handlers \ {h} : call'[g] = call[g]
    BY <1>2 DEF TypeOK, Handlers
<1>5. \A q \in Perms : Home(q) \in Sessions /\ Home(q)' = Home(q) /\ (ToRead(q)' <=> ToRead(q))
    BY <1>2, PermissionsAssumption DEF Home, ToRead, Asked
<1>6. AskedOnce'
    BY <1>2 DEF AskedOnce, Asked, Once
<1>7. card[Home(p)].perm = p
    BY <1>1 DEF p
<1>8. (p \in Once => ~ToRead(p)) /\ perm[p] # "none"
    BY <1>1, <1>7 DEF UnreadUnknown, UnaskedUnknown
<1>9. p \in Once => \A g \in Requests : call[g].perm = p => call[g].pc \notin {"sent", "ok"}
    BY <1>1, <1>7 DEF AnsweringClaims
<1>10. UnaskedUnknown'
    BY <1>2, <1>3, <1>4, <1>5, <1>8 DEF UnaskedUnknown
<1>11. UnreadUnknown'
    BY <1>3, <1>4, <1>5, <1>8, PermissionsAssumption DEF UnreadUnknown, Handlers, Once
<1>12. AnsweringClaims'
    <2>1. ASSUME NEW g \in Requests, NEW q \in Once,
                 call'[g].pc \in {"sent", "ok"}, call'[g].perm = q, card'[Home(q)].perm = q
          PROVE  call'[g].pc = "sent" /\ card'[Home(q)].claimed
        <3>1. CASE g = h
            <4>1. q = p /\ call'[g].pc = "sent"
                BY <1>4, <2>1, <3>1
            <4>2. card'[Home(q)].claimed
                BY <1>3, <4>1, <1>1 DEF p
            <4> QED
                BY <4>1, <4>2
        <3>2. CASE g # h
            BY <1>3, <1>4, <1>5, <2>1, <3>2 DEF AnsweringClaims, Handlers, Once
        <3> QED
            BY <3>1, <3>2
    <2> QED
        BY <1>5, <2>1 DEF AnsweringClaims, Once
<1>13. OneAnswer'
    BY <1>1, <1>4, <1>9 DEF OneAnswer, Handlers, Once, p
<1> QED
    BY <1>6, <1>10, <1>11, <1>12, <1>13, NextTyped DEF Next

\* A failed handler was the only one at work, so its card may be claimed anew.
LEMMA FailAnswer ==
    ASSUME AnswerInv, NEW h \in Requests, RespondFails(h)
    PROVE  AnswerInv'
<1> USE DEF AnswerInv
<1> DEFINE p  == call[h].perm
           s0 == Home(p)
<1>1. p \in Perms /\ s0 \in Sessions /\ call[h].pc = "sent"
    BY PermissionsAssumption DEF RespondFails, TypeOK, Handlers, Home
<1>2. /\ call' = [call EXCEPT ![h].pc = "failed"]
      /\ line' = line /\ perm' = perm
      /\ card' = IF card[s0].perm = p THEN [card EXCEPT ![s0].claimed = FALSE] ELSE card
    BY DEF RespondFails, agent
<1> HIDE DEF s0
<1>3. /\ \A x \in Sessions : card'[x].perm = card[x].perm
      /\ \A x \in Sessions : card'[x] = card[x] \/ (x = s0 /\ card[x].perm = p)
    <2>1. CASE card[s0].perm = p
        <3>1. card' = [card EXCEPT ![s0].claimed = FALSE]
            BY <1>2, <2>1
        <3> QED
            BY <1>1, <2>1, <3>1 DEF TypeOK
    <2>2. CASE card[s0].perm # p
        BY <1>2, <2>2
    <2> QED
        BY <2>1, <2>2
<1>4. /\ call'[h].pc = "failed" /\ \A g \in Handlers : call'[g].perm = call[g].perm
      /\ \A g \in Handlers \ {h} : call'[g] = call[g]
    BY <1>2 DEF TypeOK, Handlers
<1>5. \A q \in Perms : Home(q) \in Sessions /\ Home(q)' = Home(q) /\ (ToRead(q)' <=> ToRead(q))
    BY <1>2, PermissionsAssumption DEF Home, ToRead, Asked
<1>6. AskedOnce'
    BY <1>2 DEF AskedOnce, Asked, Once
<1>7. p \in Once => \A g \in Requests \ {h} : call[g].perm = p => call[g].pc \notin {"sent", "ok"}
    BY <1>1 DEF OneAnswer, Once
<1>8. UnaskedUnknown'
    BY <1>2, <1>3, <1>4, <1>5 DEF UnaskedUnknown
<1>9. UnreadUnknown'
    BY <1>3, <1>4, <1>5 DEF UnreadUnknown, Handlers, Once
<1>10. AnsweringClaims'
    <2>1. ASSUME NEW g \in Requests, NEW q \in Once,
                 call'[g].pc \in {"sent", "ok"}, call'[g].perm = q, card'[Home(q)].perm = q
          PROVE  call'[g].pc = "sent" /\ card'[Home(q)].claimed
        <3>1. g # h /\ call'[g] = call[g]
            BY <1>4, <2>1 DEF Handlers
        <3>2. q # p
            BY <1>7, <2>1, <3>1
        <3>3. card'[Home(q)] = card[Home(q)]
            BY <1>3, <1>5, <2>1, <3>2 DEF Once
        <3> QED
            BY <2>1, <3>1, <3>3 DEF AnsweringClaims
    <2> QED
        BY <1>5, <2>1 DEF AnsweringClaims, Once
<1>11. OneAnswer'
    BY <1>4 DEF OneAnswer, Handlers
<1> QED
    BY <1>6, <1>8, <1>9, <1>10, <1>11, NextTyped DEF Next, RespondEnds

LEMMA AnswerStep == AnswerInv /\ [Next]_vars => AnswerInv'
<1> SUFFICES ASSUME AnswerInv, [Next]_vars PROVE AnswerInv'
    OBVIOUS
<1> USE DEF AnswerInv
<1>1. TypeOK'
    BY NextTyped
<1>2. ASSUME line' = line PROVE AskedOnce' /\ \A p \in Perms : ToRead(p)' => ToRead(p)
    BY <1>2 DEF AskedOnce, ToRead, Asked, Once
<1>3. CASE BridgeReads
    <2>1. /\ Head(line) \in [kind : {"asked", "replied"}, perm : Perms]
          /\ call' = call /\ perm' = perm
        BY <1>3, ReadTyped DEF BridgeReads
    <2>2. CASE Head(line).kind = "asked"
        <3>1. Head(line) = Asked(Head(line).perm) /\ Head(line).perm \in Perms
            BY <2>1, <2>2 DEF Asked
        <3> QED
            BY <1>3, <3>1, RecordAnswer
    <2>3. CASE Head(line).kind # "asked"
        <3>1. Clear(Head(line).perm) /\ Head(line).perm \in Perms
            BY <1>3, <2>1, <2>3 DEF BridgeReads
        <3>2. AskedOnce' /\ \A p \in Perms : ToRead(p)' => ToRead(p)
            BY <1>3, TailLine DEF BridgeReads
        <3>3. \A s \in Sessions : card'[s] = NoCard \/ card'[s] = card[s]
            BY <3>1, ClearPermCards
        <3> QED
            BY <1>1, <2>1, <3>2, <3>3, NothingNew DEF Once
    <2> QED
        BY <2>2, <2>3
<1>4. CASE StreamBreaks
    <2>1. AskedOnce' /\ \A p \in Perms : ~ToRead(p)'
        BY <1>4, EmptyLine DEF StreamBreaks
    <2> QED
        BY <1>1, <1>4, <2>1, NothingNew DEF StreamBreaks, store, Once
<1>5. ASSUME NEW r \in Runs, RunEnds(r) PROVE AnswerInv'
    <2>1. SessionOf[r] \in Sessions
        BY PermissionsAssumption
    <2>2. \A s \in Sessions : card'[s] = NoCard \/ card'[s] = card[s]
        BY <1>5, <2>1, ClearCards DEF RunEnds
    <2> QED
        BY <1>1, <1>2, <1>5, <2>2, NothingNew DEF RunEnds, agent, Once
<1>6. ASSUME NEW h \in Requests, NEW s \in Sessions, Claim(h, s) PROVE AnswerInv'
    BY <1>6, ClaimAnswer
<1>7. ASSUME NEW h \in Requests, RespondSucceeds(h) PROVE AnswerInv'
    <2>1. call[h].perm \in Perms /\ call[h].pc = "sent" /\ line' = line /\ perm' = perm
        BY <1>7 DEF RespondSucceeds, TypeOK, Handlers, agent
    <2>2. /\ \A s \in Sessions : card'[s] = NoCard \/ card'[s] = card[s]
          /\ card'[Home(call[h].perm)].perm # call[h].perm
        BY <1>7, <2>1, ClearPermCards DEF RespondSucceeds
    <2>3. /\ \A g \in Handlers : call'[g].perm = call[g].perm
          /\ \A g \in Handlers : g # h => call'[g] = call[g]
        BY <1>7 DEF RespondSucceeds, TypeOK, Handlers
    <2>4. \A g \in Requests : call'[g].pc \in {"sent", "ok"} => call[g].pc \in {"sent", "ok"}
        BY <2>1, <2>3 DEF Handlers
    <2>5. \A g \in Requests : \A p \in Perms :
            call[g].perm = p /\ card'[Home(p)].perm = p /\ call'[g].pc = "ok" => call[g].pc = "ok"
        BY <2>2, <2>3 DEF Handlers
    <2> QED
        BY <1>1, <1>2, <2>1, <2>2, <2>3, <2>4, <2>5, NothingNew DEF Handlers, Once
<1>8. ASSUME NEW h \in Requests, RespondFails(h) PROVE AnswerInv'
    BY <1>8, FailAnswer
<1>9. ASSUME NEW d \in Directs, NEW p \in Perms, DirectCalls(d, p) PROVE AnswerInv'
    <2>1. /\ perm[p] # "none" /\ line' = line /\ perm' = perm /\ card' = card
          /\ call' = [call EXCEPT ![d] = [pc |-> "sent", perm |-> p, landed |-> FALSE]]
        BY <1>9 DEF DirectCalls, agent, store
    <2>2. /\ \A g \in Handlers : g # d => call'[g] = call[g]
          /\ call'[d].perm = p
        BY <2>1 DEF TypeOK, Handlers
    <2>3. \A g \in Requests : g # d /\ g \in Handlers
        BY PermissionsAssumption DEF Handlers
    <2> QED
        BY <1>1, <1>2, <2>1, <2>2, <2>3, NothingNew DEF Once
<1>10. ASSUME NEW d \in Directs, DirectSucceeds(d) \/ DirectFails(d) PROVE AnswerInv'
    <2>1. call[d].perm \in Perms /\ line' = line /\ perm' = perm
        BY <1>10 DEF DirectSucceeds, DirectFails, TypeOK, Handlers, agent
    <2>2. \A s \in Sessions : card'[s] = NoCard \/ card'[s] = card[s]
        BY <1>10, <2>1, ClearPermCards DEF DirectSucceeds, DirectFails, store
    <2>3. /\ \A g \in Handlers : call'[g].perm = call[g].perm
          /\ \A g \in Requests : call'[g] = call[g]
        <3>1. PICK pc \in {"ok", "failed"} : call' = [call EXCEPT ![d].pc = pc]
            BY <1>10 DEF DirectSucceeds, DirectFails
        <3>2. \A g \in Requests : g # d /\ g \in Handlers
            BY PermissionsAssumption DEF Handlers
        <3> QED
            BY <3>1, <3>2 DEF TypeOK
    <2> QED
        BY <1>1, <1>2, <2>1, <2>2, <2>3, NothingNew DEF Once
<1>11. ASSUME NEW p \in Perms, AgentAsks(p) PROVE AnswerInv'
    <2>1. /\ perm[p] = "none" /\ call' = call /\ card' = card
          /\ perm' = [perm EXCEPT ![p] = "open"] /\ line' = Append(line, Asked(p))
        BY <1>11 DEF AgentAsks, store
    <2>2. ~ToRead(p) /\ card[Home(p)].perm # p /\ \A h \in Handlers : call[h].perm # p
        BY <2>1 DEF UnaskedUnknown
    <2>3. AskedOnce' /\ \A q \in Perms : ToRead(q)' => ToRead(q) \/ q = p
        BY <2>1, <2>2, AskedLine
    <2>4. \A q \in Perms : perm'[q] = "none" => q # p /\ perm[q] = "none"
        BY <2>1 DEF TypeOK
    <2>5. \A q \in Perms : Home(q)' = Home(q)
        BY DEF Home
    <2>6. UnaskedUnknown'
        BY <2>1, <2>3, <2>4, <2>5 DEF UnaskedUnknown
    <2>7. UnreadUnknown'
        BY <2>1, <2>2, <2>3, <2>5 DEF UnreadUnknown, Handlers, Once
    <2>8. AnsweringClaims' /\ OneAnswer'
        BY <2>1, <2>5 DEF AnsweringClaims, OneAnswer, Once
    <2> QED
        BY <1>1, <2>3, <2>6, <2>7, <2>8
<1>12. ASSUME NEW p \in Perms, AgentRepeats(p) PROVE AnswerInv'
    <2>1. /\ p \notin Once /\ perm[p] = "open" /\ call' = call /\ card' = card /\ perm' = perm
          /\ line' = Append(line, Asked(p))
        BY <1>12 DEF AgentRepeats, store, Once
    <2>2. AskedOnce' /\ \A q \in Perms : ToRead(q)' => ToRead(q) \/ q = p
        BY <2>1, AskedLine
    <2>3. \A q \in Perms : Home(q)' = Home(q)
        BY DEF Home
    <2>4. UnaskedUnknown'
        BY <2>1, <2>2, <2>3 DEF UnaskedUnknown
    <2>5. UnreadUnknown'
        BY <2>1, <2>2, <2>3 DEF UnreadUnknown, Once
    <2>6. AnsweringClaims' /\ OneAnswer'
        BY <2>1, <2>3 DEF AnsweringClaims, OneAnswer, Once
    <2> QED
        BY <1>1, <2>2, <2>4, <2>5, <2>6
<1>13. ASSUME NEW p \in Perms, AgentResolves(p) PROVE AnswerInv'
    <2>1. /\ call' = call /\ card' = card
          /\ perm' = [perm EXCEPT ![p] = "answered"] /\ line' = Append(line, Replied(p))
        BY <1>13 DEF AgentResolves, store
    <2>2. AskedOnce' /\ \A q \in Perms : ToRead(q)' => ToRead(q)
        BY <2>1, RepliedLine
    <2>3. \A q \in Perms : perm'[q] = "none" => perm[q] = "none"
        BY <2>1 DEF TypeOK
    <2> QED
        BY <1>1, <2>1, <2>2, <2>3, NothingNew DEF Once
<1>14. ASSUME NEW p \in Perms, AgentDrops(p) PROVE AnswerInv'
    <2>1. /\ call' = call /\ card' = card /\ line' = line
          /\ perm' = [perm EXCEPT ![p] = "dropped"]
        BY <1>14 DEF AgentDrops, store
    <2>2. \A q \in Perms : perm'[q] = "none" => perm[q] = "none"
        BY <2>1 DEF TypeOK
    <2> QED
        BY <1>1, <1>2, <2>1, <2>2, NothingNew DEF Once
<1>15. ASSUME NEW h \in Handlers, CallLands(h) PROVE AnswerInv'
    <2>1. /\ call[h].perm \in Perms /\ card' = card
          /\ call' = [call EXCEPT ![h].landed = TRUE]
        BY <1>15 DEF CallLands, TypeOK, store
    <2>2. \A g \in Handlers : call'[g].perm = call[g].perm /\ call'[g].pc = call[g].pc
        BY <2>1 DEF TypeOK
    <2>3. \A g \in Requests : g \in Handlers
        BY DEF Handlers
    <2>4. /\ AskedOnce' /\ \A q \in Perms : ToRead(q)' => ToRead(q)
          /\ \A q \in Perms : perm'[q] = "none" => perm[q] = "none"
        <3>1. CASE perm[call[h].perm] = "open"
            <4>1. /\ perm' = [perm EXCEPT ![call[h].perm] = "answered"]
                  /\ line' = Append(line, Replied(call[h].perm))
                BY <1>15, <3>1 DEF CallLands
            <4> QED
                BY <2>1, <4>1, RepliedLine DEF TypeOK
        <3>2. CASE perm[call[h].perm] # "open"
            BY <1>2, <1>15, <3>2 DEF CallLands
        <3> QED
            BY <3>1, <3>2
    <2> QED
        BY <1>1, <2>1, <2>2, <2>3, <2>4, NothingNew DEF Once
<1>16. CASE UNCHANGED vars
    BY <1>1, <1>2, <1>16, NothingNew DEF vars, Once
<1> QED
    BY <1>3, <1>4, <1>5, <1>6, <1>7, <1>8, <1>9, <1>10, <1>11, <1>12, <1>13, <1>14, <1>15, <1>16
    DEF Next, RespondEnds, DirectEnds

LEMMA InitAnswers == Init => AnswerInv
<1>1. ASSUME Init PROVE AskedOnce /\ UnaskedUnknown /\ UnreadUnknown /\ AnsweringClaims /\ OneAnswer
    <2>1. \A p \in Perms : Home(p) \in Sessions /\ p # None
        BY PermissionsAssumption DEF Home
    <2> QED
        BY <1>1, <2>1 DEF Init, AskedOnce, UnaskedUnknown, UnreadUnknown, AnsweringClaims, OneAnswer,
               ToRead, NoCard, Handlers, Once
<1> QED
    BY <1>1, InitTyped DEF AnswerInv

\* A permission that OpenCode announces once is answered once: evictions, lost
\* events, failed calls, direct answers and repeated others do not matter.
THEOREM AnsweredOnce == Spec => []OneAnswer
<1>1. Init => AnswerInv
    BY InitAnswers
<1>2. AnswerInv /\ [Next]_vars => AnswerInv'
    BY AnswerStep
<1>3. AnswerInv => OneAnswer
    BY DEF AnswerInv
<1> QED
    BY <1>1, <1>2, <1>3, PTL DEF Spec
-----------------------------------------------------------------------------
(***************************************************************************)
(* The card of a permission that waits survives: an announced resolution   *)
(* and a call that landed are of permissions that wait no more, and only a *)
(* store that is full has its oldest card taken.                           *)
(***************************************************************************)
OrderBounded == order \in Seq(Sessions) /\ Len(order) <= MaxSessions

Over(p) == perm[p] \in {"answered", "dropped"}

RepliedIsOver == \A i \in 1..Len(line) : line[i].kind = "replied" => Over(line[i].perm)

LandedIsOver ==
    \A h \in Handlers : call[h].landed => call[h].perm \in Perms /\ Over(call[h].perm)

SurvivalInv == AnswerInv /\ OrderBounded /\ RepliedIsOver /\ LandedIsOver

\* A session that leaves the order shortens it by one.
LEMMA WithoutShortens ==
    ASSUME OrderBounded, NEW s \in Sessions
    PROVE  /\ Without(s) \in Seq(Sessions)
           /\ Without(s) = order \/ Len(Without(s)) = Len(order) - 1
<1>1. order \in Seq(Sessions) /\ Len(order) \in Nat /\ DOMAIN order = 1..Len(order)
    BY LenProperties DEF OrderBounded
<1>2. \A i \in 1..Len(order) : order[i] \in Sessions
    BY <1>1, ElementOfSeq
<1>3. CASE \E i \in DOMAIN order : order[i] = s
    <2> DEFINE k    == CHOOSE i \in DOMAIN order : order[i] = s
               n    == Len(order)
               head == SubSeq(order, 1, k - 1)
               rest == SubSeq(order, k + 1, n)
    <2>1. k \in 1..n
        BY <1>1, <1>3
    <2>2. Without(s) = head \o rest
        BY <1>3 DEF Without, RemoveAt
    <2> HIDE DEF k
    <2>3. n \in Nat /\ k \in Nat /\ 1 <= k /\ k <= n
        BY <1>1, <2>1
    <2>4. \A i \in 1..n : order[i] \in Sessions
        BY <1>2
    <2> HIDE DEF n
    <2>5. head \in Seq(Sessions) /\ Len(head) = k - 1
        <3>1. \A i \in 1..(k - 1) : order[i] \in Sessions
            BY <2>3, <2>4
        <3>2. k - 1 \in Int /\ 1 \in Int
            BY <2>3
        <3>3. head \in Seq(Sessions) /\ Len(head) = IF 1 <= k - 1 THEN (k - 1) - 1 + 1 ELSE 0
            BY ONLY <3>1, <3>2, SubSeqProperties
        <3> QED
            BY <2>3, <3>3
    <2>6. rest \in Seq(Sessions) /\ Len(rest) = n - k
        <3>1. \A i \in (k + 1)..n : order[i] \in Sessions
            BY <2>3, <2>4
        <3>2. k + 1 \in Int /\ n \in Int
            BY <2>3
        <3>3. rest \in Seq(Sessions) /\ Len(rest) = IF k + 1 <= n THEN n - (k + 1) + 1 ELSE 0
            BY ONLY <3>1, <3>2, SubSeqProperties
        <3> QED
            BY <2>3, <3>3
    <2> HIDE DEF head, rest
    <2>7. head \o rest \in Seq(Sessions) /\ Len(head \o rest) = Len(head) + Len(rest)
        BY ONLY <2>5, <2>6, ConcatProperties
    <2>8. Len(head \o rest) = n - 1
        BY <2>3, <2>5, <2>6, <2>7
    <2> QED
        BY <2>2, <2>7, <2>8 DEF n
<1>4. CASE ~ \E i \in DOMAIN order : order[i] = s
    BY <1>1, <1>4 DEF Without
<1> QED
    BY <1>3, <1>4

\* A new card: if another goes for it, the store was full and that was its oldest.
LEMMA RecordOrder ==
    ASSUME TypeOK, OrderBounded, NEW p \in Perms, Record(p)
    PROVE  /\ OrderBounded'
           /\ \A s \in Sessions : card[s].perm # None /\ card'[s].perm = None =>
                Len(order) = MaxSessions /\ order[1] = s /\ Len(order') = MaxSessions
<1> DEFINE s0     == Home(p)
           new    == [card EXCEPT ![s0] = [perm |-> p, claimed |-> @.perm = p /\ @.claimed]]
           gone   == Without(s0)
           latest == Append(gone, s0)
<1>1. /\ s0 \in Sessions /\ p # None
      /\ card \in [Sessions -> [perm : Perms \cup {None}, claimed : BOOLEAN]]
      /\ MaxSessions \in Nat /\ MaxSessions > 0
    BY PermissionsAssumption DEF Home, TypeOK
<1>2. /\ gone \in Seq(Sessions)
      /\ gone = order \/ Len(gone) = Len(order) - 1
    BY <1>1, WithoutShortens
<1>3. order \in Seq(Sessions) /\ Len(order) <= MaxSessions /\ Len(order) \in Nat
    BY LenProperties DEF OrderBounded
<1>4. IF Len(latest) > MaxSessions
      THEN card' = [new EXCEPT ![Head(latest)] = NoCard] /\ order' = Tail(latest)
      ELSE card' = new /\ order' = latest
    BY DEF Record
<1>5. \A s \in Sessions : new[s].perm = None => card[s].perm = None
    <2>1. \A s \in Sessions : s # s0 => new[s] = card[s]
        BY <1>1
    <2>2. new[s0].perm = p
        BY <1>1
    <2> QED
        BY <1>1, <2>1, <2>2
<1>6. DOMAIN new = Sessions
    BY <1>1
<1> HIDE DEF new, gone
<1>7. /\ latest \in Seq(Sessions) /\ latest # <<>>
      /\ Len(latest) = Len(gone) + 1
      /\ latest[1] = IF gone = <<>> THEN s0 ELSE gone[1]
      /\ Len(gone) \in Nat /\ gone # <<>> <=> Len(gone) > 0
    <2>1. Len(gone) \in Nat /\ (gone # <<>> <=> Len(gone) > 0)
        BY <1>2, LenProperties, EmptySeq
    <2>2. /\ latest \in Seq(Sessions) /\ latest # <<>> /\ Len(latest) = Len(gone) + 1
          /\ \A i \in 1..Len(gone) : latest[i] = gone[i]
          /\ latest[Len(gone) + 1] = s0
        <3> HIDE DEF s0
        <3> QED
            BY <1>1, <1>2, AppendProperties
    <2>3. CASE gone = <<>>
        BY <2>1, <2>2, <2>3
    <2>4. CASE gone # <<>>
        BY <2>1, <2>2, <2>4
    <2> QED
        BY <2>1, <2>2, <2>3, <2>4
<1>8. Tail(latest) \in Seq(Sessions) /\ Len(Tail(latest)) = Len(gone) /\ Head(latest) = latest[1]
    <2>1. /\ Tail(latest) \in Seq(Sessions) /\ Len(Tail(latest)) = Len(latest) - 1
          /\ Head(latest) = latest[1]
        <3> HIDE DEF latest
        <3> QED
            BY <1>7, HeadTailProperties
    <2> QED
        BY <1>7, <2>1
<1> HIDE DEF latest
<1>9. CASE Len(latest) > MaxSessions
    <2>1. card' = [new EXCEPT ![Head(latest)] = NoCard] /\ order' = Tail(latest)
        BY <1>4, <1>9
    <2>2. gone = order /\ Len(gone) = MaxSessions
        BY <1>1, <1>2, <1>3, <1>7, <1>9
    <2>3. Head(latest) = order[1]
        BY <1>1, <1>7, <1>8, <2>2
    <2>4. \A s \in Sessions : s # order[1] => card'[s] = new[s]
        BY <1>6, <2>1, <2>3
    <2>5. OrderBounded' /\ Len(order') = MaxSessions
        BY <1>1, <1>8, <2>1, <2>2 DEF OrderBounded
    <2> QED
        BY <1>5, <2>2, <2>4, <2>5
<1>10. CASE ~ Len(latest) > MaxSessions
    <2>1. card' = new /\ order' = latest
        BY <1>4, <1>10
    <2>2. Len(latest) <= MaxSessions
        BY <1>1, <1>7, <1>10
    <2> QED
        BY <1>5, <1>7, <2>1, <2>2 DEF OrderBounded
<1> QED
    BY <1>9, <1>10

\* A resolution clears the card of its permission and no other.
LEMMA ClearOrder ==
    ASSUME TypeOK, OrderBounded, NEW p \in Perms, Clear(p)
    PROVE  /\ OrderBounded'
           /\ \A s \in Sessions : card'[s] = card[s] \/ card[s].perm = p
<1>1. Home(p) \in Sessions
    BY PermissionsAssumption DEF Home
<1>2. CASE card[Home(p)].perm = p
    <2>1. ClearAny(Home(p))
        BY <1>2 DEF Clear
    <2>2. order' = Without(Home(p))
        BY <2>1 DEF ClearAny
    <2>3. OrderBounded'
        <3>1. /\ Without(Home(p)) \in Seq(Sessions)
              /\ Without(Home(p)) = order \/ Len(Without(Home(p))) = Len(order) - 1
            BY <1>1, WithoutShortens
        <3>2. Len(order) \in Nat /\ Len(order) <= MaxSessions /\ MaxSessions \in Nat
            BY LenProperties, PermissionsAssumption DEF OrderBounded
        <3>3. Len(Without(Home(p))) <= MaxSessions
            BY <3>1, <3>2
        <3> QED
            BY <2>2, <3>1, <3>3 DEF OrderBounded
    <2>4. \A s \in Sessions : s # Home(p) => card'[s] = card[s]
        BY <2>1 DEF ClearAny, TypeOK
    <2> QED
        BY <1>2, <2>3, <2>4
<1>3. CASE card[Home(p)].perm # p
    BY <1>3 DEF Clear, store, OrderBounded
<1> QED
    BY <1>2, <1>3

LEMMA RunEndOrder ==
    ASSUME TypeOK, OrderBounded, NEW s \in Sessions, ClearAny(s)
    PROVE  OrderBounded' /\ \A x \in Sessions : x # s => card'[x] = card[x]
<1>1. order' = Without(s)
    BY DEF ClearAny
<1>2. /\ Without(s) \in Seq(Sessions)
      /\ Without(s) = order \/ Len(Without(s)) = Len(order) - 1
    BY WithoutShortens
<1>3. Len(order) \in Nat /\ Len(order) <= MaxSessions /\ MaxSessions \in Nat
    BY LenProperties, PermissionsAssumption DEF OrderBounded
<1>4. Len(Without(s)) <= MaxSessions
    BY <1>2, <1>3
<1>5. \A x \in Sessions : x # s => card'[x] = card[x]
    BY DEF ClearAny, TypeOK
<1> QED
    BY <1>1, <1>2, <1>4, <1>5 DEF OrderBounded

\* An agent that has answered or dropped a permission has done so for good.
LEMMA OverStays ==
    ASSUME TypeOK, [Next]_vars, NEW p \in Perms, Over(p)
    PROVE  Over(p)'
<1> USE DEF TypeOK, Over
<1>1. CASE perm' = perm
    BY <1>1
<1>2. ASSUME NEW q \in Perms, AgentAsks(q) \/ AgentResolves(q) \/ AgentDrops(q) PROVE Over(p)'
    BY <1>2 DEF AgentAsks, AgentResolves, AgentDrops
<1>3. ASSUME NEW h \in Handlers, CallLands(h) PROVE Over(p)'
    BY <1>3 DEF CallLands
<1>4. ASSUME NEW h \in Handlers, RespondEnds(h) \/ DirectEnds(h) PROVE perm' = perm
    BY <1>4 DEF RespondEnds, DirectEnds, RespondSucceeds, RespondFails, DirectSucceeds, DirectFails, agent
<1> QED
    BY <1>1, <1>2, <1>3, <1>4
    DEF Next, vars, BridgeReads, StreamBreaks, RunEnds, Claim, DirectCalls, AgentRepeats, agent, Handlers

\* Every event was there before, or announces a request or an answer.
LEMMA LineMoves ==
    ASSUME AnswerInv, RepliedIsOver, [Next]_vars
    PROVE  RepliedIsOver'
<1> DEFINE Event == [kind : {"asked", "replied"}, perm : Perms]
<1>1. TypeOK /\ line \in Seq(Event) /\ Len(line) \in Nat
    BY LenProperties DEF AnswerInv, TypeOK
<1>2. \A i \in 1..Len(line) : line[i] \in Event
    <2> HIDE DEF Event
    <2> QED
        BY <1>1, ElementOfSeq
<1>3. ASSUME line' = line PROVE RepliedIsOver'
    BY <1>1, <1>2, <1>3, OverStays DEF RepliedIsOver, Over
<1>4. ASSUME NEW e \in Event, line' = Append(line, e), e.kind = "replied" => Over(e.perm)'
      PROVE  RepliedIsOver'
    <2>1. /\ Len(line') = Len(line) + 1
          /\ \A i \in 1..Len(line) : line'[i] = line[i]
          /\ line'[Len(line) + 1] = e
        <3> HIDE DEF Event
        <3> QED
            BY <1>1, <1>4, AppendProperties
    <2>2. \A i \in 1..Len(line') : i \in 1..Len(line) \/ i = Len(line) + 1
        BY <1>1, <2>1
    <2> QED
        BY <1>1, <1>2, <1>4, <2>1, <2>2, OverStays DEF RepliedIsOver, Over
<1>5. ASSUME NEW p \in Perms
      PROVE  /\ Asked(p) \in Event /\ Asked(p).kind # "replied"
             /\ Replied(p) \in Event /\ Replied(p).perm = p
    BY DEF Asked, Replied
<1>6. CASE BridgeReads
    <2>1. line # <<>> /\ line' = Tail(line)
        BY <1>6 DEF BridgeReads
    <2>2. /\ Len(line') = Len(line) - 1
          /\ \A i \in 1..Len(line') : line'[i] = line[i + 1]
        <3> HIDE DEF Event
        <3> QED
            BY <1>1, <2>1, HeadTailProperties
    <2>3. \A i \in 1..Len(line') : i + 1 \in 1..Len(line)
        BY <1>1, <2>2
    <2> QED
        BY <1>1, <1>2, <2>2, <2>3, OverStays DEF RepliedIsOver, Over
<1>7. CASE StreamBreaks
    BY <1>7 DEF StreamBreaks, RepliedIsOver
<1>8. ASSUME NEW p \in Perms, AgentAsks(p) \/ AgentRepeats(p) PROVE RepliedIsOver'
    <2>1. line' = Append(line, Asked(p))
        BY <1>8 DEF AgentAsks, AgentRepeats
    <2> QED
        BY <1>4, <1>5, <2>1
<1>9. ASSUME NEW p \in Perms, AgentResolves(p) PROVE RepliedIsOver'
    <2>1. line' = Append(line, Replied(p)) /\ perm'[p] = "answered"
        BY <1>1, <1>9 DEF AgentResolves, TypeOK
    <2> QED
        BY <1>4, <1>5, <2>1 DEF Over
<1>10. ASSUME NEW h \in Handlers, CallLands(h) PROVE RepliedIsOver'
    <2>1. CASE perm[call[h].perm] = "open"
        <3>1. call[h].perm \in Perms
            BY <1>1, <1>10 DEF CallLands, TypeOK
        <3>2. line' = Append(line, Replied(call[h].perm)) /\ perm'[call[h].perm] = "answered"
            BY <1>1, <1>10, <2>1, <3>1 DEF CallLands, TypeOK
        <3> QED
            BY <1>4, <1>5, <3>1, <3>2 DEF Over
    <2>2. CASE perm[call[h].perm] # "open"
        BY <1>3, <1>10, <2>2 DEF CallLands
    <2> QED
        BY <2>1, <2>2
<1>11. ASSUME NEW h \in Handlers, RespondEnds(h) \/ DirectEnds(h) PROVE line' = line
    BY <1>11 DEF RespondEnds, DirectEnds, RespondSucceeds, RespondFails, DirectSucceeds, DirectFails, agent
<1> QED
    BY <1>3, <1>6, <1>7, <1>8, <1>9, <1>10, <1>11
    DEF Next, vars, RunEnds, Claim, DirectCalls, AgentDrops, agent, Handlers

\* A response lands when its permission was asked, and is the end of the wait.
LEMMA LandingMoves ==
    ASSUME AnswerInv, LandedIsOver, [Next]_vars
    PROVE  LandedIsOver'
<1> DEFINE Kept(h) == call'[h].landed => call[h].landed /\ call'[h].perm = call[h].perm
<1>1. TypeOK /\ \A h \in Handlers : call[h] \in CallRecord
    BY DEF AnswerInv, TypeOK, CallRecord
<1>2. ASSUME NEW h \in Handlers, Kept(h)
      PROVE  call'[h].landed => call'[h].perm \in Perms /\ perm'[call'[h].perm] \in {"answered", "dropped"}
    <2>1. CASE call'[h].landed
        <3>1. call[h].perm \in Perms /\ Over(call[h].perm) /\ call'[h].perm = call[h].perm
            BY <1>2, <2>1 DEF LandedIsOver
        <3>2. Over(call[h].perm)'
            BY <1>1, <3>1, OverStays
        <3>3. perm'[call'[h].perm] \in {"answered", "dropped"}
            BY <3>1, <3>2 DEF Over
        <3> QED
            BY <3>1, <3>3
    <2> QED
        BY <2>1
<1>3. CASE call' = call
    BY <1>2, <1>3 DEF LandedIsOver, Over
<1>4. ASSUME \A h \in Handlers : Kept(h) PROVE LandedIsOver'
    BY <1>2, <1>4 DEF LandedIsOver, Over
<1>5. ASSUME NEW h \in Handlers, NEW q, call' = [call EXCEPT ![h].pc = q] PROVE LandedIsOver'
    <2>1. \A x \in Handlers : call'[x].landed = call[x].landed /\ call'[x].perm = call[x].perm
        BY <1>1, <1>5 DEF TypeOK, CallRecord
    <2> QED
        BY <1>4, <2>1
<1>6. ASSUME NEW h \in Handlers, NEW p,
             call' = [call EXCEPT ![h] = [pc |-> "sent", perm |-> p, landed |-> FALSE]]
      PROVE  LandedIsOver'
    <2>1. \A x \in Handlers : x # h => call'[x] = call[x]
        BY <1>1, <1>6 DEF TypeOK
    <2>2. ~call'[h].landed
        BY <1>1, <1>6 DEF TypeOK
    <2> QED
        BY <1>4, <2>1, <2>2
<1>7. ASSUME NEW h \in Handlers, CallLands(h) PROVE LandedIsOver'
    <2> DEFINE p == call[h].perm
    <2>1. call[h].pc # "idle" /\ call' = [call EXCEPT ![h].landed = TRUE]
        BY <1>7 DEF CallLands
    <2>2. p \in Perms
        BY <1>1, <2>1, CallOf
    <2>3. \A x \in Handlers : x # h => call'[x] = call[x]
        BY <1>1, <2>1 DEF TypeOK
    <2>4. call'[h].perm = p
        BY <1>1, <2>1 DEF TypeOK, CallRecord
    <2>5. perm[p] # "none"
        BY <2>2 DEF AnswerInv, UnaskedUnknown
    <2>6. perm'[p] \in {"answered", "dropped"}
        <3>1. perm \in [Perms -> {"none", "open", "answered", "dropped"}]
            BY <1>1 DEF TypeOK
        <3>2. IF perm[p] = "open" THEN perm' = [perm EXCEPT ![p] = "answered"] ELSE perm' = perm
            BY <1>7 DEF CallLands
        <3> QED
            BY <2>2, <2>5, <3>1, <3>2
    <2>7. ASSUME NEW x \in Handlers
          PROVE  call'[x].landed => call'[x].perm \in Perms /\ perm'[call'[x].perm] \in {"answered", "dropped"}
        <3>1. CASE x = h
            BY <2>2, <2>4, <2>6, <3>1
        <3>2. CASE x # h
            <4>1. Kept(x)
                BY <2>3, <3>2
            <4> QED
                BY <1>2, <4>1
        <3> QED
            BY <3>1, <3>2
    <2> QED
        BY <2>7 DEF LandedIsOver, Over
<1>8. ASSUME NEW h \in Requests, RespondEnds(h) PROVE LandedIsOver'
    <2>1. h \in Handlers
        BY DEF Handlers
    <2>2. \E q \in {"ok", "failed"} : call' = [call EXCEPT ![h].pc = q]
        BY <1>8 DEF RespondEnds, RespondSucceeds, RespondFails
    <2> QED
        BY <1>5, <2>1, <2>2
<1>9. ASSUME NEW d \in Directs, DirectEnds(d) PROVE LandedIsOver'
    <2>1. d \in Handlers
        BY DEF Handlers
    <2>2. \E q \in {"ok", "failed"} : call' = [call EXCEPT ![d].pc = q]
        BY <1>9 DEF DirectEnds, DirectSucceeds, DirectFails
    <2> QED
        BY <1>5, <2>1, <2>2
<1>10. ASSUME NEW h \in Requests, NEW s \in Sessions, Claim(h, s) PROVE LandedIsOver'
    <2>1. h \in Handlers
        BY DEF Handlers
    <2> QED
        BY <1>6, <1>10, <2>1 DEF Claim
<1>11. ASSUME NEW d \in Directs, NEW p \in Perms, DirectCalls(d, p) PROVE LandedIsOver'
    <2>1. d \in Handlers
        BY DEF Handlers
    <2> QED
        BY <1>6, <1>11, <2>1 DEF DirectCalls
<1> QED
    BY <1>3, <1>7, <1>8, <1>9, <1>10, <1>11
    DEF Next, vars, BridgeReads, StreamBreaks, RunEnds, AgentAsks, AgentRepeats, AgentResolves, AgentDrops

\* What a step does to the cards of permissions that still wait.
LEMMA CardMoves ==
    ASSUME SurvivalInv, [Next]_vars
    PROVE  /\ OrderBounded'
           /\ \A s \in Sessions :
                card[s].perm # None /\ perm[card[s].perm] = "open" /\ card'[s].perm = None =>
                    \/ \E r \in over' \ over : SessionOf[r] = s
                    \/ Len(order) = MaxSessions /\ order[1] = s /\ Len(order') = MaxSessions
<1> DEFINE Survives(s) ==
             card[s].perm # None /\ perm[card[s].perm] = "open" /\ card'[s].perm = None =>
                 \/ \E r \in over' \ over : SessionOf[r] = s
                 \/ Len(order) = MaxSessions /\ order[1] = s /\ Len(order') = MaxSessions
<1>1. TypeOK /\ AnswerInv /\ OrderBounded /\ RepliedIsOver /\ LandedIsOver
    BY DEF SurvivalInv, AnswerInv
<1>2. ASSUME UNCHANGED store PROVE OrderBounded' /\ \A s \in Sessions : Survives(s)
    BY <1>1, <1>2 DEF store, OrderBounded
<1>3. ASSUME NEW p \in Perms, Over(p), Clear(p) PROVE OrderBounded' /\ \A s \in Sessions : Survives(s)
    <2>1. OrderBounded' /\ \A s \in Sessions : card'[s] = card[s] \/ card[s].perm = p
        BY <1>1, <1>3, ClearOrder
    <2>2. perm[p] # "open"
        BY <1>3 DEF Over
    <2> QED
        BY <2>1, <2>2
<1>4. CASE BridgeReads
    <2> DEFINE e == Head(line)
    <2>1. e \in [kind : {"asked", "replied"}, perm : Perms] /\ line # <<>>
        BY <1>1, <1>4, ReadTyped DEF BridgeReads
    <2>2. CASE e.kind = "asked"
        <3>1. Record(e.perm) /\ e.perm \in Perms
            BY <1>4, <2>1, <2>2 DEF BridgeReads
        <3> HIDE DEF e
        <3> QED
            BY <1>1, <3>1, RecordOrder
    <2>3. CASE e.kind # "asked"
        <3>1. Clear(e.perm) /\ e.perm \in Perms /\ e.kind = "replied"
            BY <1>4, <2>1, <2>3 DEF BridgeReads
        <3>2. e = line[1] /\ 1 \in 1..Len(line)
            <4> DEFINE Event == [kind : {"asked", "replied"}, perm : Perms]
            <4>1. line \in Seq(Event)
                BY <1>1 DEF TypeOK
            <4> HIDE DEF Event
            <4>2. Len(line) \in Nat /\ Len(line) # 0
                BY <2>1, <4>1, LenProperties, EmptySeq
            <4>3. e = line[1]
                BY <2>1, <4>1, HeadTailProperties
            <4> QED
                BY <4>2, <4>3
        <3>3. Over(e.perm)
            BY <1>1, <3>1, <3>2 DEF RepliedIsOver
        <3> HIDE DEF e
        <3> QED
            BY <1>3, <3>1, <3>3
    <2> QED
        BY <2>2, <2>3
<1>5. ASSUME NEW r \in Runs, RunEnds(r) PROVE OrderBounded' /\ \A s \in Sessions : Survives(s)
    <2>1. SessionOf[r] \in Sessions
        BY PermissionsAssumption
    <2>2. OrderBounded' /\ \A s \in Sessions : s # SessionOf[r] => card'[s] = card[s]
        BY <1>1, <1>5, <2>1, RunEndOrder DEF RunEnds
    <2>3. r \in over' \ over
        BY <1>5 DEF RunEnds
    <2> QED
        BY <2>2, <2>3
<1>6. ASSUME NEW h \in Requests, RespondSucceeds(h) PROVE OrderBounded' /\ \A s \in Sessions : Survives(s)
    <2>1. Clear(call[h].perm) /\ call[h].landed /\ h \in Handlers
        BY <1>6 DEF RespondSucceeds, Handlers
    <2>2. call[h].perm \in Perms /\ Over(call[h].perm)
        BY <1>1, <2>1 DEF LandedIsOver
    <2> QED
        BY <1>3, <2>1, <2>2
<1>7. ASSUME NEW d \in Directs, DirectSucceeds(d) PROVE OrderBounded' /\ \A s \in Sessions : Survives(s)
    <2>1. (Clear(call[d].perm) \/ UNCHANGED store) /\ call[d].landed /\ d \in Handlers
        BY <1>7 DEF DirectSucceeds, Handlers
    <2>2. call[d].perm \in Perms /\ Over(call[d].perm)
        BY <1>1, <2>1 DEF LandedIsOver
    <2> QED
        BY <1>2, <1>3, <2>1, <2>2
<1>8. ASSUME NEW s \in Sessions, NEW c \in BOOLEAN, order' = order,
             card' = [card EXCEPT ![s].claimed = c]
      PROVE  OrderBounded' /\ \A x \in Sessions : Survives(x)
    <2>1. \A x \in Sessions : card'[x].perm = card[x].perm
        BY <1>1, <1>8 DEF TypeOK
    <2> QED
        BY <1>1, <1>8, <2>1 DEF OrderBounded
<1>9. ASSUME NEW h \in Requests, RespondFails(h) PROVE OrderBounded' /\ \A s \in Sessions : Survives(s)
    <2> DEFINE s == Home(call[h].perm)
    <2>1. order' = order /\ card' = IF card[s].perm = call[h].perm THEN [card EXCEPT ![s].claimed = FALSE] ELSE card
        BY <1>9 DEF RespondFails
    <2>2. s \in Sessions
        <3>1. call[h].perm \in Perms
            BY <1>1, <1>9, CallOf DEF RespondFails, Handlers
        <3> QED
            BY <3>1, PermissionsAssumption DEF Home
    <2> HIDE DEF s
    <2>3. CASE card[s].perm = call[h].perm
        BY <1>8, <2>1, <2>2, <2>3
    <2>4. CASE card[s].perm # call[h].perm
        BY <1>2, <2>1, <2>4 DEF store
    <2> QED
        BY <2>3, <2>4
<1>10. ASSUME NEW h \in Requests, NEW s \in Sessions, Claim(h, s)
       PROVE  OrderBounded' /\ \A x \in Sessions : Survives(x)
    BY <1>8, <1>10 DEF Claim
<1>11. ASSUME NEW d \in Directs, DirectFails(d) PROVE UNCHANGED store
    BY <1>11 DEF DirectFails
<1> QED
    BY <1>2, <1>4, <1>5, <1>6, <1>7, <1>9, <1>10, <1>11
    DEF Next, vars, store, RespondEnds, DirectEnds, StreamBreaks, DirectCalls,
        AgentAsks, AgentRepeats, AgentResolves, AgentDrops, CallLands

LEMMA SurvivalStep == SurvivalInv /\ [Next]_vars => SurvivalInv'
BY AnswerStep, CardMoves, LineMoves, LandingMoves DEF SurvivalInv

\* The card of a permission that still waits goes only for a newer one, with
\* the end of a run of its session, or as the oldest of a full store: neither a
\* resolution nor an answer of another permission takes it.
THEOREM CardsSurvive == Spec => CardSurvives
<1>1. Init => SurvivalInv
    <2>1. ASSUME Init PROVE OrderBounded /\ RepliedIsOver /\ LandedIsOver
        <3>1. <<>> \in Seq(Sessions) /\ Len(<<>>) = 0
            BY EmptySeq
        <3>2. MaxSessions \in Nat
            BY PermissionsAssumption
        <3> QED
            BY <2>1, <3>1, <3>2 DEF Init, OrderBounded, RepliedIsOver, LandedIsOver
    <2> QED
        BY <2>1, InitAnswers DEF SurvivalInv
<1>2. SurvivalInv /\ [Next]_vars => SurvivalInv'
    BY SurvivalStep
<1>3. SurvivalInv /\ [Next]_vars =>
        [\A s \in Sessions :
             card[s].perm # None /\ perm[card[s].perm] = "open" /\ card'[s].perm = None =>
                 \/ \E r \in over' \ over : SessionOf[r] = s
                 \/ Len(order) = MaxSessions /\ order[1] = s /\ Len(order') = MaxSessions]_vars
    BY CardMoves
<1> QED
    BY <1>1, <1>2, <1>3, PTL DEF Spec, CardSurvives
=============================================================================
