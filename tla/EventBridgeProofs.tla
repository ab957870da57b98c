-------------------------- MODULE EventBridgeProofs -------------------------
(***************************************************************************)
(* That events find their requests and their listeners, for any number of  *)
(* requests, sessions and clients, however long OpenCode's stream.         *)
(***************************************************************************)
EXTENDS EventBridge, SequenceTheorems, FiniteSetTheorems, TLAPS

-----------------------------------------------------------------------------
(* The inductive invariant *)

\* What OpenCode has of a request was sent by it, and the bridge reads of what
\* OpenCode has.
Begun(e, prompts, answered) ==
  e.cause \in (IF e.about = "prompt" THEN prompts ELSE answered)

SentBefore ==
  /\ \A r \in landed : at[r] \in {"sent", "done", "failed"}
  /\ \A r \in landed : byMessage[<<"prompt", r>>] # None
  /\ \A c \in Chats : at[c] = "done" => c \in replied
  /\ \A i \in DOMAIN line : Begun(line[i], landed, replied)
  /\ hand # None => Begun(hand, landed, replied)

\* Requests that end in a way that leaves their answers to the session's active one.
Open(r) ==
  \/ at[r] \in {"bound", "sent", "failed"}
  \/ r \in Tasks /\ at[r] = "done"

\* A prompt is bound to its own request once the request is sent.
PromptBound ==
  \A r \in Requests :
    /\ byMessage[<<"prompt", r>>] \in {None, r}
    /\ at[r] \in {"sent", "failed"} \/ (r \in Tasks /\ at[r] = "done")
         => byMessage[<<"prompt", r>>] = r

\* Nobody is at work beside a request that can be told apart and is not settled.
Alone ==
  \A r \in Requests \ mixed : \A q \in Neighbours(r) :
    at[q] \in Unfinished => ~Open(r) /\ at[r] # "accepted"

\* The session is that request's.
ActiveIsOpen ==
  \A r \in Requests \ mixed : Open(r) => active[SessionOf[r]] = r

\* Its reply is bound to nobody else, and to itself once it is done;
ReplyBound ==
  \A r \in Requests \ mixed :
    /\ byMessage[<<"reply", r>>] \in {None, r}
    /\ r \in Chats /\ at[r] = "done" => byMessage[<<"reply", r>>] = r

\* and a chat that works later has seen it.
SeenBefore ==
  \A c \in Chats : at[c] = "sent" =>
    \A r \in Chats \ mixed : SessionOf[r] = SessionOf[c] /\ at[r] = "done" => r \in before[c]

IInv == /\ TypeOK /\ SentBefore /\ PromptBound /\ Alone /\ ActiveIsOpen /\ ReplyBound
        /\ SeenBefore /\ ToItsRequest

-----------------------------------------------------------------------------
(* Constants and small facts *)

LEMMA Kinds ==
  /\ Chats \cap Tasks = {} /\ None \notin Requests
  /\ \A r \in Requests : r \in Chats \/ r \in Tasks
  /\ \A r \in Requests : SessionOf[r] \in Sessions
  /\ \A r \in Requests : <<"prompt", r>> \in Messages /\ <<"reply", r>> \in Messages
BY EventBusAssumption DEF Requests, Sessions, Messages

\* Where an event goes that the bridge reads now.
LEMMA Found ==
  ASSUME IInv, NEW e \in RawEvents, Begun(e, landed, replied)
  PROVE  Attributed(e) \in Events /\ AtItsRequest(Attributed(e), mixed)
<1>1. e.cause \in Requests /\ e.about \in Subjects
  BY DEF RawEvents
<1>2. e.cause \in landed
  BY DEF Begun, IInv, TypeOK
<1>3. at[e.cause] \in {"sent", "done", "failed"} /\ byMessage[<<"prompt", e.cause>>] = e.cause
  BY <1>1, <1>2 DEF IInv, SentBefore, PromptBound
<1>4. Resolved(e) \in Requests \cup {None}
  <2>1. MessageOf(e) \in Messages
    BY <1>1 DEF MessageOf, Messages
  <2>2. \A t \in TaskNamed(e) : t \in Requests
    BY DEF TaskNamed, Requests
  <2>3. QED
    BY <1>1, <2>1, <2>2, Kinds DEF Resolved, IInv, TypeOK
<1>5. Attributed(e) \in Events
  BY <1>1, <1>4, Kinds DEF Attributed, Events
<1>6. e.about = "prompt" => Resolved(e) = e.cause
  BY <1>1, <1>3, Kinds DEF Resolved, MessageOf
<1>7. ASSUME e.about \in {"reply", "part"}, e.cause \notin mixed
      PROVE  Resolved(e) = e.cause
  <2> DEFINE r == e.cause
             m == byMessage[<<"reply", r>>]
  <2>1. MessageOf(e) = <<"reply", r>> /\ e.about # "session" /\ e.about # "prompt"
    BY <1>7 DEF MessageOf
  <2>2. m \in {None, r} /\ (r \in Chats /\ at[r] = "done" => m = r)
    BY <1>1, <1>7 DEF IInv, ReplyBound
  <2>3. CASE m = r
    BY <2>1, <2>3, <1>1, Kinds DEF Resolved
  <2>4. CASE m = None
    <3>1. Open(r)
      BY <1>1, <1>3, <2>2, <2>4, Kinds DEF Open
    <3>2. active[SessionOf[r]] = r
      BY <1>1, <1>7, <3>1 DEF IInv, ActiveIsOpen
    <3>3. \A t \in TaskNamed(e) : t = r
      BY <2>1 DEF TaskNamed
    <3>4. QED
      BY <2>1, <2>4, <3>2, <3>3 DEF Resolved
  <2>5. QED
    BY <2>2, <2>3, <2>4
<1>8. QED
  BY <1>1, <1>5, <1>6, <1>7 DEF Attributed, AtItsRequest, Subjects

\* What a publication keeps.
LEMMA Published ==
  ASSUME IInv, NEW e \in Events, AtItsRequest(e, mixed'), Publish(e), mixed \subseteq mixed'
  PROVE  log' \in Seq(Events) /\ ToItsRequest'
<1>1. log \in Seq(Events) /\ log' = Append(log, e)
  BY DEF IInv, TypeOK, Publish
<1>2. log' \in Seq(Events) /\ Len(log') = Len(log) + 1
  BY <1>1
<1>3. ASSUME NEW i \in DOMAIN log'
      PROVE  AtItsRequest(log'[i], mixed')
  <2>1. CASE i = Len(log) + 1
    <3>1. log'[i] = e
      BY <1>1, <2>1
    <3>2. QED
      BY <3>1
  <2>2. CASE i \in DOMAIN log
    <3>1. log'[i] = log[i]
      BY <1>1, <2>2
    <3>2. AtItsRequest(log[i], mixed)
      BY <2>2 DEF IInv, ToItsRequest
    <3>3. QED
      BY <3>1, <3>2 DEF AtItsRequest
  <2>3. QED
    BY <1>1, <1>2, <1>3, <2>1, <2>2
<1>4. QED
  BY <1>2, <1>3 DEF ToItsRequest

LEMMA OwnPublished ==
  ASSUME IInv, NEW r \in Requests, Publish(Own(r)), mixed \subseteq mixed'
  PROVE  log' \in Seq(Events) /\ ToItsRequest'
<1>1. Own(r) \in Events /\ AtItsRequest(Own(r), mixed')
  BY Kinds DEF Own, Events, AtItsRequest
<1>2. QED
  BY <1>1, Published

\* Without a publication, what was published stays in its place.
LEMMA Unpublished ==
  ASSUME IInv, UNCHANGED log, mixed \subseteq mixed'
  PROVE  log' \in Seq(Events) /\ ToItsRequest'
BY DEF IInv, TypeOK, ToItsRequest, AtItsRequest

-----------------------------------------------------------------------------
(* The requests *)

\* The beginning of a request marks those it may be mixed up with.
LEMMA Mixing ==
  ASSUME IInv, NEW r \in Requests, at[r] = "idle", Mixes(r),
         NEW s \in {"bound", "accepted"}, at' = [at EXCEPT ![r] = s]
  PROVE  /\ mixed' \subseteq Requests /\ mixed \subseteq mixed'
         /\ Alone'
         /\ \A q \in Requests \ mixed' : q # r /\ Open(q) => SessionOf[q] # SessionOf[r]
<1>1. mixed' \subseteq Requests /\ mixed \subseteq mixed'
  BY DEF Mixes, Neighbours, IInv, TypeOK
<1>2. \A q \in Requests : at'[q] = IF q = r THEN s ELSE at[q]
  BY DEF IInv, TypeOK
<1>3. \A q \in Neighbours(r) : at[q] \in Unfinished \/ Open(q) => q \in mixed'
  BY DEF Mixes, Open, Unfinished
<1>4. \A n \in Neighbours(r) : at[n] \in Unfinished => r \in mixed'
  BY DEF Mixes, Unfinished
<1>5. ASSUME NEW p \in Requests \ mixed', NEW q \in Neighbours(p), at'[q] \in Unfinished
      PROVE  ~Open(p)' /\ at'[p] # "accepted"
  <2>1. p \in Requests \ mixed /\ q \in Requests /\ q # p /\ p \in Neighbours(q)
    BY <1>1, <1>5 DEF Neighbours
  <2>2. CASE q = r
    BY <1>2, <1>3, <1>5, <2>1, <2>2 DEF Open, Unfinished
  <2>3. CASE p = r
    BY <1>2, <1>4, <1>5, <2>1, <2>3
  <2>4. CASE q # r /\ p # r
    <3>1. at[q] \in Unfinished /\ at'[p] = at[p]
      BY <1>2, <1>5, <2>1, <2>4
    <3>2. ~Open(p) /\ at[p] # "accepted"
      BY <1>5, <2>1, <3>1 DEF IInv, Alone
    <3>3. QED
      BY <3>1, <3>2 DEF Open
  <2>5. QED
    BY <2>2, <2>3, <2>4
<1>6. Alone'
  BY <1>5 DEF Alone, Neighbours
<1>7. \A q \in Requests \ mixed' : q # r /\ Open(q) => SessionOf[q] # SessionOf[r]
  BY <1>3 DEF Neighbours
<1>8. QED
  BY <1>1, <1>6, <1>7

\* What OpenCode and the bridge hold is not a request's business.
LEMMA LineKept ==
  ASSUME IInv, UNCHANGED <<landed, replied, line, hand>>,
         \A r \in landed : /\ at'[r] \in {"sent", "done", "failed"}
                           /\ byMessage'[<<"prompt", r>>] # None,
         \A c \in Chats : at'[c] = "done" => at[c] = "done" \/ c \in replied
  PROVE  SentBefore'
BY DEF IInv, SentBefore, Begun

LEMMA ChatBeginsKeeps == ASSUME IInv, NEW c \in Chats, ChatBegins(c) PROVE IInv'
<1>1. c \in Requests /\ SessionOf[c] \in Sessions
  BY Kinds DEF Requests
<1>2. /\ \A r \in Requests : at'[r] = IF r = c THEN "bound" ELSE at[r]
      /\ \A s \in Sessions : active'[s] = IF s = SessionOf[c] THEN c ELSE active[s]
      /\ UNCHANGED <<byMessage, before, landed, replied, line, hand, up, emits>>
      /\ at[c] = "idle"
  BY <1>1 DEF ChatBegins, IInv, TypeOK
<1>3. /\ mixed' \subseteq Requests /\ mixed \subseteq mixed' /\ Alone'
      /\ \A q \in Requests \ mixed' : q # c /\ Open(q) => SessionOf[q] # SessionOf[c]
  BY <1>1, Mixing DEF ChatBegins
<1>4. log' \in Seq(Events) /\ ToItsRequest'
  BY <1>1, <1>3, OwnPublished DEF ChatBegins
<1>5. TypeOK'
  BY <1>1, <1>3, <1>4 DEF ChatBegins, IInv, TypeOK, Stages
<1>6. c \notin landed
  BY <1>2 DEF IInv, SentBefore
<1>7. SentBefore'
  BY <1>1, <1>2, <1>6, Kinds, LineKept DEF IInv, SentBefore, TypeOK, Requests
<1>8. PromptBound'
  BY <1>2 DEF IInv, PromptBound
<1>9. ActiveIsOpen'
  <2> SUFFICES ASSUME NEW r \in Requests \ mixed', Open(r)'
               PROVE  active'[SessionOf[r]] = r
    BY DEF ActiveIsOpen
  <2>1. CASE r = c
    BY <1>1, <1>2, <2>1
  <2>2. CASE r # c
    <3>1. Open(r)
      BY <1>2, <2>2 DEF Open
    <3>2. QED
      BY <1>2, <1>3, <2>2, <3>1, Kinds DEF IInv, ActiveIsOpen
  <2>3. QED
    BY <2>1, <2>2
<1>10. ReplyBound'
  <2> SUFFICES ASSUME NEW r \in Requests \ mixed'
               PROVE  /\ byMessage'[<<"reply", r>>] \in {None, r}
                      /\ r \in Chats /\ at'[r] = "done" => byMessage'[<<"reply", r>>] = r
    BY DEF ReplyBound
  <2>1. r \in Requests \ mixed /\ byMessage' = byMessage
    BY <1>2, <1>3
  <2>2. /\ byMessage[<<"reply", r>>] \in {None, r}
        /\ r \in Chats /\ at[r] = "done" => byMessage[<<"reply", r>>] = r
    BY <2>1 DEF IInv, ReplyBound
  <2>3. at'[r] = "done" => at[r] = "done"
    BY <1>2
  <2>4. QED
    BY <2>1, <2>2, <2>3
<1>11. SeenBefore'
  BY <1>1, <1>2, <1>3, Kinds DEF IInv, SeenBefore, Requests
<1>12. QED
  BY <1>3, <1>4, <1>5, <1>7, <1>8, <1>9, <1>10, <1>11 DEF IInv

LEMMA TaskAcceptedKeeps == ASSUME IInv, NEW t \in Tasks, TaskAccepted(t) PROVE IInv'
<1>1. t \in Requests
  BY DEF Requests
<1>2. /\ \A r \in Requests : at'[r] = IF r = t THEN "accepted" ELSE at[r]
      /\ UNCHANGED <<active, byMessage, before, landed, replied, line, hand, up, emits>>
      /\ at[t] = "idle"
  BY <1>1 DEF TaskAccepted, IInv, TypeOK
<1>3. mixed' \subseteq Requests /\ mixed \subseteq mixed' /\ Alone'
  BY <1>1, Mixing DEF TaskAccepted
<1>4. log' \in Seq(Events) /\ ToItsRequest'
  BY <1>1, <1>3, OwnPublished DEF TaskAccepted
<1>5. TypeOK'
  BY <1>1, <1>3, <1>4 DEF TaskAccepted, IInv, TypeOK, Stages
<1>6. t \notin landed
  BY <1>2 DEF IInv, SentBefore
<1>7. SentBefore'
  BY <1>1, <1>2, <1>6, Kinds, LineKept DEF IInv, SentBefore, TypeOK, Requests
<1>8. PromptBound' /\ ActiveIsOpen' /\ ReplyBound'
  BY <1>1, <1>2, <1>3 DEF IInv, PromptBound, ActiveIsOpen, ReplyBound, Open
<1>9. SeenBefore'
  BY <1>1, <1>2, <1>3, Kinds DEF IInv, SeenBefore, Requests
<1>10. QED
  BY <1>3, <1>4, <1>5, <1>7, <1>8, <1>9 DEF IInv

\* A request that goes on at work stays as alone as it was.
LEMMA StillAlone ==
  ASSUME IInv, mixed \subseteq mixed', mixed' \subseteq Requests, NEW r \in Requests,
         \A q \in Requests \ {r} : at'[q] = at[q],
         at[r] \in Unfinished
  PROVE  /\ Alone'
         /\ \A q \in Requests \ mixed' : q # r /\ SessionOf[q] = SessionOf[r] => ~Open(q)
<1>1. \A q \in Requests \ mixed' : q # r /\ SessionOf[q] = SessionOf[r]
        => ~Open(q) /\ at[q] # "accepted"
  BY DEF IInv, Alone, Neighbours
<1>2. ASSUME NEW p \in Requests \ mixed', NEW q \in Neighbours(p), at'[q] \in Unfinished
      PROVE  ~Open(p)' /\ at'[p] # "accepted"
  <2>1. p \in Requests \ mixed /\ q \in Requests /\ q # p /\ SessionOf[p] = SessionOf[q]
    BY <1>2 DEF Neighbours
  <2>2. CASE q = r
    BY <1>1, <2>1, <2>2 DEF Open
  <2>3. CASE p = r
    <3>1. at[q] \in Unfinished
      BY <1>2, <2>1, <2>3
    <3>2. ~Open(r) /\ at[r] # "accepted"
      BY <1>2, <2>1, <2>3, <3>1 DEF IInv, Alone
    <3>3. QED
      BY <3>2 DEF Open, Unfinished
  <2>4. CASE q # r /\ p # r
    BY <1>2, <2>1, <2>4 DEF IInv, Alone, Open
  <2>5. QED
    BY <2>2, <2>3, <2>4
<1>3. QED
  BY <1>1, <1>2 DEF Alone, Neighbours

LEMMA ChatSendsKeeps == ASSUME IInv, NEW c \in Chats, ChatSends(c) PROVE IInv'
<1>1. c \in Requests /\ SessionOf[c] \in Sessions /\ c \notin Tasks
  BY Kinds DEF Requests
<1>2. /\ \A r \in Requests : at'[r] = IF r = c THEN "sent" ELSE at[r]
      /\ \A s \in Sessions : active'[s] = IF s = SessionOf[c] THEN c ELSE active[s]
      /\ UNCHANGED <<landed, replied, line, hand, up, emits, log>>
      /\ at[c] = "bound"
  BY <1>1 DEF ChatSends, IInv, TypeOK, busVars
<1>3. /\ \A r \in Requests : byMessage'[<<"reply", r>>] = byMessage[<<"reply", r>>]
      /\ \A r \in Requests : byMessage'[<<"prompt", r>>]
                               = IF r = c THEN c ELSE byMessage[<<"prompt", r>>]
  BY <1>1, Kinds DEF ChatSends, IInv, TypeOK
<1>4. /\ mixed \subseteq mixed' /\ mixed' \subseteq Requests
      /\ before' \in [Chats -> SUBSET Requests]
      /\ \A d \in Chats \ {c} : before'[d] = before[d]
      /\ \A q \in Replies(c) : q \in before'[c] \/ q \in mixed'
  BY DEF ChatSends, IInv, TypeOK, Replies
<1>5. /\ Alone'
      /\ \A q \in Requests \ mixed' : q # c /\ SessionOf[q] = SessionOf[c] => ~Open(q)
  BY <1>1, <1>2, <1>4, StillAlone DEF Unfinished
<1>6. log' \in Seq(Events) /\ ToItsRequest'
  BY <1>2, <1>4, Unpublished
<1>7. TypeOK'
  <2>1. TypeOK
    BY DEF IInv
  <2>2. at' \in [Requests -> Stages]
    <3>1. at \in [Requests -> Stages] /\ "sent" \in Stages
      BY <2>1 DEF TypeOK, Stages
    <3>2. at' = [at EXCEPT ![c] = "sent"]
      BY DEF ChatSends
    <3>3. QED
      BY <3>1, <3>2
  <2>3. active' \in [Sessions -> Requests \cup {None}]
    <3>1. active \in [Sessions -> Requests \cup {None}]
      BY <2>1 DEF TypeOK
    <3>2. active' = [active EXCEPT ![SessionOf[c]] = c]
      BY DEF ChatSends
    <3>3. QED
      BY <1>1, <3>1, <3>2
  <2>4. byMessage' \in [Messages -> Requests \cup {None}]
    <3>1. byMessage \in [Messages -> Requests \cup {None}]
      BY <2>1 DEF TypeOK
    <3>2. byMessage' = [byMessage EXCEPT ![<<"prompt", c>>] = c]
      BY DEF ChatSends
    <3>3. QED
      BY <1>1, <3>1, <3>2
  <2>5. QED
    BY <1>2, <1>4, <1>6, <2>1, <2>2, <2>3, <2>4 DEF TypeOK
<1>8. SentBefore'
  BY <1>1, <1>2, <1>3, Kinds, LineKept DEF IInv, SentBefore, TypeOK, Requests
<1>9. PromptBound'
  <2> SUFFICES ASSUME NEW r \in Requests
               PROVE  /\ byMessage'[<<"prompt", r>>] \in {None, r}
                      /\ at'[r] \in {"sent", "failed"} \/ (r \in Tasks /\ at'[r] = "done")
                           => byMessage'[<<"prompt", r>>] = r
    BY DEF PromptBound
  <2>1. /\ byMessage[<<"prompt", r>>] \in {None, r}
        /\ at[r] \in {"sent", "failed"} \/ (r \in Tasks /\ at[r] = "done")
             => byMessage[<<"prompt", r>>] = r
    BY DEF IInv, PromptBound
  <2>2. CASE r = c
    BY <1>3, <2>2
  <2>3. CASE r # c
    BY <1>2, <1>3, <2>1, <2>3
  <2>4. QED
    BY <2>2, <2>3
<1>10. ActiveIsOpen'
  <2> SUFFICES ASSUME NEW r \in Requests \ mixed', Open(r)'
               PROVE  active'[SessionOf[r]] = r
    BY DEF ActiveIsOpen
  <2>1. CASE r = c
    BY <1>1, <1>2, <2>1
  <2>2. CASE r # c
    <3>1. Open(r)
      BY <1>2, <2>2 DEF Open
    <3>2. QED
      BY <1>2, <1>4, <1>5, <2>2, <3>1, Kinds DEF IInv, ActiveIsOpen
  <2>3. QED
    BY <2>1, <2>2
<1>11. ReplyBound'
  BY <1>1, <1>2, <1>3, <1>4 DEF IInv, ReplyBound
<1>12. SeenBefore'
  <2> SUFFICES ASSUME NEW d \in Chats, at'[d] = "sent", NEW r \in Chats \ mixed',
                      SessionOf[r] = SessionOf[d], at'[r] = "done"
               PROVE  r \in before'[d]
    BY DEF SeenBefore
  <2>1. at[r] = "done" /\ r \in Requests /\ r # c
    BY <1>2 DEF Requests
  <2>2. CASE d = c
    <3>1. r \in Replies(c)
      BY <2>1, <2>2 DEF IInv, SentBefore, Replies
    <3>2. QED
      BY <1>4, <2>2, <3>1
  <2>3. CASE d # c
    BY <1>2, <1>4, <2>1, <2>3 DEF IInv, SeenBefore, Requests
  <2>4. QED
    BY <2>2, <2>3
<1>13. QED
  BY <1>5, <1>6, <1>7, <1>8, <1>9, <1>10, <1>11, <1>12 DEF IInv

LEMMA ChatEndsKeeps == ASSUME IInv, NEW c \in Chats, ChatEnds(c) PROVE IInv'
<1>1. c \in Requests /\ SessionOf[c] \in Sessions /\ c \notin Tasks
  BY Kinds DEF Requests
<1>2. PICK answers \in {Replies(c) \ before[c], replied \cap {c}} :
        /\ Bind(c, answers)
        /\ at' = [at EXCEPT ![c] = IF c \in answers THEN "done" ELSE "failed"]
  BY DEF ChatEnds
<1>3. /\ \A r \in Requests : at'[r] = IF r = c THEN IF c \in answers THEN "done" ELSE "failed"
                                      ELSE at[r]
      /\ UNCHANGED <<before, landed, replied, line, hand, up, emits, mixed>>
      /\ at[c] = "sent"
  BY <1>1, <1>2 DEF ChatEnds, IInv, TypeOK
<1>4. /\ answers \subseteq replied /\ answers \subseteq Requests
      /\ \A r \in answers : SessionOf[r] = SessionOf[c]
  BY <1>1, <1>2 DEF Replies, IInv, TypeOK
<1>5. /\ \A s \in Sessions : active'[s] = IF answers # {} /\ s = SessionOf[c] THEN c
                                          ELSE active[s]
      /\ active' \in [Sessions -> Requests \cup {None}]
  BY <1>1, <1>2 DEF Bind, IInv, TypeOK
<1>6. /\ \A r \in Requests : byMessage'[<<"prompt", r>>] = byMessage[<<"prompt", r>>]
      /\ \A r \in Requests : byMessage'[<<"reply", r>>]
                               = IF r \in answers THEN c ELSE byMessage[<<"reply", r>>]
  BY <1>2, Kinds DEF Bind
<1>7. byMessage' \in [Messages -> Requests \cup {None}]
  BY <1>1, <1>2 DEF Bind, IInv, TypeOK
<1>8. /\ Alone'
      /\ \A q \in Requests \ mixed' : q # c /\ SessionOf[q] = SessionOf[c] => ~Open(q)
  BY <1>1, <1>3, StillAlone DEF Unfinished, IInv, TypeOK
<1>9. log' \in Seq(Events) /\ ToItsRequest'
  BY <1>1, <1>3, OwnPublished DEF ChatEnds
<1>10. TypeOK'
  BY <1>1, <1>2, <1>3, <1>5, <1>7, <1>9 DEF IInv, TypeOK, Stages
<1>11. SentBefore'
  BY <1>1, <1>3, <1>4, <1>6, Kinds, LineKept DEF IInv, SentBefore, TypeOK, Requests
<1>12. PromptBound'
  BY <1>1, <1>3, <1>6, Kinds DEF IInv, PromptBound
<1>13. ActiveIsOpen'
  <2> SUFFICES ASSUME NEW r \in Requests \ mixed', Open(r)'
               PROVE  active'[SessionOf[r]] = r
    BY DEF ActiveIsOpen
  <2>1. CASE r = c
    <3>1. active[SessionOf[c]] = c
      BY <1>1, <1>3, <2>1 DEF IInv, ActiveIsOpen, Open
    <3>2. QED
      BY <1>1, <1>5, <2>1, <3>1
  <2>2. CASE r # c
    <3>1. Open(r)
      BY <1>3, <2>2 DEF Open
    <3>2. QED
      BY <1>3, <1>5, <1>8, <2>2, <3>1, Kinds DEF IInv, ActiveIsOpen
  <2>3. QED
    BY <2>1, <2>2
\* The only answers that can be told apart are the chat's own.
<1>14. ASSUME NEW r \in answers, r \notin mixed PROVE r = c
  <2> SUFFICES ASSUME r # c PROVE FALSE
    OBVIOUS
  <2>1. r \in Requests /\ r \in landed /\ SessionOf[r] = SessionOf[c] /\ r \in Replies(c) \ before[c]
    BY <1>2, <1>4 DEF IInv, TypeOK
  <2>2. ~Open(r)
    BY <1>3, <1>8, <1>14, <2>1
  <2>3. r \in Chats /\ at[r] = "done"
    BY <2>1, <2>2, Kinds DEF IInv, SentBefore, Open
  <2>4. r \in before[c]
    BY <1>3, <1>14, <2>1, <2>3 DEF IInv, SeenBefore
  <2>5. QED
    BY <2>1, <2>4
<1>15. ReplyBound'
  <2> SUFFICES ASSUME NEW r \in Requests \ mixed'
               PROVE  /\ byMessage'[<<"reply", r>>] \in {None, r}
                      /\ r \in Chats /\ at'[r] = "done" => byMessage'[<<"reply", r>>] = r
    BY DEF ReplyBound
  <2>1. CASE r \in answers
    BY <1>3, <1>6, <1>14, <2>1
  <2>2. CASE r \notin answers
    BY <1>3, <1>6, <2>2 DEF IInv, ReplyBound
  <2>3. QED
    BY <2>1, <2>2
<1>16. SeenBefore'
  <2> SUFFICES ASSUME NEW d \in Chats, at'[d] = "sent", NEW r \in Chats \ mixed',
                      SessionOf[r] = SessionOf[d], at'[r] = "done"
               PROVE  r \in before'[d]
    BY DEF SeenBefore
  <2>1. d # c /\ d \in Requests /\ r \in Requests /\ at[d] = "sent"
    BY <1>3 DEF Requests
  <2>2. CASE r = c
    <3>1. c \in Requests \ mixed /\ d \in Neighbours(c)
      BY <1>1, <1>3, <2>1, <2>2 DEF Neighbours
    <3>2. ~Open(c)
      BY <2>1, <3>1 DEF IInv, Alone, Unfinished
    <3>3. QED
      BY <1>3, <3>2 DEF Open
  <2>3. CASE r # c
    BY <1>3, <2>1, <2>3 DEF IInv, SeenBefore
  <2>4. QED
    BY <2>2, <2>3
<1>17. QED
  BY <1>8, <1>9, <1>10, <1>11, <1>12, <1>13, <1>15, <1>16 DEF IInv

\* A request that ends and binds nothing.
LEMMA JustEnds ==
  ASSUME IInv, NEW r \in Requests, at[r] \in Unfinished, Publish(Own(r)),
         NEW s \in {"done", "failed", "over"}, at' = [at EXCEPT ![r] = s],
         s # "over" <=> at[r] = "sent",
         s = "done" => r \in Tasks,
         UNCHANGED <<before, active, byMessage, landed, replied, line, hand, up, emits, mixed>>
  PROVE  IInv'
<1>1. /\ \A q \in Requests : at'[q] = IF q = r THEN s ELSE at[q]
      /\ mixed' = mixed /\ mixed \subseteq Requests
  BY DEF IInv, TypeOK
<1>2. Alone'
  BY <1>1, StillAlone
<1>3. log' \in Seq(Events) /\ ToItsRequest'
  BY OwnPublished
<1>4. TypeOK'
  BY <1>1, <1>3 DEF IInv, TypeOK, Stages
<1>5. r \in landed => at[r] = "sent"
  BY DEF IInv, SentBefore, Unfinished
<1>6. SentBefore'
  BY <1>1, <1>5, Kinds, LineKept DEF IInv, SentBefore, TypeOK, Requests
<1>7. PromptBound'
  BY <1>1, Kinds DEF IInv, PromptBound
<1>8. ActiveIsOpen'
  BY <1>1, Kinds DEF IInv, ActiveIsOpen, Open
<1>9. ReplyBound' /\ SeenBefore'
  BY <1>1, Kinds DEF IInv, ReplyBound, SeenBefore, Requests
<1>10. QED
  BY <1>2, <1>3, <1>4, <1>6, <1>7, <1>8, <1>9 DEF IInv

LEMMA ChatFailsKeeps == ASSUME IInv, NEW c \in Chats, ChatFails(c) PROVE IInv'
<1>1. c \in Requests
  BY DEF Requests
<1>2. at' = [at EXCEPT ![c] = IF at[c] = "sent" THEN "failed" ELSE "over"]
  BY DEF ChatFails
<1>3. CASE at[c] = "sent"
  BY <1>1, <1>2, <1>3, JustEnds DEF ChatFails, Unfinished
<1>4. CASE at[c] = "bound"
  BY <1>1, <1>2, <1>4, JustEnds DEF ChatFails, Unfinished
<1>5. QED
  BY <1>3, <1>4 DEF ChatFails

LEMMA TaskEndsKeeps == ASSUME IInv, NEW t \in Tasks, TaskEnds(t) PROVE IInv'
<1>1. t \in Requests
  BY DEF Requests
<1>2. at' = [at EXCEPT ![t] = IF at[t] = "sent" THEN "done" ELSE "over"]
  BY DEF TaskEnds
<1>3. CASE at[t] = "sent"
  BY <1>1, <1>2, <1>3, JustEnds DEF TaskEnds, Unfinished
<1>4. CASE at[t] = "accepted"
  BY <1>1, <1>2, <1>4, JustEnds DEF TaskEnds, Unfinished
<1>5. QED
  BY <1>3, <1>4 DEF TaskEnds

LEMMA TaskStartsKeeps == ASSUME IInv, NEW t \in Tasks, TaskStarts(t) PROVE IInv'
<1>1. t \in Requests /\ SessionOf[t] \in Sessions /\ t \notin Chats
  BY Kinds DEF Requests
<1>2. /\ \A r \in Requests : at'[r] = IF r = t THEN "sent" ELSE at[r]
      /\ \A s \in Sessions : active'[s] = IF s = SessionOf[t] THEN t ELSE active[s]
      /\ UNCHANGED <<before, landed, replied, line, hand, up, emits, mixed>>
      /\ at[t] = "accepted" /\ mixed \subseteq Requests
  BY <1>1 DEF TaskStarts, IInv, TypeOK
<1>3. /\ \A r \in Requests : byMessage'[<<"reply", r>>] = byMessage[<<"reply", r>>]
      /\ \A r \in Requests : byMessage'[<<"prompt", r>>]
                               = IF r = t THEN t ELSE byMessage[<<"prompt", r>>]
  BY <1>1, Kinds DEF TaskStarts, IInv, TypeOK
<1>4. /\ Alone'
      /\ \A q \in Requests \ mixed' : q # t /\ SessionOf[q] = SessionOf[t] => ~Open(q)
  BY <1>1, <1>2, StillAlone DEF Unfinished
<1>5. log' \in Seq(Events) /\ ToItsRequest'
  BY <1>1, <1>2, OwnPublished DEF TaskStarts
<1>6. TypeOK'
  BY <1>1, <1>2, <1>5, Kinds DEF TaskStarts, IInv, TypeOK, Stages
<1>7. SentBefore'
  BY <1>1, <1>2, <1>3, Kinds, LineKept DEF IInv, SentBefore, TypeOK, Requests
<1>8. PromptBound'
  BY <1>1, <1>2, <1>3, Kinds DEF IInv, PromptBound
<1>9. ActiveIsOpen'
  <2> SUFFICES ASSUME NEW r \in Requests \ mixed', Open(r)'
               PROVE  active'[SessionOf[r]] = r
    BY DEF ActiveIsOpen
  <2>1. CASE r = t
    BY <1>1, <1>2, <2>1
  <2>2. CASE r # t
    <3>1. Open(r)
      BY <1>2, <2>2 DEF Open
    <3>2. QED
      BY <1>2, <1>4, <2>2, <3>1, Kinds DEF IInv, ActiveIsOpen
  <2>3. QED
    BY <2>1, <2>2
<1>10. ReplyBound' /\ SeenBefore'
  BY <1>1, <1>2, <1>3, Kinds DEF IInv, ReplyBound, SeenBefore, Requests
<1>11. QED
  BY <1>4, <1>5, <1>6, <1>7, <1>8, <1>9, <1>10 DEF IInv

-----------------------------------------------------------------------------
(* OpenCode, the bridge and the clients *)

\* What bindings say does not change while the requests stand still.
LEMMA StandStill ==
  ASSUME IInv, UNCHANGED <<at, before, active, byMessage, mixed>>, landed \subseteq landed',
         replied \subseteq replied'
  PROVE  PromptBound' /\ Alone' /\ ActiveIsOpen' /\ ReplyBound' /\ SeenBefore'
BY DEF IInv, PromptBound, Alone, ActiveIsOpen, ReplyBound, SeenBefore, Open

\* What OpenCode emits joins the line, if there is one.
LEMMA Emitted ==
  ASSUME IInv, NEW about \in Subjects, NEW r \in Requests, Emit(about, r),
         landed \subseteq landed', replied \subseteq replied', replied' \subseteq landed',
         landed' \subseteq Requests,
         r \in (IF about = "prompt" THEN landed' ELSE replied'),
         \A q \in landed' : /\ at[q] \in {"sent", "done", "failed"}
                            /\ byMessage[<<"prompt", q>>] # None
  PROVE  IInv'
<1> DEFINE e == [about |-> about, cause |-> r]
<1>1. /\ UNCHANGED <<at, before, active, byMessage, hand, up, mixed, log>>
      /\ line \in Seq(RawEvents) /\ e \in RawEvents
      /\ line' = IF up THEN Append(line, e) ELSE line
  BY DEF Emit, busVars, IInv, TypeOK, RawEvents
<1>2. line' \in Seq(RawEvents)
  BY <1>1
<1>3. log' \in Seq(Events) /\ ToItsRequest'
  BY <1>1, Unpublished
<1>4. emits' \in 0 .. MaxEmits
  BY EventBridgeAssumption DEF Emit, IInv, TypeOK
<1>5. TypeOK'
  BY <1>1, <1>2, <1>3, <1>4 DEF IInv, TypeOK
<1>6. ASSUME NEW i \in DOMAIN line' PROVE Begun(line'[i], landed', replied')
  <2>1. CASE i \in DOMAIN line
    <3>1. line'[i] = line[i] /\ Begun(line[i], landed, replied)
      BY <1>1, <2>1 DEF IInv, SentBefore
    <3>2. QED
      BY <3>1 DEF Begun
  <2>2. CASE i \notin DOMAIN line
    <3>1. line'[i] = e
      BY <1>1, <1>6, <2>2
    <3>2. QED
      BY <3>1 DEF Begun
  <2>3. QED
    BY <2>1, <2>2
<1>7. SentBefore'
  BY <1>1, <1>6 DEF IInv, SentBefore, Begun
<1>8. QED
  BY <1>1, <1>3, <1>5, <1>7, StandStill DEF IInv

LEMMA OpenCodeKeeps == ASSUME IInv, NEW r \in Requests, OpenCodeStep(r) PROVE IInv'
<1> USE DEF Subjects
<1>1. landed \subseteq Requests /\ replied \subseteq landed
  BY DEF IInv, TypeOK
<1>2. \A q \in landed : /\ at[q] \in {"sent", "done", "failed"}
                        /\ byMessage[<<"prompt", q>>] # None
  BY DEF IInv, SentBefore
<1>3. CASE Lands(r)
  <2>1. at[r] \in {"sent", "done", "failed"} /\ byMessage[<<"prompt", r>>] # None
    BY <1>3, Kinds DEF Lands, IInv, PromptBound
  <2>2. landed' = landed \cup {r} /\ replied' = replied /\ Emit("prompt", r)
    BY <1>3 DEF Lands
  <2>3. QED
    BY <1>1, <1>2, <2>1, <2>2, Emitted
<1>4. CASE Answers(r)
  <2>1. r \in landed /\ replied' = replied \cup {r} /\ landed' = landed /\ Emit("reply", r)
    BY <1>4 DEF Answers
  <2>2. QED
    BY <1>1, <1>2, <2>1, Emitted
<1>5. CASE GoesOn(r)
  <2>1. PICK about \in {"reply", "part", "session"} : Emit(about, r)
    BY <1>5 DEF GoesOn
  <2>2. r \in replied /\ replied' = replied /\ landed' = landed
    BY <1>5 DEF GoesOn
  <2>3. QED
    BY <1>1, <1>2, <2>1, <2>2, Emitted
<1>6. QED
  BY <1>3, <1>4, <1>5 DEF OpenCodeStep

\* The bridge publishes an event that it has, or none.
LEMMA BridgeKeeps == ASSUME IInv, BridgeStep PROVE IInv'
<1>1. UNCHANGED <<at, before, active, byMessage, landed, replied, emits, mixed>>
  BY DEF BridgeStep, Reads, Fetched, StreamBreaks, StreamConnects
<1>2. PromptBound' /\ Alone' /\ ActiveIsOpen' /\ ReplyBound' /\ SeenBefore'
  BY <1>1, StandStill
<1>3. /\ log' \in Seq(Events) /\ ToItsRequest'
      /\ line' \in Seq(RawEvents) /\ hand' \in RawEvents \cup {None} /\ up' \in BOOLEAN
      /\ \A i \in DOMAIN line' : Begun(line'[i], landed, replied)
      /\ hand' # None => Begun(hand', landed, replied)
  <2>1. line \in Seq(RawEvents) /\ hand \in RawEvents \cup {None} /\ up \in BOOLEAN
    BY DEF IInv, TypeOK
  <2>2. /\ \A i \in DOMAIN line : Begun(line[i], landed, replied)
        /\ hand # None => Begun(hand, landed, replied)
    BY DEF IInv, SentBefore
  <2>3. CASE Reads
    <3>1. /\ Head(line) \in RawEvents /\ Begun(Head(line), landed, replied) /\ line' = Tail(line)
          /\ line' \in Seq(RawEvents) /\ up' = up
          /\ \A i \in DOMAIN line' : Begun(line'[i], landed, replied)
      <4>1. /\ Head(line) = line[1] /\ 1 \in DOMAIN line /\ line' = Tail(line)
            /\ line' \in Seq(RawEvents) /\ up' = up
        BY <2>1, <2>3 DEF Reads
      <4>2. \A i \in DOMAIN line' : i + 1 \in DOMAIN line /\ line'[i] = line[i + 1]
        BY <2>1, <2>3 DEF Reads
      <4>3. QED
        BY <2>1, <2>2, <4>1, <4>2
    <3>2. CASE hand' = Head(line) /\ UNCHANGED busVars
      <4>1. log' \in Seq(Events) /\ ToItsRequest'
        BY <1>1, <3>2, Unpublished DEF busVars
      <4>2. QED
        BY <2>1, <3>1, <3>2, <4>1
    <3>3. CASE Publish(Attributed(Head(line))) /\ UNCHANGED hand
      BY <1>1, <2>1, <2>2, <3>1, <3>3, Found, Published
    <3>4. QED
      BY <2>3, <3>2, <3>3 DEF Reads
  <2>4. CASE Fetched
    <3>1. hand \in RawEvents /\ Begun(hand, landed, replied) /\ Publish(Attributed(hand)) /\ hand' = None
      BY <2>1, <2>2, <2>4 DEF Fetched
    <3>2. QED
      BY <1>1, <2>1, <2>2, <2>4, <3>1, Found, Published DEF Fetched
  <2>5. CASE StreamBreaks
    <3>1. log' \in Seq(Events) /\ ToItsRequest'
      BY <1>1, <2>5, Unpublished DEF StreamBreaks, busVars
    <3>2. line' = <<>> /\ up' = FALSE /\ hand' = hand
      BY <2>5 DEF StreamBreaks
    <3>3. line' \in Seq(RawEvents) /\ DOMAIN line' = {}
      BY <3>2
    <3>4. QED
      BY <2>1, <2>2, <3>1, <3>2, <3>3
  <2>6. CASE StreamConnects
    BY <1>1, <2>1, <2>2, <2>6, Unpublished DEF StreamConnects, busVars
  <2>7. QED
    BY <2>3, <2>4, <2>5, <2>6 DEF BridgeStep
<1>4. TypeOK'
  BY <1>1, <1>3 DEF IInv, TypeOK
<1>5. SentBefore'
  BY <1>1, <1>3 DEF IInv, SentBefore, Begun
<1>6. QED
  BY <1>2, <1>3, <1>4, <1>5 DEF IInv

LEMMA NothingKeeps == ASSUME IInv, UNCHANGED <<bridgeVars, log>> PROVE IInv'
<1>1. log' \in Seq(Events) /\ ToItsRequest'
  BY Unpublished DEF bridgeVars
<1>2. TypeOK' /\ SentBefore'
  BY DEF IInv, TypeOK, SentBefore, Begun, bridgeVars
<1>3. PromptBound' /\ Alone' /\ ActiveIsOpen' /\ ReplyBound' /\ SeenBefore'
  BY StandStill DEF bridgeVars
<1>4. QED
  BY <1>1, <1>2, <1>3 DEF IInv

-----------------------------------------------------------------------------
(* The theorems *)

LEMMA InitHolds == Init => IInv
<1> SUFFICES ASSUME Init PROVE IInv
  OBVIOUS
<1> USE DEF Init, Fresh
<1>1. /\ \A r \in Requests : at[r] = "idle"
      /\ \A m \in Messages : byMessage[m] = None
  OBVIOUS
<1>2. TypeOK
  BY EventBridgeAssumption DEF TypeOK, Stages
<1>3. SentBefore
  BY <1>1 DEF SentBefore, Requests
<1>4. PromptBound /\ Alone /\ ActiveIsOpen /\ ReplyBound /\ SeenBefore
  BY <1>1, Kinds DEF PromptBound, Alone, ActiveIsOpen, ReplyBound, SeenBefore, Open, Unfinished,
                     Neighbours, Requests
<1>5. ToItsRequest
  BY DEF ToItsRequest
<1>6. QED
  BY <1>2, <1>3, <1>4, <1>5 DEF IInv

LEMMA NextKeeps == IInv /\ [Next]_vars => IInv'
<1> SUFFICES ASSUME IInv, [Next]_vars PROVE IInv'
  OBVIOUS
<1>1. ASSUME NEW c \in Chats, ChatStep(c) PROVE IInv'
  BY <1>1, ChatBeginsKeeps, ChatSendsKeeps, ChatEndsKeeps, ChatFailsKeeps DEF ChatStep
<1>2. ASSUME NEW t \in Tasks, TaskStep(t) PROVE IInv'
  BY <1>2, TaskAcceptedKeeps, TaskStartsKeeps, TaskEndsKeeps DEF TaskStep
<1>3. ASSUME NEW r \in Requests, OpenCodeStep(r) PROVE IInv'
  BY <1>3, OpenCodeKeeps
<1>4. CASE BridgeStep
  BY <1>4, BridgeKeeps
<1>5. ASSUME NEW c \in Clients, ClientStep(c), UNCHANGED bridgeVars PROVE IInv'
  <2>1. UNCHANGED log
    BY <1>5 DEF ClientStep, Connect, BeginReplay, SendReplayed, StartSender, SendLive, Disconnect
  <2>2. QED
    BY <1>5, <2>1, NothingKeeps
<1>6. CASE UNCHANGED vars
  BY <1>6, NothingKeeps DEF vars, busVars
<1>7. QED
  BY <1>1, <1>2, <1>3, <1>4, <1>5, <1>6 DEF Next

\* The state of requests, OpenCode and bridge is well-formed, in every behaviour.
THEOREM TypeCorrect == Spec => []TypeOK
<1>1. IInv => TypeOK
  BY DEF IInv
<1>2. QED
  BY <1>1, InitHolds, NextKeeps, PTL DEF Spec

\* An event about a prompt is published under its request, and so is one about an answer
\* unless its request is one that attribution cannot tell apart: whatever the number of
\* requests and sessions, and however late the event is read.
THEOREM EventsFindTheirRequest == Spec => []ToItsRequest
<1>1. IInv => ToItsRequest
  BY DEF IInv
<1>2. QED
  BY <1>1, InitHolds, NextKeeps, PTL DEF Spec

-----------------------------------------------------------------------------
(* What a client is sent *)

Items(q) == {q[i] : i \in DOMAIN q}

Ascending(q) == \A i, j \in DOMAIN q : i < j => q[i] < q[j]

\* The queue is the newest of what the filter lets through.
QueueWhole(k, l) ==
  /\ Ascending(k.queue) /\ Len(k.queue) <= Capacity
  /\ \A j \in DOMAIN k.queue :
       /\ k.queue[j] \in k.since + 1 .. Len(l)
       /\ Matches(k.filter, l[k.queue[j]])
       /\ \A i \in k.queue[j] .. Len(l) : Matches(k.filter, l[i]) => i \in Items(k.queue)

Covered(k, l) ==
  \A i \in k.since + 1 .. Len(l) :
    Matches(k.filter, l[i]) => i \in Items(k.got) \cup k.lost \cup k.replay \cup Items(k.queue)

\* What is replayed goes before what waits, but for what is in both.
ReplayFirst(k) ==
  /\ Ascending(k.got)
  /\ \A m \in DOMAIN k.got, i \in k.replay : k.got[m] < i
  /\ \A j \in DOMAIN k.queue, x \in k.replay \cup Items(k.got) :
       k.queue[j] < x => k.queue[j] \in k.replay \cup Items(k.got)

\* What waits and is older than what was sent was sent before that.
SeenFirst(k) ==
  \A j \in DOMAIN k.queue, m \in DOMAIN k.got :
    k.queue[j] < k.got[m] => \E n \in 1 .. m : k.got[n] = k.queue[j]

InOrder(got) ==
  \A m, n \in DOMAIN got : m < n /\ got[n] < got[m] => \E i \in 1 .. m : got[i] = got[n]

\* A connection k while l is published.
Served(k, l) ==
  /\ k \in Connections
  /\ k.latest <= Len(l)
  /\ Items(k.got) \cup k.replay \subseteq 1 .. Len(l)
  /\ InOrder(k.got)
  /\ k.at # "away" => k.since <= Len(l) /\ QueueWhole(k, l)
  /\ k.at = "joining" => k.got = <<>> /\ k.replay = {}
  /\ k.at \in {"replaying", "live"} => Covered(k, l)
  /\ k.at = "replaying" => ReplayFirst(k)
  /\ k.at = "live" => k.replay = {} /\ SeenFirst(k)

LEMMA SeqFacts ==
  ASSUME NEW q \in Seq(Nat)
  PROVE  /\ Len(q) \in Nat /\ DOMAIN q = 1 .. Len(q)
         /\ \A i \in DOMAIN q : q[i] \in Nat
         /\ Items(q) \subseteq Nat
BY LenProperties DEF Items

LEMMA AppendFacts ==
  ASSUME NEW S, NEW q \in Seq(S), NEW x \in S
  PROVE  /\ Append(q, x) \in Seq(S)
         /\ Len(Append(q, x)) = Len(q) + 1
         /\ DOMAIN Append(q, x) = 1 .. Len(q) + 1
         /\ \A place \in 1 .. Len(q) : Append(q, x)[place] = q[place]
         /\ Append(q, x)[Len(q) + 1] = x
         /\ Items(Append(q, x)) = Items(q) \cup {x}
<1>1. /\ Append(q, x) \in Seq(S) /\ Len(Append(q, x)) = Len(q) + 1
      /\ \A i \in 1 .. Len(q) : Append(q, x)[i] = q[i]
      /\ Append(q, x)[Len(q) + 1] = x
  BY AppendProperties
<1>2. Len(q) \in Nat /\ DOMAIN q = 1 .. Len(q)
  BY LenProperties
<1>3. DOMAIN Append(q, x) = 1 .. Len(q) + 1
  BY <1>1, LenProperties
<1> DEFINE r == Append(q, x)
<1> HIDE DEF r
<1>4. {r[i] : i \in 1 .. Len(q) + 1} = {q[i] : i \in 1 .. Len(q)} \cup {x}
  <2>1. \A i \in 1 .. Len(q) + 1 : i \in 1 .. Len(q) \/ i = Len(q) + 1
    BY <1>2
  <2>2. 1 .. Len(q) \subseteq 1 .. Len(q) + 1 /\ Len(q) + 1 \in 1 .. Len(q) + 1
    BY <1>2
  <2>3. \A i \in 1 .. Len(q) : r[i] = q[i]
    BY <1>1 DEF r
  <2>4. r[Len(q) + 1] = x
    BY <1>1 DEF r
  <2> QED BY <2>1, <2>2, <2>3, <2>4
<1>5. Items(r) = Items(q) \cup {x}
  BY <1>2, <1>3, <1>4 DEF Items, r
<1> QED BY <1>1, <1>3, <1>5 DEF r

LEMMA TailFacts ==
  ASSUME NEW S, NEW q \in Seq(S), q # <<>>
  PROVE  /\ Tail(q) \in Seq(S) /\ Head(q) = q[1] /\ Head(q) \in S
         /\ Len(q) \in Nat \ {0} /\ Len(Tail(q)) = Len(q) - 1
         /\ DOMAIN q = 1 .. Len(q) /\ DOMAIN Tail(q) = 1 .. Len(q) - 1
         /\ \A i \in 1 .. Len(q) - 1 : Tail(q)[i] = q[i + 1]
         /\ Items(q) = Items(Tail(q)) \cup {q[1]}
<1>1. /\ Tail(q) \in Seq(S) /\ Head(q) \in S /\ Len(Tail(q)) = Len(q) - 1
      /\ \A i \in 1 .. Len(Tail(q)) : Tail(q)[i] = q[i + 1]
  BY HeadTailProperties
<1>2. Len(q) \in Nat \ {0} /\ DOMAIN q = 1 .. Len(q) /\ Head(q) = q[1]
  BY LenProperties, EmptySeq
<1>3. DOMAIN Tail(q) = 1 .. Len(q) - 1
  BY <1>1, LenProperties
<1> DEFINE r == Tail(q)
<1> HIDE DEF r
<1>4. {q[i] : i \in 1 .. Len(q)} = {r[i] : i \in 1 .. Len(q) - 1} \cup {q[1]}
  <2>1. \A i \in 1 .. Len(q) : i = 1 \/ (i - 1 \in 1 .. Len(q) - 1 /\ r[i - 1] = q[i])
    <3>1. SUFFICES ASSUME NEW i \in 1 .. Len(q), i # 1
                   PROVE  i - 1 \in 1 .. Len(q) - 1 /\ r[i - 1] = q[i]
      OBVIOUS
    <3>2. i - 1 \in 1 .. Len(q) - 1 /\ (i - 1) + 1 = i
      BY <1>2, <3>1
    <3> QED BY <1>1, <3>2 DEF r
  <2>2. \A i \in 1 .. Len(q) - 1 : i + 1 \in 1 .. Len(q) /\ r[i] = q[i + 1]
    BY <1>1, <1>2 DEF r
  <2>3. 1 \in 1 .. Len(q)
    BY <1>2
  <2> QED BY <2>1, <2>2, <2>3
<1>5. Items(q) = Items(r) \cup {q[1]}
  BY <1>2, <1>3, <1>4 DEF Items, r
<1> QED BY <1>1, <1>2, <1>3, <1>5 DEF r

-----------------------------------------------------------------------------
\* More is published, and the client does not get it.
LEMMA Unsent ==
  ASSUME NEW l \in Seq(Events), NEW e \in Events, NEW k, Served(k, l),
         k.at = "away" \/ ~Matches(k.filter, e)
  PROVE  Served(k, Append(l, e))
<1> DEFINE l2 == Append(l, e)
<1>1. /\ Len(l) \in Nat /\ Len(l2) = Len(l) + 1
      /\ \A i \in 1 .. Len(l) : l2[i] = l[i]
      /\ l2[Len(l) + 1] = e
  BY AppendFacts, LenProperties
<1> HIDE DEF l2
<1>2. /\ k \in Connections /\ k.latest \in Nat /\ k.since \in Nat
      /\ k.queue \in Seq(Nat)
  BY DEF Served, Connections
<1>3. DOMAIN k.queue = 1 .. Len(k.queue) /\ Len(k.queue) \in Nat
  BY <1>2, SeqFacts
<1>4. k.latest <= Len(l2) /\ Items(k.got) \cup k.replay \subseteq 1 .. Len(l2)
  <2>1. k.latest <= Len(l) /\ Items(k.got) \cup k.replay \subseteq 1 .. Len(l)
    BY DEF Served
  <2>2. 1 .. Len(l) \subseteq 1 .. Len(l2)
    BY <1>1
  <2> QED BY <1>1, <1>2, <2>1, <2>2
<1>5. ASSUME k.at # "away" PROVE k.since <= Len(l2) /\ QueueWhole(k, l2)
  <2>1. k.since <= Len(l) /\ QueueWhole(k, l) /\ ~Matches(k.filter, e)
    BY <1>5 DEF Served
  <2>2. ASSUME NEW j \in DOMAIN k.queue
        PROVE  /\ k.queue[j] \in k.since + 1 .. Len(l2)
               /\ Matches(k.filter, l2[k.queue[j]])
               /\ \A i \in k.queue[j] .. Len(l2) : Matches(k.filter, l2[i]) => i \in Items(k.queue)
    <3> DEFINE q == k.queue[j]
    <3>1. /\ q \in k.since + 1 .. Len(l) /\ Matches(k.filter, l[q])
          /\ \A i \in q .. Len(l) : Matches(k.filter, l[i]) => i \in Items(k.queue)
      BY <2>1 DEF QueueWhole
    <3> HIDE DEF q
    <3>2. q \in 1 .. Len(l) /\ q \in k.since + 1 .. Len(l2)
      BY <1>1, <1>2, <3>1
    <3>3. ASSUME NEW i \in q .. Len(l2), Matches(k.filter, l2[i]) PROVE i \in Items(k.queue)
      <4>1. i # Len(l) + 1
        BY <1>1, <2>1, <3>3
      <4>2. i \in q .. Len(l) /\ i \in 1 .. Len(l)
        BY <1>1, <3>2, <4>1
      <4> QED BY <1>1, <3>1, <3>3, <4>2
    <3>4. Matches(k.filter, l2[q])
      BY <1>1, <3>1, <3>2
    <3> QED BY <3>2, <3>3, <3>4 DEF q
  <2> QED BY <1>1, <1>2, <2>1, <2>2 DEF QueueWhole
<1>6. ASSUME k.at \in {"replaying", "live"} PROVE Covered(k, l2)
  <2>1. SUFFICES ASSUME NEW i \in k.since + 1 .. Len(l2), Matches(k.filter, l2[i])
                 PROVE  i \in Items(k.got) \cup k.lost \cup k.replay \cup Items(k.queue)
    BY DEF Covered
  <2>2. i # Len(l) + 1
    BY <1>1, <1>6, <2>1
  <2>3. i \in k.since + 1 .. Len(l) /\ i \in 1 .. Len(l)
    BY <1>1, <1>2, <2>1, <2>2
  <2> QED BY <1>1, <1>6, <2>1, <2>3 DEF Served, Covered
<1> QED BY <1>4, <1>5, <1>6 DEF Served, l2

\* The client gets it.
LEMMA Queued ==
  ASSUME NEW l \in Seq(Events), NEW e \in Events, NEW k, Served(k, l),
         k.at # "away", Matches(k.filter, e)
  PROVE  Served(Enqueue(k, Len(l) + 1), Append(l, e))
<1> DEFINE l2 == Append(l, e)
           n == Len(l) + 1
           w == Enqueue(k, n)
<1>1. /\ Len(l) \in Nat /\ Len(l2) = n /\ n \in Nat
      /\ \A i \in 1 .. Len(l) : l2[i] = l[i]
      /\ l2[n] = e
  BY AppendFacts, LenProperties
<1>2. /\ k \in Connections /\ k.latest \in Nat /\ k.since \in Nat
      /\ k.queue \in Seq(Nat) /\ k.got \in Seq(Nat) /\ Len(k.queue) \in Nat
      /\ k.lost \subseteq Nat
      /\ QueueWhole(k, l) /\ k.since <= Len(l)
  BY SeqFacts DEF Served, Connections
\* The queue has what it had, less the oldest when it is full.
<1>3. PICK d \in {0, 1} :
        /\ d = 1 <=> Len(k.queue) = Capacity
        /\ d <= Len(k.queue)
  <2>1. Len(k.queue) = Capacity => 1 <= Len(k.queue)
    BY EventBusAssumption
  <2> QED BY <1>2, <2>1
<1>4. /\ w \in Connections
      /\ w.at = k.at /\ w.filter = k.filter /\ w.since = k.since /\ w.replay = k.replay
      /\ w.got = k.got /\ w.latest = k.latest
      /\ w.queue = IF d = 1 THEN Append(Tail(k.queue), n) ELSE Append(k.queue, n)
      /\ w.lost = IF d = 1 THEN k.lost \cup {Head(k.queue)} ELSE k.lost
  <2>1. Append(k.queue, n) \in Seq(Nat)
    BY <1>1, <1>2, AppendFacts
  <2>2. CASE d = 1
    <3>1. k.queue # <<>>
      BY <1>2, <1>3, <2>2, EmptySeq
    <3> DEFINE q == Append(Tail(k.queue), n)
               h == k.lost \cup {Head(k.queue)}
    <3>2. q \in Seq(Nat) /\ h \subseteq Nat
      BY <1>1, <1>2, <3>1, TailFacts, AppendFacts
    <3>3. w = [k EXCEPT !.queue = q, !.lost = h]
      BY <1>2, <1>3, <2>2 DEF Enqueue, Connections
    <3> HIDE DEF q, h, w
    <3>4. /\ w \in Connections
          /\ w.at = k.at /\ w.filter = k.filter /\ w.since = k.since /\ w.replay = k.replay
          /\ w.got = k.got /\ w.latest = k.latest /\ w.queue = q /\ w.lost = h
      BY <1>2, <3>2, <3>3 DEF Connections
    <3> QED BY <2>2, <3>4 DEF q, h
  <2>3. CASE d = 0
    <3> DEFINE q == Append(k.queue, n)
    <3>1. w = [k EXCEPT !.queue = q]
      BY <1>2, <1>3, <2>3 DEF Enqueue, Connections
    <3> HIDE DEF q, w
    <3>2. q \in Seq(Nat)
      BY <2>1 DEF q
    <3>3. /\ w \in Connections
          /\ w.at = k.at /\ w.filter = k.filter /\ w.since = k.since /\ w.replay = k.replay
          /\ w.got = k.got /\ w.latest = k.latest /\ w.queue = q /\ w.lost = k.lost
      BY <1>2, <3>1, <3>2 DEF Connections
    <3> QED BY <2>3, <3>3 DEF q
  <2> QED BY <2>2, <2>3
<1> HIDE DEF w
<1>5. /\ DOMAIN w.queue = 1 .. Len(w.queue)
      /\ Len(w.queue) = Len(k.queue) - d + 1
      /\ \A j \in 1 .. Len(k.queue) - d : w.queue[j] = k.queue[j + d]
      /\ w.queue[Len(k.queue) - d + 1] = n
      /\ Items(k.queue) \cup {n} = Items(w.queue) \cup (IF d = 1 THEN {k.queue[1]} ELSE {})
      /\ d = 1 => Head(k.queue) = k.queue[1]
  <2>1. CASE d = 1
    <3> DEFINE t == Tail(k.queue)
    <3>1. k.queue # <<>>
      BY <1>2, <1>3, <2>1, EmptySeq
    <3>2. /\ t \in Seq(Nat) /\ Head(k.queue) = k.queue[1]
          /\ Len(t) = Len(k.queue) - 1
          /\ \A i \in 1 .. Len(k.queue) - 1 : t[i] = k.queue[i + 1]
          /\ Items(k.queue) = Items(t) \cup {k.queue[1]}
      BY <1>2, <3>1, TailFacts
    <3> HIDE DEF t
    <3>3. w.queue = Append(t, n)
      BY <1>4, <2>1 DEF t
    <3>5. n \in Nat
      BY <1>1
    <3> HIDE DEF n
    <3>6. /\ Len(Append(t, n)) = Len(t) + 1 /\ DOMAIN Append(t, n) = 1 .. Len(t) + 1
          /\ \A i \in 1 .. Len(t) : Append(t, n)[i] = t[i]
          /\ Append(t, n)[Len(t) + 1] = n
          /\ Items(Append(t, n)) = Items(t) \cup {n}
      <4>1. t \in Seq(Nat)
        BY <3>2
      <4> QED BY ONLY <3>5, <4>1, AppendFacts
    <3>4. /\ Len(w.queue) = Len(t) + 1 /\ DOMAIN w.queue = 1 .. Len(t) + 1
          /\ \A i \in 1 .. Len(t) : w.queue[i] = t[i]
          /\ w.queue[Len(t) + 1] = n
          /\ Items(w.queue) = Items(t) \cup {n}
      BY <3>3, <3>6
    <3> QED BY <1>2, <2>1, <3>2, <3>4
  <2>2. CASE d = 0
    <3>1. w.queue = Append(k.queue, n)
      BY <1>4, <2>2
    <3> DEFINE t == k.queue
    <3>3. n \in Nat /\ t \in Seq(Nat)
      BY <1>1, <1>2
    <3> HIDE DEF n, t
    <3>4. /\ Len(Append(t, n)) = Len(t) + 1 /\ DOMAIN Append(t, n) = 1 .. Len(t) + 1
          /\ \A i \in 1 .. Len(t) : Append(t, n)[i] = t[i]
          /\ Append(t, n)[Len(t) + 1] = n
          /\ Items(Append(t, n)) = Items(t) \cup {n}
      BY ONLY <3>3, AppendFacts
    <3>2. /\ Len(w.queue) = Len(k.queue) + 1 /\ DOMAIN w.queue = 1 .. Len(k.queue) + 1
          /\ \A i \in 1 .. Len(k.queue) : w.queue[i] = k.queue[i]
          /\ w.queue[Len(k.queue) + 1] = n
          /\ Items(w.queue) = Items(k.queue) \cup {n}
      BY <3>1, <3>4 DEF t
    <3> QED BY <1>2, <2>2, <3>2
  <2> QED BY <2>1, <2>2
<1> HIDE DEF l2
<1>6. /\ DOMAIN k.queue = 1 .. Len(k.queue)
      /\ Ascending(k.queue)
      /\ \A j \in DOMAIN k.queue :
           /\ k.queue[j] \in k.since + 1 .. Len(l)
           /\ Matches(k.filter, l[k.queue[j]])
           /\ \A i \in k.queue[j] .. Len(l) : Matches(k.filter, l[i]) => i \in Items(k.queue)
  BY <1>2, SeqFacts DEF QueueWhole
<1>7. \A j \in DOMAIN w.queue :
        \/ j + d \in DOMAIN k.queue /\ w.queue[j] = k.queue[j + d]
        \/ j = Len(w.queue) /\ w.queue[j] = n
  <2>1. SUFFICES ASSUME NEW j \in DOMAIN w.queue, j # Len(w.queue)
                 PROVE  j + d \in DOMAIN k.queue /\ w.queue[j] = k.queue[j + d]
    <3>1. w.queue[Len(w.queue)] = n
      BY <1>2, <1>5
    <3> QED BY <3>1
  <2>2. j \in 1 .. Len(k.queue) - d /\ j + d \in 1 .. Len(k.queue)
    <3> DEFINE last == Len(k.queue)
    <3>1. last \in Nat /\ d <= last
      BY <1>2, <1>3
    <3>2. j \in 1 .. last - d + 1 /\ j # last - d + 1
      BY <1>5, <2>1
    <3> HIDE DEF last
    <3>3. j \in 1 .. last - d /\ j + d \in 1 .. last
      BY <3>1, <3>2
    <3> QED BY <3>3 DEF last
  <2> QED BY <1>5, <1>6, <2>2
<1>14. n \in Items(w.queue)
  <2>1. Len(w.queue) \in DOMAIN w.queue /\ w.queue[Len(w.queue)] = n
    BY <1>2, <1>3, <1>5
  <2> QED BY <2>1 DEF Items
<1>8. QueueWhole(w, l2)
  <2>1. Len(w.queue) <= Capacity
    BY <1>2, <1>3, <1>5, EventBusAssumption DEF QueueWhole
  <2>2. Ascending(w.queue)
    <3>1. SUFFICES ASSUME NEW i \in DOMAIN w.queue, NEW j \in DOMAIN w.queue, i < j
                   PROVE  w.queue[i] < w.queue[j]
      BY DEF Ascending
    <3>2. i # Len(w.queue)
      BY <1>2, <1>5, <3>1
    <3>3. i + d \in DOMAIN k.queue /\ w.queue[i] = k.queue[i + d]
      BY <1>7, <3>2
    <3>4. CASE w.queue[j] = n
      BY <1>1, <1>2, <1>6, <3>3, <3>4
    <3>5. CASE j + d \in DOMAIN k.queue /\ w.queue[j] = k.queue[j + d]
      <4>1. i + d < j + d
        BY <1>5, <3>1
      <4> QED BY <1>6, <3>3, <3>5, <4>1 DEF Ascending
    <3> QED BY <1>7, <3>4, <3>5
  <2>3. ASSUME NEW j \in DOMAIN w.queue
        PROVE  /\ w.queue[j] \in w.since + 1 .. Len(l2)
               /\ Matches(w.filter, l2[w.queue[j]])
               /\ \A i \in w.queue[j] .. Len(l2) : Matches(w.filter, l2[i]) => i \in Items(w.queue)
    <3> DEFINE q == w.queue[j]
    <3>0. n \in Items(w.queue)
      BY <1>14
    <3>1. CASE q = n
      <4>1. \A i \in n .. n : i = n
        BY <1>1
      <4>4. n \in w.since + 1 .. Len(l2)
        BY <1>1, <1>2, <1>4
      <4>5. Matches(w.filter, l2[n])
        BY <1>1, <1>4
      <4>2. q \in w.since + 1 .. Len(l2) /\ Matches(w.filter, l2[q])
        BY <3>1, <4>4, <4>5
      <4>3. \A i \in q .. Len(l2) : i = n
        BY <1>1, <3>1, <4>1
      <4> QED BY <3>0, <4>2, <4>3
    <3>2. CASE j + d \in DOMAIN k.queue /\ q = k.queue[j + d]
      <4>1. /\ q \in k.since + 1 .. Len(l) /\ Matches(k.filter, l[q])
            /\ \A i \in q .. Len(l) : Matches(k.filter, l[i]) => i \in Items(k.queue)
        BY <1>6, <3>2
      <4> HIDE DEF q
      <4>2. q \in k.since + 1 .. Len(l2) /\ q \in 1 .. Len(l)
        BY <1>1, <1>2, <4>1
      <4>3. ASSUME NEW i \in q .. Len(l2), Matches(k.filter, l2[i]) PROVE i \in Items(w.queue)
        <5>1. CASE i = n
          BY <3>0, <5>1
        <5>2. CASE i # n
          <6>1. i \in q .. Len(l) /\ i \in 1 .. Len(l)
            BY <1>1, <4>2, <5>2
          <6>2. i \in Items(k.queue)
            BY <1>1, <4>1, <4>3, <6>1
          <6>3. d = 1 => i # k.queue[1]
            <7>1. SUFFICES ASSUME d = 1 PROVE k.queue[1] < i
              BY <1>2, <1>6, <6>1
            <7>2. 1 \in DOMAIN k.queue /\ 1 < j + d
              BY <1>2, <1>5, <1>6, <3>2, <7>1
            <7>4. k.queue[1] < k.queue[j + d]
              BY <1>6, <3>2, <7>2 DEF Ascending
            <7>5. k.queue[1] \in k.since + 1 .. Len(l)
              BY <1>6, <7>2
            <7>6. k.queue[1] < q
              BY <3>2, <7>4 DEF q
            <7>3. k.queue[1] < q /\ k.queue[1] \in Nat
              BY <1>2, <7>5, <7>6
            <7> QED BY <4>2, <6>1, <7>3
          <6> QED BY <1>5, <6>2, <6>3
        <5> QED BY <5>1, <5>2
      <4> QED BY <1>1, <1>4, <4>1, <4>2, <4>3 DEF q
    <3> QED BY <1>7, <3>1, <3>2
  <2> QED BY <2>1, <2>2, <2>3 DEF QueueWhole
<1>9. w.latest <= Len(l2) /\ Items(w.got) \cup w.replay \subseteq 1 .. Len(l2) /\ w.since <= Len(l2)
  <2>1. k.latest <= Len(l) /\ Items(k.got) \cup k.replay \subseteq 1 .. Len(l)
    BY DEF Served
  <2>2. 1 .. Len(l) \subseteq 1 .. Len(l2)
    BY <1>1
  <2> QED BY <1>1, <1>2, <1>4, <2>1, <2>2
<1>10. ASSUME w.at \in {"replaying", "live"} PROVE Covered(w, l2)
  <2>1. SUFFICES ASSUME NEW i \in w.since + 1 .. Len(l2), Matches(w.filter, l2[i])
                 PROVE  i \in Items(w.got) \cup w.lost \cup w.replay \cup Items(w.queue)
    BY DEF Covered
  <2>2. CASE i = n
    BY <1>14, <2>2
  <2>3. CASE i # n
    <3>1. i \in k.since + 1 .. Len(l) /\ i \in 1 .. Len(l)
      BY <1>1, <1>2, <1>4, <2>1, <2>3
    <3>2. i \in Items(k.got) \cup k.lost \cup k.replay \cup Items(k.queue)
      BY <1>1, <1>4, <1>10, <2>1, <3>1 DEF Served, Covered
    <3> QED BY <1>4, <1>5, <3>2
  <2> QED BY <2>2, <2>3
\* The new event is newer than all that was sent.
<1>11. \A x \in Items(w.got) \cup w.replay : ~(n < x)
  <2>1. \A x \in Items(k.got) \cup k.replay : x \in 1 .. Len(l)
    BY DEF Served
  <2> QED BY <1>1, <1>4, <2>1
<1>12. ASSUME w.at = "replaying" PROVE ReplayFirst(w)
  <2>1. ReplayFirst(k)
    BY <1>4, <1>12 DEF Served
  <2>2. ASSUME NEW j \in DOMAIN w.queue, NEW x \in w.replay \cup Items(w.got), w.queue[j] < x
        PROVE  w.queue[j] \in w.replay \cup Items(w.got)
    <3>1. j + d \in DOMAIN k.queue /\ w.queue[j] = k.queue[j + d]
      BY <1>7, <1>11, <2>2
    <3> QED BY <1>4, <2>1, <2>2, <3>1 DEF ReplayFirst
  <2> QED BY <1>4, <2>1, <2>2 DEF ReplayFirst
<1>13. ASSUME w.at = "live" PROVE w.replay = {} /\ SeenFirst(w)
  <2>1. SeenFirst(k) /\ k.replay = {}
    BY <1>4, <1>13 DEF Served
  <2>2. ASSUME NEW j \in DOMAIN w.queue, NEW m \in DOMAIN w.got, w.queue[j] < w.got[m]
        PROVE  \E i \in 1 .. m : w.got[i] = w.queue[j]
    <3>1. w.got[m] \in Items(w.got)
      BY DEF Items
    <3>2. j + d \in DOMAIN k.queue /\ w.queue[j] = k.queue[j + d]
      BY <1>7, <1>11, <2>2, <3>1
    <3> QED BY <1>4, <2>1, <2>2, <3>2 DEF SeenFirst
  <2> QED BY <1>4, <2>1, <2>2 DEF SeenFirst
<1>15. InOrder(w.got) /\ (w.at = "joining" => w.got = <<>> /\ w.replay = {})
  BY <1>4 DEF Served
<1> QED BY <1>4, <1>8, <1>9, <1>10, <1>12, <1>13, <1>15 DEF Served, l2, w

-----------------------------------------------------------------------------
LEMMA EmptyFacts ==
  /\ DOMAIN <<>> = {} /\ Items(<<>>) = {} /\ <<>> \in Seq(Nat) /\ Len(<<>>) = 0
  /\ Ascending(<<>>) /\ InOrder(<<>>)
<1>1. DOMAIN <<>> = {} /\ <<>> \in Seq(Nat) /\ Len(<<>>) = 0
  BY EmptySeq
<1> QED BY <1>1 DEF Items, Ascending, InOrder

LEMMA Joined ==
  ASSUME NEW l \in Seq(Events), NEW k, Served(k, l), NEW w \in Connections,
         w.at = "joining", w.since = k.latest, w.latest = k.latest,
         w.queue = <<>>, w.replay = {}, w.got = <<>>
  PROVE  Served(w, l)
<1>1. k.latest <= Len(l)
  BY DEF Served
<1>2. QueueWhole(w, l)
  BY EmptyFacts, EventBusAssumption DEF QueueWhole
<1> QED BY <1>1, <1>2, EmptyFacts DEF Served

LEMMA Left ==
  ASSUME NEW l \in Seq(Events), NEW k, Served(k, l), NEW w \in Connections,
         w.at = "away", w.latest = k.latest, w.replay = k.replay, w.got = k.got
  PROVE  Served(w, l)
BY DEF Served

\* An event that has a request is of its session.
OfItsSession(e) == e.request # None => e.session = SessionOf[e.request]

WellMade(l) == \A i \in DOMAIN l : OfItsSession(l[i])

\* A queue is not longer than a bucket, so what waits is not forgotten.
LEMMA NotForgotten ==
  ASSUME log \in Seq(Events), WellMade(log), NEW k \in Connections,
         k.since <= Len(log), QueueWhole(k, log), NEW j \in DOMAIN k.queue
  PROVE  /\ k.queue[j] \in k.since + 1 .. Len(log)
         /\ InBucket(k.filter, log[k.queue[j]])
         /\ k.filter.session # None => log[k.queue[j]].session = k.filter.session
         /\ k.queue[j] \notin Forgotten(k.filter)
<1> DEFINE f == k.filter
           q == k.queue[j]
           rest == {i \in q .. Len(log) : InBucket(f, log[i])}
<1>1. /\ k.since \in Nat /\ k.queue \in Seq(Nat) /\ Len(k.queue) \in Nat
      /\ f \in Filters
      /\ DOMAIN k.queue = 1 .. Len(k.queue)
  BY SeqFacts DEF Connections
<1>2. /\ f \in [session : Sessions \cup {None}, request : Requests \cup {None}]
      /\ f.session # None \/ f.request # None
  BY <1>1, EventBusAssumption
<1>3. /\ q \in k.since + 1 .. Len(log) /\ Matches(f, log[q])
      /\ \A i \in q .. Len(log) : Matches(f, log[i]) => i \in Items(k.queue)
      /\ Len(k.queue) <= Capacity
  BY DEF QueueWhole
<1> HIDE DEF q
<1>4. Len(log) \in Nat /\ DOMAIN log = 1 .. Len(log)
  BY LenProperties
<1>5. q \in 1 .. Len(log)
  BY <1>1, <1>3, <1>4
<1> HIDE DEF f
<1>6. InBucket(f, log[q]) /\ (f.session # None => log[q].session = f.session)
  BY <1>2, <1>3 DEF InBucket, Matches
<1>7. ASSUME NEW i \in 1 .. Len(log), InBucket(f, log[i]) PROVE Matches(f, log[i])
  <2>1. CASE f.request = None
    BY <1>7, <2>1 DEF InBucket, Matches
  <2>2. CASE f.request # None
    <3>1. log[i].request = f.request /\ log[q].request = f.request
      BY <1>3, <1>7, <2>2 DEF InBucket, Matches
    <3>2. log[i].session = SessionOf[f.request] /\ log[q].session = SessionOf[f.request]
      BY <1>4, <1>5, <2>2, <3>1 DEF WellMade, OfItsSession
    <3> QED BY <1>6, <3>1, <3>2 DEF Matches
  <2> QED BY <2>1, <2>2
<1>8. rest \subseteq Items(k.queue)
  <2>1. SUFFICES ASSUME NEW i \in q .. Len(log), InBucket(f, log[i]) PROVE i \in Items(k.queue)
    OBVIOUS
  <2>2. i \in 1 .. Len(log)
    BY <1>4, <1>5
  <2> QED BY <1>3, <1>7, <2>1, <2>2
<1>9. IsFiniteSet(Items(k.queue)) /\ Cardinality(Items(k.queue)) <= Len(k.queue)
  <2> DEFINE n == Len(k.queue)
             s == k.queue
             T == {s[i] : i \in 1 .. n}
  <2>1. n \in Nat /\ IsFiniteSet(1 .. n) /\ Cardinality(1 .. n) = n
    <3>1. n \in Nat
      BY <1>1
    <3> HIDE DEF n
    <3> QED BY <3>1, FS_Interval
  <2>2. Items(s) = T
    BY <1>1 DEF Items
  <2> HIDE DEF n, s
  <2>3. [i \in 1 .. n |-> s[i]] \in Surjection(1 .. n, T)
    BY DEF Surjection
  <2> DEFINE g == [i \in 1 .. n |-> s[i]]
  <2>4. g \in Surjection(1 .. n, T)
    BY <2>3
  <2> HIDE DEF g, T
  <2>5. IsFiniteSet(T) /\ Cardinality(T) <= Cardinality(1 .. n)
    BY <2>1, <2>4, FS_Surjection
  <2> QED BY <2>1, <2>2, <2>5 DEF n, s
<1>10. Cardinality(rest) <= ReplayLimit
  <2> DEFINE U == Items(k.queue)
  <2>1. IsFiniteSet(U) /\ rest \in SUBSET U /\ Cardinality(U) <= Len(k.queue)
    BY <1>8, <1>9
  <2> HIDE DEF U, rest
  <2>2. IsFiniteSet(rest) /\ Cardinality(rest) <= Cardinality(U)
    BY <2>1, FS_Subset
  <2>3. Cardinality(rest) \in Nat /\ Cardinality(U) \in Nat
    BY <2>1, <2>2, FS_CardinalityType
  <2> QED BY <1>1, <1>3, <2>1, <2>2, <2>3, EventBusAssumption
<1>11. q \notin Forgotten(f)
  <2>1. SUFFICES ASSUME q \in Forgotten(f) PROVE FALSE
    OBVIOUS
  <2>2. Cardinality(rest) > ReplayLimit
    BY <2>1 DEF Forgotten
  <2>3. Cardinality(rest) \in Nat
    <3> DEFINE U == Items(k.queue)
    <3>1. IsFiniteSet(U) /\ rest \in SUBSET U
      BY <1>8, <1>9
    <3> HIDE DEF U, rest
    <3> QED BY <3>1, FS_Subset, FS_CardinalityType
  <2> QED BY <1>10, <2>2, <2>3, EventBusAssumption
<1> QED BY <1>3, <1>6, <1>11 DEF q, f

\* The replay has all that the client was not sent and what waits does not have.
LEMMA ReplayBegun ==
  ASSUME log \in Seq(Events), WellMade(log), NEW k, Served(k, log), k.at = "joining",
         NEW w \in Connections,
         w.at = "replaying", w.filter = k.filter, w.since = k.since, w.latest = k.latest,
         w.queue = k.queue, w.got = k.got,
         w.replay = Recent(k.filter, k.since), w.lost = k.lost \cup Forgotten(k.filter)
  PROVE  Served(w, log)
<1> DEFINE f == k.filter
<1>1. /\ k \in Connections /\ k.since \in Nat /\ f \in Filters
      /\ k.latest <= Len(log) /\ k.since <= Len(log) /\ QueueWhole(k, log)
      /\ k.got = <<>>
  BY DEF Served, Connections
<1>2. /\ f \in [session : Sessions \cup {None}, request : Requests \cup {None}]
      /\ f.session # None \/ f.request # None
  BY <1>1, EventBusAssumption
<1>3. Len(log) \in Nat
  BY LenProperties
<1>4. w.replay = {i \in k.since + 1 .. Len(log) :
                    /\ InBucket(f, log[i])
                    /\ f.session # None => log[i].session = f.session
                    /\ i \notin Forgotten(f)}
  BY DEF Recent
<1>5. w.replay \subseteq 1 .. Len(log) /\ Items(w.got) = {}
  BY <1>1, <1>3, <1>4, EmptyFacts
<1>6. \A j \in DOMAIN k.queue : k.queue[j] \in w.replay
  BY <1>1, <1>4, NotForgotten
<1>7. ReplayFirst(w)
  BY <1>1, <1>6, EmptyFacts DEF ReplayFirst
<1>8. Covered(w, log)
  <2>1. SUFFICES ASSUME NEW i \in k.since + 1 .. Len(log), Matches(f, log[i])
                 PROVE  i \in w.lost \cup w.replay
    BY DEF Covered
  <2>2. InBucket(f, log[i]) /\ (f.session # None => log[i].session = f.session)
    BY <1>2, <2>1 DEF InBucket, Matches
  <2> QED BY <1>4, <2>1, <2>2
<1>9. QueueWhole(w, log)
  BY <1>1 DEF QueueWhole
<1>10. InOrder(w.got)
  BY <1>1, EmptyFacts
<1> QED BY <1>1, <1>5, <1>7, <1>8, <1>9, <1>10 DEF Served

LEMMA Replayed ==
  ASSUME NEW l \in Seq(Events), NEW k, Served(k, l), k.at = "replaying",
         NEW i \in k.replay, \A j \in k.replay : i <= j,
         NEW w \in Connections,
         w.at = "replaying", w.filter = k.filter, w.since = k.since, w.queue = k.queue,
         w.replay = k.replay \ {i}, w.got = Append(k.got, i), w.lost = k.lost,
         w.latest = Newer(k.latest, i)
  PROVE  Served(w, l)
<1>1. /\ k \in Connections /\ k.since \in Nat /\ k.latest \in Nat /\ k.got \in Seq(Nat)
      /\ k.replay \subseteq Nat /\ i \in Nat /\ k.queue \in Seq(Nat)
      /\ k.latest <= Len(l) /\ k.since <= Len(l) /\ QueueWhole(k, l)
      /\ Items(k.got) \cup k.replay \subseteq 1 .. Len(l)
      /\ Covered(k, l) /\ ReplayFirst(k)
  BY DEF Served, Connections
<1>2. /\ Len(k.got) \in Nat /\ DOMAIN k.got = 1 .. Len(k.got)
      /\ \A m \in DOMAIN k.got : k.got[m] \in Nat
  BY <1>1, SeqFacts
<1>3. /\ DOMAIN w.got = 1 .. Len(k.got) + 1
      /\ \A m \in DOMAIN k.got : w.got[m] = k.got[m]
      /\ w.got[Len(k.got) + 1] = i
      /\ Items(w.got) = Items(k.got) \cup {i}
  <2> DEFINE t == k.got
  <2>1. t \in Seq(Nat)
    BY <1>1
  <2>2. i \in Nat
    BY <1>1
  <2> HIDE DEF t
  <2>3. /\ Len(Append(t, i)) = Len(t) + 1 /\ DOMAIN Append(t, i) = 1 .. Len(t) + 1
        /\ \A place \in 1 .. Len(t) : Append(t, i)[place] = t[place]
        /\ Append(t, i)[Len(t) + 1] = i
        /\ Items(Append(t, i)) = Items(t) \cup {i}
    BY ONLY <2>1, <2>2, AppendFacts
  <2>4. w.got = Append(t, i)
    BY DEF t
  <2> QED BY <1>2, <2>3, <2>4 DEF t
<1>4. i \in 1 .. Len(l) /\ Len(l) \in Nat
  BY <1>1, LenProperties
<1>5. w.latest <= Len(l)
  BY <1>1, <1>4 DEF Newer
<1>6. Items(w.got) \cup w.replay = Items(k.got) \cup k.replay
  BY <1>3
<1>7. Ascending(w.got)
  <2>1. SUFFICES ASSUME NEW m \in DOMAIN w.got, NEW n \in DOMAIN w.got, m < n
                 PROVE  w.got[m] < w.got[n]
    BY DEF Ascending
  <2>2. m \in DOMAIN k.got
    BY <1>2, <1>3, <2>1
  <2>3. CASE n \in DOMAIN k.got
    BY <1>1, <1>3, <2>1, <2>2, <2>3 DEF ReplayFirst, Ascending
  <2>4. CASE n = Len(k.got) + 1
    BY <1>1, <1>3, <2>2, <2>4 DEF ReplayFirst
  <2> QED BY <1>2, <1>3, <2>3, <2>4
<1>8. ReplayFirst(w)
  <2>1. ASSUME NEW m \in DOMAIN w.got, NEW x \in w.replay PROVE w.got[m] < x
    <3>1. CASE m \in DOMAIN k.got
      BY <1>1, <1>3, <2>1, <3>1 DEF ReplayFirst
    <3>2. CASE m = Len(k.got) + 1
      <4>1. i <= x /\ i # x /\ x \in Nat
        BY <1>1, <2>1
      <4> QED BY <1>1, <1>3, <3>2, <4>1
    <3> QED BY <1>2, <1>3, <2>1, <3>1, <3>2
  <2> QED BY <1>1, <1>6, <1>7, <2>1 DEF ReplayFirst
<1>9. InOrder(w.got)
  <2>1. \A m, n \in DOMAIN w.got : m < n => ~(w.got[n] < w.got[m])
    <3>1. SUFFICES ASSUME NEW m \in DOMAIN w.got, NEW n \in DOMAIN w.got, m < n
                   PROVE  ~(w.got[n] < w.got[m])
      OBVIOUS
    <3>2. w.got \in Seq(Nat)
      BY DEF Connections
    <3>3. w.got[m] \in Nat /\ w.got[n] \in Nat
      BY <3>2, SeqFacts
    <3>4. w.got[m] < w.got[n]
      BY <1>7, <3>1 DEF Ascending
    <3> QED BY <3>3, <3>4
  <2> QED BY <2>1 DEF InOrder
<1>10. Covered(w, l)
  BY <1>1, <1>6 DEF Covered
<1>11. QueueWhole(w, l)
  BY <1>1 DEF QueueWhole
<1> QED BY <1>1, <1>5, <1>6, <1>8, <1>9, <1>10, <1>11 DEF Served

LEMMA SenderStarted ==
  ASSUME NEW l \in Seq(Events), NEW k, Served(k, l), k.at = "replaying", k.replay = {},
         NEW w \in Connections,
         w.at = "live", w.filter = k.filter, w.since = k.since, w.queue = k.queue,
         w.replay = k.replay, w.got = k.got, w.lost = k.lost, w.latest = k.latest
  PROVE  Served(w, l)
<1>1. /\ k \in Connections /\ k.got \in Seq(Nat) /\ ReplayFirst(k)
  BY DEF Served, Connections
<1>2. /\ DOMAIN k.got = 1 .. Len(k.got) /\ Len(k.got) \in Nat
      /\ \A m \in DOMAIN k.got : k.got[m] \in Nat
  BY <1>1, SeqFacts
<1>3. SeenFirst(w)
  <2>1. SUFFICES ASSUME NEW j \in DOMAIN k.queue, NEW m \in DOMAIN k.got, k.queue[j] < k.got[m]
                 PROVE  \E n \in 1 .. m : k.got[n] = k.queue[j]
    BY DEF SeenFirst
  <2>2. k.got[m] \in Items(k.got)
    BY DEF Items
  <2>3. k.queue[j] \in Items(k.got)
    BY <1>1, <2>1, <2>2 DEF ReplayFirst
  <2>4. PICK n \in DOMAIN k.got : k.got[n] = k.queue[j]
    BY <2>3 DEF Items
  <2>5. ~(m < n)
    <3>1. SUFFICES ASSUME m < n PROVE FALSE
      OBVIOUS
    <3>2. k.got[m] < k.got[n]
      BY <1>1, <3>1 DEF ReplayFirst, Ascending
    <3> QED BY <1>2, <2>1, <2>4, <3>2
  <2>6. n \in 1 .. m
    BY <1>2, <2>5
  <2> QED BY <2>4, <2>6
<1>4. Covered(w, l) /\ QueueWhole(w, l)
  BY DEF Served, Covered, QueueWhole
<1> QED BY <1>3, <1>4 DEF Served

LEMMA SentLive ==
  ASSUME NEW l \in Seq(Events), NEW k, Served(k, l), k.at = "live", k.queue # <<>>,
         NEW w \in Connections,
         w.at = "live", w.filter = k.filter, w.since = k.since, w.queue = Tail(k.queue),
         w.replay = k.replay, w.got = Append(k.got, Head(k.queue)), w.lost = k.lost,
         w.latest = Newer(k.latest, Head(k.queue))
  PROVE  Served(w, l)
<1> DEFINE i == Head(k.queue)
<1>1. /\ k \in Connections /\ k.since \in Nat /\ k.latest \in Nat /\ k.got \in Seq(Nat)
      /\ k.queue \in Seq(Nat)
      /\ k.latest <= Len(l) /\ k.since <= Len(l) /\ QueueWhole(k, l)
      /\ Items(k.got) \cup k.replay \subseteq 1 .. Len(l)
      /\ Covered(k, l) /\ SeenFirst(k) /\ k.replay = {}
  BY DEF Served, Connections
<1>2. /\ i = k.queue[1] /\ i \in Nat
      /\ Len(k.queue) \in Nat \ {0} /\ Len(Tail(k.queue)) = Len(k.queue) - 1
      /\ DOMAIN k.queue = 1 .. Len(k.queue) /\ DOMAIN Tail(k.queue) = 1 .. Len(k.queue) - 1
      /\ \A j \in 1 .. Len(k.queue) - 1 : Tail(k.queue)[j] = k.queue[j + 1]
      /\ Items(k.queue) = Items(Tail(k.queue)) \cup {i}
  BY <1>1, TailFacts
<1>3. /\ DOMAIN w.queue = 1 .. Len(k.queue) - 1
      /\ Len(w.queue) = Len(k.queue) - 1
      /\ \A j \in DOMAIN w.queue : j + 1 \in DOMAIN k.queue /\ w.queue[j] = k.queue[j + 1]
      /\ Items(k.queue) = Items(w.queue) \cup {i}
  BY <1>2
<1>4. /\ Len(k.got) \in Nat /\ DOMAIN k.got = 1 .. Len(k.got)
      /\ \A m \in DOMAIN k.got : k.got[m] \in Nat
  BY <1>1, SeqFacts
<1>5. /\ DOMAIN w.got = 1 .. Len(k.got) + 1
      /\ \A m \in DOMAIN k.got : w.got[m] = k.got[m]
      /\ w.got[Len(k.got) + 1] = i
      /\ Items(w.got) = Items(k.got) \cup {i}
  <2> DEFINE t == k.got
  <2>1. t \in Seq(Nat)
    BY <1>1
  <2>2. i \in Nat
    BY <1>2
  <2>4. w.got = Append(t, i)
    OBVIOUS
  <2> HIDE DEF i, t
  <2>3. /\ Len(Append(t, i)) = Len(t) + 1 /\ DOMAIN Append(t, i) = 1 .. Len(t) + 1
        /\ \A place \in 1 .. Len(t) : Append(t, i)[place] = t[place]
        /\ Append(t, i)[Len(t) + 1] = i
        /\ Items(Append(t, i)) = Items(t) \cup {i}
    BY ONLY <2>1, <2>2, AppendFacts
  <2> QED BY <1>4, <2>3, <2>4 DEF t
<1>6. 1 \in DOMAIN k.queue
  BY <1>2
<1>7. i \in k.since + 1 .. Len(l) /\ Len(l) \in Nat
  BY <1>1, <1>2, <1>6, LenProperties DEF QueueWhole
<1>8. \A j \in DOMAIN w.queue : /\ w.queue[j] \in Nat /\ i < w.queue[j]
                                /\ \E n \in DOMAIN k.queue : w.queue[j] = k.queue[n]
  <2>1. SUFFICES ASSUME NEW j \in DOMAIN w.queue
                 PROVE  /\ w.queue[j] \in Nat /\ i < w.queue[j]
                        /\ \E n \in DOMAIN k.queue : w.queue[j] = k.queue[n]
    OBVIOUS
  <2>2. j + 1 \in DOMAIN k.queue /\ w.queue[j] = k.queue[j + 1] /\ 1 < j + 1
    BY <1>2, <1>3
  <2>3. k.queue[1] < k.queue[j + 1]
    BY <1>1, <1>6, <2>2 DEF QueueWhole, Ascending
  <2>4. k.queue[j + 1] \in Nat
    BY <1>1, <2>2, SeqFacts
  <2> QED BY <1>2, <2>2, <2>3, <2>4
<1> HIDE DEF i
<1>9. w.latest <= Len(l) /\ Items(w.got) \cup w.replay \subseteq 1 .. Len(l)
  <2>1. i \in 1 .. Len(l)
    BY <1>1, <1>7
  <2>2. w.latest = Newer(k.latest, i)
    BY DEF i
  <2>3. w.latest <= Len(l)
    BY <1>1, <1>7, <2>1, <2>2 DEF Newer
  <2> QED BY <1>1, <1>5, <2>1, <2>3
<1>10. QueueWhole(w, l)
  <2>1. Ascending(w.queue)
    <3>1. SUFFICES ASSUME NEW a \in DOMAIN w.queue, NEW b \in DOMAIN w.queue, a < b
                   PROVE  w.queue[a] < w.queue[b]
      BY DEF Ascending
    <3>2. a + 1 < b + 1
      BY <1>2, <1>3, <3>1
    <3> QED BY <1>1, <1>3, <3>2 DEF QueueWhole, Ascending
  <2>2. Len(w.queue) <= Capacity
    BY <1>1, <1>2, <1>3, EventBusAssumption DEF QueueWhole
  <2>3. ASSUME NEW j \in DOMAIN w.queue
        PROVE  /\ w.queue[j] \in w.since + 1 .. Len(l)
               /\ Matches(w.filter, l[w.queue[j]])
               /\ \A n \in w.queue[j] .. Len(l) : Matches(w.filter, l[n]) => n \in Items(w.queue)
    <3>1. PICK b \in DOMAIN k.queue : w.queue[j] = k.queue[b]
      BY <1>8
    <3>2. /\ w.queue[j] \in k.since + 1 .. Len(l)
          /\ Matches(k.filter, l[w.queue[j]])
          /\ \A n \in w.queue[j] .. Len(l) : Matches(k.filter, l[n]) => n \in Items(k.queue)
      BY <1>1, <3>1 DEF QueueWhole
    <3>3. ASSUME NEW n \in w.queue[j] .. Len(l) PROVE n # i
      <4>1. i < w.queue[j] /\ w.queue[j] \in Nat
        BY <1>8
      <4> QED BY <1>2, <1>7, <4>1
    <3> QED BY <1>3, <3>2, <3>3
  <2> QED BY <2>1, <2>2, <2>3 DEF QueueWhole
<1>11. Covered(w, l)
  BY <1>1, <1>3, <1>5 DEF Covered
<1>12. InOrder(w.got)
  <2>1. SUFFICES ASSUME NEW m \in DOMAIN w.got, NEW n \in DOMAIN w.got, m < n, w.got[n] < w.got[m]
                 PROVE  \E a \in 1 .. m : w.got[a] = w.got[n]
    BY DEF InOrder
  <2>2. m \in DOMAIN k.got /\ \A a \in 1 .. m : a \in DOMAIN k.got
    BY <1>4, <1>5, <2>1
  <2>3. CASE n \in DOMAIN k.got
    <3>1. \E a \in 1 .. m : k.got[a] = k.got[n]
      BY <1>5, <2>1, <2>2, <2>3 DEF Served, InOrder
    <3> QED BY <1>5, <2>2, <2>3, <3>1
  <2>4. CASE n = Len(k.got) + 1
    <3>1. k.queue[1] < k.got[m]
      BY <1>2, <1>5, <2>1, <2>2, <2>4
    <3>2. \E a \in 1 .. m : k.got[a] = k.queue[1]
      BY <1>1, <1>6, <2>2, <3>1 DEF SeenFirst
    <3> QED BY <1>2, <1>5, <2>2, <2>4, <3>2
  <2> QED BY <1>4, <1>5, <2>3, <2>4
<1>13. SeenFirst(w)
  <2>1. SUFFICES ASSUME NEW j \in DOMAIN w.queue, NEW m \in DOMAIN w.got, w.queue[j] < w.got[m]
                 PROVE  \E n \in 1 .. m : w.got[n] = w.queue[j]
    BY DEF SeenFirst
  <2>2. m # Len(k.got) + 1
    BY <1>2, <1>5, <1>8, <2>1
  <2>3. m \in DOMAIN k.got /\ \A a \in 1 .. m : a \in DOMAIN k.got
    BY <1>4, <1>5, <2>2
  <2>4. PICK b \in DOMAIN k.queue : w.queue[j] = k.queue[b]
    BY <1>8
  <2>5. \E n \in 1 .. m : k.got[n] = k.queue[b]
    BY <1>1, <1>5, <2>1, <2>3, <2>4 DEF SeenFirst
  <2> QED BY <1>5, <2>3, <2>4, <2>5
<1> QED BY <1>1, <1>9, <1>10, <1>11, <1>12, <1>13 DEF Served

-----------------------------------------------------------------------------
(* What is published, and when *)

\* Bindings stay within a session.
BoundInSession ==
  /\ \A m \in Messages : byMessage[m] # None => SessionOf[byMessage[m]] = SessionOf[m[2]]
  /\ \A s \in Sessions : active[s] # None => SessionOf[active[s]] = s

LEMMA BoundKept ==
  ASSUME TypeOK, BoundInSession, [Next]_vars
  PROVE  BoundInSession'
<1>1. byMessage \in [Messages -> Requests \cup {None}] /\ active \in [Sessions -> Requests \cup {None}]
  BY DEF TypeOK
<1>2. ASSUME NEW r \in Requests,
             byMessage' = byMessage \/ byMessage' = [byMessage EXCEPT ![<<"prompt", r>>] = r],
             active' = active \/ active' = [active EXCEPT ![SessionOf[r]] = r]
      PROVE  BoundInSession'
  <2>1. ASSUME NEW m \in Messages, byMessage'[m] # None
        PROVE  SessionOf[byMessage'[m]] = SessionOf[m[2]]
    <3>1. byMessage'[m] = byMessage[m] \/ (m = <<"prompt", r>> /\ byMessage'[m] = r)
      BY <1>1, <1>2
    <3> QED BY <2>1, <3>1 DEF BoundInSession
  <2>2. ASSUME NEW s \in Sessions, active'[s] # None
        PROVE  SessionOf[active'[s]] = s
    <3>1. active'[s] = active[s] \/ (s = SessionOf[r] /\ active'[s] = r)
      BY <1>1, <1>2
    <3> QED BY <2>2, <3>1 DEF BoundInSession
  <2> QED BY <2>1, <2>2 DEF BoundInSession
<1>3. ASSUME NEW c \in Chats, ChatStep(c) PROVE BoundInSession'
  <2>1. c \in Requests
    BY DEF Requests
  <2>2. CASE ChatBegins(c)
    BY <1>2, <2>1, <2>2 DEF ChatBegins
  <2>3. CASE ChatSends(c)
    BY <1>2, <2>1, <2>3 DEF ChatSends
  <2>4. CASE ChatEnds(c)
    <3>1. PICK answers \in {Replies(c) \ before[c], replied \cap {c}} : Bind(c, answers)
      BY <2>4 DEF ChatEnds
    <3>2. \A r \in answers : SessionOf[r] = SessionOf[c]
      BY <3>1 DEF Replies
    <3>3. ASSUME NEW m \in Messages, byMessage'[m] # None
          PROVE  SessionOf[byMessage'[m]] = SessionOf[m[2]]
      <4>1. \/ byMessage'[m] = c /\ m[2] \in answers
            \/ byMessage'[m] = byMessage[m]
        BY <3>1 DEF Bind
      <4> QED BY <3>2, <3>3, <4>1 DEF BoundInSession
    <3>4. ASSUME NEW s \in Sessions, active'[s] # None
          PROVE  SessionOf[active'[s]] = s
      <4>1. active'[s] = active[s] \/ (s = SessionOf[c] /\ active'[s] = c)
        BY <1>1, <3>1 DEF Bind
      <4> QED BY <3>4, <4>1 DEF BoundInSession
    <3> QED BY <3>3, <3>4 DEF BoundInSession
  <2>5. CASE ChatFails(c)
    BY <1>2, <2>1, <2>5 DEF ChatFails
  <2> QED BY <1>3, <2>2, <2>3, <2>4, <2>5 DEF ChatStep
<1>4. ASSUME NEW t \in Tasks, TaskStep(t) PROVE BoundInSession'
  <2>1. t \in Requests
    BY DEF Requests
  <2> QED BY <1>2, <1>4, <2>1 DEF TaskStep, TaskAccepted, TaskStarts, TaskEnds
<1>5. ASSUME NEW r \in Requests, OpenCodeStep(r) PROVE BoundInSession'
  BY <1>2, <1>5 DEF OpenCodeStep, Lands, Answers, GoesOn, Emit
<1>6. ASSUME UNCHANGED <<byMessage, active>> PROVE BoundInSession'
  BY <1>6 DEF BoundInSession
<1>7. CASE BridgeStep
  BY <1>6, <1>7 DEF BridgeStep, Reads, Fetched, StreamBreaks, StreamConnects
<1>8. CASE UNCHANGED bridgeVars
  BY <1>6, <1>8 DEF bridgeVars
<1> QED BY <1>3, <1>4, <1>5, <1>7, <1>8 DEF Next, vars

LEMMA AttributedWithin ==
  ASSUME BoundInSession, NEW raw \in RawEvents
  PROVE  OfItsSession(Attributed(raw))
<1> DEFINE s == SessionOf[raw.cause]
<1>1. raw.cause \in Requests /\ s \in Sessions /\ raw.about \in Subjects
  BY Kinds DEF RawEvents
<1>2. MessageOf(raw) \in Messages /\ MessageOf(raw)[2] = raw.cause
  BY <1>1 DEF MessageOf, Messages
<1>3. byMessage[MessageOf(raw)] # None => SessionOf[byMessage[MessageOf(raw)]] = s
  BY <1>2 DEF BoundInSession
<1>4. \A t \in TaskNamed(raw) : SessionOf[t] = s
  BY DEF TaskNamed
<1>5. active[s] # None => SessionOf[active[s]] = s
  BY <1>1 DEF BoundInSession
<1>6. Resolved(raw) # None => SessionOf[Resolved(raw)] = s
  BY <1>3, <1>4, <1>5 DEF Resolved
<1> QED BY <1>6 DEF Attributed, OfItsSession

\* A step publishes one event, or is a client's, or leaves the bus alone.
LEMMA OnTheBus ==
  ASSUME IInv, BoundInSession, [Next]_vars
  PROVE  \/ \E e \in Events : OfItsSession(e) /\ Publish(e)
         \/ \E c \in Clients : ClientStep(c)
         \/ UNCHANGED busVars
<1>1. ASSUME NEW r \in Requests PROVE Own(r) \in Events /\ OfItsSession(Own(r))
  BY Kinds DEF Own, Events, OfItsSession
<1>2. ASSUME NEW c \in Chats, ChatStep(c)
      PROVE  (\E e \in Events : OfItsSession(e) /\ Publish(e)) \/ UNCHANGED busVars
  <2>1. c \in Requests
    BY DEF Requests
  <2>2. Publish(Own(c)) \/ UNCHANGED busVars
    BY <1>2 DEF ChatStep, ChatBegins, ChatSends, ChatEnds, ChatFails
  <2> QED BY <1>1, <2>1, <2>2
<1>3. ASSUME NEW t \in Tasks, TaskStep(t)
      PROVE  \E e \in Events : OfItsSession(e) /\ Publish(e)
  <2>1. t \in Requests
    BY DEF Requests
  <2>2. Publish(Own(t))
    BY <1>3 DEF TaskStep, TaskAccepted, TaskStarts, TaskEnds
  <2> QED BY <1>1, <2>1, <2>2
<1>4. ASSUME NEW r \in Requests, OpenCodeStep(r) PROVE UNCHANGED busVars
  BY <1>4 DEF OpenCodeStep, Lands, Answers, GoesOn, Emit
<1>5. CASE BridgeStep
  <2>1. ASSUME NEW raw \in RawEvents, Begun(raw, landed, replied), Publish(Attributed(raw))
        PROVE  \E e \in Events : OfItsSession(e) /\ Publish(e)
    BY <2>1, Found, AttributedWithin
  <2>2. /\ line \in Seq(RawEvents) /\ hand \in RawEvents \cup {None}
        /\ \A i \in DOMAIN line : Begun(line[i], landed, replied)
        /\ hand # None => Begun(hand, landed, replied)
    BY DEF IInv, TypeOK, SentBefore
  <2>3. CASE Reads
    <3>1. line # <<>> /\ (Publish(Attributed(Head(line))) \/ UNCHANGED busVars)
      BY <2>3 DEF Reads
    <3>2. Head(line) = line[1] /\ Head(line) \in RawEvents /\ 1 \in DOMAIN line
      BY <2>2, <3>1
    <3> QED BY <2>1, <2>2, <3>1, <3>2
  <2>4. CASE Fetched
    BY <2>1, <2>2, <2>4 DEF Fetched
  <2>5. CASE StreamBreaks \/ StreamConnects
    BY <2>5 DEF StreamBreaks, StreamConnects
  <2> QED BY <1>5, <2>3, <2>4, <2>5 DEF BridgeStep
<1> QED BY <1>2, <1>3, <1>4, <1>5 DEF Next, vars

-----------------------------------------------------------------------------
(* The clients *)

BusInv ==
  /\ BoundInSession
  /\ WellMade(log)
  /\ client \in [Clients -> Connections]
  /\ \A c \in Clients : Served(client[c], log)

LEMMA PublishKeeps ==
  ASSUME log \in Seq(Events), BusInv, NEW e \in Events, OfItsSession(e), Publish(e)
  PROVE  /\ WellMade(log')
         /\ client' \in [Clients -> Connections]
         /\ \A c \in Clients : Served(client'[c], log')
<1>1. log' = Append(log, e)
  BY DEF Publish
<1>2. WellMade(log')
  <2>1. /\ DOMAIN log' = 1 .. Len(log) + 1 /\ Len(log) \in Nat /\ DOMAIN log = 1 .. Len(log)
        /\ \A place \in 1 .. Len(log) : log'[place] = log[place]
        /\ log'[Len(log) + 1] = e
    BY <1>1, AppendFacts, LenProperties
  <2>2. SUFFICES ASSUME NEW i \in DOMAIN log' PROVE OfItsSession(log'[i])
    BY DEF WellMade
  <2>3. CASE i = Len(log) + 1
    BY <2>1, <2>3
  <2>4. CASE i \in DOMAIN log
    BY <2>1, <2>4 DEF BusInv, WellMade
  <2> QED BY <2>1, <2>2, <2>3, <2>4
<1>3. ASSUME NEW c \in Clients PROVE Served(client'[c], log')
  <2> DEFINE k == client[c]
  <2>1. Served(k, log)
    BY DEF BusInv
  <2>2. client'[c] = IF Subscribed(c) /\ Matches(k.filter, e) THEN Enqueue(k, Len(log) + 1) ELSE k
    BY DEF Publish
  <2>3. Subscribed(c) <=> k.at # "away"
    BY DEF Subscribed
  <2> HIDE DEF k
  <2>4. CASE k.at # "away" /\ Matches(k.filter, e)
    BY <1>1, <2>1, <2>2, <2>3, <2>4, Queued
  <2>5. CASE k.at = "away" \/ ~Matches(k.filter, e)
    BY <1>1, <2>1, <2>2, <2>3, <2>5, Unsent
  <2> QED BY <2>4, <2>5
<1>4. client' \in [Clients -> Connections]
  <2>1. DOMAIN client' = Clients /\ client' = [c \in Clients |-> client'[c]]
    BY DEF Publish
  <2>2. \A c \in Clients : client'[c] \in Connections
    BY <1>3 DEF Served
  <2> QED BY <2>1, <2>2
<1> QED BY <1>2, <1>3, <1>4

LEMMA ClientKeeps ==
  ASSUME log \in Seq(Events), BusInv, NEW c \in Clients, ClientStep(c)
  PROVE  /\ WellMade(log')
         /\ client' \in [Clients -> Connections]
         /\ \A d \in Clients : Served(client'[d], log')
<1> DEFINE k == client[c]
<1>1. /\ k \in Connections /\ Served(k, log) /\ WellMade(log)
      /\ client \in [Clients -> Connections]
      /\ \A d \in Clients : Served(client[d], log)
  BY DEF BusInv
<1>2. UNCHANGED log
  BY DEF ClientStep, Connect, BeginReplay, SendReplayed, StartSender, SendLive, Disconnect
<1>3. ASSUME NEW w \in Connections, Served(w, log), client' = [client EXCEPT ![c] = w]
      PROVE  /\ client' \in [Clients -> Connections]
             /\ \A d \in Clients : Served(client'[d], log')
  <2>1. client' \in [Clients -> Connections]
    BY <1>1, <1>3
  <2>2. \A d \in Clients : client'[d] = IF d = c THEN w ELSE client[d]
    BY <1>1, <1>3
  <2>3. \A d \in Clients : Served(client'[d], log)
    BY <1>1, <1>3, <2>2
  <2> QED BY <1>2, <2>1, <2>3
<1>4. /\ k.since \in Nat /\ k.replay \subseteq Nat /\ k.queue \in Seq(Nat) /\ k.got \in Seq(Nat)
      /\ k.lost \subseteq Nat /\ k.latest \in Nat /\ k.visits \in 0 .. MaxVisits
      /\ Len(log) \in Nat /\ MaxVisits \in Nat
  BY <1>1, EventBusAssumption, LenProperties DEF Connections
<1>5. WellMade(log')
  BY <1>1, <1>2
<1>6. CASE Connect(c)
  <2> DEFINE n == k.visits + 1
             last == k.latest
             w == [k EXCEPT !.at = "joining", !.since = last, !.queue = <<>>, !.replay = {},
                            !.got = <<>>, !.lost = {}, !.visits = n]
  <2>1. client' = [client EXCEPT ![c] = w]
    BY <1>1, <1>6 DEF Connect
  <2>2. n \in 0 .. MaxVisits /\ last \in Nat
    BY <1>4, <1>6 DEF Connect
  <2> HIDE DEF n, last
  <2>3. /\ w \in Connections
        /\ w.at = "joining" /\ w.since = last /\ w.latest = k.latest
        /\ w.queue = <<>> /\ w.replay = {} /\ w.got = <<>>
    BY <1>1, <2>2, EmptyFacts DEF Connections
  <2> HIDE DEF w
  <2>4. Served(w, log)
    BY <1>1, <2>3, Joined DEF last
  <2> QED BY <1>3, <1>5, <2>1, <2>3, <2>4
<1>7. CASE BeginReplay(c)
  <2> DEFINE old == Recent(k.filter, k.since)
             gone == k.lost \cup Forgotten(k.filter)
             w == [k EXCEPT !.at = "replaying", !.replay = old, !.lost = gone]
  <2>1. client' = [client EXCEPT ![c] = w] /\ k.at = "joining"
    BY <1>1, <1>7 DEF BeginReplay
  <2>2. old \subseteq Nat /\ gone \subseteq Nat
    BY <1>4 DEF Recent, Forgotten
  <2> HIDE DEF old, gone
  <2>3. /\ w \in Connections
        /\ w.at = "replaying" /\ w.filter = k.filter /\ w.since = k.since /\ w.latest = k.latest
        /\ w.queue = k.queue /\ w.got = k.got /\ w.replay = old /\ w.lost = gone
    BY <1>1, <2>2 DEF Connections
  <2> HIDE DEF w, k
  <2>4. Served(w, log)
    BY <1>1, <2>1, <2>3, ReplayBegun DEF old, gone
  <2> QED BY <1>3, <1>5, <2>1, <2>3, <2>4
<1>8. CASE SendReplayed(c)
  <2>1. PICK i \in k.replay :
          /\ \A j \in k.replay : i <= j
          /\ client' = [client EXCEPT ![c] = [Sent(k, i) EXCEPT !.replay = @ \ {i}]]
    BY <1>8 DEF SendReplayed
  <2> DEFINE more == Append(k.got, i)
             last == Newer(k.latest, i)
             rest == k.replay \ {i}
             w == [k EXCEPT !.got = more, !.latest = last, !.replay = rest]
  <2>2. client' = [client EXCEPT ![c] = w]
    BY <1>1, <2>1 DEF Sent, Connections
  <2>3. i \in Nat
    BY <1>4
  <2>4. more \in Seq(Nat)
    BY <1>4, <2>3, AppendFacts
  <2>5. last \in Nat /\ rest \subseteq Nat /\ k.at = "replaying"
    BY <1>4, <1>8, <2>3 DEF Newer, SendReplayed
  <2> HIDE DEF more, last, rest
  <2>6. /\ w \in Connections
        /\ w.at = k.at /\ w.filter = k.filter /\ w.since = k.since /\ w.queue = k.queue
        /\ w.replay = rest /\ w.got = more /\ w.lost = k.lost /\ w.latest = last
    BY <1>1, <2>4, <2>5 DEF Connections
  <2> HIDE DEF w, k
  <2>7. Served(w, log)
    BY <1>1, <2>1, <2>5, <2>6, Replayed DEF more, last, rest
  <2> QED BY <1>3, <1>5, <2>2, <2>6, <2>7
<1>9. CASE StartSender(c)
  <2> DEFINE w == [k EXCEPT !.at = "live"]
  <2>1. client' = [client EXCEPT ![c] = w] /\ k.at = "replaying" /\ k.replay = {}
    BY <1>1, <1>9 DEF StartSender
  <2>2. /\ w \in Connections
        /\ w.at = "live" /\ w.filter = k.filter /\ w.since = k.since /\ w.queue = k.queue
        /\ w.replay = k.replay /\ w.got = k.got /\ w.lost = k.lost /\ w.latest = k.latest
    BY <1>1 DEF Connections
  <2> HIDE DEF w, k
  <2>3. Served(w, log)
    BY <1>1, <2>1, <2>2, SenderStarted
  <2> QED BY <1>3, <1>5, <2>1, <2>2, <2>3
<1>10. CASE SendLive(c)
  <2> DEFINE h == Head(k.queue)
             t == Tail(k.queue)
             more == Append(k.got, h)
             last == Newer(k.latest, h)
             w == [k EXCEPT !.got = more, !.latest = last, !.queue = t]
  <2>1. k.at = "live" /\ k.queue # <<>> /\ client' = [client EXCEPT ![c] = w]
    BY <1>1, <1>10 DEF SendLive, Sent, Connections
  <2>2. h \in Nat /\ t \in Seq(Nat)
    BY <1>4, <2>1, TailFacts
  <2> HIDE DEF h, t
  <2>3. more \in Seq(Nat)
    BY <1>4, <2>2, AppendFacts
  <2>4. last \in Nat
    BY <1>4, <2>2 DEF Newer
  <2> HIDE DEF more, last
  <2>5. /\ w \in Connections
        /\ w.at = k.at /\ w.filter = k.filter /\ w.since = k.since /\ w.queue = t
        /\ w.replay = k.replay /\ w.got = more /\ w.lost = k.lost /\ w.latest = last
    BY <1>1, <2>2, <2>3, <2>4 DEF Connections
  <2> HIDE DEF w, k
  <2>6. Served(w, log)
    BY <1>1, <2>1, <2>5, SentLive DEF more, last, h, t
  <2> QED BY <1>3, <1>5, <2>1, <2>5, <2>6
<1>11. CASE Disconnect(c)
  <2> DEFINE w == [k EXCEPT !.at = "away"]
  <2>1. client' = [client EXCEPT ![c] = w]
    BY <1>1, <1>11 DEF Disconnect
  <2>2. /\ w \in Connections
        /\ w.at = "away" /\ w.latest = k.latest /\ w.replay = k.replay /\ w.got = k.got
    BY <1>1 DEF Connections
  <2> HIDE DEF w, k
  <2>3. Served(w, log)
    BY <1>1, <2>2, Left
  <2> QED BY <1>3, <1>5, <2>1, <2>2, <2>3
<1> QED BY <1>6, <1>7, <1>8, <1>9, <1>10, <1>11 DEF ClientStep

LEMMA BusInit == Init => BusInv
<1> SUFFICES ASSUME Init PROVE BusInv
  OBVIOUS
<1>1. /\ byMessage = [m \in Messages |-> None] /\ active = [s \in Sessions |-> None]
      /\ log = <<>>
  BY DEF Init, Fresh
<1>2. BoundInSession
  BY <1>1 DEF BoundInSession
<1>3. PICK wants \in [Clients -> Filters] : client = [c \in Clients |-> Stranger(wants[c])]
  BY DEF Init
<1>4. log \in Seq(Events) /\ Len(log) = 0 /\ DOMAIN log = {}
  BY <1>1, EmptySeq
<1>5. WellMade(log)
  BY <1>4 DEF WellMade
<1>6. ASSUME NEW f \in Filters PROVE Stranger(f) \in Connections /\ Served(Stranger(f), log)
  <2> DEFINE w == Stranger(f)
  <2>1. /\ w.at = "away" /\ w.latest = 0 /\ w.replay = {} /\ w.got = <<>>
    BY DEF Stranger
  <2>2. w \in Connections
    BY EmptyFacts, EventBusAssumption DEF Stranger, Connections
  <2> HIDE DEF w
  <2>3. Served(w, log)
    BY <1>4, <2>1, <2>2, EmptyFacts DEF Served
  <2> QED BY <2>2, <2>3 DEF w
<1>7. client \in [Clients -> Connections] /\ \A c \in Clients : Served(client[c], log)
  BY <1>3, <1>6
<1> QED BY <1>2, <1>5, <1>7 DEF BusInv

LEMMA BusNext == IInv /\ BusInv /\ [Next]_vars => BusInv'
<1> SUFFICES ASSUME IInv, BusInv, [Next]_vars PROVE BusInv'
  OBVIOUS
<1>1. BoundInSession'
  BY BoundKept DEF BusInv, IInv
<1>2. /\ WellMade(log')
      /\ client' \in [Clients -> Connections]
      /\ \A c \in Clients : Served(client'[c], log')
  <2>1. log \in Seq(Events) /\ BoundInSession
    BY DEF IInv, TypeOK, BusInv
  <2>2. CASE UNCHANGED busVars
    <3>1. log' = log /\ client' = client
      BY <2>2 DEF busVars
    <3> QED BY <3>1 DEF BusInv
  <2> QED BY <2>1, <2>2, OnTheBus, PublishKeeps, ClientKeeps
<1> QED BY <1>1, <1>2 DEF BusInv

\* In a connection an event is seen for the first time in the order of publication,
\* whatever is published while the replay runs and however the queue overflows.
THEOREM EventsInOrder == Spec => []FirstSeenInOrder
<1>1. BusInv => FirstSeenInOrder
  BY DEF BusInv, Served, InOrder, FirstSeenInOrder
<1>2. QED
  BY <1>1, InitHolds, NextKeeps, BusInit, BusNext, PTL DEF Spec

\* A client whose queue is empty has what its filter matches and a limit did not take:
\* no event falls between the replay and the live events, whenever it is published.
THEOREM NothingFallsBetween == Spec => []NothingMissed
<1>1. BusInv => NothingMissed
  <2>1. SUFFICES ASSUME BusInv, NEW c \in Clients, client[c].at = "live", client[c].queue = <<>>
                 PROVE  \A i \in (client[c].since + 1) .. Len(log) :
                          Matches(client[c].filter, log[i]) => i \in SentTo(c) \cup client[c].lost
    BY DEF NothingMissed
  <2>2. Covered(client[c], log) /\ client[c].replay = {}
    BY <2>1 DEF BusInv, Served
  <2>3. SentTo(c) = Items(client[c].got)
    BY DEF SentTo, Items
  <2> QED BY <2>1, <2>2, <2>3, EmptyFacts DEF Covered
<1>2. QED
  BY <1>1, InitHolds, NextKeeps, BusInit, BusNext, PTL DEF Spec

=============================================================================
