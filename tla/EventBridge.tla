----------------------------- MODULE EventBridge ----------------------------
(***************************************************************************)
(* How an event of OpenCode finds the request it belongs to: the bridge of *)
(* event_bridge.py reads OpenCode's stream and asks the bindings of        *)
(* request_bindings.py, which the chat and task handlers write.  The       *)
(* events it publishes and the handlers' own go through the bus of module  *)
(* EventBus.                                                               *)
(*                                                                         *)
(* A portal session has one OpenCode session here, and is named for it.    *)
(* Bindings expire after an hour and nothing completes them; here they     *)
(* stay.  Of a handler only the steps that touch bindings or publish are   *)
(* left, and the events that one step publishes are one event.             *)
(***************************************************************************)
EXTENDS EventBus

CONSTANT MaxEmits    \* bound on the events OpenCode emits

ASSUME EventBridgeAssumption == MaxEmits \in Nat

VARIABLES
  at,          \* where each request is
  before,      \* the replies a chat's first listing showed
  active,      \* _active: the request bound last in a session
  byMessage,   \* _by_message: the request bound to a message
  landed,      \* OpenCode: the requests whose prompt it has
  replied,     \* OpenCode: the requests it has begun to answer
  line,        \* what it has sent and the bridge has not read
  hand,        \* the event for which the bridge waits for get_message
  up,          \* the stream is connected
  emits,       \* how many events OpenCode has emitted
  mixed        \* see Mixes below

bridgeVars == <<at, before, active, byMessage, landed, replied, line, hand, up, emits, mixed>>

vars == <<bridgeVars, busVars>>

\* A request's prompt and reply in OpenCode.
Messages == {"prompt", "reply"} \X Requests

RawEvents == [about : Subjects, cause : Requests]

\* "failed": it ended without an answer, its prompt sent; "over": not even sent.
Stages == {"idle", "accepted", "bound", "sent", "done", "failed", "over"}

Unfinished == {"accepted", "bound", "sent"}

\* The state of requests, OpenCode and the bridge, and what was published.
TypeOK ==
  /\ at \in [Requests -> Stages]
  /\ before \in [Chats -> SUBSET Requests]
  /\ active \in [Sessions -> Requests \cup {None}]
  /\ byMessage \in [Messages -> Requests \cup {None}]
  /\ landed \subseteq Requests
  /\ replied \subseteq landed
  /\ line \in Seq(RawEvents)
  /\ hand \in RawEvents \cup {None}
  /\ up \in BOOLEAN
  /\ emits \in 0 .. MaxEmits
  /\ mixed \subseteq Requests
  /\ log \in Seq(Events)

\* Nothing is bound, sent or published.
Fresh ==
  /\ before = [c \in Chats |-> {}]
  /\ active = [s \in Sessions |-> None]
  /\ byMessage = [m \in Messages |-> None]
  /\ landed = {} /\ replied = {}
  /\ line = <<>> /\ hand = None /\ up = TRUE
  /\ log = <<>>
  /\ mixed = {}

\* A client that wants what filter f says.
Stranger(f) == [at |-> "away", filter |-> f, since |-> 0, replay |-> {}, queue |-> <<>>,
                got |-> <<>>, lost |-> {}, latest |-> 0, visits |-> 0]

Init ==
  /\ Fresh
  /\ at = [r \in Requests |-> "idle"]
  /\ emits = 0
  /\ \E wants \in [Clients -> Filters] : client = [c \in Clients |-> Stranger(wants[c])]

-----------------------------------------------------------------------------
(* The requests *)

Neighbours(r) == {q \in Requests \ {r} : SessionOf[q] = SessionOf[r]}

\* What attribution cannot tell apart, by design: requests at work in one session at
\* the same time, and a request whose answer nobody bound (it failed, or is a task),
\* once another begins.
Mixes(r) ==
  mixed' = mixed \cup {q \in Neighbours(r) : \/ at[q] \in Unfinished \cup {"failed"}
                                             \/ q \in Tasks /\ at[q] = "done"}
                 \cup {q \in {r} : \E n \in Neighbours(r) : at[n] \in Unfinished}

Own(r) == [session |-> SessionOf[r], request |-> r, cause |-> r, about |-> "own"]

\* A chat has its session: it becomes the active request and says that it started.
ChatBegins(c) ==
  /\ at[c] = "idle"
  /\ at' = [at EXCEPT ![c] = "bound"]
  /\ active' = [active EXCEPT ![SessionOf[c]] = c]
  /\ Mixes(c)
  /\ Publish(Own(c))
  /\ UNCHANGED <<before, byMessage, landed, replied, line, hand, up, emits>>

Replies(r) == {q \in replied : SessionOf[q] = SessionOf[r]}

\* It has listed the messages, binds its prompt and sends it.  (A first listing that
\* fails shows nothing: whatever was answered before is then anyone's.)
ChatSends(c) ==
  /\ at[c] = "bound"
  /\ at' = [at EXCEPT ![c] = "sent"]
  /\ \/ /\ before' = [before EXCEPT ![c] = Replies(c)]
        /\ UNCHANGED mixed
     \/ /\ before' = [before EXCEPT ![c] = {}]
        /\ mixed' = mixed \cup Replies(c)
  /\ byMessage' = [byMessage EXCEPT ![<<"prompt", c>>] = c]
  /\ active' = [active EXCEPT ![SessionOf[c]] = c]
  /\ UNCHANGED <<landed, replied, line, hand, up, emits, busVars>>

Bind(c, answers) ==
  /\ byMessage' = [m \in Messages |->
                     IF m[1] = "reply" /\ m[2] \in answers THEN c ELSE byMessage[m]]
  /\ active' = IF answers = {} THEN active ELSE [active EXCEPT ![SessionOf[c]] = c]

\* Mutant: every reply of the session counts as the chat's.
ChatEndsBindingAll(c) ==
  /\ at[c] = "sent"
  /\ Bind(c, Replies(c))
  /\ at' = [at EXCEPT ![c] = IF c \in replied THEN "done" ELSE "failed"]
  /\ Publish(Own(c))
  /\ UNCHANGED <<before, landed, replied, line, hand, up, emits, mixed>>

\* It ends.  The replies that its last listing, or OpenCode's response, has and its
\* first had not are bound to it; it is done if its own is among them.
ChatEnds(c) ==
  /\ at[c] = "sent"
  /\ \E answers \in {Replies(c) \ before[c], replied \cap {c}} :
       /\ Bind(c, answers)
       /\ at' = [at EXCEPT ![c] = IF c \in answers THEN "done" ELSE "failed"]
  /\ Publish(Own(c))
  /\ UNCHANGED <<before, landed, replied, line, hand, up, emits, mixed>>

\* It fails, at any await; nothing is bound.
ChatFails(c) ==
  /\ at[c] \in {"bound", "sent"}
  /\ at' = [at EXCEPT ![c] = IF @ = "sent" THEN "failed" ELSE "over"]
  /\ Publish(Own(c))
  /\ UNCHANGED <<before, active, byMessage, landed, replied, line, hand, up, emits, mixed>>

\* execute: the record is stored, in its session.
TaskAccepted(t) ==
  /\ at[t] = "idle"
  /\ at' = [at EXCEPT ![t] = "accepted"]
  /\ Mixes(t)
  /\ Publish(Own(t))
  /\ UNCHANGED <<before, active, byMessage, landed, replied, line, hand, up, emits>>

\* It binds session, prompt and task, and prompts.
TaskStarts(t) ==
  /\ at[t] = "accepted"
  /\ at' = [at EXCEPT ![t] = "sent"]
  /\ active' = [active EXCEPT ![SessionOf[t]] = t]
  /\ byMessage' = [byMessage EXCEPT ![<<"prompt", t>>] = t]
  /\ Publish(Own(t))
  /\ UNCHANGED <<before, landed, replied, line, hand, up, emits, mixed>>

\* It ends, or fails before it is sent; no binding changes.
TaskEnds(t) ==
  /\ at[t] \in {"accepted", "sent"}
  /\ at' = [at EXCEPT ![t] = IF @ = "sent" THEN "done" ELSE "over"]
  /\ Publish(Own(t))
  /\ UNCHANGED <<before, active, byMessage, landed, replied, line, hand, up, emits, mixed>>

-----------------------------------------------------------------------------
(* OpenCode *)

Emit(about, r) ==
  /\ emits < MaxEmits
  /\ emits' = emits + 1
  /\ line' = IF up THEN Append(line, [about |-> about, cause |-> r]) ELSE line
  /\ UNCHANGED <<at, before, active, byMessage, hand, up, mixed, busVars>>

\* The prompt arrives, perhaps after its sender gave up.
Lands(r) ==
  /\ r \notin landed
  /\ at[r] \in {"sent", "failed"} \/ (r \in Tasks /\ at[r] = "done")
  /\ landed' = landed \cup {r}
  /\ Emit("prompt", r)
  /\ UNCHANGED replied

Answers(r) ==
  /\ r \in landed \ replied
  /\ replied' = replied \cup {r}
  /\ Emit("reply", r)
  /\ UNCHANGED landed

GoesOn(r) ==
  /\ r \in replied
  /\ \E about \in {"reply", "part", "session"} : Emit(about, r)
  /\ UNCHANGED <<landed, replied>>

-----------------------------------------------------------------------------
(* The bridge *)

\* _map_task_id: the task whose prompt an answer names, or, for an event that names no
\* other message, the only active task of the session.
TaskNamed(raw) ==
  IF raw.about \in {"prompt", "session"}
  THEN LET busy == {t \in Tasks : /\ SessionOf[t] = SessionOf[raw.cause]
                                  /\ at[t] \in {"accepted", "sent"}}
       IN  {t \in busy : busy = {t}}
  ELSE IF raw.about = "reply" THEN Tasks \cap {raw.cause} ELSE {}

\* The tasks that are in _by_task.
Bound(t) == byMessage[<<"prompt", t>>] # None

MessageOf(raw) == <<IF raw.about = "prompt" THEN "prompt" ELSE "reply", raw.cause>>

\* resolve_exact, then resolve: by message, by task, by session.
Resolved(raw) ==
  IF raw.about # "session" /\ byMessage[MessageOf(raw)] # None
  THEN byMessage[MessageOf(raw)]
  ELSE IF \E t \in TaskNamed(raw) : Bound(t)
       THEN CHOOSE t \in TaskNamed(raw) : TRUE
       ELSE active[SessionOf[raw.cause]]

\* The event that is published.
Attributed(raw) ==
  [session |-> SessionOf[raw.cause], request |-> Resolved(raw),
   cause |-> raw.cause, about |-> raw.about]

\* The bridge takes the next event.  For a part of a message it has not seen it asks
\* OpenCode first; everything else is published in the same step.
Reads ==
  /\ hand = None
  /\ line # <<>>
  /\ line' = Tail(line)
  /\ \/ /\ Head(line).about = "part"
        /\ hand' = Head(line)
        /\ UNCHANGED busVars
     \/ /\ Publish(Attributed(Head(line)))
        /\ UNCHANGED hand
  /\ UNCHANGED <<at, before, active, byMessage, landed, replied, up, emits, mixed>>

\* OpenCode has told, or not, what the message is; the event is published.
Fetched ==
  /\ hand # None
  /\ Publish(Attributed(hand))
  /\ hand' = None
  /\ UNCHANGED <<at, before, active, byMessage, landed, replied, line, up, emits, mixed>>

\* The stream ends, with what has not been read of it.
StreamBreaks ==
  /\ up
  /\ up' = FALSE
  /\ line' = <<>>
  /\ UNCHANGED <<at, before, active, byMessage, landed, replied, hand, emits, mixed, busVars>>

\* The back-off is over.
StreamConnects ==
  /\ ~up
  /\ hand = None
  /\ up' = TRUE
  /\ UNCHANGED <<at, before, active, byMessage, landed, replied, line, hand, emits, mixed,
                 busVars>>

ChatStep(c) == ChatBegins(c) \/ ChatSends(c) \/ ChatEnds(c) \/ ChatFails(c)

TaskStep(t) == TaskAccepted(t) \/ TaskStarts(t) \/ TaskEnds(t)

OpenCodeStep(r) == Lands(r) \/ Answers(r) \/ GoesOn(r)

BridgeStep == Reads \/ Fetched \/ StreamBreaks \/ StreamConnects

Next ==
  \/ \E c \in Chats : ChatStep(c)
  \/ \E t \in Tasks : TaskStep(t)
  \/ \E r \in Requests : OpenCodeStep(r)
  \/ BridgeStep
  \/ \E c \in Clients : ClientStep(c) /\ UNCHANGED bridgeVars

Spec == Init /\ [][Next]_vars

-----------------------------------------------------------------------------
(* Properties *)

AtItsRequest(e, excused) ==
  \/ e.about = "session"
  \/ e.request = e.cause
  \/ e.about \in {"reply", "part"} /\ e.cause \in excused

\* An event of OpenCode about a request's prompt is published under that request,
\* whatever else happens in the session; and so is one about its answer, however late
\* it is read, unless the request is one of those that attribution cannot tell apart.
ToItsRequest == \A i \in DOMAIN log : AtItsRequest(log[i], mixed)

=============================================================================
