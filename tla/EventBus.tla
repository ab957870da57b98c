------------------------------ MODULE EventBus ------------------------------
(***************************************************************************)
(* The event bus of event_bus.py and the websocket clients that listen to  *)
(* it.  Whoever publishes does so with the action operator Publish; module *)
(* EventBridge has the publishers and the specification.                   *)
(*                                                                         *)
(* An event is known by its place in the order of publication, which is    *)
(* also the order of the times in created_at: every publisher stamps an    *)
(* event and publishes it without an await between.  That buckets expire   *)
(* after six hours, filters by type, and clients that get no replay, since *)
(* they do not ask for it or name neither session nor request, are left    *)
(* out.                                                                    *)
(***************************************************************************)
EXTENDS Naturals, Sequences, FiniteSets

CONSTANTS
  Chats, Tasks,    \* the requests: chat runs and background tasks
  SessionOf,       \* the portal session of a request
  Clients,         \* those who connect to /api/events
  Filters,         \* the filters they ask for
  Capacity,        \* the size of a subscriber's queue
  ReplayLimit,     \* how many events a bucket keeps
  MaxVisits,       \* bound on the connections of a client
  None

Requests == Chats \cup Tasks

Sessions == {SessionOf[r] : r \in Requests}

ASSUME EventBusAssumption ==
  /\ Chats \cap Tasks = {}
  /\ None \notin Requests \cup Sessions
  /\ Capacity \in Nat \ {0}
  /\ ReplayLimit \in Nat /\ Capacity <= ReplayLimit
  /\ MaxVisits \in Nat
  /\ \A f \in Filters : /\ f \in [session : Sessions \cup {None}, request : Requests \cup {None}]
                        /\ f.session # None \/ f.request # None

VARIABLES
  log,       \* every event published so far, in order
  client     \* each client's connection

busVars == <<log, client>>

\* What OpenCode sends events about: a request's prompt, its answer as a message
\* (which names the prompt) or a part of it (which does not), or just the session.
Subjects == {"prompt", "reply", "part", "session"}

\* An event carries what filters look at; cause and about say what it really is: an
\* event of OpenCode, or one that the request's handler publishes itself ("own").
Events == [session : Sessions, request : Requests \cup {None},
           cause : Requests, about : Subjects \cup {"own"}]

\* A connection: where its handler is, what it asked for, what is still to be
\* replayed, what waits in its queue, what it was sent, what a limit took from it;
\* and over all its connections, the newest event it was sent.
Connections == [at : {"away", "joining", "replaying", "live"}, filter : Filters, since : Nat,
                replay : SUBSET Nat, queue : Seq(Nat), got : Seq(Nat), lost : SUBSET Nat,
                latest : Nat, visits : 0 .. MaxVisits]

\* _matches: a key that the filter names must have that value.
Matches(f, e) ==
  /\ f.session # None => e.session = f.session
  /\ f.request # None => e.request = f.request

\* Mutant: a client subscribes when its replay is over.
SubscribedLate(c) == client[c].at = "live"

\* The client is in _subs: from before the handshake to the end.
Subscribed(c) == client[c].at # "away"

\* A full queue gives up its oldest event for the new one.
Enqueue(k, i) ==
  IF Len(k.queue) = Capacity
  THEN [k EXCEPT !.queue = Append(Tail(@), i), !.lost = @ \cup {Head(k.queue)}]
  ELSE [k EXCEPT !.queue = Append(@, i)]

\* publish: every subscriber whose filter matches gets the event at once.
Publish(e) ==
  /\ log' = Append(log, e)
  /\ client' = [c \in Clients |->
                  IF Subscribed(c) /\ Matches(client[c].filter, e)
                  THEN Enqueue(client[c], Len(log) + 1)
                  ELSE client[c]]

-----------------------------------------------------------------------------
(* Replay *)

\* The bucket a replay draws on: that of the request, if the filter names one, else
\* that of the session.
InBucket(f, e) ==
  IF f.request # None
  THEN e.request = f.request
  ELSE f.session # None /\ e.session = f.session

\* A bucket forgets the oldest.
Forgotten(f) ==
  {i \in 1 .. Len(log) :
     Cardinality({j \in i .. Len(log) : InBucket(f, log[j])}) > ReplayLimit}

\* recent_events: what the bucket holds, of the session if the filter names one, and
\* newer than what the client has.
Recent(f, since) ==
  {i \in since + 1 .. Len(log) : /\ InBucket(f, log[i])
                                 /\ f.session # None => log[i].session = f.session
                                 /\ i \notin Forgotten(f)}

-----------------------------------------------------------------------------
(* events_ws_handler *)

\* A client connects, with the time of the newest event it has; it is subscribed
\* before anything is sent to it.
Connect(c) ==
  /\ client[c].at = "away"
  /\ client[c].visits < MaxVisits
  /\ client' = [client EXCEPT ![c] =
                  [client[c] EXCEPT !.at = "joining", !.since = client[c].latest,
                            !.queue = <<>>, !.replay = {}, !.got = <<>>, !.lost = {},
                            !.visits = @ + 1]]
  /\ UNCHANGED log

\* The greeting is sent; recent_events runs, and the replay begins.
BeginReplay(c) ==
  /\ client[c].at = "joining"
  /\ client' = [client EXCEPT ![c] =
                  [client[c] EXCEPT !.at = "replaying",
                            !.replay = Recent(client[c].filter, client[c].since),
                            !.lost = @ \cup Forgotten(client[c].filter)]]
  /\ UNCHANGED log

Newer(a, b) == IF a > b THEN a ELSE b

Sent(k, i) == [k EXCEPT !.got = Append(@, i), !.latest = Newer(@, i)]

\* Each event of the replay is sent in a step of its own, the oldest first.
SendReplayed(c) ==
  /\ client[c].at = "replaying"
  /\ \E i \in client[c].replay :
       /\ \A j \in client[c].replay : i <= j
       /\ client' = [client EXCEPT ![c] = [Sent(client[c], i) EXCEPT !.replay = @ \ {i}]]
  /\ UNCHANGED log

\* The replay is over and the sender starts.
StartSender(c) ==
  /\ client[c].at = "replaying"
  /\ client[c].replay = {}
  /\ client' = [client EXCEPT ![c].at = "live"]
  /\ UNCHANGED log

\* Mutant: the sender starts before the replay.
SendLiveEarly(c) ==
  /\ client[c].at \in {"replaying", "live"}
  /\ client[c].queue # <<>>
  /\ client' = [client EXCEPT ![c] =
                  [Sent(client[c], Head(client[c].queue)) EXCEPT !.queue = Tail(@)]]
  /\ UNCHANGED log

\* The sender takes an event from the queue and sends it.
SendLive(c) ==
  /\ client[c].at = "live"
  /\ client[c].queue # <<>>
  /\ client' = [client EXCEPT ![c] =
                  [Sent(client[c], Head(client[c].queue)) EXCEPT !.queue = Tail(@)]]
  /\ UNCHANGED log

\* The connection ends, at any await; what waits in the queue is gone with it.  (When it
\* ends before the sender starts, its subscription stays in _subs; nobody reads it.)
Disconnect(c) ==
  /\ Subscribed(c)
  /\ client' = [client EXCEPT ![c].at = "away"]
  /\ UNCHANGED log

ClientStep(c) ==
  \/ Connect(c) \/ BeginReplay(c) \/ SendReplayed(c) \/ StartSender(c)
  \/ SendLive(c) \/ Disconnect(c)

-----------------------------------------------------------------------------
(* Properties *)

SentTo(c) == {client[c].got[n] : n \in DOMAIN client[c].got}

\* A client that was sent all that waited for it has every event that its filter
\* matches and that is newer than what it said it had, those apart that a limit
\* took: none falls between the replay and the live events.
NothingMissed ==
  \A c \in Clients :
    client[c].at = "live" /\ client[c].queue = <<>> =>
      \A i \in (client[c].since + 1) .. Len(log) :
        Matches(client[c].filter, log[i]) => i \in SentTo(c) \cup client[c].lost

\* Within a connection events are seen for the first time in the order in which they
\* were published: an event that comes after a newer one was sent before as well.
\* (An event may come twice, in the replay and from the queue.)
FirstSeenInOrder ==
  \A c \in Clients : \A m, n \in DOMAIN client[c].got :
    m < n /\ client[c].got[n] < client[c].got[m] =>
      \E k \in 1 .. m : client[c].got[k] = client[c].got[n]

=============================================================================
