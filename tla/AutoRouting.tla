----------------------------- MODULE AutoRouting ----------------------------
(***************************************************************************)
(* Copilot's automatic model selection (copilot_auto_session.py): the      *)
(* proxy asks Copilot which model is to answer a turn, judges the pick by  *)
(* what is known of the model (copilot_auto_catalog.py), remembers the     *)
(* decision and sends the turn's later requests to the same model.         *)
(*                                                                         *)
(* A turn is the key of a decision but for the token: conversation, tier,  *)
(* number and words.  Time is left out: a decision grows old, a catalog    *)
(* stale and a failure is forgotten at any time.                           *)
(***************************************************************************)
EXTENDS Integers, Sequences, SequencesExt, FiniteSetsExt

CONSTANTS
  AutoRequests, \* requests for an automatic model
  Body,         \* of each: its turn, the tokens of its history and its effort
  NoTurn,       \* the turn of a body that has no words to route by
  Tokens,       \* Copilot's tokens
  Models,       \* what Copilot may pick
  Rows,         \* what it may say of a model
  NoRow,        \* nothing
  Pinned,       \* what the adapter knows of a model for itself: limits, or NoLimits
  Fallback,     \* the model that is sent when auto cannot be routed
  OutputCap,    \* 128000 tokens
  MaxDecisions  \* how many decisions are remembered

\* REASONING_EFFORT_LADDER
EffortLadder == <<"none", "low", "medium", "high", "xhigh", "max">>

NoLimits == [context |-> 0, prompt |-> 0, output |-> 0]

ASSUME AutoRoutingAssumption ==
  /\ \A r \in AutoRequests : Body[r].history \in Nat /\ Body[r].effort \in ToSet(EffortLadder)
  /\ NoRow \notin Rows
  /\ MaxDecisions \in Nat \ {0}

VARIABLES
  token,      \* the token a request is given now
  request,    \* the requests
  routing,    \* those at the lock: the head holds it, or is the next to
  decisions,  \* _decisions, oldest first
  catalog,    \* _catalogs: what Copilot listed for a token
  failed,     \* _catalog_failed_at: the tokens it lately listed nothing for
  last,       \* last_routing
  dropped,    \* the decisions forgotten or grown old
  overtaken   \* the requests after which another was given a decision

routingVars == <<token, request, routing, decisions, catalog, failed, last, dropped, overtaken>>

\* A decision: by names the request that asked for it.
Undecided == [turn |-> NoTurn, token |-> "", by |-> "", model |-> Fallback,
              session |-> FALSE, efforts |-> {}, old |-> FALSE]

Unlisted == [token |-> "", rows |-> [m \in Models |-> NoRow], stale |-> TRUE]

NoRequest == [pc |-> "idle", token |-> "", pick |-> Fallback, row |-> NoRow,
         decision |-> Undecided, effort |-> "", reported |-> ""]

RoutingInit ==
  /\ token \in Tokens
  /\ request = [r \in AutoRequests |-> NoRequest]
  /\ routing = <<>>
  /\ decisions = <<>>
  /\ catalog = Unlisted /\ failed = {}
  /\ last = Undecided
  /\ dropped = {} /\ overtaken = {}

-----------------------------------------------------------------------------
(* What is known of a model *)

\* copilot_model_limits: without a prompt cap the window less the output cap, without
\* either three quarters of it.  0 stands for a number that is missing or unusable.
ModelLimits(row) ==
  LET window == row.window
      prompt == IF row.prompt # 0 /\ row.prompt <= window THEN row.prompt
                ELSE IF row.output \in 1 .. window - 1 THEN window - row.output
                ELSE (window * 3) \div 4
      output == IF row.output \in 1 .. window THEN row.output ELSE Min({OutputCap, window \div 4})
  IN  IF window = 0 THEN NoLimits
      ELSE [context |-> window, prompt |-> Max({1, prompt}), output |-> Max({1, output})]

\* static_model_limits
StaticLimits(model) == Pinned[model]

\* preferred_model_limits: the first that says anything.
Preferred(candidates) ==
  LET said == {i \in DOMAIN candidates : candidates[i] # NoLimits}
  IN  IF said = {} THEN NoLimits ELSE candidates[Min(said)]

\* auto_pick_refusal: a row says that the model is no chat model, is not served where the
\* request goes, or refuses tools.
Refuses(row) == row.kind = "other" \/ row.served = "elsewhere" \/ row.tools = "refused"

\* allowed_reasoning_efforts: of the first row that lists any.
Allowed(rows) ==
  LET listing == {i \in DOMAIN rows : rows[i] # NoRow /\ rows[i].efforts # {}}
  IN  IF listing = {} THEN {} ELSE rows[Min(listing)].efforts

\* clamp_reasoning_effort: the nearest that is allowed, lower first, but not "none".
Clamp(effort, allowed) ==
  LET asked == CHOOSE i \in DOMAIN EffortLadder : EffortLadder[i] = effort
      lower == {i \in 2 .. asked - 1 : EffortLadder[i] \in allowed}
      higher == {i \in asked + 1 .. Len(EffortLadder) : EffortLadder[i] \in allowed}
  IN  IF allowed = {} \/ effort \in allowed THEN effort
      ELSE IF lower # {} THEN EffortLadder[Max(lower)]
      ELSE IF higher # {} THEN EffortLadder[Min(higher)] ELSE effort

-----------------------------------------------------------------------------
(* Decisions *)

Turn(r) == Body[r].turn

Position(r) == {i \in DOMAIN decisions : /\ decisions[i].turn = Turn(r)
                                         /\ decisions[i].token = request[r].token}

\* The decision that the request may reuse.
Remembered(r) == {decisions[i] : i \in {j \in Position(r) : ~decisions[j].old}}

\* The request is sent with the decision, its effort clamped to the model's.
Given(r, decision) ==
  /\ request' = [request EXCEPT ![r] =
                   [NoRequest EXCEPT !.pc = "routed", !.decision = decision,
                                     !.effort = Clamp(Body[r].effort, decision.efforts)]]
  /\ overtaken' = overtaken \cup {q \in AutoRequests \ {r} : request[q].pc = "routed"}

\* _remember: a decision replaces the one of its key, and the oldest goes over the cap.
RemembersDecision(r, decision) ==
  LET kept == IF Position(r) # {}
              THEN [i \in DOMAIN decisions |-> IF i \in Position(r) THEN decision ELSE decisions[i]]
              ELSE Append(decisions, decision)
      over == Max({0, Len(kept) - MaxDecisions})
  IN  /\ decisions' = SubSeq(kept, over + 1, Len(kept))
      /\ dropped' = dropped \cup {kept[i].by : i \in 1 .. over}
      /\ last' = decision
      /\ Given(r, decision)
      /\ routing' = Tail(routing)

Decision(r) == [Undecided EXCEPT !.turn = Turn(r), !.token = request[r].token, !.by = r]

\* _fallback: without a session.  It does not grow old.
FallsBack(r) == RemembersDecision(r, Decision(r))

\* A request for an automatic model comes, with the token of now.
Comes(r) ==
  /\ request[r].pc = "idle"
  /\ Turn(r) # NoTurn
  /\ request' = [request EXCEPT ![r].pc = "waiting", ![r].token = token]
  /\ routing' = Append(routing, r)
  /\ UNCHANGED <<token, decisions, catalog, failed, last, dropped, overtaken>>

\* It has no words: the fallback, which is not remembered.
ComesWordless(r) ==
  /\ request[r].pc = "idle"
  /\ Turn(r) = NoTurn
  /\ last' = [Undecided EXCEPT !.by = r]
  /\ Given(r, last')
  /\ UNCHANGED <<token, routing, decisions, catalog, failed, dropped>>

AtLock(r) == routing # <<>> /\ Head(routing) = r /\ request[r].pc = "waiting"

\* Mutant: a reused decision is not the last one.
ReusesSilently(r) ==
  /\ AtLock(r)
  /\ \E decision \in Remembered(r) : Given(r, decision)
  /\ routing' = Tail(routing)
  /\ UNCHANGED <<token, decisions, catalog, failed, last, dropped>>

\* The turn has a decision that has not grown old.
Reuses(r) ==
  /\ AtLock(r)
  /\ \E decision \in Remembered(r) : last' = decision /\ Given(r, decision)
  /\ routing' = Tail(routing)
  /\ UNCHANGED <<token, decisions, catalog, failed, dropped>>

\* Mutant: the turn is looked up without the token's other requests in view.
AsksAlways(r) ==
  /\ AtLock(r)
  /\ request' = [request EXCEPT ![r].pc = "asking"]
  /\ UNCHANGED <<token, routing, decisions, catalog, failed, last, dropped, overtaken>>

\* It has not: Copilot is asked, the lock held.
AsksRoute(r) ==
  /\ AtLock(r)
  /\ Remembered(r) = {}
  /\ request' = [request EXCEPT ![r].pc = "asking"]
  /\ UNCHANGED <<token, routing, decisions, catalog, failed, last, dropped, overtaken>>

\* The route fails, or what it says is unusable.
RouteFails(r) ==
  /\ request[r].pc = "asking"
  /\ FallsBack(r)
  /\ UNCHANGED <<token, catalog, failed>>

\* Copilot picks a model and says something of it.
Picks(r) ==
  /\ request[r].pc = "asking"
  /\ \E m \in Models, row \in Rows :
       request' = [request EXCEPT ![r].pc = "listing", ![r].pick = m, ![r].row = row]
  /\ UNCHANGED <<token, routing, decisions, catalog, failed, last, dropped, overtaken>>

CatalogListed(r) == catalog.token = request[r].token

\* The catalog is at hand, or a failure is too recent to ask again.
NoNeed(r) == (CatalogListed(r) /\ ~catalog.stale) \/ request[r].token \in failed

\* The pick is judged by the answer's own row and the catalog's.  A model that cannot be
\* driven, or whose prompt cap is unknown or too small for this request, is not used.
Judged(r, rows) ==
  LET listed == rows[request[r].pick]
      own == request[r].row
      limits == Preferred(<<IF listed = NoRow THEN NoLimits ELSE ModelLimits(listed),
                            ModelLimits(own), StaticLimits(request[r].pick)>>)
  IN  IF \/ \E row \in {own, listed} \ {NoRow} : Refuses(row)
         \/ limits = NoLimits
         \/ Body[r].history > limits.prompt
      THEN FallsBack(r)
      ELSE RemembersDecision(r, [Decision(r) EXCEPT
              !.model = request[r].pick, !.session = TRUE, !.efforts = Allowed(<<own, listed>>)])

\* _catalog: it is cached per token, stale is better than nothing.
JudgesPick(r) ==
  /\ request[r].pc = "listing"
  /\ NoNeed(r)
  /\ Judged(r, IF CatalogListed(r) THEN catalog.rows ELSE Unlisted.rows)
  /\ UNCHANGED <<token, catalog, failed>>

ListsCatalog(r) ==
  /\ request[r].pc = "listing"
  /\ ~NoNeed(r)
  /\ \E rows \in [Models -> Rows \cup {NoRow}] :
       /\ catalog' = [token |-> request[r].token, rows |-> rows, stale |-> FALSE]
       /\ Judged(r, rows)
  /\ failed' = failed \ {request[r].token}
  /\ UNCHANGED token

ListingFails(r) ==
  /\ request[r].pc = "listing"
  /\ ~NoNeed(r)
  /\ failed' = failed \cup {request[r].token}
  /\ Judged(r, IF CatalogListed(r) THEN catalog.rows ELSE Unlisted.rows)
  /\ UNCHANGED <<token, catalog>>

\* The chat that made the request ends, and reports the last routing's model.
Reports(r) ==
  /\ request[r].pc = "routed"
  /\ request' = [request EXCEPT ![r].pc = "over", ![r].reported = last.model]
  /\ UNCHANGED <<token, routing, decisions, catalog, failed, last, dropped, overtaken>>

-----------------------------------------------------------------------------
(* Time *)

\* Five minutes before the session of a decision ends.
GrowsOld ==
  /\ \E i \in DOMAIN decisions :
       /\ decisions[i].session /\ ~decisions[i].old
       /\ decisions' = [decisions EXCEPT ![i].old = TRUE]
       /\ dropped' = dropped \cup {decisions[i].by}
  /\ UNCHANGED <<token, request, routing, catalog, failed, last, overtaken>>

\* An hour after it was listed; and five minutes after a listing failed.
CatalogAges ==
  /\ \/ /\ ~catalog.stale
        /\ catalog' = [catalog EXCEPT !.stale = TRUE]
        /\ UNCHANGED failed
     \/ /\ failed # {}
        /\ \E t \in failed : failed' = failed \ {t}
        /\ UNCHANGED catalog
  /\ UNCHANGED <<token, request, routing, decisions, last, dropped, overtaken>>

TokenRenewed ==
  /\ \E t \in Tokens \ {token} : token' = t
  /\ UNCHANGED <<request, routing, decisions, catalog, failed, last, dropped, overtaken>>

RoutingNext ==
  \/ GrowsOld \/ CatalogAges \/ TokenRenewed
  \/ \E r \in AutoRequests :
       \/ Comes(r) \/ ComesWordless(r) \/ Reuses(r) \/ AsksRoute(r) \/ RouteFails(r) \/ Picks(r)
       \/ JudgesPick(r) \/ ListsCatalog(r) \/ ListingFails(r) \/ Reports(r)

RoutingSpec == RoutingInit /\ [][RoutingNext]_routingVars

-----------------------------------------------------------------------------
(* Properties *)

\* A turn is routed once: its requests, those that come at the same time too, are sent by
\* one decision as long as the token is the same and the decision was neither pushed out
\* by others nor grown old.
TurnRoutedOnce ==
  \A q, r \in AutoRequests :
     LET d == request[q].decision
         e == request[r].decision
     IN  d.turn # NoTurn /\ d.turn = e.turn /\ d.token = e.token
           => d.by = e.by \/ dropped \cap {d.by, e.by} # {}

\* A chat reports the model that its request was sent to, unless another request was
\* given a decision in between.
ReportsOwn ==
  \A r \in AutoRequests \ overtaken :
     request[r].pc = "over" => request[r].reported = request[r].decision.model

=============================================================================
