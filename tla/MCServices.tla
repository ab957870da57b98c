----------------------------- MODULE MCServices -----------------------------
(***************************************************************************)
(* Parts of the adapter that share no state with one another: one instance *)
(* of each.  A behaviour is one of one part while the others rest, so that *)
(* their states add up and do not multiply.                                *)
(***************************************************************************)
EXTENDS EventBridge, AutoRouting, ChatLog, TaskRecords, MCChatSend, ContextWindow, Usage,
        Transcript

VARIABLE part  \* the part at work

Services == {"events", "routing", "chat log", "task records", "sends", "context", "usage",
           "transcript"}

serviceVars == <<vars, routingVars, chatLogVars, recordVars, sendVars, contextVars, usageVars,
                 transcriptVars, part>>

-----------------------------------------------------------------------------
(* EventBridge.  Attribution: two chats, or a chat and a task, in one      *)
(* session, OpenCode emitting, nobody listening.  Delivery: a chat and a   *)
(* task that publish their own events, OpenCode silent, and one client     *)
(* that connects twice, with a queue and a bucket that overflow.           *)

CONSTANTS c1, c2, t1, s1, w1

MCChats == {c1, c2}
MCTasks == {t1}
MCSessionOf == [r \in {c1, c2, t1} |-> s1]
MCClients == {w1}
MCFilter(s, r) == [session |-> s, request |-> r]
MCFilters == {MCFilter(s1, None), MCFilter(None, c1), MCFilter(s1, c1)}

\* Init, but only these requests are at work, and either the clients have used up
\* their visits or OpenCode has used up its events.
Instance(requests, attribution) ==
  /\ Fresh
  /\ at = [r \in Requests |-> IF r \in requests THEN "idle" ELSE "over"]
  /\ emits = IF attribution THEN 0 ELSE MaxEmits
  /\ \E f \in IF attribution THEN {MCFilter(s1, None)} ELSE Filters :
       client = [c \in Clients |->
                  [Stranger(f) EXCEPT !.visits = IF attribution THEN MaxVisits ELSE 0]]

EventsInit ==
  \/ Instance({c1, c2}, TRUE)
  \/ Instance({c1, t1}, TRUE)
  \/ Instance({c1, t1}, FALSE)

-----------------------------------------------------------------------------
(* AutoRouting: two requests of one turn, whose history grows past what    *)
(* one model takes, and one without words; two tokens, so that a decision  *)
(* can push another out; rows that say everything, little and nonsense.    *)

CONSTANTS early, late, mute, turn1, model1

CatalogRow(w, p, o, what, where, tools, efforts) ==
  [window |-> w, prompt |-> p, output |-> o, kind |-> what, served |-> where, tools |-> tools,
   efforts |-> efforts]

MCAutoRequests == {early, late, mute}
MCModels == {model1}
MCBody ==
  [r \in MCAutoRequests |->
     CASE r = early -> [turn |-> turn1, history |-> 3, effort |-> "low"]
       [] r = late  -> [turn |-> turn1, history |-> 6, effort |-> "high"]
       [] r = mute  -> [turn |-> NoTurn, history |-> 1, effort |-> "max"]]
MCRows == {CatalogRow(8, 0, 4, "chat", "responses", "unsaid", {"low", "medium"}),
           CatalogRow(0, 0, 0, "unsaid", "elsewhere", "unsaid", {}),
           CatalogRow(4, 9, 0, "unsaid", "unsaid", "unsaid", {"none", "max"})}
MCPinned == [m \in MCModels |-> [context |-> 8, prompt |-> 4, output |-> 4]]

-----------------------------------------------------------------------------
(* TaskRecords: limits that let a process read all it writes, less, a file *)
(* more than it scans or lists, and that leave room for no record.         *)

LimitsOf(load, persist, tail, list, scan) ==
  [load |-> load, persist |-> persist, tail |-> tail, list |-> list, scan |-> scan]

MCLimits == {LimitsOf(5, 5, 1, 2, 2),  LimitsOf(2, 5, 1, 3, 1),  LimitsOf(5, 3, 0, 1, 3),
              LimitsOf(2, 1, 1, 2, 2)}

-----------------------------------------------------------------------------
(* ContextWindow: a window with a reserve, one that the reserve would      *)
(* fill, and none.                                                         *)

MCWindows == {[window |-> 8, output |-> 3], [window |-> 8, output |-> 8],
              [window |-> 0, output |-> 3]}

-----------------------------------------------------------------------------
(* Usage: runs of one step, of two around a message that books nothing,    *)
(* and with a cost of its own; a threshold between the steps' sizes.       *)

CONSTANTS priced, silent

Booked(f, r, w, o, cost) ==
  [fresh |-> f, read |-> r, write |-> w, output |-> o, cost |-> cost]

MCRuns == {<<Booked(2, 0, 0, 1, 0)>>,
           <<silent, Booked(1, 2, 1, 1, 0), Booked(2, 1, 0, 0, 0)>>,
           <<Booked(0, 0, 1, 1, 0), Booked(2, 0, 0, 1, 3), silent>>}
MCPriced == {priced}
MCPricing ==
  [m \in MCPriced |->
     [threshold |-> 2, default |-> [input |-> 4, cached |-> 1, written |-> 5, output |-> 9],
      long |-> [input |-> 8, cached |-> 2, written |-> 10, output |-> 14]]]

-----------------------------------------------------------------------------
(* Transcript: a chat and an edit of one session, which meets three of     *)
(* OpenCode's; another chat was there before them, with an answer, or      *)
(* failed before it began.                                                 *)

CONSTANTS portal, first, chats, edits

MCPortals == {portal}
MCWriters == {first, chats, edits}
MCEdits == {edits}
MCIn == [c \in MCWriters |-> portal]

\* A state that follows TranscriptInit when only first has been at work.
AfterFirst(answered) ==
  LET o == CHOOSE e \in Engines : TRUE
  IN  /\ session = [p \in Portals |-> [engine |-> IF answered THEN o ELSE NoEngine,
                                      deleted |-> FALSE, leaving |-> NoEngine]]
      /\ opened = IF answered THEN {o} ELSE {}
      /\ said = [e \in Engines |-> IF e \in opened THEN <<Prompt(first), Reply(first)>> ELSE <<>>]
      /\ records = IF answered THEN {DisplayRecord(portal, o, Prompt(first), first),
                                     DisplayRecord(portal, o, Reply(first), first)} ELSE {}
      /\ kept = records
      /\ writer = [c \in Writers |-> IF c = first THEN [Resting EXCEPT !.pc = "over"] ELSE Resting]
      /\ gone = {} /\ trouble = 0 /\ lost = {} /\ excused = {} /\ mistaken = {}

-----------------------------------------------------------------------------
(* The parts side by side                                                  *)

\* How a part is left that is not at work.
Rests(p) ==
  CASE p = "events" -> at = [r \in Requests |-> IF r = c2 THEN "over" ELSE "idle"] /\ emits = 0
    [] p = "routing" -> token = CHOOSE t \in Tokens : TRUE
    [] p = "task records" -> limits = CHOOSE l \in LimitSettings : TRUE
    [] p = "context" -> ~pinned
    [] p = "transcript" -> opened = {}
    [] OTHER -> TRUE

ServicesInit ==
  /\ part \in Services
  /\ EventsInit /\ RoutingInit /\ ChatLogInit /\ RecordsInit /\ SendInit
  /\ ContextInit /\ UsageInit /\ \E answered \in BOOLEAN : AfterFirst(answered)
  /\ \A p \in Services \ {part} : Rests(p)

ServicesNext ==
  /\ UNCHANGED part
  /\ \/ part = "events" /\ Next
     \/ part # "events" /\ UNCHANGED vars
  /\ \/ part = "routing" /\ RoutingNext
     \/ part # "routing" /\ UNCHANGED routingVars
  /\ \/ part = "chat log" /\ ChatLogNext
     \/ part # "chat log" /\ UNCHANGED chatLogVars
  /\ \/ part = "task records" /\ RecordsNext
     \/ part # "task records" /\ UNCHANGED recordVars
  /\ \/ part = "sends" /\ SendNext
     \/ part # "sends" /\ UNCHANGED sendVars
  /\ \/ part = "context" /\ ContextNext
     \/ part # "context" /\ UNCHANGED contextVars
  /\ \/ part = "usage" /\ UsageNext
     \/ part # "usage" /\ UNCHANGED usageVars
  /\ \/ part = "transcript" /\ TranscriptNext
     \/ part # "transcript" /\ UNCHANGED transcriptVars

ServicesSpec == ServicesInit /\ [][ServicesNext]_serviceVars

=============================================================================
