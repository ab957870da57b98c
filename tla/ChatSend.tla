------------------------------ MODULE ChatSend ------------------------------
(***************************************************************************)
(* What a chat run does between its session and its outcome (chat_api.py): *)
(* it notes the messages that are there, posts its prompt to OpenCode, and *)
(* takes the answer from the reply or, if the connection broke or the      *)
(* reply is not final, from the messages that appear.  How the messages    *)
(* are judged is opencode_message_adapter.py, which failures of a call may *)
(* have reached OpenCode is opencode_client.py.                            *)
(*                                                                         *)
(* The chats are of one OpenCode session.  A message is its place in the   *)
(* history; OpenCode may work on several prompts in any order.             *)
(***************************************************************************)
EXTENDS Integers, Sequences, FiniteSetsExt

CONSTANTS
  Senders,     \* the chat runs
  Words,       \* of each: what the user wrote
  Skills,      \* those that call a skill, by its prompt or as a command
  MaxMessages  \* bound on the messages

ASSUME ChatSendAssumption ==
  Skills \subseteq Senders /\ MaxMessages \in Nat

VARIABLES
  history,   \* the messages of the session
  work,      \* OpenCode's: whether it has a prompt, works on it, or has ended
  chat,      \* the chat runs
  overlapped \* the chats that were not alone in the session

sendVars == <<history, work, chat, overlapped>>

\* What summarize_message_runtime_state makes of an assistant message: a text in the end,
\* a pending permission, a failed tool, nothing said in the end, work in progress; and a
\* step that is none of these.
Judgements == {"answer", "asking", "failed", "empty", "working", "step"}

Message == [by : Senders, is : {"prompt"} \cup Judgements]

\* before: the messages it noted, or none if it could not list them.  accepted: OpenCode
\* was found to have its prompt.  took: its answer.
\* counted: the assistant messages it reports and accounts for.
NoChat == [pc |-> "idle", before |-> {}, blind |-> FALSE, accepted |-> FALSE,
         outcome |-> "", took |-> 0, counted |-> {}, user |-> 0]

SendInit ==
  /\ history = <<>>
  /\ work = [c \in Senders |-> "none"]
  /\ chat = [c \in Senders |-> NoChat]
  /\ overlapped = {}

Places == DOMAIN history

Prompts == {i \in Places : history[i].is = "prompt"}

Assistants == Places \ Prompts

-----------------------------------------------------------------------------
(* Judging messages *)

\* find_latest_assistant_completion: of the messages given, the latest of the first kind.
\* 0 if there is none.
Latest(given, judgement) == Max({0} \cup {i \in given : history[i].is = judgement})

CompletionOrder == <<"answer", "asking", "failed", "empty", "working">>

Completion(given) ==
  LET found == {n \in DOMAIN CompletionOrder : Latest(given, CompletionOrder[n]) # 0}
      kind == CompletionOrder[Min(found)]
  IN  IF found = {} THEN [state |-> "incomplete", place |-> 0]
      ELSE [state |-> kind, place |-> Latest(given, kind)]

\* TERMINAL_ASSISTANT_COMPLETION_STATES
Terminal == {"answer", "asking", "failed", "empty"}

\* Mutant: also what was there before.
NewWithOld(c, listed) == listed \cap Assistants

\* extract_assistant_message_ids, without those that were there before.
New(c, listed) == (listed \cap Assistants) \ chat[c].before

\* _detect_new_message_ids: the last prompt that was not there before, or its own.
DetectedUser(c, listed) == Max({0} \cup ((listed \cap Prompts) \ chat[c].before))

-----------------------------------------------------------------------------
(* The prompt *)

Busy(d) == chat[d].pc \notin {"idle", "over"} \/ work[d] \in {"sent", "on"}

\* The chat notes what is there; that the listing fails is not held against it.
ListsBefore(c) ==
  /\ chat[c].pc = "idle"
  /\ \E blind \in BOOLEAN :
       chat' = [chat EXCEPT ![c] = [NoChat EXCEPT !.pc = "listed", !.blind = blind,
                                                !.before = IF blind THEN {} ELSE Places]]
  /\ overlapped' = LET others == {d \in Senders \ {c} : Busy(d)}
                   IN  overlapped \cup others \cup IF others = {} THEN {} ELSE {c}
  /\ UNCHANGED <<history, work>>

\* _send_message, or the command of execute_command: the post is on its way.
Posts(c) ==
  /\ chat[c].pc = "listed"
  /\ chat' = [chat EXCEPT ![c].pc = "posted"]
  /\ work' = [work EXCEPT ![c] = "sent"]
  /\ UNCHANGED <<history, overlapped>>

Over(c, outcome) == [chat EXCEPT ![c].pc = "over", ![c].outcome = outcome, ![c].before = {}]

\* OpenCode refuses the prompt, or the call fails in another way that is final.
PostRefused(c) ==
  /\ chat[c].pc = "posted" /\ work[c] = "sent"
  /\ chat' = Over(c, "raised")
  /\ work' = [work EXCEPT ![c] = "none"]
  /\ UNCHANGED <<history, overlapped>>

\* The prompt of a chat is sent with a probe, a skill's and a command without.
HasProbe(c) == c \notin Skills

\* The connection breaks or the call times out, which is recoverable if there is a probe.
Disconnects(c) ==
  /\ chat[c].pc = "posted"
  /\ chat' = IF HasProbe(c) THEN [chat EXCEPT ![c].pc = "probing"] ELSE Over(c, "dropped")
  /\ UNCHANGED <<history, work, overlapped>>

\* What had not arrived may be lost.
Lost(c) ==
  /\ chat[c].pc # "posted" /\ work[c] = "sent"
  /\ work' = [work EXCEPT ![c] = "none"]
  /\ UNCHANGED <<history, chat, overlapped>>

-----------------------------------------------------------------------------
(* The answer *)

\* With what is at hand the chat has an outcome, or waits for one.
JudgesReply(c, given) ==
  LET found == Completion(New(c, given))
  IN  chat' = IF found.state \in Terminal
              THEN [chat EXCEPT ![c].pc = "taking", ![c].outcome = found.state,
                                ![c].took = found.place, ![c].counted = New(c, given)]
              ELSE [chat EXCEPT ![c].pc = "waiting"]

\* OpenCode's reply: the last message of its work, which may not be final.
ReplyComes(c) ==
  /\ chat[c].pc = "posted" /\ work[c] = "off"
  /\ LET own == {i \in Assistants : history[i].by = c}
     IN  JudgesReply(c, IF own = {} THEN {} ELSE {Max(own)})
  /\ UNCHANGED <<history, work, overlapped>>

\* _detect_recovered_send_acceptance: its prompt is there, or a new one with its words.
Detected(c) ==
  \E i \in Prompts : \/ history[i].by = c
                     \/ i \notin chat[c].before /\ Words[history[i].by] = Words[c]

\* _probe_recoverable_send_acceptance: OpenCode has the prompt, and what was listed is
\* taken for the reply.
Probes(c) ==
  /\ chat[c].pc = "probing"
  /\ Detected(c)
  /\ LET found == Completion(New(c, Places))
         next == IF found.state \in Terminal THEN "taking" ELSE "waiting"
     IN  chat' = [chat EXCEPT ![c].pc = next, ![c].accepted = TRUE,
                              ![c].outcome = IF next = "taking" THEN found.state ELSE "",
                              ![c].took = IF next = "taking" THEN found.place ELSE 0,
                              ![c].counted = New(c, Places)]
  /\ UNCHANGED <<history, work, overlapped>>

\* It does not find it, for as long as it looks, or cannot look.
ProbeEnds(c) ==
  /\ chat[c].pc = "probing"
  /\ chat' = Over(c, "dropped")
  /\ UNCHANGED <<history, work, overlapped>>

\* The chat accounts for the messages listed last, and for those of the reply.
AccountsFor(c, outcome, took, listed) ==
  chat' = [chat EXCEPT ![c].pc = "over", ![c].outcome = outcome, ![c].took = took,
                       ![c].before = {}, ![c].counted = @ \cup New(c, listed),
                       ![c].user = DetectedUser(c, listed)]

\* _maybe_apply_skill_invocation: a skill that may not run is answered by the adapter, which
\* lists the messages all the same; that this listing fails ends the chat.
SkillRefused(c) ==
  /\ chat[c].pc = "listed" /\ c \in Skills
  /\ AccountsFor(c, "synthetic", 0, Places) \/ chat' = Over(c, "raised")
  /\ UNCHANGED <<history, work, overlapped>>

\* It has its outcome from the reply, and lists once more, which may fail.
TakesReply(c) ==
  /\ chat[c].pc = "taking"
  /\ \E listed \in {{}, Places} : AccountsFor(c, chat[c].outcome, chat[c].took, listed)
  /\ UNCHANGED <<history, work, overlapped>>

\* _wait_for_visible_assistant_response: it polls until there is an outcome.
Polls(c) ==
  /\ chat[c].pc = "waiting"
  /\ LET found == Completion(New(c, Places))
     IN  /\ found.state \in Terminal
         /\ AccountsFor(c, found.state, found.place, Places)
  /\ UNCHANGED <<history, work, overlapped>>

\* _assistant_completion_timeout_probe: the last poll found none.  OpenCode works on.
TimesOut(c) ==
  /\ chat[c].pc = "waiting"
  /\ Completion(New(c, Places)).state \notin Terminal
  /\ AccountsFor(c, "incomplete", 0, Places)
  /\ UNCHANGED <<history, work, overlapped>>

\* A poll fails, and with it the chat.
PollFails(c) ==
  /\ chat[c].pc = "waiting"
  /\ chat' = Over(c, "raised")
  /\ UNCHANGED <<history, work, overlapped>>

-----------------------------------------------------------------------------
(* OpenCode *)

LastOf(c) == Max({0} \cup {i \in Assistants : history[i].by = c})

\* The prompt arrives, in time or when the chat has given up.
Arrives(c) ==
  /\ work[c] = "sent" /\ Len(history) < MaxMessages
  /\ history' = Append(history, [by |-> c, is |-> "prompt"])
  /\ work' = [work EXCEPT ![c] = "on"]
  /\ UNCHANGED <<chat, overlapped>>

\* A message is begun when the one before it is done.
Begins(c) ==
  /\ work[c] = "on" /\ Len(history) < MaxMessages
  /\ LastOf(c) # 0 => history[LastOf(c)].is \in {"step", "failed"}
  /\ history' = Append(history, [by |-> c, is |-> "working"])
  /\ UNCHANGED <<work, chat, overlapped>>

\* It ends in some way, or waits for a permission and goes on.
MessageBecomes(c) ==
  /\ work[c] = "on" /\ LastOf(c) # 0
  /\ \/ /\ history[LastOf(c)].is = "working"
        /\ \E j \in Judgements \ {"working"} : history' = [history EXCEPT ![LastOf(c)].is = j]
     \/ /\ history[LastOf(c)].is = "asking"
        /\ history' = [history EXCEPT ![LastOf(c)].is = "working"]
  /\ UNCHANGED <<work, chat, overlapped>>

\* The work is over, or aborted.
Stops(c) ==
  /\ work[c] = "on"
  /\ work' = [work EXCEPT ![c] = "off"]
  /\ UNCHANGED <<history, chat, overlapped>>

SendNext ==
  \E c \in Senders :
    \/ ListsBefore(c) \/ Posts(c) \/ SkillRefused(c) \/ PostRefused(c)
    \/ Disconnects(c) \/ Lost(c)
    \/ ReplyComes(c) \/ Probes(c) \/ ProbeEnds(c)
    \/ TakesReply(c) \/ Polls(c) \/ TimesOut(c) \/ PollFails(c)
    \/ Arrives(c) \/ Begins(c) \/ MessageBecomes(c) \/ Stops(c)

SendSpec == SendInit /\ [][SendNext]_sendVars

-----------------------------------------------------------------------------
(* Properties *)

\* A chat that was alone in its session ends with an answer to its own prompt, and reports
\* and accounts for its own messages only: not with what an earlier chat left behind.  After
\* a broken connection it waits for an answer only if OpenCode has its prompt.  One that
\* could not list what was there has no such promise.
AnswerIsOwn ==
  \A c \in Senders \ overlapped : ~chat[c].blind =>
    /\ chat[c].accepted => \E i \in Prompts : history[i].by = c
    /\ chat[c].pc = "over"
         => \A i \in chat[c].counted \cup ({chat[c].took, chat[c].user} \ {0}) :
              history[i].by = c

\* A call that broke when OpenCode had the prompt does not end its chat; the chat goes on to
\* look for the answer.
BrokenCallHandsOff ==
  [][\A c \in Senders :
       chat[c].pc = "posted" /\ chat'[c].outcome = "dropped"
         => \A i \in Prompts : history[i].by # c]_sendVars

=============================================================================
