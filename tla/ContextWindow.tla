---------------------------- MODULE ContextWindow ---------------------------
(***************************************************************************)
(* The meter of the context window and the manual compaction               *)
(* (context_api.py): which messages of a session the model still sees,     *)
(* what they cost, and the compaction that the user asks for.              *)
(*                                                                         *)
(* Messages are numbered by their place.  Sizes are tokens.  A compaction  *)
(* is a user message that only marks it and, when it is done, an assistant *)
(* message with the summary; the mark may name the first of the messages   *)
(* that are kept besides.                                                  *)
(***************************************************************************)
EXTENDS Integers, Sequences, SequencesExt, FiniteSetsExt, Tally

CONSTANTS
  Compactions, \* calls of compact_session_handler
  TokenSizes,  \* what a text, a tool's part or a tool's definition may cost
  Windows,     \* what a provider may declare of a model
  MaxHistory   \* bound on the messages

ASSUME ContextAssumption ==
  /\ TokenSizes \subseteq Nat /\ Windows \subseteq [window : Nat, output : Nat]
  /\ MaxHistory \in Nat

VARIABLES
  messages,  \* the session's
  running,   \* a response is being made, or a compaction
  pinned,    \* the session's record names a model
  compaction \* the calls

contextVars == <<messages, running, pinned, compaction>>

\* parent: of a summary, the mark.  tail: of a mark, the first message kept, or 0.
\* input: what a reply reports that its request cost, or 0.
Blank == [kind |-> "said", parent |-> 0, tail |-> 0, done |-> FALSE, input |-> 0,
          text |-> 0, tools |-> 0]

ContextInit ==
  /\ messages = <<>>
  /\ running = FALSE
  /\ pinned \in BOOLEAN
  /\ compaction = [k \in Compactions |-> [pc |-> "idle", known |-> FALSE]]

-----------------------------------------------------------------------------
(* What the model sees *)

\* Mutant: a summary that failed counts as well.
AnySummary(m) == m.kind = "summary"

\* _is_completed_compaction_summary
CompletedSummary(m) == m.kind = "summary" /\ m.done

\* One step of the walk from the last message to the first.
Walk(i, w) ==
  LET m == messages[i]
      ends == m.kind = "mark" /\ i \in w.completed
  IN  IF w.stopped THEN w
      ELSE IF w.until # 0 THEN [w EXCEPT !.from = i, !.stopped = (i = w.until)]
      ELSE IF ends THEN [w EXCEPT !.from = i, !.until = m.tail, !.stopped = m.tail \in {0, i}]
      ELSE [w EXCEPT !.from = i,
                     !.completed = @ \cup IF CompletedSummary(m) THEN {m.parent} ELSE {}]

\* _active_context_messages: where they begin.
ActiveFrom ==
  FoldRight(Walk, [i \in DOMAIN messages |-> i],
            [from |-> 1, until |-> 0, completed |-> {}, stopped |-> FALSE]).from

ActiveContext == SubSeq(messages, ActiveFrom, Len(messages))

\* _context_message_count: without the marks.
Count == Cardinality({i \in DOMAIN ActiveContext : ActiveContext[i].kind # "mark"})

\* _model_ref: of the last message that names one, or the record's.
ModelKnown == pinned \/ \E i \in DOMAIN ActiveContext : ActiveContext[i].kind \in {"reply", "summary"}

-----------------------------------------------------------------------------
(* What it costs *)

\* _latest_actual_input_tokens: of the last reply that reports any, unless a summary is
\* later than it.
ActualInput ==
  LET telling == {i \in DOMAIN ActiveContext : \/ ActiveContext[i].kind = "summary"
                                               \/ ActiveContext[i].input > 0}
  IN  IF telling = {} THEN 0 ELSE ActiveContext[Max(telling)].input

\* _history_estimates: every message has a role, which has a size; parts are text or tools.
Conversation ==
  SumOf([i \in DOMAIN ActiveContext |->
           IF ActiveContext[i].kind = "mark" THEN 0 ELSE 1 + ActiveContext[i].text])

ToolActivity == SumOf([i \in DOMAIN ActiveContext |-> ActiveContext[i].tools])

\* round(x / d): to the even one when there are two.
Round(x, d) ==
  LET q == x \div d
      twice == 2 * (x % d)
  IN  IF twice > d \/ (twice = d /\ q % 2 = 1) THEN q + 1 ELSE q

Larger(a, b) == IF a > b THEN a ELSE b

\* Mutant: what rounding leaves over is left over.
ScaledWithDrift(actual, text, tools, definitions) ==
  LET known == text + tools + definitions
      Part(n) == IF known <= actual \/ actual = 0 THEN n ELSE Round(n * actual, known)
  IN  [instructions |-> IF actual = 0 THEN 0 ELSE Larger(0, actual - known),
       definitions |-> Part(definitions), text |-> Part(text), tools |-> Part(tools)]

\* _scaled_categories: the estimates, and what is left for instructions; or as many as the
\* request cost, shared out by the estimates, the text taking what rounding leaves over.
Scaled(actual, text, tools, definitions) ==
  LET known == text + tools + definitions
      Part(n) == Round(n * actual, known)
      drift == actual - (Part(definitions) + Part(text) + Part(tools))
  IN  IF actual = 0 \/ known <= actual
      THEN [instructions |-> IF actual = 0 THEN 0 ELSE actual - known,
            definitions |-> definitions, text |-> text, tools |-> tools]
      ELSE [instructions |-> 0, definitions |-> Part(definitions),
            text |-> Larger(0, Part(text) + drift), tools |-> Part(tools)]

\* _model_limits, _budget_tokens: the window without the reserve for the output.
Budget(w) == IF w.output > 0 /\ w.output < w.window THEN w.window - w.output ELSE w.window

Total(categories) ==
  categories.instructions + categories.definitions + categories.text + categories.tools

\* _build_snapshot, with tool definitions and limits that could be had or not.
Snapshot(definitions, w) ==
  LET categories == Scaled(ActualInput, Conversation, ToolActivity, definitions)
  IN  [categories |-> categories,
       used |-> IF ActualInput > 0 THEN ActualInput ELSE Total(categories),
       budget |-> Budget(w)]

-----------------------------------------------------------------------------
(* The compaction a user asks for *)

Goes(k, pc, known) == compaction' = [compaction EXCEPT ![k] = [pc |-> pc, known |-> known]]

\* compact_session_handler: it lists the messages and refuses when there are too few.
ListsHistory(k) ==
  /\ compaction[k].pc = "idle"
  /\ Goes(k, IF Count <= 1 THEN "refused" ELSE "listed", ModelKnown)
  /\ UNCHANGED <<messages, running, pinned>>

\* _busy_state: it refuses while a response is made, and when it cannot tell.
ChecksIdle(k) ==
  /\ compaction[k].pc = "listed"
  /\ \E told \in BOOLEAN :
       Goes(k, IF ~told \/ running THEN "refused" ELSE "checked", compaction[k].known)
  /\ UNCHANGED <<messages, running, pinned>>

\* When it has measured what there was it asks OpenCode, unless no model is known.
AsksSummary(k) ==
  /\ compaction[k].pc = "checked"
  /\ Goes(k, IF compaction[k].known THEN "asked" ELSE "refused", compaction[k].known)
  /\ UNCHANGED <<messages, running, pinned>>

\* The call fails, at any of its steps.
CallFails(k) ==
  /\ compaction[k].pc \in {"listed", "asked", "made"}
  /\ Goes(k, "failed", compaction[k].known)
  /\ UNCHANGED <<messages, running, pinned>>

\* It lists and measures again, and replies.
RepliesWithBoth(k) ==
  /\ compaction[k].pc = "made"
  /\ Goes(k, "over", compaction[k].known)
  /\ UNCHANGED <<messages, running, pinned>>

-----------------------------------------------------------------------------
(* OpenCode *)

Append1(m) == Len(messages) < MaxHistory /\ messages' = Append(messages, m)

\* A prompt and its reply.
Says ==
  /\ ~running
  /\ \E text \in TokenSizes : Append1([Blank EXCEPT !.text = text])
  /\ running' = TRUE
  /\ UNCHANGED <<pinned, compaction>>

Responds ==
  /\ running /\ Len(messages) > 0 /\ messages[Len(messages)].kind = "said"
  /\ \E text, tools, input \in TokenSizes :
       Append1([Blank EXCEPT !.kind = "reply", !.text = text, !.tools = tools, !.input = input])
  /\ running' = FALSE
  /\ UNCHANGED <<pinned, compaction>>

\* A compaction begins, asked for or on OpenCode's own account.
Marks ==
  /\ ~running /\ Len(messages) > 0
  /\ \E tail \in {0} \cup DOMAIN messages : Append1([Blank EXCEPT !.kind = "mark", !.tail = tail])
  /\ running' = TRUE
  /\ UNCHANGED <<pinned, compaction>>

\* It is done, or fails; and with it the calls that asked for it.
Summarizes ==
  /\ running /\ messages[Len(messages)].kind = "mark"
  /\ \E done \in BOOLEAN, text \in TokenSizes :
       Append1([Blank EXCEPT !.kind = "summary", !.parent = Len(messages), !.done = done,
                             !.text = text])
  /\ running' = FALSE
  /\ compaction' = [k \in Compactions |->
                      IF compaction[k].pc = "asked" THEN [compaction[k] EXCEPT !.pc = "made"]
                      ELSE compaction[k]]
  /\ UNCHANGED pinned

\* The turns from some message on are taken back.
Reverts ==
  /\ ~running
  /\ \E n \in 0 .. Len(messages) - 1 : messages' = SubSeq(messages, 1, n)
  /\ UNCHANGED <<running, pinned, compaction>>

ContextNext ==
  \/ \E k \in Compactions : ListsHistory(k) \/ ChecksIdle(k) \/ AsksSummary(k) \/ CallFails(k)
                            \/ RepliesWithBoth(k)
  \/ Says \/ Responds \/ Marks \/ Summarizes \/ Reverts

ContextSpec == ContextInit /\ [][ContextNext]_contextVars

-----------------------------------------------------------------------------
(* Properties *)

\* What counts as active is what the model sees: from the last compaction that was
\* completed on, and before it the messages that this one keeps.
ActiveIsVisible ==
  LET completed == {i \in DOMAIN messages :
                      /\ messages[i].kind = "mark"
                      /\ \E j \in DOMAIN messages : /\ j > i /\ messages[j].parent = i
                                                    /\ messages[j].done}
      last == CHOOSE i \in completed : \A j \in completed : j <= i
  IN  ActiveFrom = IF completed = {} THEN 1
                   ELSE IF messages[last].tail = 0 THEN last ELSE messages[last].tail

\* In a session with messages the categories of the meter add up to what was used, or for
\* want of text to take it from to one more; and none is negative.
CategoriesAddUp ==
  messages # <<>> => \A definitions \in TokenSizes, w \in Windows :
    LET s == Snapshot(definitions, w)
    IN  /\ \A c \in DOMAIN s.categories : s.categories[c] >= 0
        /\ Total(s.categories) - s.used \in {0, 1}
        /\ s.categories.text > 0 => Total(s.categories) = s.used
        /\ s.budget <= w.window

=============================================================================
