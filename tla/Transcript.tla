----------------------------- MODULE Transcript -----------------------------
(***************************************************************************)
(* The store of what the user wrote and of which model answered            *)
(* (user_display_store.py), and the transcript that is shown with it       *)
(* (sessions_api.py).  OpenCode keeps the prompt as the model is given it, *)
(* with attachments and instructions; the store keeps the user's own       *)
(* words, by OpenCode session and message.  An edit moves a session to a   *)
(* fork in OpenCode, whose messages have the same ids; the store is not    *)
(* rewritten for that.                                                     *)
(*                                                                         *)
(* A chat has one prompt, known by the chat, and one reply.  How an edit   *)
(* finds its fork is in module Sessions, how a chat waits in ChatSend.     *)
(***************************************************************************)
EXTENDS Integers, Sequences, SequencesExt, FiniteSets

CONSTANTS
  Portals,  \* the portal's sessions
  Writers,  \* chat runs, and edits that are answered by their own call
  Edits,    \* the latter
  In,       \* of each: its portal session
  Engines,  \* ids of OpenCode sessions
  NoEngine, \* a session that OpenCode has not seen yet
  MaxTrouble \* bound on restarts and failed writes

ASSUME TranscriptAssumption ==
  /\ Edits \subseteq Writers
  /\ In \in [Writers -> Portals]
  /\ NoEngine \notin Engines
  /\ MaxTrouble \in Nat

VARIABLES
  session,  \* session_store: of each portal session, its OpenCode session, and whether deleted
  opened,   \* the OpenCode sessions there are
  gone,     \* those that were deleted
  said,     \* their messages
  writer,   \* the chats and edits
  records,  \* _payload["messages"]
  kept,     \* the file
  trouble,  \* restarts and failed writes so far
  lost,     \* the prompts whose record no file had when a process ended
  excused,  \* the sessions deleted while a chat was running, or whose deletion was not kept
  mistaken  \* the prompts that an edit took for its own

transcriptVars ==
  <<session, opened, gone, said, writer, records, kept, trouble, lost, excused, mistaken>>

Prompt(c) == [by |-> c, role |-> "user"]
Reply(c) == [by |-> c, role |-> "assistant"]

SessionMessage == [by : Writers, role : {"user", "assistant"}]

Session == [engine : Engines \cup {NoEngine}, deleted : BOOLEAN, leaving : Engines \cup {NoEngine}]

\* before: the messages that were there when it began, as far as it knows.
Writer == [pc : {"idle", "checking", "begun", "put", "sent", "over"},
           engine : Engines \cup {NoEngine}, before : SUBSET SessionMessage]

\* The sessions and OpenCode's, and the chats.
TranscriptTypeOK ==
  /\ session \in [Portals -> Session]
  /\ opened \subseteq Engines
  /\ said \in [Engines -> Seq(SessionMessage)]
  /\ writer \in [Writers -> Writer]

Resting == [pc |-> "idle", engine |-> NoEngine, before |-> {}]

TranscriptInit ==
  /\ session = [p \in Portals |->
                  [engine |-> NoEngine, deleted |-> FALSE, leaving |-> NoEngine]]
  /\ opened = {} /\ gone = {}
  /\ said = [o \in Engines |-> <<>>]
  /\ writer = [c \in Writers |-> Resting]
  /\ records = {} /\ kept = {}
  /\ trouble = 0
  /\ lost = {} /\ excused = {} /\ mistaken = {}

-----------------------------------------------------------------------------
(* The store *)

\* Of the user's messages text has the words, of the assistant's the model: those of the
\* chat of that name.
DisplayRecord(p, o, message, c) == [portal |-> p, engine |-> o, message |-> message, text |-> c]

Same(r, s) == r.engine = s.engine /\ r.message = s.message

\* put_user_message, put_assistant_attribution: the records replace those of their keys.
With(puts) == {r \in records : ~\E s \in puts : Same(r, s)} \cup puts

\* _write: the file is replaced whole, or not; the caller goes on either way.
Saved(changed) ==
  /\ records' = changed
  /\ \/ kept' = changed /\ UNCHANGED trouble
     \/ trouble < MaxTrouble /\ trouble' = trouble + 1 /\ UNCHANGED kept

\* Mutant: only the OpenCode session that the message is in now is looked at.
FoundDirect(o, message, p) == {r \in records : r.engine = o /\ r.message = message}

\* get_user_message: the record of the message or, in a session that was moved, the only
\* one of the portal session for it.
Found(o, message, p) ==
  LET direct == {r \in records : r.engine = o /\ r.message = message}
      moved == {r \in records : r.portal = p /\ r.message = message}
  IN  IF direct # {} THEN direct ELSE IF Cardinality(moved) = 1 THEN moved ELSE {}

\* Mutant: the records of earlier OpenCode sessions stay.
WithoutEngine(p, o) == {r \in records : r.engine # o}

\* delete_session
Without(p, o) == {r \in records : r.portal # p /\ r.engine # o}

-----------------------------------------------------------------------------
(* Chats and edits *)

Engine(c) == session[In[c]].engine

WriterGoes(c, pc) == writer' = [writer EXCEPT ![c].pc = pc]

Opens(o, messages) ==
  /\ o \notin opened \cup gone
  /\ opened' = opened \cup {o} /\ UNCHANGED gone
  /\ said' = [said EXCEPT ![o] = messages]

\* handle_chat_payload_for_app: a chat looks its session up; a deleted one refuses it.
LooksUp(c) ==
  /\ writer[c].pc = "idle" /\ c \notin Edits
  /\ ~session[In[c]].deleted
  /\ writer' = [writer EXCEPT ![c] = [Resting EXCEPT !.pc = "checking", !.engine = Engine(c)]]
  /\ UNCHANGED <<session, opened, gone, said, records, kept, trouble, lost, excused, mistaken>>

\* _ensure_record_for_chat: OpenCode has it.
Resumes(c) ==
  /\ writer[c].pc = "checking" /\ writer[c].engine \in opened
  /\ writer' = [writer EXCEPT ![c].pc = "begun", ![c].before = ToSet(said[writer[c].engine])]
  /\ UNCHANGED <<session, opened, gone, said, records, kept, trouble, lost, excused, mistaken>>

\* It does not, and another is made.  What was looked up is written back, which undoes a
\* deletion in between.
MakesSession(c) ==
  /\ writer[c].pc = "checking" /\ writer[c].engine \notin opened
  /\ \E o \in Engines :
       /\ Opens(o, <<>>)
       /\ session' = [session EXCEPT ![In[c]].engine = o, ![In[c]].deleted = FALSE]
       /\ writer' = [writer EXCEPT ![c].pc = "begun", ![c].engine = o]
  /\ UNCHANGED <<records, kept, trouble, lost, excused, mistaken>>

\* The user's words are stored before the prompt is sent.
PutsWords(c) ==
  /\ writer[c].pc = "begun"
  /\ Saved(With({DisplayRecord(In[c], writer[c].engine, Prompt(c), c)}))
  /\ WriterGoes(c, "put")
  /\ UNCHANGED <<session, opened, gone, said, lost, excused, mistaken>>

\* The prompt is sent, and answered or not.
Sends(c) ==
  /\ writer[c].pc = "put" /\ writer[c].engine \in opened
  /\ \E answer \in {<<>>, <<Reply(c)>>} :
       said' = [said EXCEPT ![writer[c].engine] = @ \o <<Prompt(c)>> \o answer]
  /\ WriterGoes(c, "sent")
  /\ UNCHANGED <<session, opened, gone, records, kept, trouble, lost, excused, mistaken>>

\* The call fails.
Breaks(c) ==
  /\ writer[c].pc \in {"checking", "put", "sent"}
  /\ writer' = [writer EXCEPT ![c] = [Resting EXCEPT !.pc = "over"]]
  /\ UNCHANGED <<session, opened, gone, said, records, kept, trouble, lost, excused, mistaken>>

\* The chat stores which model answered, for every answer that was not there before it
\* began; or for the reply it has, when the messages cannot be listed.
PutsAttribution(c) ==
  /\ writer[c].pc = "sent" /\ c \notin Edits
  /\ LET o == writer[c].engine
         own == {Reply(c)} \cap ToSet(said[o])
         new == {m \in ToSet(said[o]) \ writer[c].before : m.role = "assistant"}
     IN  \E answers \in {own, new} :
           IF answers = {} THEN UNCHANGED <<records, kept, trouble>>
           ELSE Saved(With({DisplayRecord(In[c], o, m, c) : m \in answers}))
  /\ writer' = [writer EXCEPT ![c] = [Resting EXCEPT !.pc = "over"]]
  /\ UNCHANGED <<session, opened, gone, said, lost, excused, mistaken>>

\* _delete_from_here: the session moves to a fork that has its first messages.
Forks(p, o) ==
  /\ ~session[p].deleted /\ session[p].engine \in opened
  /\ \E n \in 0 .. Len(said[session[p].engine]) - 1 :
       Opens(o, SubSeq(said[session[p].engine], 1, n))
  /\ session' = [session EXCEPT ![p].engine = o]

\* An edit that sends its message itself, without more than the user's words.
EditMoves(c) ==
  /\ writer[c].pc = "idle" /\ c \in Edits
  /\ \E o \in Engines :
       /\ Forks(In[c], o)
       /\ writer' = [writer EXCEPT ![c] = [Resting EXCEPT !.pc = "put", !.engine = o,
                                                          !.before = ToSet(said'[o])]]
  /\ UNCHANGED <<records, kept, trouble, lost, excused, mistaken>>

\* The user's messages that an edit finds in its fork.
NewPrompts(c) ==
  SelectSeq(said[writer[c].engine], LAMBDA m : m.role = "user" /\ m \notin writer[c].before)

\* edit_message_handler: the last of them is taken for the edit's, which it is unless a chat
\* has sent a prompt meanwhile.
PutsEdited(c) ==
  /\ writer[c].pc = "sent" /\ c \in Edits
  /\ NewPrompts(c) # <<>>
  /\ LET message == Last(NewPrompts(c))
     IN  /\ Saved(With({DisplayRecord(In[c], writer[c].engine, message, c)}))
         /\ mistaken' = mistaken \cup ({message} \ {Prompt(c)})
  /\ writer' = [writer EXCEPT ![c] = [Resting EXCEPT !.pc = "over"]]
  /\ UNCHANGED <<session, opened, gone, said, lost, excused>>

\* A message is deleted and those after it.  An edit in the background does no more, and
\* is a chat from there.
DeletesFromHere(p) ==
  /\ \E o \in Engines : Forks(p, o)
  /\ UNCHANGED <<writer, records, kept, trouble, lost, excused, mistaken>>

-----------------------------------------------------------------------------
(* Deletion and restart *)

\* delete_session_handler, clear_sessions_handler: OpenCode deletes its session.
DeleteBegins(p) ==
  /\ ~session[p].deleted /\ session[p].leaving = NoEngine /\ session[p].engine # NoEngine
  /\ session' = [session EXCEPT ![p].leaving = session[p].engine]
  /\ opened' = opened \ {session[p].engine}
  /\ gone' = gone \cup {session[p].engine}
  /\ said' = [said EXCEPT ![session[p].engine] = <<>>]
  /\ UNCHANGED <<writer, records, kept, trouble, lost, excused, mistaken>>

ChatRunning(p) == \E c \in Writers : In[c] = p /\ writer[c].pc \notin {"idle", "over"}

\* The session is marked, and its records go.
DeleteEnds(p) ==
  /\ session[p].leaving # NoEngine
  /\ session' = [session EXCEPT ![p].deleted = TRUE, ![p].leaving = NoEngine]
  /\ Saved(Without(p, session[p].leaving))
  /\ excused' = excused \cup IF ChatRunning(p) \/ kept' # records' THEN {p} ELSE {}
  /\ UNCHANGED <<opened, gone, said, writer, lost, mistaken>>

\* The process ends, and the next one reads the file; one that is damaged it puts aside.
TranscriptRestart ==
  /\ trouble < MaxTrouble
  /\ trouble' = trouble + 1
  /\ \E damaged \in BOOLEAN : kept' = IF damaged THEN {} ELSE kept
  /\ records' = kept'
  /\ lost' = lost \cup {r.message : r \in records \ records'}
  /\ excused' = excused \cup {r.portal : r \in records' \ records}
  /\ session' = [p \in Portals |-> [session[p] EXCEPT !.leaving = NoEngine]]
  /\ writer' = [c \in Writers |-> IF writer[c].pc = "idle" THEN Resting
                                  ELSE [Resting EXCEPT !.pc = "over"]]
  /\ UNCHANGED <<opened, gone, said, mistaken>>

TranscriptNext ==
  \/ TranscriptRestart
  \/ \E p \in Portals : DeletesFromHere(p) \/ DeleteBegins(p) \/ DeleteEnds(p)
  \/ \E c \in Writers :
       \/ LooksUp(c) \/ Resumes(c) \/ MakesSession(c) \/ PutsWords(c) \/ Sends(c) \/ Breaks(c)
       \/ PutsAttribution(c) \/ EditMoves(c) \/ PutsEdited(c)

TranscriptSpec == TranscriptInit /\ [][TranscriptNext]_transcriptVars

-----------------------------------------------------------------------------
(* The transcript *)

\* _to_efp_messages, attach_canonical_assistant_attribution: a user message with the words
\* that are stored, or as OpenCode has it.
Shown(p, m) ==
  LET found == {r \in Found(session[p].engine, m, p) : m.role = "user"}
  IN  IF found # {} THEN {r.text : r \in found} ELSE IF m.by \in Edits THEN {m.by} ELSE {}

-----------------------------------------------------------------------------
(* Properties *)

\* Wherever a session has moved in OpenCode and whatever was restarted, each user message in
\* its transcript is shown with the words of its own user, never as the model was given it;
\* unless the file lost them or an edit took the message for its own.
OwnWordsShown ==
  \A p \in Portals : ~session[p].deleted /\ session[p].engine \in opened
    => \A m \in ToSet(said[session[p].engine]) :
         m.role = "user" /\ m \notin lost \cup mistaken => Shown(p, m) = {m.by}

\* Of a deleted session nothing is left in the store, nor in its file, from whichever of its
\* OpenCode sessions; unless a chat was running or the disk failed.
DeletedLeavesNothing ==
  \A p \in Portals \ excused :
    session[p].deleted => \A r \in records \cup kept : r.portal # p

=============================================================================
