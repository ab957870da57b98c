----------------------------- MODULE StoresProofs -----------------------------
(***************************************************************************)
(* What holds of the files that the adapter keeps: the store of the        *)
(* user's words with the transcript shown from it, the records of the      *)
(* background tasks, and the chat log.                                     *)
(***************************************************************************)
EXTENDS Transcript, TaskRecords, ChatLog, SequenceTheorems, FiniteSetTheorems, TLAPS

-----------------------------------------------------------------------------
(* Transcript: what is left of a deleted session *)

OfOthers(p, those) == \A r \in those : r.portal # p

\* A deleted session is quiet, and the store and its file have records of others only.
DeletedIsQuiet ==
  \A p \in Portals \ excused : session[p].deleted =>
    /\ ~ChatRunning(p)
    /\ OfOthers(p, records) /\ OfOthers(p, kept)

TranscriptInv == TranscriptTypeOK /\ DeletedIsQuiet

Running == {"checking", "begun", "put", "sent"}

-----------------------------------------------------------------------------
(* What the shared parts of the actions do *)

LEMMA RunningIsNot ==
  ASSUME TranscriptTypeOK, NEW c \in Writers
  PROVE  writer[c].pc \notin {"idle", "over"} <=> writer[c].pc \in Running
  BY DEF TranscriptTypeOK, Writer, Running

\* The session of a chat that runs is not a quiet one.
LEMMA OwnIsOpen ==
  ASSUME TranscriptInv, NEW c \in Writers, writer[c].pc \in Running,
         NEW p \in Portals \ excused, session[p].deleted
  PROVE  In[c] # p
  BY DEF TranscriptInv, DeletedIsQuiet, ChatRunning, Running

LEMMA RestingTyped == Resting \in Writer
  BY DEF Resting, Writer

\* A chat goes on, as long as it was at work or its session is not deleted; and what is
\* put in the store is its own.
LEMMA ChatKeeps ==
  ASSUME TranscriptInv, NEW c \in Writers,
         \A d \in Writers \ {c} : writer'[d].pc = writer[d].pc,
         writer'[c].pc \in Running
           => writer[c].pc \in Running \/ ~session[In[c]].deleted,
         \A p \in Portals : session'[p].deleted => session[p].deleted,
         \A r \in records' : r \in records \/ r.portal = In[c],
         kept' \in {kept, records'},
         records' # records => writer[c].pc \in Running,
         excused' = excused,
         TranscriptTypeOK'
  PROVE  TranscriptInv'
<1>1. SUFFICES ASSUME NEW p \in Portals \ excused, session'[p].deleted
               PROVE  /\ ~ChatRunning(p)'
                      /\ OfOthers(p, records') /\ OfOthers(p, kept')
  BY DEF TranscriptInv, DeletedIsQuiet, OfOthers
<1>2. /\ session[p].deleted /\ ~ChatRunning(p)
      /\ OfOthers(p, records) /\ OfOthers(p, kept)
  BY <1>1 DEF TranscriptInv, DeletedIsQuiet
<1>3. \A d \in Writers : In[d] = p => writer'[d].pc \notin Running
  <2>1. SUFFICES ASSUME NEW d \in Writers, In[d] = p, writer'[d].pc \in Running
                 PROVE  FALSE
    OBVIOUS
  <2>2. writer[d].pc \notin Running
    BY <1>2, <2>1 DEF ChatRunning, Running
  <2>3. QED
    BY <1>2, <2>1, <2>2
<1>4. ~ChatRunning(p)'
  BY <1>3 DEF ChatRunning, Running, TranscriptTypeOK, Writer
<1>5. records' # records => In[c] # p
  BY <1>1, <1>2, OwnIsOpen
<1>6. OfOthers(p, records')
  BY <1>2, <1>5 DEF OfOthers
<1>7. QED
  BY <1>2, <1>4, <1>6

\* A write has the new records in memory, and in the file or not.
LEMMA SavedDoes ==
  ASSUME NEW changed, Saved(changed)
  PROVE  records' = changed /\ kept' \in {kept, records'}
  BY DEF Saved

\* What a chat puts is of its own session.
LEMMA WithOwn ==
  ASSUME NEW puts, NEW p, \A s \in puts : s.portal = p
  PROVE  \A r \in With(puts) : r \in records \/ r.portal = p
  BY DEF With

LEMMA OwnRecord ==
  ASSUME NEW p, NEW o, NEW message, NEW c
  PROVE  DisplayRecord(p, o, message, c).portal = p
  BY DEF DisplayRecord

LEMMA PrefixTyped ==
  ASSUME NEW s \in Seq(SessionMessage), NEW n \in 0 .. Len(s) - 1
  PROVE  SubSeq(s, 1, n) \in Seq(SessionMessage)
<1>1. \A i \in 1 .. n : s[i] \in SessionMessage
  OBVIOUS
<1>2. QED
  BY <1>1, SubSeqProperties

LEMMA OpensTyped ==
  ASSUME TranscriptTypeOK, NEW o \in Engines, NEW messages \in Seq(SessionMessage),
         Opens(o, messages)
  PROVE  opened' \subseteq Engines /\ said' \in [Engines -> Seq(SessionMessage)]
  BY DEF Opens, TranscriptTypeOK

\* What the messages of a session are made of.
LEMMA MessagesTyped ==
  ASSUME TranscriptTypeOK, NEW o \in Engines
  PROVE  ToSet(said[o]) \in SUBSET SessionMessage
<1>1. said[o] \in Seq(SessionMessage)
  BY DEF TranscriptTypeOK
<1>2. QED
  BY <1>1 DEF ToSet

\* A session that forks stays one that is not deleted.
LEMMA ForksDoes ==
  ASSUME TranscriptTypeOK, NEW p \in Portals, NEW o \in Engines, Forks(p, o)
  PROVE  /\ ~session[p].deleted
         /\ session' \in [Portals -> Session]
         /\ \A q \in Portals : session'[q].deleted = session[q].deleted
         /\ opened' \subseteq Engines
         /\ said' \in [Engines -> Seq(SessionMessage)]
<1>1. ~session[p].deleted /\ session[p].engine \in Engines /\ session \in [Portals -> Session]
  BY DEF Forks, TranscriptTypeOK
<1>2. PICK n \in 0 .. Len(said[session[p].engine]) - 1 :
        Opens(o, SubSeq(said[session[p].engine], 1, n))
  BY DEF Forks
<1>3. said[session[p].engine] \in Seq(SessionMessage)
  BY <1>1 DEF TranscriptTypeOK
<1>4. SubSeq(said[session[p].engine], 1, n) \in Seq(SessionMessage)
  BY <1>2, <1>3, PrefixTyped
<1>5. opened' \subseteq Engines /\ said' \in [Engines -> Seq(SessionMessage)]
  BY <1>2, <1>4, OpensTyped
<1>6. session' = [session EXCEPT ![p].engine = o]
  BY DEF Forks
<1>7. /\ session' \in [Portals -> Session]
      /\ \A q \in Portals : session'[q].deleted = session[q].deleted
  BY <1>1, <1>6 DEF Session
<1>8. QED
  BY <1>1, <1>5, <1>7

-----------------------------------------------------------------------------
(* Each step keeps the invariant *)

LEMMA TranscriptBegins == TranscriptInit => TranscriptInv
<1> SUFFICES ASSUME TranscriptInit PROVE TranscriptInv
  OBVIOUS
<1>1. \A p \in Portals : session[p] \in Session /\ ~session[p].deleted
  BY DEF TranscriptInit, Session
<1>2. said \in [Engines -> Seq(SessionMessage)]
  BY DEF TranscriptInit
<1>3. TranscriptTypeOK
  BY <1>1, <1>2, RestingTyped DEF TranscriptInit, TranscriptTypeOK
<1>4. DeletedIsQuiet
  BY <1>1 DEF DeletedIsQuiet
<1>5. QED
  BY <1>3, <1>4 DEF TranscriptInv

\* A chat whose step sets its writer to one of the type.
LEMMA WriterSet ==
  ASSUME TranscriptTypeOK, NEW c \in Writers, NEW w \in Writer, writer' = [writer EXCEPT ![c] = w]
  PROVE  /\ writer' \in [Writers -> Writer] /\ writer'[c] = w
         /\ \A d \in Writers \ {c} : writer'[d].pc = writer[d].pc
  BY DEF TranscriptTypeOK

LEMMA WriterMoves ==
  ASSUME TranscriptTypeOK, NEW c \in Writers, NEW pc \in Running, WriterGoes(c, pc)
  PROVE  /\ writer' \in [Writers -> Writer] /\ writer'[c].pc = pc
         /\ \A d \in Writers \ {c} : writer'[d].pc = writer[d].pc
<1> DEFINE w == [writer[c] EXCEPT !.pc = pc]
<1>1. w \in Writer /\ w.pc = pc
  BY DEF TranscriptTypeOK, Writer, Running
<1>2. writer' = [writer EXCEPT ![c] = w]
  BY DEF WriterGoes
<1> HIDE DEF w
<1>3. QED
  BY <1>1, <1>2, WriterSet

\* A chat that has ended.
LEMMA OverTyped ==
  LET over == [Resting EXCEPT !.pc = "over"]
  IN  over \in Writer /\ over.pc = "over"
  BY RestingTyped DEF Writer

LEMMA LooksUpKeeps ==
  ASSUME TranscriptInv, NEW c \in Writers, LooksUp(c)
  PROVE  TranscriptInv'
<1> DEFINE w == [Resting EXCEPT !.pc = "checking", !.engine = Engine(c)]
<1>1. /\ ~session[In[c]].deleted /\ writer' = [writer EXCEPT ![c] = w]
      /\ UNCHANGED <<session, opened, gone, said, records, kept, trouble, lost, excused, mistaken>>
  BY DEF LooksUp
<1>2. In[c] \in Portals
  BY TranscriptAssumption
<1>3. w \in Writer
  BY <1>2, RestingTyped DEF Writer, Engine, TranscriptInv, TranscriptTypeOK, Session
<1> HIDE DEF w
<1>4. /\ writer' \in [Writers -> Writer]
      /\ \A d \in Writers \ {c} : writer'[d].pc = writer[d].pc
  BY <1>1, <1>3, WriterSet DEF TranscriptInv
<1>5. TranscriptTypeOK'
  BY <1>1, <1>4 DEF TranscriptInv, TranscriptTypeOK
<1>6. QED
  BY <1>1, <1>4, <1>5, ChatKeeps

LEMMA ResumesKeeps ==
  ASSUME TranscriptInv, NEW c \in Writers, Resumes(c)
  PROVE  TranscriptInv'
<1> DEFINE w == [writer[c] EXCEPT !.pc = "begun", !.before = ToSet(said[writer[c].engine])]
<1>1. /\ writer[c].pc = "checking" /\ writer[c].engine \in opened
      /\ UNCHANGED <<session, opened, gone, said, records, kept, trouble, lost, excused, mistaken>>
  BY DEF Resumes
<1>2. writer[c] \in Writer /\ writer[c].engine \in Engines
  BY <1>1 DEF TranscriptInv, TranscriptTypeOK
<1>3. ToSet(said[writer[c].engine]) \in SUBSET SessionMessage
  BY <1>2, MessagesTyped DEF TranscriptInv
<1>4. w \in Writer
  BY <1>2, <1>3 DEF Writer
<1>5. writer' = [writer EXCEPT ![c] = w]
  BY DEF Resumes, TranscriptInv, TranscriptTypeOK
<1> HIDE DEF w
<1>6. /\ writer' \in [Writers -> Writer]
      /\ \A d \in Writers \ {c} : writer'[d].pc = writer[d].pc
  BY <1>4, <1>5, WriterSet DEF TranscriptInv
<1>7. TranscriptTypeOK'
  BY <1>1, <1>6 DEF TranscriptInv, TranscriptTypeOK
<1>8. writer[c].pc \in Running
  BY <1>1 DEF Running
<1>9. QED
  BY <1>1, <1>6, <1>7, <1>8, ChatKeeps

LEMMA MakesSessionKeeps ==
  ASSUME TranscriptInv, NEW c \in Writers, MakesSession(c)
  PROVE  TranscriptInv'
<1>1. PICK o \in Engines :
        /\ Opens(o, <<>>)
        /\ session' = [session EXCEPT ![In[c]].engine = o, ![In[c]].deleted = FALSE]
        /\ writer' = [writer EXCEPT ![c].pc = "begun", ![c].engine = o]
  BY DEF MakesSession
<1> DEFINE w == [writer[c] EXCEPT !.pc = "begun", !.engine = o]
<1> DEFINE s == [session[In[c]] EXCEPT !.engine = o, !.deleted = FALSE]
<1>2. /\ writer[c].pc = "checking" /\ writer[c].pc \in Running
      /\ UNCHANGED <<records, kept, trouble, lost, excused, mistaken>>
  BY DEF MakesSession, Running
<1>3. In[c] \in Portals /\ writer[c] \in Writer /\ session[In[c]] \in Session
  BY TranscriptAssumption DEF TranscriptInv, TranscriptTypeOK
<1>4. w \in Writer /\ s \in Session /\ s.deleted = FALSE
  BY <1>3 DEF Writer, Session
<1>5. writer' = [writer EXCEPT ![c] = w] /\ session' = [session EXCEPT ![In[c]] = s]
  BY <1>1, <1>3 DEF TranscriptInv, TranscriptTypeOK
<1> HIDE DEF w, s
<1>6. /\ writer' \in [Writers -> Writer]
      /\ \A d \in Writers \ {c} : writer'[d].pc = writer[d].pc
  BY <1>4, <1>5, WriterSet DEF TranscriptInv
<1>7. /\ session' \in [Portals -> Session]
      /\ \A p \in Portals : session'[p].deleted => session[p].deleted
  BY <1>3, <1>4, <1>5 DEF TranscriptInv, TranscriptTypeOK
<1>8. <<>> \in Seq(SessionMessage)
  OBVIOUS
<1>9. opened' \subseteq Engines /\ said' \in [Engines -> Seq(SessionMessage)]
  BY <1>1, <1>8, OpensTyped DEF TranscriptInv
<1>10. TranscriptTypeOK'
  BY <1>6, <1>7, <1>9 DEF TranscriptTypeOK
<1>11. QED
  BY <1>2, <1>6, <1>7, <1>10, ChatKeeps

LEMMA PutsWordsKeeps ==
  ASSUME TranscriptInv, NEW c \in Writers, PutsWords(c)
  PROVE  TranscriptInv'
<1> DEFINE put == DisplayRecord(In[c], writer[c].engine, Prompt(c), c)
<1>1. /\ writer[c].pc \in Running /\ WriterGoes(c, "put") /\ Saved(With({put}))
      /\ UNCHANGED <<session, opened, gone, said, lost, excused, mistaken>>
  BY DEF PutsWords, Running
<1>2. put.portal = In[c]
  BY OwnRecord
<1> HIDE DEF put
<1>3. /\ kept' \in {kept, records'}
      /\ \A r \in records' : r \in records \/ r.portal = In[c]
  <2>1. records' = With({put}) /\ kept' \in {kept, records'}
    BY <1>1, SavedDoes
  <2>2. \A r \in With({put}) : r \in records \/ r.portal = In[c]
    BY <1>2, WithOwn
  <2>3. QED
    BY <2>1, <2>2
<1>4. "put" \in Running
  BY DEF Running
<1>5. /\ writer' \in [Writers -> Writer]
      /\ \A d \in Writers \ {c} : writer'[d].pc = writer[d].pc
  BY <1>1, <1>4, WriterMoves DEF TranscriptInv
<1>6. TranscriptTypeOK'
  BY <1>1, <1>5 DEF TranscriptInv, TranscriptTypeOK
<1>7. QED
  BY <1>1, <1>3, <1>5, <1>6, ChatKeeps

LEMMA SendsKeeps ==
  ASSUME TranscriptInv, NEW c \in Writers, Sends(c)
  PROVE  TranscriptInv'
<1>1. PICK answer \in {<<>>, <<Reply(c)>>} :
        said' = [said EXCEPT ![writer[c].engine] = @ \o <<Prompt(c)>> \o answer]
  BY DEF Sends
<1>2. /\ writer[c].pc \in Running /\ WriterGoes(c, "sent")
      /\ UNCHANGED <<session, opened, gone, records, kept, trouble, lost, excused, mistaken>>
  BY DEF Sends, Running
<1>3. Prompt(c) \in SessionMessage /\ Reply(c) \in SessionMessage
  BY DEF Prompt, Reply, SessionMessage
<1>4. \A o \in Engines : said[o] \o <<Prompt(c)>> \o answer \in Seq(SessionMessage)
  <2>1. SUFFICES ASSUME NEW o \in Engines
                 PROVE  said[o] \o <<Prompt(c)>> \o answer \in Seq(SessionMessage)
    OBVIOUS
  <2>2. said[o] \in Seq(SessionMessage)
    BY DEF TranscriptInv, TranscriptTypeOK
  <2>3. /\ <<Prompt(c)>> \in Seq(SessionMessage) /\ <<Reply(c)>> \in Seq(SessionMessage)
        /\ <<>> \in Seq(SessionMessage)
    BY <1>3
  <2>4. answer \in Seq(SessionMessage)
    BY <1>1, <2>3
  <2>5. said[o] \o <<Prompt(c)>> \in Seq(SessionMessage)
    BY <2>2, <2>3, ConcatProperties
  <2>6. QED
    BY <2>4, <2>5, ConcatProperties
<1>5. said' \in [Engines -> Seq(SessionMessage)]
  BY <1>1, <1>4 DEF TranscriptInv, TranscriptTypeOK
<1>6. "sent" \in Running
  BY DEF Running
<1>7. /\ writer' \in [Writers -> Writer]
      /\ \A d \in Writers \ {c} : writer'[d].pc = writer[d].pc
  BY <1>2, <1>6, WriterMoves DEF TranscriptInv
<1>8. TranscriptTypeOK'
  BY <1>2, <1>5, <1>7 DEF TranscriptInv, TranscriptTypeOK
<1>9. QED
  BY <1>2, <1>7, <1>8, ChatKeeps

LEMMA BreaksKeeps ==
  ASSUME TranscriptInv, NEW c \in Writers, Breaks(c)
  PROVE  TranscriptInv'
<1> DEFINE over == [Resting EXCEPT !.pc = "over"]
<1>1. /\ writer[c].pc \in Running /\ writer' = [writer EXCEPT ![c] = over]
      /\ UNCHANGED <<session, opened, gone, said, records, kept, trouble, lost, excused, mistaken>>
  BY DEF Breaks, Running
<1>2. over \in Writer
  BY OverTyped
<1> HIDE DEF over
<1>3. /\ writer' \in [Writers -> Writer]
      /\ \A d \in Writers \ {c} : writer'[d].pc = writer[d].pc
  BY <1>1, <1>2, WriterSet DEF TranscriptInv
<1>4. TranscriptTypeOK'
  BY <1>1, <1>3 DEF TranscriptInv, TranscriptTypeOK
<1>5. QED
  BY <1>1, <1>3, <1>4, ChatKeeps

LEMMA PutsAttributionKeeps ==
  ASSUME TranscriptInv, NEW c \in Writers, PutsAttribution(c)
  PROVE  TranscriptInv'
<1> DEFINE over == [Resting EXCEPT !.pc = "over"]
<1> DEFINE puts(answers) == {DisplayRecord(In[c], writer[c].engine, m, c) : m \in answers}
<1>1. /\ writer[c].pc \in Running /\ writer' = [writer EXCEPT ![c] = over]
      /\ UNCHANGED <<session, opened, gone, said, lost, excused, mistaken>>
  BY DEF PutsAttribution, Running
<1>2. \/ UNCHANGED <<records, kept>>
      \/ \E answers : Saved(With(puts(answers)))
  BY DEF PutsAttribution
<1>3. \A answers : \A s \in puts(answers) : s.portal = In[c]
  BY OwnRecord
<1> HIDE DEF puts
<1>4. /\ kept' \in {kept, records'}
      /\ \A r \in records' : r \in records \/ r.portal = In[c]
  <2>1. CASE UNCHANGED <<records, kept>>
    BY <2>1
  <2>2. CASE \E answers : Saved(With(puts(answers)))
    <3>1. PICK answers : Saved(With(puts(answers)))
      BY <2>2
    <3>2. records' = With(puts(answers)) /\ kept' \in {kept, records'}
      BY <3>1, SavedDoes
    <3>3. \A r \in With(puts(answers)) : r \in records \/ r.portal = In[c]
      BY <1>3, WithOwn
    <3>4. QED
      BY <3>2, <3>3
  <2>3. QED
    BY <1>2, <2>1, <2>2
<1>5. over \in Writer
  BY OverTyped
<1> HIDE DEF over
<1>6. /\ writer' \in [Writers -> Writer]
      /\ \A d \in Writers \ {c} : writer'[d].pc = writer[d].pc
  BY <1>1, <1>5, WriterSet DEF TranscriptInv
<1>7. TranscriptTypeOK'
  BY <1>1, <1>6 DEF TranscriptInv, TranscriptTypeOK
<1>8. QED
  BY <1>1, <1>4, <1>6, <1>7, ChatKeeps

LEMMA EditMovesKeeps ==
  ASSUME TranscriptInv, NEW c \in Writers, EditMoves(c)
  PROVE  TranscriptInv'
<1>1. PICK o \in Engines :
        /\ Forks(In[c], o)
        /\ writer' = [writer EXCEPT ![c] = [Resting EXCEPT !.pc = "put", !.engine = o,
                                                           !.before = ToSet(said'[o])]]
  BY DEF EditMoves
<1> DEFINE w == [Resting EXCEPT !.pc = "put", !.engine = o, !.before = ToSet(said'[o])]
<1>2. UNCHANGED <<records, kept, trouble, lost, excused, mistaken>> /\ In[c] \in Portals
  BY TranscriptAssumption DEF EditMoves
<1>3. /\ ~session[In[c]].deleted
      /\ session' \in [Portals -> Session]
      /\ \A q \in Portals : session'[q].deleted = session[q].deleted
      /\ opened' \subseteq Engines
      /\ said' \in [Engines -> Seq(SessionMessage)]
  BY <1>1, <1>2, ForksDoes DEF TranscriptInv
<1>4. ToSet(said'[o]) \in SUBSET SessionMessage
  <2>1. said'[o] \in Seq(SessionMessage)
    BY <1>3
  <2>2. QED
    BY <2>1 DEF ToSet
<1>5. w \in Writer
  BY <1>4, RestingTyped DEF Writer
<1>6. writer' = [writer EXCEPT ![c] = w]
  BY <1>1
<1> HIDE DEF w
<1>7. /\ writer' \in [Writers -> Writer]
      /\ \A d \in Writers \ {c} : writer'[d].pc = writer[d].pc
  BY <1>5, <1>6, WriterSet DEF TranscriptInv
<1>8. TranscriptTypeOK'
  BY <1>3, <1>7 DEF TranscriptTypeOK
<1>9. QED
  BY <1>2, <1>3, <1>7, <1>8, ChatKeeps

LEMMA PutsEditedKeeps ==
  ASSUME TranscriptInv, NEW c \in Writers, PutsEdited(c)
  PROVE  TranscriptInv'
<1> DEFINE over == [Resting EXCEPT !.pc = "over"]
<1> DEFINE put == DisplayRecord(In[c], writer[c].engine, Last(NewPrompts(c)), c)
<1>1. /\ writer[c].pc \in Running /\ writer' = [writer EXCEPT ![c] = over]
      /\ Saved(With({put}))
      /\ UNCHANGED <<session, opened, gone, said, lost, excused>>
  BY DEF PutsEdited, Running
<1>2. put.portal = In[c]
  BY OwnRecord
<1>3. over \in Writer
  BY OverTyped
<1> HIDE DEF put, over
<1>4. /\ kept' \in {kept, records'}
      /\ \A r \in records' : r \in records \/ r.portal = In[c]
  <2>1. records' = With({put}) /\ kept' \in {kept, records'}
    BY <1>1, SavedDoes
  <2>2. \A r \in With({put}) : r \in records \/ r.portal = In[c]
    BY <1>2, WithOwn
  <2>3. QED
    BY <2>1, <2>2
<1>5. /\ writer' \in [Writers -> Writer]
      /\ \A d \in Writers \ {c} : writer'[d].pc = writer[d].pc
  BY <1>1, <1>3, WriterSet DEF TranscriptInv
<1>6. TranscriptTypeOK'
  BY <1>1, <1>5 DEF TranscriptInv, TranscriptTypeOK
<1>7. QED
  BY <1>1, <1>4, <1>5, <1>6, ChatKeeps

LEMMA DeletesFromHereKeeps ==
  ASSUME TranscriptInv, NEW p \in Portals, DeletesFromHere(p)
  PROVE  TranscriptInv'
<1>1. PICK o \in Engines : Forks(p, o)
  BY DEF DeletesFromHere
<1>2. UNCHANGED <<writer, records, kept, trouble, lost, excused, mistaken>>
  BY DEF DeletesFromHere
<1>3. /\ session' \in [Portals -> Session]
      /\ \A q \in Portals : session'[q].deleted = session[q].deleted
      /\ opened' \subseteq Engines
      /\ said' \in [Engines -> Seq(SessionMessage)]
  BY <1>1, ForksDoes DEF TranscriptInv
<1>4. TranscriptTypeOK'
  BY <1>2, <1>3 DEF TranscriptInv, TranscriptTypeOK
<1>5. DeletedIsQuiet'
  BY <1>2, <1>3 DEF TranscriptInv, DeletedIsQuiet, ChatRunning, OfOthers
<1>6. QED
  BY <1>4, <1>5 DEF TranscriptInv

LEMMA DeleteBeginsKeeps ==
  ASSUME TranscriptInv, NEW p \in Portals, DeleteBegins(p)
  PROVE  TranscriptInv'
<1>1. /\ session' = [session EXCEPT ![p].leaving = session[p].engine]
      /\ opened' = opened \ {session[p].engine}
      /\ said' = [said EXCEPT ![session[p].engine] = <<>>]
      /\ UNCHANGED <<writer, records, kept, trouble, lost, excused, mistaken>>
  BY DEF DeleteBegins
<1>2. /\ session' \in [Portals -> Session]
      /\ \A q \in Portals : session'[q].deleted = session[q].deleted
  BY <1>1 DEF TranscriptInv, TranscriptTypeOK, Session
<1>3. said' \in [Engines -> Seq(SessionMessage)]
  <2>1. <<>> \in Seq(SessionMessage)
    OBVIOUS
  <2>2. QED
    BY <1>1, <2>1 DEF TranscriptInv, TranscriptTypeOK
<1>4. TranscriptTypeOK'
  BY <1>1, <1>2, <1>3 DEF TranscriptInv, TranscriptTypeOK
<1>5. DeletedIsQuiet'
  BY <1>1, <1>2 DEF TranscriptInv, DeletedIsQuiet, ChatRunning, OfOthers
<1>6. QED
  BY <1>4, <1>5 DEF TranscriptInv

LEMMA DeleteEndsKeeps ==
  ASSUME TranscriptInv, NEW p \in Portals, DeleteEnds(p)
  PROVE  TranscriptInv'
<1>1. /\ session' = [session EXCEPT ![p].deleted = TRUE, ![p].leaving = NoEngine]
      /\ Saved(Without(p, session[p].leaving))
      /\ excused' = excused \cup IF ChatRunning(p) \/ kept' # records' THEN {p} ELSE {}
      /\ UNCHANGED <<opened, gone, said, writer, lost, mistaken>>
  BY DEF DeleteEnds
<1>2. /\ session' \in [Portals -> Session]
      /\ \A q \in Portals \ {p} : session'[q] = session[q]
  BY <1>1 DEF TranscriptInv, TranscriptTypeOK, Session
<1>3. TranscriptTypeOK'
  BY <1>1, <1>2 DEF TranscriptInv, TranscriptTypeOK
<1>4. /\ kept' \in {kept, records'}
      /\ records' \subseteq records /\ OfOthers(p, records')
  BY <1>1, SavedDoes DEF Without, OfOthers
<1>5. DeletedIsQuiet'
  <2>1. SUFFICES ASSUME NEW q \in Portals \ excused', session'[q].deleted
                 PROVE  /\ ~ChatRunning(q)
                        /\ OfOthers(q, records') /\ OfOthers(q, kept')
    BY <1>1 DEF DeletedIsQuiet, ChatRunning, OfOthers
  <2>2. CASE q = p
    BY <1>1, <1>4, <2>1, <2>2
  <2>3. CASE q # p
    <3>1. q \in Portals \ excused /\ session[q].deleted
      BY <1>1, <1>2, <2>1, <2>3
    <3>2. ~ChatRunning(q) /\ OfOthers(q, records) /\ OfOthers(q, kept)
      BY <3>1 DEF TranscriptInv, DeletedIsQuiet
    <3>3. QED
      BY <1>4, <3>2 DEF OfOthers
  <2>4. QED
    BY <2>2, <2>3
<1>6. QED
  BY <1>3, <1>5 DEF TranscriptInv

LEMMA TranscriptRestartKeeps == TranscriptInv /\ TranscriptRestart => TranscriptInv'
<1> SUFFICES ASSUME TranscriptInv, TranscriptRestart PROVE TranscriptInv'
  OBVIOUS
<1>1. /\ kept' \in {{}, kept} /\ records' = kept' /\ excused \subseteq excused'
      /\ session' = [p \in Portals |-> [session[p] EXCEPT !.leaving = NoEngine]]
      /\ writer' = [c \in Writers |-> IF writer[c].pc = "idle" THEN Resting
                                      ELSE [Resting EXCEPT !.pc = "over"]]
      /\ UNCHANGED <<opened, said>>
  BY DEF TranscriptRestart
<1>2. \A p \in Portals : session'[p] \in Session /\ session'[p].deleted = session[p].deleted
  BY <1>1 DEF TranscriptInv, TranscriptTypeOK, Session
<1>3. Resting.pc = "idle"
  BY DEF Resting
<1>4. \A c \in Writers : writer'[c] \in Writer /\ writer'[c].pc \in {"idle", "over"}
  <2>1. SUFFICES ASSUME NEW c \in Writers
                 PROVE  writer'[c] \in Writer /\ writer'[c].pc \in {"idle", "over"}
    OBVIOUS
  <2>2. CASE writer[c].pc = "idle"
    BY <1>1, <1>3, <2>2, RestingTyped
  <2>3. CASE writer[c].pc # "idle"
    BY <1>1, <2>3, OverTyped
  <2>4. QED
    BY <2>2, <2>3
<1>5. session' \in [Portals -> Session] /\ writer' \in [Writers -> Writer]
  BY <1>1, <1>2, <1>4
<1>6. TranscriptTypeOK'
  BY <1>1, <1>5 DEF TranscriptInv, TranscriptTypeOK
<1>7. \A p \in Portals : ~ChatRunning(p)'
  BY <1>4 DEF ChatRunning
<1>8. DeletedIsQuiet'
  BY <1>1, <1>2, <1>7 DEF TranscriptInv, DeletedIsQuiet, OfOthers
<1>9. QED
  BY <1>6, <1>8 DEF TranscriptInv

LEMMA TranscriptStepKeeps == TranscriptInv /\ [TranscriptNext]_transcriptVars => TranscriptInv'
<1> SUFFICES ASSUME TranscriptInv, [TranscriptNext]_transcriptVars PROVE TranscriptInv'
  OBVIOUS
<1>1. CASE TranscriptRestart
  BY <1>1, TranscriptRestartKeeps
<1>2. ASSUME NEW p \in Portals, DeletesFromHere(p) \/ DeleteBegins(p) \/ DeleteEnds(p)
      PROVE  TranscriptInv'
  BY <1>2, DeletesFromHereKeeps, DeleteBeginsKeeps, DeleteEndsKeeps
<1>3. ASSUME NEW c \in Writers,
             \/ LooksUp(c) \/ Resumes(c) \/ MakesSession(c) \/ PutsWords(c) \/ Sends(c)
             \/ Breaks(c) \/ PutsAttribution(c) \/ EditMoves(c) \/ PutsEdited(c)
      PROVE  TranscriptInv'
  BY <1>3, LooksUpKeeps, ResumesKeeps, MakesSessionKeeps, PutsWordsKeeps, SendsKeeps,
     BreaksKeeps, PutsAttributionKeeps, EditMovesKeeps, PutsEditedKeeps
<1>4. CASE UNCHANGED transcriptVars
  BY <1>4 DEF transcriptVars, TranscriptInv, TranscriptTypeOK, DeletedIsQuiet, ChatRunning, OfOthers
<1>5. QED
  BY <1>1, <1>2, <1>3, <1>4 DEF TranscriptNext

LEMMA TranscriptInvHolds == TranscriptSpec => []TranscriptInv
<1>1. QED
  BY TranscriptBegins, TranscriptStepKeeps, PTL DEF TranscriptSpec

-----------------------------------------------------------------------------
(* Theorem *)

\* Deleting a session takes all of its records out of the store and its file for good,
\* however often edits have moved it in OpenCode and whatever is restarted afterwards, if
\* no chat was running in it and the file could be written.
THEOREM NothingIsLeft == TranscriptSpec => []DeletedLeavesNothing
<1>1. TranscriptInv => DeletedLeavesNothing
  BY DEF TranscriptInv, DeletedIsQuiet, DeletedLeavesNothing, OfOthers
<1>2. QED
  BY <1>1, TranscriptInvHolds, PTL

-----------------------------------------------------------------------------
(* Transcript: the user's own words *)

Known == opened \cup gone

\* OpenCode's sessions that are spoken of are or were there.
EnginesKnown ==
  /\ gone \subseteq Engines
  /\ \A p \in Portals : {session[p].engine, session[p].leaving} \subseteq Known \cup {NoEngine}
  /\ \A c \in Writers : /\ writer[c].engine \in Known \cup {NoEngine}
                        /\ writer[c].pc \in {"begun", "put", "sent"} => writer[c].engine # NoEngine
  /\ \A r \in records \cup kept : r.engine \in Known

Belongs(o, p) == session[p].engine = o \/ session[p].leaving = o

\* One of OpenCode's sessions belongs to one of the portal's, with all that is said in it,
\* written to it or stored of it.
EnginesApart ==
  \A p \in Portals, o \in Engines : Belongs(o, p) =>
    /\ \A q \in Portals : Belongs(o, q) => p = q
    /\ \A c \in Writers : writer[c].engine = o => In[c] = p
    /\ \A r \in records \cup kept : r.engine = o => r.portal = p
    /\ \A m \in ToSet(said[o]) : In[m.by] = p

OfUser(r) == r.message.role = "user" /\ r.message \notin mistaken

\* A record of a user's message has the words of its chat, which has come as far.
RecordsOwn ==
  \A r \in records \cup kept : OfUser(r) =>
    LET c == r.message.by
    IN  /\ c \in Writers /\ r.message = Prompt(c)
        /\ r.text = c /\ r.portal = In[c]
        /\ writer[c].pc \in IF c \in Edits THEN {"over"} ELSE {"put", "sent", "over"}

OneOfEach ==
  \A r, s \in records \cup kept : OfUser(r) /\ r.message = s.message => r = s

Stored(c) == Prompt(c) \in lost \cup mistaken \/ \E r \in records : r.message = Prompt(c)

\* What a chat has said, or is about to say, in the session where it is to be shown.
Says(c) ==
  LET o == session[In[c]].engine
  IN  /\ ~session[In[c]].deleted
      /\ \/ o \in opened /\ Prompt(c) \in ToSet(said[o])
         \/ writer[c].pc = "put" /\ writer[c].engine = o

WordsStored == \A c \in Writers \ Edits : Says(c) => Stored(c)

\* An edit has its session when it begins.
EditsSkip == \A c \in Edits : writer[c].pc \notin {"checking", "begun"}

WordsInv ==
  /\ TranscriptTypeOK
  /\ EditsSkip
  /\ EnginesKnown
  /\ EnginesApart
  /\ RecordsOwn
  /\ OneOfEach
  /\ WordsStored

-----------------------------------------------------------------------------
LEMMA KnownEngines ==
  ASSUME TranscriptTypeOK, EnginesKnown
  PROVE  Known \subseteq Engines /\ NoEngine \notin Known
BY TranscriptAssumption DEF TranscriptTypeOK, EnginesKnown, Known

LEMMA PromptIs ==
  ASSUME NEW c
  PROVE  /\ Prompt(c).by = c /\ Prompt(c).role = "user"
         /\ Reply(c).by = c /\ Reply(c).role = "assistant"
         /\ \A d : Prompt(c) = Prompt(d) => c = d
BY DEF Prompt, Reply

\* A chat looks up, goes on or ends, and nothing else happens.
LEMMA ChatMoves ==
  ASSUME WordsInv, TranscriptTypeOK', NEW c \in Writers,
         UNCHANGED <<session, opened, gone, said, records, kept, lost, mistaken>>,
         \A d \in Writers \ {c} : writer'[d] = writer[d],
         writer'[c].engine \in {writer[c].engine, Engine(c), NoEngine},
         writer'[c].pc \notin {"put", "sent"},
         writer'[c].pc = "begun" => writer'[c].engine # NoEngine,
         writer[c].pc # "over",
         writer[c].pc \in {"put", "sent"} => writer'[c].pc = "over",
         c \in Edits => writer'[c].pc = "over"
  PROVE  WordsInv'
<1>1. In[c] \in Portals
  BY TranscriptAssumption
<1>0. EditsSkip'
  <2>1. SUFFICES ASSUME NEW d \in Edits PROVE writer'[d].pc \notin {"checking", "begun"}
    BY DEF EditsSkip
  <2>2. CASE d = c
    BY <2>2
  <2>3. CASE d # c
    BY <2>3, TranscriptAssumption DEF WordsInv, EditsSkip
  <2> QED BY <2>2, <2>3
<1>2. EnginesKnown'
  <2>1. Engine(c) \in Known \cup {NoEngine}
    BY <1>1 DEF WordsInv, EnginesKnown, Engine
  <2>2. ASSUME NEW d \in Writers
        PROVE  /\ writer'[d].engine \in Known \cup {NoEngine}
               /\ writer'[d].pc \in {"begun", "put", "sent"} => writer'[d].engine # NoEngine
    <3>1. CASE d = c
      BY <2>1, <3>1 DEF WordsInv, EnginesKnown
    <3>2. CASE d # c
      BY <3>2 DEF WordsInv, EnginesKnown
    <3> QED BY <3>1, <3>2
  <2> QED BY <2>2 DEF WordsInv, EnginesKnown, Known
<1>3. EnginesApart'
  <2>1. SUFFICES ASSUME NEW p \in Portals, NEW o \in Engines, Belongs(o, p)
                 PROVE  \A d \in Writers : writer'[d].engine = o => In[d] = p
    BY DEF WordsInv, EnginesApart, Belongs
  <2>2. TAKE d \in Writers
  <2>3. HAVE writer'[d].engine = o
  <2>4. /\ \A e \in Writers : writer[e].engine = o => In[e] = p
        /\ \A q \in Portals : Belongs(o, q) => p = q
    BY <2>1 DEF WordsInv, EnginesApart
  <2>5. CASE d # c
    BY <2>3, <2>4, <2>5
  <2>6. CASE d = c
    <3>1. o # NoEngine
      BY TranscriptAssumption
    <3>2. CASE o = writer[c].engine
      BY <2>4, <2>6, <3>2
    <3>3. CASE o = Engine(c)
      <4>1. Belongs(o, In[c])
        BY <3>3 DEF Belongs, Engine
      <4> QED BY <1>1, <2>4, <2>6, <4>1
    <3> QED BY <2>3, <2>6, <3>1, <3>2, <3>3
  <2> QED BY <2>5, <2>6
<1>4. RecordsOwn'
  <2>1. \A d \in Writers : writer[d].pc \in {"put", "sent", "over"} =>
          /\ writer'[d].pc \in {"put", "sent", "over"}
          /\ writer[d].pc = "over" => writer'[d].pc = "over"
    <3>1. SUFFICES ASSUME NEW d \in Writers, writer[d].pc \in {"put", "sent", "over"}
                   PROVE  /\ writer'[d].pc \in {"put", "sent", "over"}
                          /\ writer[d].pc = "over" => writer'[d].pc = "over"
      OBVIOUS
    <3>2. CASE d = c
      BY <3>1, <3>2
    <3>3. CASE d # c
      BY <3>1, <3>3
    <3> QED BY <3>2, <3>3
  <2> QED BY <2>1 DEF WordsInv, RecordsOwn, OfUser
<1>5. OneOfEach'
  BY DEF WordsInv, OneOfEach, OfUser
<1>6. WordsStored'
  <2>1. SUFFICES ASSUME NEW d \in Writers \ Edits, Says(d)' PROVE Stored(d)'
    BY DEF WordsStored
  <2>2. Says(d)
    BY <2>1 DEF Says
  <2>3. Stored(d)
    BY <2>2 DEF WordsInv, WordsStored
  <2> QED BY <2>3 DEF Stored
<1> QED BY <1>0, <1>2, <1>3, <1>4, <1>5, <1>6 DEF WordsInv

LEMMA LooksUpKeepsWords ==
  ASSUME WordsInv, TranscriptTypeOK', NEW c \in Writers, LooksUp(c)
  PROVE  WordsInv'
<1> DEFINE w == [Resting EXCEPT !.pc = "checking", !.engine = Engine(c)]
<1>1. w.pc = "checking" /\ w.engine = Engine(c)
  BY DEF Resting
<1>2. /\ writer' = [writer EXCEPT ![c] = w] /\ writer[c].pc = "idle" /\ c \notin Edits
      /\ UNCHANGED <<session, opened, gone, said, records, kept, lost, mistaken>>
  BY DEF LooksUp
<1> HIDE DEF w
<1>3. writer'[c] = w /\ \A d \in Writers \ {c} : writer'[d] = writer[d]
  BY <1>2 DEF WordsInv, TranscriptTypeOK
<1> QED BY <1>1, <1>2, <1>3, ChatMoves

LEMMA ResumesKeepsWords ==
  ASSUME WordsInv, TranscriptTypeOK', NEW c \in Writers, Resumes(c)
  PROVE  WordsInv'
<1> DEFINE w == [writer[c] EXCEPT !.pc = "begun", !.before = ToSet(said[writer[c].engine])]
<1>0. writer \in [Writers -> Writer] /\ writer[c] \in Writer
  BY DEF WordsInv, TranscriptTypeOK
<1>1. w.pc = "begun" /\ w.engine = writer[c].engine
  BY <1>0 DEF Writer
<1>2. /\ writer' = [writer EXCEPT ![c] = w] /\ writer[c].pc = "checking"
      /\ writer[c].engine \in opened
      /\ UNCHANGED <<session, opened, gone, said, records, kept, lost, mistaken>>
  BY <1>0 DEF Resumes
<1>3. writer[c].engine # NoEngine /\ c \notin Edits
  BY <1>2, KnownEngines DEF WordsInv, Known, EditsSkip
<1> HIDE DEF w
<1>4. writer'[c] = w /\ \A d \in Writers \ {c} : writer'[d] = writer[d]
  BY <1>0, <1>2
<1> QED BY <1>1, <1>2, <1>3, <1>4, ChatMoves

LEMMA BreaksKeepsWords ==
  ASSUME WordsInv, TranscriptTypeOK', NEW c \in Writers, Breaks(c)
  PROVE  WordsInv'
<1> DEFINE w == [Resting EXCEPT !.pc = "over"]
<1>1. w.pc = "over" /\ w.engine = NoEngine
  BY DEF Resting
<1>2. /\ writer' = [writer EXCEPT ![c] = w] /\ writer[c].pc \in {"checking", "put", "sent"}
      /\ UNCHANGED <<session, opened, gone, said, records, kept, lost, mistaken>>
  BY DEF Breaks
<1> HIDE DEF w
<1>3. writer'[c] = w /\ \A d \in Writers \ {c} : writer'[d] = writer[d]
  BY <1>2 DEF WordsInv, TranscriptTypeOK
<1> QED BY <1>1, <1>2, <1>3, ChatMoves

-----------------------------------------------------------------------------
LEMMA WithDoes ==
  ASSUME NEW puts
  PROVE  /\ \A r \in With(puts) : r \in records \/ r \in puts
         /\ puts \subseteq With(puts)
         /\ \A r \in records : \E s \in With(puts) : s.message = r.message
<1>1. ASSUME NEW r \in records PROVE \E s \in With(puts) : s.message = r.message
  <2>1. CASE \E s \in puts : Same(r, s)
    BY <2>1 DEF With, Same
  <2>2. CASE ~ \E s \in puts : Same(r, s)
    BY <2>2 DEF With
  <2> QED BY <2>1, <2>2
<1> QED BY <1>1 DEF With

\* A chat that is at work puts its records.
LEMMA ChatPuts ==
  ASSUME WordsInv, TranscriptTypeOK', NEW c \in Writers, NEW puts,
         UNCHANGED <<session, opened, gone, said, lost>>,
         records' = With(puts), kept' \in {kept, records'},
         mistaken \subseteq mistaken',
         writer[c].pc \in {"begun", "put", "sent"},
         \A d \in Writers \ {c} : writer'[d] = writer[d],
         writer'[c].engine \in {writer[c].engine, NoEngine},
         writer[c].pc \in {"put", "sent"} => writer'[c].pc = "over",
         writer'[c].pc \in {"put", "over"},
         writer'[c].pc \in {"begun", "put", "sent"} => writer'[c].engine # NoEngine,
         writer'[c].pc = "put" => \E s \in puts : s.message = Prompt(c),
         \A s \in puts :
            /\ s.portal = In[c] /\ s.engine = writer[c].engine
            /\ s.message.role = "user" /\ s.message \notin mistaken' =>
                 /\ s.message = Prompt(c) /\ s.text = c
                 /\ writer'[c].pc \in IF c \in Edits THEN {"over"} ELSE {"put"}
                 /\ c \notin Edits => writer[c].pc = "begun",
         \A s, t \in puts : s.message = t.message => s = t
  PROVE  WordsInv'
<1>1. \A r \in records' \cup kept' : r \in records \cup kept \/ r \in puts
  BY WithDoes
<1>2. writer[c].engine \in Known
  BY DEF WordsInv, EnginesKnown
<1>3. Known' = Known
  BY DEF Known
<1>0. EditsSkip'
  <2>1. SUFFICES ASSUME NEW d \in Edits PROVE writer'[d].pc \notin {"checking", "begun"}
    BY DEF EditsSkip
  <2>2. CASE d = c
    BY <2>2
  <2>3. CASE d # c
    BY <2>3, TranscriptAssumption DEF WordsInv, EditsSkip
  <2> QED BY <2>2, <2>3
<1>4. EnginesKnown'
  <2>1. \A r \in records' \cup kept' : r.engine \in Known
    BY <1>1, <1>2 DEF WordsInv, EnginesKnown
  <2>2. ASSUME NEW d \in Writers
        PROVE  /\ writer'[d].engine \in Known \cup {NoEngine}
               /\ writer'[d].pc \in {"begun", "put", "sent"} => writer'[d].engine # NoEngine
    <3>1. CASE d = c
      BY <1>2, <3>1
    <3>2. CASE d # c
      BY <3>2 DEF WordsInv, EnginesKnown
    <3> QED BY <3>1, <3>2
  <2> QED BY <1>3, <2>1, <2>2 DEF WordsInv, EnginesKnown
<1>5. EnginesApart'
  <2>1. SUFFICES ASSUME NEW p \in Portals, NEW o \in Engines, Belongs(o, p)
                 PROVE  /\ \A d \in Writers : writer'[d].engine = o => In[d] = p
                        /\ \A r \in records' \cup kept' : r.engine = o => r.portal = p
    BY DEF WordsInv, EnginesApart, Belongs
  <2>2. /\ \A d \in Writers : writer[d].engine = o => In[d] = p
        /\ \A r \in records \cup kept : r.engine = o => r.portal = p
    BY <2>1 DEF WordsInv, EnginesApart
  <2>3. o # NoEngine
    BY TranscriptAssumption
  <2>4. ASSUME NEW d \in Writers, writer'[d].engine = o PROVE In[d] = p
    <3>1. writer[d].engine = o
      BY <2>3, <2>4
    <3> QED BY <2>2, <3>1
  <2>5. ASSUME NEW r \in records' \cup kept', r.engine = o PROVE r.portal = p
    <3>1. CASE r \in records \cup kept
      BY <2>2, <2>5, <3>1
    <3>2. CASE r \in puts
      BY <2>2, <2>5, <3>2
    <3> QED BY <1>1, <3>1, <3>2
  <2> QED BY <2>4, <2>5
<1>6. \A r : OfUser(r)' => OfUser(r)
  BY DEF OfUser
\* What the chat puts of its prompt was not there before.
<1>7. ASSUME NEW r \in records \cup kept, NEW s \in puts, OfUser(s)'
      PROVE  r.message # s.message
  <2>1. s.message = Prompt(c) /\ (c \notin Edits => writer[c].pc = "begun")
    BY <1>7 DEF OfUser
  <2>2. SUFFICES ASSUME r.message = s.message PROVE FALSE
    OBVIOUS
  <2>3. OfUser(r) /\ r.message.by = c
    BY <1>6, <1>7, <2>1, <2>2, PromptIs DEF OfUser
  <2>4. writer[c].pc \in IF c \in Edits THEN {"over"} ELSE {"put", "sent", "over"}
    BY <2>3 DEF WordsInv, RecordsOwn
  <2> QED BY <2>1, <2>4
<1>8. RecordsOwn'
  <2>1. SUFFICES ASSUME NEW r \in records' \cup kept', OfUser(r)'
                 PROVE  LET d == r.message.by
                        IN  /\ d \in Writers /\ r.message = Prompt(d)
                            /\ r.text = d /\ r.portal = In[d]
                            /\ writer'[d].pc \in IF d \in Edits THEN {"over"} ELSE {"put", "sent", "over"}
    BY DEF RecordsOwn
  <2> DEFINE d == r.message.by
  <2>2. CASE r \in puts
    <3>1. /\ r.message = Prompt(c) /\ r.text = c /\ r.portal = In[c]
          /\ writer'[c].pc \in IF c \in Edits THEN {"over"} ELSE {"put"}
      BY <2>1, <2>2 DEF OfUser
    <3>2. d = c
      BY <3>1, PromptIs
    <3> QED BY <3>1, <3>2
  <2>3. CASE r \in records \cup kept
    <3>1. /\ d \in Writers /\ r.message = Prompt(d)
          /\ r.text = d /\ r.portal = In[d]
          /\ writer[d].pc \in IF d \in Edits THEN {"over"} ELSE {"put", "sent", "over"}
      BY <1>6, <2>1, <2>3 DEF WordsInv, RecordsOwn
    <3>2. writer'[d].pc \in IF d \in Edits THEN {"over"} ELSE {"put", "sent", "over"}
      <4> HIDE DEF d
      <4>1. CASE d = c
        BY <3>1, <4>1
      <4>2. CASE d # c
        BY <3>1, <4>2
      <4> QED BY <4>1, <4>2
    <3> QED BY <3>1, <3>2
  <2> QED BY <1>1, <2>2, <2>3
<1>9. OneOfEach'
  <2>1. SUFFICES ASSUME NEW r \in records' \cup kept', NEW s \in records' \cup kept',
                        OfUser(r)', r.message = s.message
                 PROVE  r = s
    BY DEF OneOfEach
  <2>2. OfUser(s)' /\ OfUser(r)
    BY <1>6, <2>1 DEF OfUser
  <2>3. CASE r \in records \cup kept /\ s \in records \cup kept
    BY <2>1, <2>2, <2>3 DEF WordsInv, OneOfEach
  <2>4. CASE r \in puts /\ s \in puts
    BY <2>1, <2>4
  <2>5. CASE r \in records \cup kept /\ s \in puts
    BY <1>7, <2>1, <2>2, <2>5
  <2>6. CASE r \in puts /\ s \in records \cup kept
    BY <1>7, <2>1, <2>6
  <2> QED BY <1>1, <2>3, <2>4, <2>5, <2>6
<1>10. WordsStored'
  <2>1. SUFFICES ASSUME NEW d \in Writers \ Edits, Says(d)' PROVE Stored(d)'
    BY DEF WordsStored
  <2>2. CASE Says(d)
    <3>1. Stored(d)
      BY <2>2 DEF WordsInv, WordsStored
    <3>2. CASE Prompt(d) \in lost \cup mistaken
      BY <3>2 DEF Stored
    <3>3. CASE \E r \in records : r.message = Prompt(d)
      <4>1. \E s \in records' : s.message = Prompt(d)
        BY <3>3, WithDoes
      <4> QED BY <4>1 DEF Stored
    <3> QED BY <3>1, <3>2, <3>3 DEF Stored
  <2>3. CASE ~Says(d)
    <3>1. d = c /\ writer'[c].pc = "put"
      BY <2>1, <2>3 DEF Says
    <3>2. \E s \in records' : s.message = Prompt(c)
      BY <3>1, WithDoes
    <3> QED BY <3>1, <3>2 DEF Stored
  <2> QED BY <2>2, <2>3
<1> QED BY <1>0, <1>4, <1>5, <1>8, <1>9, <1>10 DEF WordsInv

LEMMA PutsWordsKeepsWords ==
  ASSUME WordsInv, TranscriptTypeOK', NEW c \in Writers, PutsWords(c)
  PROVE  WordsInv'
<1> DEFINE put == DisplayRecord(In[c], writer[c].engine, Prompt(c), c)
           w == [writer[c] EXCEPT !.pc = "put"]
<1>1. /\ writer[c].pc = "begun" /\ Saved(With({put}))
      /\ UNCHANGED <<session, opened, gone, said, lost, mistaken>>
      /\ writer' = [writer EXCEPT ![c].pc = "put"]
  BY DEF PutsWords, WriterGoes
<1>2. writer \in [Writers -> Writer] /\ writer[c] \in Writer
  BY DEF WordsInv, TranscriptTypeOK
<1>3. writer' = [writer EXCEPT ![c] = w] /\ w.pc = "put" /\ w.engine = writer[c].engine
  BY <1>1, <1>2 DEF Writer
<1>4. /\ put.portal = In[c] /\ put.engine = writer[c].engine
      /\ put.message = Prompt(c) /\ put.text = c
  BY DEF DisplayRecord
<1>5. writer[c].engine # NoEngine
  BY <1>1 DEF WordsInv, EnginesKnown
<1> HIDE DEF put, w
<1>6. writer'[c] = w /\ \A d \in Writers \ {c} : writer'[d] = writer[d]
  BY <1>2, <1>3
<1>7. records' = With({put}) /\ kept' \in {kept, records'}
  BY <1>1, SavedDoes
<1>8. c \notin Edits
  BY <1>1 DEF WordsInv, EditsSkip
<1> QED BY <1>1, <1>3, <1>4, <1>5, <1>6, <1>7, <1>8, ChatPuts

LEMMA PutsAttributionKeepsWords ==
  ASSUME WordsInv, TranscriptTypeOK', NEW c \in Writers, PutsAttribution(c)
  PROVE  WordsInv'
<1> DEFINE over == [Resting EXCEPT !.pc = "over"]
           o == writer[c].engine
           own == {Reply(c)} \cap ToSet(said[o])
           new == {m \in ToSet(said[o]) \ writer[c].before : m.role = "assistant"}
           puts(answers) == {DisplayRecord(In[c], o, m, c) : m \in answers}
<1>1. /\ writer[c].pc = "sent" /\ writer' = [writer EXCEPT ![c] = over]
      /\ UNCHANGED <<session, opened, gone, said, lost, mistaken>>
  BY DEF PutsAttribution
<1>2. over.pc = "over" /\ over.engine = NoEngine
  BY DEF Resting
<1>3. PICK answers \in {own, new} :
        IF answers = {} THEN UNCHANGED <<records, kept, trouble>>
        ELSE Saved(With({DisplayRecord(In[c], writer[c].engine, m, c) : m \in answers}))
  BY DEF PutsAttribution
<1>4. \A m \in answers : m.role = "assistant"
  BY <1>3, PromptIs
<1>5. \A s \in puts(answers) : /\ s.portal = In[c] /\ s.engine = writer[c].engine
                               /\ s.message \in answers
  BY DEF DisplayRecord
<1>6. \A s, t \in puts(answers) : s.message = t.message => s = t
  BY DEF DisplayRecord
<1>7. records' = With(puts(answers)) /\ kept' \in {kept, records'}
  <2>1. CASE answers = {}
    <3>1. puts(answers) = {}
      BY <2>1
    <3>2. With({}) = records
      BY DEF With
    <3> QED BY <1>3, <2>1, <3>1, <3>2
  <2>2. CASE answers # {}
    BY <1>3, <2>2, SavedDoes
  <2> QED BY <2>1, <2>2
<1> DEFINE ps == puts(answers)
<1>8. /\ records' = With(ps) /\ kept' \in {kept, records'}
      /\ \A s, t \in ps : s.message = t.message => s = t
      /\ \A s \in ps : /\ s.portal = In[c] /\ s.engine = writer[c].engine
                      /\ s.message.role # "user"
  BY <1>4, <1>5, <1>6, <1>7
<1> HIDE DEF over, ps, puts, own, new, o
<1>9. writer'[c] = over /\ \A d \in Writers \ {c} : writer'[d] = writer[d]
  BY <1>1 DEF WordsInv, TranscriptTypeOK
<1> QED BY <1>1, <1>2, <1>8, <1>9, ChatPuts

LEMMA PutsEditedKeepsWords ==
  ASSUME WordsInv, TranscriptTypeOK', NEW c \in Writers, PutsEdited(c)
  PROVE  WordsInv'
<1> DEFINE over == [Resting EXCEPT !.pc = "over"]
           message == Last(NewPrompts(c))
           put == DisplayRecord(In[c], writer[c].engine, message, c)
<1>1. /\ writer[c].pc = "sent" /\ c \in Edits /\ writer' = [writer EXCEPT ![c] = over]
      /\ Saved(With({put}))
      /\ mistaken' = mistaken \cup ({message} \ {Prompt(c)})
      /\ UNCHANGED <<session, opened, gone, said, lost>>
  BY DEF PutsEdited
<1>2. over.pc = "over" /\ over.engine = NoEngine
  BY DEF Resting
<1>3. /\ put.portal = In[c] /\ put.engine = writer[c].engine
      /\ put.message = message /\ put.text = c
  BY DEF DisplayRecord
<1> HIDE DEF over, message, put
<1>4. writer'[c] = over /\ \A d \in Writers \ {c} : writer'[d] = writer[d]
  BY <1>1 DEF WordsInv, TranscriptTypeOK
<1>5. records' = With({put}) /\ kept' \in {kept, records'}
  BY <1>1, SavedDoes
<1>6. message \notin mistaken' => message = Prompt(c)
  BY <1>1
<1> QED BY <1>1, <1>2, <1>3, <1>4, <1>5, <1>6, ChatPuts

-----------------------------------------------------------------------------
LEMMA PrefixSet ==
  ASSUME NEW S, NEW s \in Seq(S), NEW n \in 0 .. Len(s) - 1
  PROVE  ToSet(SubSeq(s, 1, n)) \subseteq ToSet(s)
<1>1. \A i \in 1 .. n : s[i] \in S
  OBVIOUS
<1>2. /\ SubSeq(s, 1, n) \in Seq(S) /\ Len(SubSeq(s, 1, n)) = n
      /\ \A i \in 1 .. n : SubSeq(s, 1, n)[i] = s[1 + i - 1]
  BY <1>1, SubSeqProperties
<1>3. DOMAIN SubSeq(s, 1, n) = 1 .. n /\ 1 .. n \subseteq DOMAIN s
  BY <1>2, LenProperties
<1>4. \A i \in 1 .. n : SubSeq(s, 1, n)[i] = s[i]
  BY <1>2
<1> QED BY <1>3, <1>4 DEF ToSet

LEMMA ConcatSet ==
  ASSUME NEW S, NEW s \in Seq(S), NEW t \in Seq(S)
  PROVE  ToSet(s \o t) = ToSet(s) \cup ToSet(t)
<1>1. /\ s \o t \in Seq(S) /\ Len(s \o t) = Len(s) + Len(t)
      /\ Len(s) \in Nat /\ Len(t) \in Nat
      /\ \A i \in 1 .. Len(s) + Len(t) :
            (s \o t)[i] = IF i <= Len(s) THEN s[i] ELSE t[i - Len(s)]
  BY ConcatProperties, LenProperties
<1>2. DOMAIN (s \o t) = 1 .. Len(s) + Len(t) /\ DOMAIN s = 1 .. Len(s) /\ DOMAIN t = 1 .. Len(t)
  BY <1>1, LenProperties
<1>3. \A i \in 1 .. Len(s) : i \in DOMAIN (s \o t) /\ (s \o t)[i] = s[i]
  BY <1>1, <1>2
<1>4. \A i \in 1 .. Len(t) : i + Len(s) \in DOMAIN (s \o t) /\ (s \o t)[i + Len(s)] = t[i]
  BY <1>1, <1>2
<1>5. \A i \in DOMAIN (s \o t) :
        \/ i \in 1 .. Len(s) /\ (s \o t)[i] = s[i]
        \/ i - Len(s) \in 1 .. Len(t) /\ (s \o t)[i] = t[i - Len(s)]
  <2>1. SUFFICES ASSUME NEW i \in DOMAIN (s \o t)
                 PROVE  \/ i \in 1 .. Len(s) /\ (s \o t)[i] = s[i]
                        \/ i - Len(s) \in 1 .. Len(t) /\ (s \o t)[i] = t[i - Len(s)]
    OBVIOUS
  <2>0. i \in 1 .. Len(s) + Len(t)
    BY <1>2
  <2>2. (s \o t)[i] = IF i <= Len(s) THEN s[i] ELSE t[i - Len(s)]
    BY <1>1, <2>0
  <2>3. CASE i <= Len(s)
    BY <1>1, <2>0, <2>2, <2>3
  <2>4. CASE ~(i <= Len(s))
    <3>1. i - Len(s) \in 1 .. Len(t)
      BY <1>1, <2>0, <2>4
    <3> QED BY <2>2, <2>4, <3>1
  <2> QED BY <2>3, <2>4
<1>6. ToSet(s \o t) \subseteq ToSet(s) \cup ToSet(t)
  BY <1>2, <1>5 DEF ToSet
<1>7. ToSet(s) \subseteq ToSet(s \o t)
  BY <1>2, <1>3 DEF ToSet
<1>8. ToSet(t) \subseteq ToSet(s \o t)
  BY <1>2, <1>4 DEF ToSet
<1> QED BY <1>6, <1>7, <1>8

LEMMA SendsKeepsWords ==
  ASSUME WordsInv, TranscriptTypeOK', NEW c \in Writers, Sends(c)
  PROVE  WordsInv'
<1> DEFINE e == writer[c].engine
           w == [writer[c] EXCEPT !.pc = "sent"]
<1>1. PICK answer \in {<<>>, <<Reply(c)>>} :
        said' = [said EXCEPT ![e] = said[e] \o <<Prompt(c)>> \o answer]
  BY DEF Sends
<1>2. /\ writer[c].pc = "put" /\ e \in opened
      /\ writer' = [writer EXCEPT ![c].pc = "sent"]
      /\ UNCHANGED <<session, opened, gone, records, kept, lost, mistaken>>
  BY DEF Sends, WriterGoes
<1>3. writer \in [Writers -> Writer] /\ writer[c] \in Writer /\ e \in Engines
  BY <1>2 DEF WordsInv, TranscriptTypeOK
<1>4. writer' = [writer EXCEPT ![c] = w] /\ w.pc = "sent" /\ w.engine = e
  BY <1>2, <1>3 DEF Writer
<1>5. /\ Prompt(c) \in SessionMessage /\ Reply(c) \in SessionMessage
      /\ said[e] \in Seq(SessionMessage) /\ said \in [Engines -> Seq(SessionMessage)]
  BY <1>3 DEF Prompt, Reply, SessionMessage, WordsInv, TranscriptTypeOK
<1>6. \A m \in ToSet(said[e] \o <<Prompt(c)>> \o answer) : m \in ToSet(said[e]) \/ m.by = c
  <2>1. /\ <<Prompt(c)>> \in Seq(SessionMessage) /\ <<Reply(c)>> \in Seq(SessionMessage)
        /\ <<>> \in Seq(SessionMessage)
    BY <1>5
  <2>2. /\ ToSet(<<Prompt(c)>>) = {Prompt(c)} /\ ToSet(<<Reply(c)>>) = {Reply(c)}
        /\ ToSet(<<>>) = {}
    BY DEF ToSet
  <2>3. answer \in Seq(SessionMessage) /\ ToSet(answer) \subseteq {Reply(c)}
    BY <1>1, <2>1, <2>2
  <2>4. said[e] \o <<Prompt(c)>> \in Seq(SessionMessage)
    BY <1>5, <2>1, ConcatProperties
  <2>5. /\ ToSet(said[e] \o <<Prompt(c)>>) = ToSet(said[e]) \cup {Prompt(c)}
        /\ ToSet(said[e] \o <<Prompt(c)>> \o answer)
             = ToSet(said[e] \o <<Prompt(c)>>) \cup ToSet(answer)
    <3> HIDE DEF e
    <3>1. \A s, t \in Seq(SessionMessage) : ToSet(s \o t) = ToSet(s) \cup ToSet(t)
      BY ConcatSet
    <3>2. ToSet(said[e] \o <<Prompt(c)>>) = ToSet(said[e]) \cup ToSet(<<Prompt(c)>>)
      BY <1>5, <2>1, <3>1
    <3> DEFINE s1 == said[e] \o <<Prompt(c)>>
    <3>3. ToSet(s1 \o answer) = ToSet(s1) \cup ToSet(answer)
      <4>1. s1 \in Seq(SessionMessage)
        BY <2>4
      <4> HIDE DEF s1
      <4> QED BY <2>3, <3>1, <4>1
    <3> QED BY <2>2, <3>2, <3>3
  <2> QED BY <2>3, <2>5, PromptIs
<1> HIDE DEF w, e
<1>7. writer'[c] = w /\ \A d \in Writers \ {c} : writer'[d] = writer[d]
  BY <1>3, <1>4
<1>8. \A d \in Writers :
        /\ writer'[d].engine = writer[d].engine
        /\ writer'[d].pc \in {"begun", "put", "sent"}
             => writer[d].pc \in {"begun", "put", "sent"}
        /\ writer[d].pc \in {"put", "sent", "over"}
             => writer'[d].pc \in {"put", "sent", "over"}
        /\ writer[d].pc = "over" => writer'[d].pc = "over"
        /\ writer'[d].pc = "put" => writer[d].pc = "put"
  <2>1. SUFFICES ASSUME NEW d \in Writers
                 PROVE  /\ writer'[d].engine = writer[d].engine
                        /\ writer'[d].pc \in {"begun", "put", "sent"}
                             => writer[d].pc \in {"begun", "put", "sent"}
                        /\ writer[d].pc \in {"put", "sent", "over"}
                             => writer'[d].pc \in {"put", "sent", "over"}
                        /\ writer[d].pc = "over" => writer'[d].pc = "over"
                        /\ writer'[d].pc = "put" => writer[d].pc = "put"
    OBVIOUS
  <2>2. CASE d = c
    BY <1>2, <1>4, <1>7, <2>2 DEF e
  <2>3. CASE d # c
    BY <1>7, <2>3
  <2> QED BY <2>2, <2>3
<1>9. /\ \A o \in Engines \ {e} : said'[o] = said[o]
      /\ \A m \in ToSet(said'[e]) : m \in ToSet(said[e]) \/ m.by = c
  BY <1>1, <1>3, <1>5, <1>6
<1>10. EnginesKnown'
  BY <1>2, <1>8 DEF WordsInv, EnginesKnown, Known
<1>11. EnginesApart'
  <2>1. SUFFICES ASSUME NEW p \in Portals, NEW o \in Engines, Belongs(o, p)
                 PROVE  /\ \A d \in Writers : writer'[d].engine = o => In[d] = p
                        /\ \A m \in ToSet(said'[o]) : In[m.by] = p
    BY <1>2 DEF WordsInv, EnginesApart, Belongs
  <2>2. /\ \A d \in Writers : writer[d].engine = o => In[d] = p
        /\ \A m \in ToSet(said[o]) : In[m.by] = p
    BY <2>1 DEF WordsInv, EnginesApart
  <2>3. ASSUME NEW m \in ToSet(said'[o]) PROVE In[m.by] = p
    <3>1. CASE m \in ToSet(said[o])
      BY <2>2, <3>1
    <3>2. CASE m \notin ToSet(said[o])
      <4>1. o = e /\ m.by = c
        BY <1>9, <2>3, <3>2
      <4>2. In[c] = p
        BY <2>2, <4>1 DEF e
      <4> QED BY <4>1, <4>2
    <3> QED BY <3>1, <3>2
  <2>4. ASSUME NEW d \in Writers, writer'[d].engine = o PROVE In[d] = p
    <3>1. writer[d].engine = o
      BY <1>8, <2>4
    <3> QED BY <2>2, <3>1
  <2> QED BY <2>3, <2>4
<1>12. RecordsOwn'
  BY <1>2, <1>8 DEF WordsInv, RecordsOwn, OfUser
<1>13. OneOfEach'
  BY <1>2 DEF WordsInv, OneOfEach, OfUser
<1>14. WordsStored'
  <2>1. SUFFICES ASSUME NEW d \in Writers \ Edits, Says(d)' PROVE Says(d)
    BY <1>2 DEF WordsInv, WordsStored, Stored
  <2> DEFINE o == session[In[d]].engine
  <2>2. CASE writer'[d].pc = "put" /\ writer'[d].engine = o
    BY <1>2, <1>8, <2>1, <2>2 DEF Says
  <2>3. CASE o \in opened /\ Prompt(d) \in ToSet(said'[o])
    <3>1. CASE Prompt(d) \in ToSet(said[o])
      BY <1>2, <2>1, <2>3, <3>1 DEF Says
    <3>2. CASE Prompt(d) \notin ToSet(said[o])
      <4>1. o \in Engines
        BY <2>3 DEF WordsInv, TranscriptTypeOK
      <4>2. o = e /\ Prompt(d).by = c
        BY <1>9, <2>3, <3>2, <4>1
      <4>3. d = c
        BY <4>2, PromptIs
      <4> QED BY <1>2, <2>1, <4>2, <4>3 DEF Says, e
    <3> QED BY <3>1, <3>2
  <2> QED BY <1>2, <2>1, <2>2, <2>3 DEF Says
<1>15. EditsSkip'
  <2>1. SUFFICES ASSUME NEW d \in Edits PROVE writer'[d].pc \notin {"checking", "begun"}
    BY DEF EditsSkip
  <2>2. CASE d = c
    BY <1>4, <1>7, <2>2
  <2>3. CASE d # c
    BY <1>7, <2>3, TranscriptAssumption DEF WordsInv, EditsSkip
  <2> QED BY <2>2, <2>3
<1> QED BY <1>10, <1>11, <1>12, <1>13, <1>14, <1>15 DEF WordsInv

-----------------------------------------------------------------------------
\* One of OpenCode's sessions is opened for one of the portal's.
LEMMA SessionOpens ==
  ASSUME WordsInv, TranscriptTypeOK', NEW p \in Portals, NEW o \in Engines, NEW messages,
         Opens(o, messages), UNCHANGED <<records, kept, lost, mistaken>>,
         session'[p].engine = o, session'[p].leaving = session[p].leaving,
         \A q \in Portals \ {p} : session'[q] = session[q],
         \A m \in ToSet(messages) :
            /\ session[p].engine \in opened /\ ~session[p].deleted
            /\ m \in ToSet(said[session[p].engine]),
         \A d \in Writers :
            \/ writer'[d] = writer[d]
            \/ /\ In[d] = p /\ writer'[d].engine = o
               /\ writer'[d].pc = IF d \in Edits THEN "put" ELSE "begun"
               /\ writer[d].pc \in {"idle", "checking"}
  PROVE  WordsInv'
<1>1. /\ o \notin Known /\ Known' = Known \cup {o} /\ opened' = opened \cup {o}
      /\ UNCHANGED gone
      /\ said \in [Engines -> Seq(SessionMessage)] /\ said' = [said EXCEPT ![o] = messages]
  BY DEF Opens, Known, WordsInv, TranscriptTypeOK
<1>2. said'[o] = messages /\ \A i \in Engines \ {o} : said'[i] = said[i]
  BY <1>1
<1>3. o # NoEngine /\ NoEngine \notin Known
  BY KnownEngines, TranscriptAssumption DEF WordsInv
<1>4. EditsSkip'
  <2>1. SUFFICES ASSUME NEW d \in Edits PROVE writer'[d].pc \notin {"checking", "begun"}
    BY DEF EditsSkip
  <2>2. d \in Writers
    BY TranscriptAssumption
  <2>3. CASE writer'[d] = writer[d]
    BY <2>3 DEF WordsInv, EditsSkip
  <2>4. CASE writer'[d].pc = "put"
    BY <2>4
  <2> QED BY <2>2, <2>3, <2>4
<1>5. EnginesKnown'
  <2>1. gone' \subseteq Engines /\ \A r \in records' \cup kept' : r.engine \in Known'
    BY <1>1 DEF WordsInv, EnginesKnown
  <2>2. ASSUME NEW q \in Portals
        PROVE  {session'[q].engine, session'[q].leaving} \subseteq Known' \cup {NoEngine}
    <3>1. {session[q].engine, session[q].leaving} \subseteq Known \cup {NoEngine}
      BY DEF WordsInv, EnginesKnown
    <3>2. CASE q = p
      BY <1>1, <3>1, <3>2
    <3>3. CASE q # p
      BY <1>1, <3>1, <3>3
    <3> QED BY <3>2, <3>3
  <2>3. ASSUME NEW d \in Writers
        PROVE  /\ writer'[d].engine \in Known' \cup {NoEngine}
               /\ writer'[d].pc \in {"begun", "put", "sent"} => writer'[d].engine # NoEngine
    <3>1. CASE writer'[d] = writer[d]
      BY <1>1, <3>1 DEF WordsInv, EnginesKnown
    <3>2. CASE writer'[d].engine = o
      BY <1>1, <1>3, <3>2
    <3> QED BY <3>1, <3>2
  <2> QED BY <2>1, <2>2, <2>3 DEF EnginesKnown
\* Nothing was of the new one before.
<1>6. /\ \A q \in Portals : ~Belongs(o, q)
      /\ \A d \in Writers : writer[d].engine # o
      /\ \A r \in records \cup kept : r.engine # o
  BY <1>1, <1>3 DEF WordsInv, EnginesKnown, Belongs
<1>7. EnginesApart'
  <2>1. SUFFICES ASSUME NEW q \in Portals, NEW i \in Engines, Belongs(i, q)'
                 PROVE  /\ \A q2 \in Portals : Belongs(i, q2)' => q = q2
                        /\ \A d \in Writers : writer'[d].engine = i => In[d] = q
                        /\ \A r \in records \cup kept : r.engine = i => r.portal = q
                        /\ \A m \in ToSet(said'[i]) : In[m.by] = q
    BY DEF EnginesApart
  <2>2. ASSUME NEW q2 \in Portals, NEW i2 \in Engines, Belongs(i2, q2)'
        PROVE  Belongs(i2, q2) \/ (i2 = o /\ q2 = p)
    <3>1. CASE q2 = p
      BY <2>2, <3>1 DEF Belongs
    <3>2. CASE q2 # p
      BY <2>2, <3>2 DEF Belongs
    <3> QED BY <3>1, <3>2
  <2>3. CASE i # o
    <3>1. Belongs(i, q)
      BY <2>1, <2>2, <2>3
    <3>2. \A q2 \in Portals : Belongs(i, q2)' => q = q2
      <4>1. SUFFICES ASSUME NEW q2 \in Portals, Belongs(i, q2)' PROVE q = q2
        OBVIOUS
      <4>2. Belongs(i, q2)
        BY <2>2, <2>3, <4>1
      <4> QED BY <3>1, <4>2 DEF WordsInv, EnginesApart
    <3>3. \A d \in Writers : writer'[d].engine = i => In[d] = q
      <4>1. SUFFICES ASSUME NEW d \in Writers, writer'[d].engine = i PROVE In[d] = q
        OBVIOUS
      <4>2. writer[d].engine = i
        BY <2>3, <4>1
      <4> QED BY <3>1, <4>2 DEF WordsInv, EnginesApart
    <3> QED BY <1>2, <2>3, <3>1, <3>2, <3>3 DEF WordsInv, EnginesApart
  <2>4. CASE i = o
    <3>1. q = p /\ \A q2 \in Portals : Belongs(i, q2)' => q2 = p
      BY <1>6, <2>1, <2>2, <2>4
    <3>2. \A d \in Writers : writer'[d].engine = i => In[d] = p
      BY <1>6, <2>4
    <3>3. ASSUME NEW m \in ToSet(messages) PROVE In[m.by] = p
      <4>1. /\ session[p].engine \in opened
            /\ m \in ToSet(said[session[p].engine])
        BY <3>3
      <4>2. session[p].engine \in Engines /\ Belongs(session[p].engine, p)
        BY <4>1 DEF WordsInv, TranscriptTypeOK, Belongs
      <4> QED BY <4>1, <4>2 DEF WordsInv, EnginesApart
    <3> QED BY <1>2, <1>6, <2>4, <3>1, <3>2, <3>3
  <2> QED BY <2>3, <2>4
<1>8. \A d \in Writers : writer[d].pc \in {"put", "sent", "over"} => writer'[d] = writer[d]
  <2>1. SUFFICES ASSUME NEW d \in Writers, writer[d].pc \in {"put", "sent", "over"}
                 PROVE  writer'[d] = writer[d]
    OBVIOUS
  <2> QED BY <2>1
<1>9. RecordsOwn'
  BY <1>8 DEF WordsInv, RecordsOwn, OfUser
<1>10. OneOfEach'
  BY DEF WordsInv, OneOfEach, OfUser
<1>11. WordsStored'
  <2>1. SUFFICES ASSUME NEW d \in Writers \ Edits, Says(d)' PROVE Says(d)
    BY DEF WordsInv, WordsStored, Stored
  <2>2. In[d] \in Portals
    BY TranscriptAssumption
  <2>3. writer'[d].pc = "put" => writer'[d] = writer[d]
    <3>1. SUFFICES ASSUME writer'[d] # writer[d] PROVE writer'[d].pc # "put"
      OBVIOUS
    <3>2. writer'[d].pc = "begun"
      BY <2>1, <3>1
    <3> QED BY <3>2
  <2>4. CASE In[d] = p
    <3>1. session'[In[d]].engine = o
      BY <2>4
    <3>2. ~(writer'[d].pc = "put" /\ writer'[d].engine = o)
      BY <1>6, <2>3
    <3>3. Prompt(d) \in ToSet(messages)
      BY <1>2, <2>1, <3>1, <3>2 DEF Says
    <3> QED BY <2>4, <3>3 DEF Says
  <2>5. CASE In[d] # p
    <3>1. session'[In[d]] = session[In[d]]
      BY <2>2, <2>5
    <3>2. session[In[d]].engine # o
      BY <1>6, <2>2 DEF Belongs
    <3>3. CASE writer'[d].pc = "put" /\ writer'[d].engine = session[In[d]].engine
      BY <2>1, <2>3, <3>1, <3>3 DEF Says
    <3>4. CASE session[In[d]].engine \in opened' /\ Prompt(d) \in ToSet(said'[session[In[d]].engine])
      <4>1. session[In[d]].engine \in opened
        BY <1>1, <3>2, <3>4
      <4>2. session[In[d]].engine \in Engines
        BY <4>1 DEF WordsInv, TranscriptTypeOK
      <4>3. said'[session[In[d]].engine] = said[session[In[d]].engine]
        BY <1>2, <3>2, <4>2
      <4> QED BY <2>1, <3>1, <3>4, <4>1, <4>3 DEF Says
    <3> QED BY <2>1, <3>1, <3>3, <3>4 DEF Says
  <2> QED BY <2>4, <2>5
<1> QED BY <1>4, <1>5, <1>7, <1>9, <1>10, <1>11 DEF WordsInv

LEMMA MakesSessionKeepsWords ==
  ASSUME WordsInv, TranscriptTypeOK', NEW c \in Writers, MakesSession(c)
  PROVE  WordsInv'
<1>1. PICK o \in Engines :
        /\ Opens(o, <<>>)
        /\ session' = [session EXCEPT ![In[c]].engine = o, ![In[c]].deleted = FALSE]
        /\ writer' = [writer EXCEPT ![c].pc = "begun", ![c].engine = o]
  BY DEF MakesSession
<1> DEFINE p == In[c]
           s == [session[p] EXCEPT !.engine = o, !.deleted = FALSE]
           w == [writer[c] EXCEPT !.pc = "begun", !.engine = o]
<1>2. /\ writer[c].pc = "checking" /\ UNCHANGED <<records, kept, lost, mistaken>>
  BY DEF MakesSession
<1>3. /\ p \in Portals
      /\ writer \in [Writers -> Writer] /\ writer[c] \in Writer
      /\ session \in [Portals -> Session] /\ session[p] \in Session
  BY TranscriptAssumption DEF WordsInv, TranscriptTypeOK
<1>4. session' = [session EXCEPT ![p] = s] /\ writer' = [writer EXCEPT ![c] = w]
  BY <1>1, <1>3
<1>5. s.engine = o /\ s.leaving = session[p].leaving /\ w.pc = "begun" /\ w.engine = o
  BY <1>3 DEF Session, Writer
<1>6. c \notin Edits
  BY <1>2 DEF WordsInv, EditsSkip
<1>7. ToSet(<<>>) = {}
  BY DEF ToSet
<1> HIDE DEF s, w
<1>8. /\ session'[p] = s /\ \A q \in Portals \ {p} : session'[q] = session[q]
      /\ writer'[c] = w /\ \A d \in Writers \ {c} : writer'[d] = writer[d]
  BY <1>3, <1>4
<1>9. \A d \in Writers :
        \/ writer'[d] = writer[d]
        \/ /\ In[d] = p /\ writer'[d].engine = o
           /\ writer'[d].pc = IF d \in Edits THEN "put" ELSE "begun"
           /\ writer[d].pc \in {"idle", "checking"}
  <2>1. SUFFICES ASSUME NEW d \in Writers, writer'[d] # writer[d]
                 PROVE  /\ In[d] = p /\ writer'[d].engine = o
                        /\ writer'[d].pc = IF d \in Edits THEN "put" ELSE "begun"
                        /\ writer[d].pc \in {"idle", "checking"}
    OBVIOUS
  <2>2. d = c
    BY <1>8, <2>1
  <2> QED BY <1>2, <1>5, <1>6, <1>8, <2>2
<1> HIDE DEF p
<1> QED BY <1>1, <1>2, <1>3, <1>5, <1>7, <1>8, <1>9, SessionOpens

\* A fork has the first messages of the session it is made of.
LEMMA ForksWords ==
  ASSUME WordsInv, NEW p \in Portals, NEW o \in Engines, Forks(p, o)
  PROVE  /\ \E messages :
              /\ Opens(o, messages)
              /\ \A m \in ToSet(messages) :
                    /\ session[p].engine \in opened /\ ~session[p].deleted
                    /\ m \in ToSet(said[session[p].engine])
         /\ session'[p].engine = o /\ session'[p].leaving = session[p].leaving
         /\ \A q \in Portals \ {p} : session'[q] = session[q]
<1> DEFINE e == session[p].engine
           s == [session[p] EXCEPT !.engine = o]
<1>1. /\ ~session[p].deleted /\ e \in opened
      /\ session' = [session EXCEPT ![p].engine = o]
  BY DEF Forks
<1>2. PICK n \in 0 .. Len(said[e]) - 1 : Opens(o, SubSeq(said[e], 1, n))
  BY DEF Forks
<1>3. /\ session \in [Portals -> Session] /\ session[p] \in Session
      /\ said[e] \in Seq(SessionMessage)
  BY <1>1 DEF WordsInv, TranscriptTypeOK
<1>4. ToSet(SubSeq(said[e], 1, n)) \subseteq ToSet(said[e])
  BY <1>3, PrefixSet
<1>5. /\ session' = [session EXCEPT ![p] = s]
      /\ s.engine = o /\ s.leaving = session[p].leaving
  BY <1>1, <1>3 DEF Session
<1> HIDE DEF s
<1>6. session'[p] = s /\ \A q \in Portals \ {p} : session'[q] = session[q]
  BY <1>3, <1>5
<1> QED BY <1>1, <1>2, <1>4, <1>5, <1>6

LEMMA EditMovesKeepsWords ==
  ASSUME WordsInv, TranscriptTypeOK', NEW c \in Writers, EditMoves(c)
  PROVE  WordsInv'
<1>1. PICK o \in Engines :
        /\ Forks(In[c], o)
        /\ writer' = [writer EXCEPT ![c] = [Resting EXCEPT !.pc = "put", !.engine = o,
                                                           !.before = ToSet(said'[o])]]
  BY DEF EditMoves
<1> DEFINE w == [Resting EXCEPT !.pc = "put", !.engine = o, !.before = ToSet(said'[o])]
<1>2. /\ writer[c].pc = "idle" /\ c \in Edits /\ UNCHANGED <<records, kept, lost, mistaken>>
  BY DEF EditMoves
<1>3. In[c] \in Portals /\ writer \in [Writers -> Writer]
  BY TranscriptAssumption DEF WordsInv, TranscriptTypeOK
<1>4. writer' = [writer EXCEPT ![c] = w] /\ w.pc = "put" /\ w.engine = o
  BY <1>1 DEF Resting
<1> HIDE DEF w
<1>5. writer'[c] = w /\ \A d \in Writers \ {c} : writer'[d] = writer[d]
  BY <1>3, <1>4
<1>6. \A d \in Writers :
        \/ writer'[d] = writer[d]
        \/ /\ In[d] = In[c] /\ writer'[d].engine = o
           /\ writer'[d].pc = IF d \in Edits THEN "put" ELSE "begun"
           /\ writer[d].pc \in {"idle", "checking"}
  <2>1. SUFFICES ASSUME NEW d \in Writers, writer'[d] # writer[d]
                 PROVE  /\ In[d] = In[c] /\ writer'[d].engine = o
                        /\ writer'[d].pc = IF d \in Edits THEN "put" ELSE "begun"
                        /\ writer[d].pc \in {"idle", "checking"}
    OBVIOUS
  <2>2. d = c
    BY <1>5, <2>1
  <2> QED BY <1>2, <1>4, <1>5, <2>2
<1> QED BY <1>1, <1>2, <1>3, <1>6, ForksWords, SessionOpens

LEMMA DeletesFromHereKeepsWords ==
  ASSUME WordsInv, TranscriptTypeOK', NEW p \in Portals, DeletesFromHere(p)
  PROVE  WordsInv'
<1>1. PICK o \in Engines : Forks(p, o)
  BY DEF DeletesFromHere
<1>2. UNCHANGED <<records, kept, lost, mistaken>> /\ \A d \in Writers : writer'[d] = writer[d]
  BY DEF DeletesFromHere
<1> QED BY <1>1, <1>2, ForksWords, SessionOpens

-----------------------------------------------------------------------------
LEMMA DeleteBeginsKeepsWords ==
  ASSUME WordsInv, TranscriptTypeOK', NEW p \in Portals, DeleteBegins(p)
  PROVE  WordsInv'
<1> DEFINE e == session[p].engine
           s == [session[p] EXCEPT !.leaving = e]
<1>1. /\ session[p].leaving = NoEngine /\ e # NoEngine /\ ~session[p].deleted
      /\ session' = [session EXCEPT ![p].leaving = e]
      /\ opened' = opened \ {e} /\ gone' = gone \cup {e}
      /\ said' = [said EXCEPT ![e] = <<>>]
      /\ UNCHANGED <<writer, records, kept, lost, mistaken>>
  BY DEF DeleteBegins
<1>2. /\ session \in [Portals -> Session] /\ session[p] \in Session
      /\ e \in Engines /\ e \in Known
      /\ said \in [Engines -> Seq(SessionMessage)]
  BY <1>1 DEF WordsInv, TranscriptTypeOK, EnginesKnown, Session
<1>3. /\ session' = [session EXCEPT ![p] = s]
      /\ s.engine = e /\ s.leaving = e /\ s.deleted = session[p].deleted
  BY <1>1, <1>2 DEF Session
<1> HIDE DEF s
<1>4. session'[p] = s /\ \A q \in Portals \ {p} : session'[q] = session[q]
  BY <1>2, <1>3
<1>5. Known' = Known
  BY <1>1, <1>2 DEF Known
<1>6. said'[e] = <<>> /\ \A o \in Engines \ {e} : said'[o] = said[o]
  BY <1>1, <1>2
<1>7. \A q \in Portals :
        /\ session'[q].engine = session[q].engine
        /\ session'[q].deleted = session[q].deleted
  <2>1. SUFFICES ASSUME NEW q \in Portals
                 PROVE  /\ session'[q].engine = session[q].engine
                        /\ session'[q].deleted = session[q].deleted
    OBVIOUS
  <2>2. CASE q = p
    BY <1>3, <1>4, <2>2
  <2>3. CASE q # p
    BY <1>4, <2>3
  <2> QED BY <2>2, <2>3
<1>8. ASSUME NEW q \in Portals, NEW o \in Engines, Belongs(o, q)' PROVE Belongs(o, q)
  <2>1. CASE q = p
    BY <1>3, <1>4, <1>8, <2>1 DEF Belongs
  <2>2. CASE q # p
    BY <1>4, <1>8, <2>2 DEF Belongs
  <2> QED BY <2>1, <2>2
<1>9. ToSet(<<>>) = {}
  BY DEF ToSet
<1>10. EditsSkip'
  BY <1>1 DEF WordsInv, EditsSkip
<1>11. EnginesKnown'
  <2>1. gone' \subseteq Engines /\ \A r \in records' \cup kept' : r.engine \in Known'
    BY <1>1, <1>2, <1>5 DEF WordsInv, EnginesKnown
  <2>2. ASSUME NEW q \in Portals
        PROVE  {session'[q].engine, session'[q].leaving} \subseteq Known' \cup {NoEngine}
    <3>1. CASE q = p
      BY <1>2, <1>3, <1>4, <1>5, <3>1
    <3>2. CASE q # p
      <4>1. session'[q] = session[q]
        BY <1>4, <3>2
      <4> QED BY <1>5, <4>1 DEF WordsInv, EnginesKnown
    <3> QED BY <3>1, <3>2
  <2>3. \A c \in Writers : /\ writer'[c].engine \in Known' \cup {NoEngine}
                           /\ writer'[c].pc \in {"begun", "put", "sent"} => writer'[c].engine # NoEngine
    BY <1>1, <1>5 DEF WordsInv, EnginesKnown
  <2> QED BY <2>1, <2>2, <2>3 DEF EnginesKnown
<1>12. EnginesApart'
  <2>1. SUFFICES ASSUME NEW q \in Portals, NEW o \in Engines, Belongs(o, q)'
                 PROVE  /\ \A q2 \in Portals : Belongs(o, q2)' => q = q2
                        /\ \A c \in Writers : writer[c].engine = o => In[c] = q
                        /\ \A r \in records \cup kept : r.engine = o => r.portal = q
                        /\ \A m \in ToSet(said'[o]) : In[m.by] = q
    BY <1>1 DEF EnginesApart
  <2>2. Belongs(o, q)
    BY <1>8, <2>1
  <2>3. /\ \A q2 \in Portals : Belongs(o, q2) => q = q2
        /\ \A c \in Writers : writer[c].engine = o => In[c] = q
        /\ \A r \in records \cup kept : r.engine = o => r.portal = q
        /\ \A m \in ToSet(said[o]) : In[m.by] = q
    BY <2>2 DEF WordsInv, EnginesApart
  <2>4. \A q2 \in Portals : Belongs(o, q2)' => q = q2
    BY <1>8, <2>3
  <2>5. \A m \in ToSet(said'[o]) : In[m.by] = q
    <3>1. CASE o = e
      BY <1>6, <1>9, <3>1
    <3>2. CASE o # e
      BY <1>6, <2>3, <3>2
    <3> QED BY <3>1, <3>2
  <2> QED BY <2>3, <2>4, <2>5
<1>13. RecordsOwn' /\ OneOfEach'
  BY <1>1 DEF WordsInv, RecordsOwn, OneOfEach, OfUser
<1>14. WordsStored'
  <2>1. SUFFICES ASSUME NEW c \in Writers \ Edits, Says(c)' PROVE Says(c)
    BY <1>1 DEF WordsInv, WordsStored, Stored
  <2> DEFINE o == session[In[c]].engine
  <2>2. In[c] \in Portals
    BY TranscriptAssumption
  <2>3. session'[In[c]].engine = o /\ session'[In[c]].deleted = session[In[c]].deleted
    BY <1>7, <2>2
  <2>4. CASE o \in opened' /\ Prompt(c) \in ToSet(said'[o])
    <3>1. o \in opened /\ o # e
      BY <1>1, <2>4
    <3>2. said'[o] = said[o]
      BY <1>6, <3>1 DEF WordsInv, TranscriptTypeOK
    <3> QED BY <2>1, <2>3, <2>4, <3>1, <3>2 DEF Says
  <2>5. CASE writer[c].pc = "put" /\ writer[c].engine = o
    BY <2>1, <2>3, <2>5 DEF Says
  <2> QED BY <1>1, <2>1, <2>3, <2>4, <2>5 DEF Says
<1> QED BY <1>10, <1>11, <1>12, <1>13, <1>14 DEF WordsInv

LEMMA DeleteEndsKeepsWords ==
  ASSUME WordsInv, TranscriptTypeOK', NEW p \in Portals, DeleteEnds(p)
  PROVE  WordsInv'
<1> DEFINE l == session[p].leaving
           s == [session[p] EXCEPT !.deleted = TRUE, !.leaving = NoEngine]
<1>1. /\ l # NoEngine
      /\ session' = [session EXCEPT ![p].deleted = TRUE, ![p].leaving = NoEngine]
      /\ Saved(Without(p, l))
      /\ UNCHANGED <<opened, gone, said, writer, lost, mistaken>>
  BY DEF DeleteEnds
<1>2. /\ session \in [Portals -> Session] /\ session[p] \in Session /\ l \in Engines
  BY <1>1 DEF WordsInv, TranscriptTypeOK, Session
<1>3. /\ session' = [session EXCEPT ![p] = s]
      /\ s.engine = session[p].engine /\ s.leaving = NoEngine /\ s.deleted
  BY <1>1, <1>2 DEF Session
<1> HIDE DEF s
<1>4. session'[p] = s /\ \A q \in Portals \ {p} : session'[q] = session[q]
  BY <1>2, <1>3
<1>5. records' = Without(p, l) /\ kept' \in {kept, records'}
  BY <1>1, SavedDoes
<1>6. records' \subseteq records /\ records' \cup kept' \subseteq records \cup kept
  BY <1>5 DEF Without
<1>7. \A q \in Portals : /\ session'[q].engine = session[q].engine
                         /\ session'[q].leaving \in {session[q].leaving, NoEngine}
                         /\ session[q].deleted => session'[q].deleted
                         /\ ~session'[q].deleted => q # p
  <2>1. SUFFICES ASSUME NEW q \in Portals
                 PROVE  /\ session'[q].engine = session[q].engine
                        /\ session'[q].leaving \in {session[q].leaving, NoEngine}
                        /\ session[q].deleted => session'[q].deleted
                        /\ ~session'[q].deleted => q # p
    OBVIOUS
  <2>2. CASE q = p
    BY <1>3, <1>4, <2>2
  <2>3. CASE q # p
    BY <1>4, <2>3
  <2> QED BY <2>2, <2>3
<1>8. ASSUME NEW q \in Portals, NEW o \in Engines, Belongs(o, q)' PROVE Belongs(o, q)
  BY <1>7, <1>8, TranscriptAssumption DEF Belongs
<1>9. Known' = Known
  BY <1>1 DEF Known
<1>10. EditsSkip'
  BY <1>1 DEF WordsInv, EditsSkip
<1>11. EnginesKnown'
  <2>1. gone' \subseteq Engines /\ \A r \in records' \cup kept' : r.engine \in Known'
    BY <1>1, <1>6, <1>9 DEF WordsInv, EnginesKnown
  <2>2. ASSUME NEW q \in Portals
        PROVE  {session'[q].engine, session'[q].leaving} \subseteq Known' \cup {NoEngine}
    BY <1>7, <1>9 DEF WordsInv, EnginesKnown
  <2>3. \A c \in Writers : /\ writer'[c].engine \in Known' \cup {NoEngine}
                           /\ writer'[c].pc \in {"begun", "put", "sent"} => writer'[c].engine # NoEngine
    BY <1>1, <1>9 DEF WordsInv, EnginesKnown
  <2> QED BY <2>1, <2>2, <2>3 DEF EnginesKnown
<1>12. EnginesApart'
  <2>1. SUFFICES ASSUME NEW q \in Portals, NEW o \in Engines, Belongs(o, q)'
                 PROVE  /\ \A q2 \in Portals : Belongs(o, q2)' => q = q2
                        /\ \A c \in Writers : writer[c].engine = o => In[c] = q
                        /\ \A r \in records \cup kept : r.engine = o => r.portal = q
                        /\ \A m \in ToSet(said[o]) : In[m.by] = q
    BY <1>1, <1>6 DEF EnginesApart
  <2>2. Belongs(o, q)
    BY <1>8, <2>1
  <2>3. \A q2 \in Portals : Belongs(o, q2)' => q = q2
    BY <1>8, <2>2 DEF WordsInv, EnginesApart
  <2> QED BY <2>2, <2>3 DEF WordsInv, EnginesApart
<1>13. RecordsOwn'
  BY <1>1, <1>6 DEF WordsInv, RecordsOwn, OfUser
<1>14. OneOfEach'
  BY <1>1, <1>6 DEF WordsInv, OneOfEach, OfUser
\* The words of the other sessions stay.
<1>15. WordsStored'
  <2>1. SUFFICES ASSUME NEW c \in Writers \ Edits, Says(c)' PROVE Stored(c)'
    BY DEF WordsStored
  <2>2. In[c] \in Portals
    BY TranscriptAssumption
  <2>3. Says(c) /\ In[c] # p
    BY <1>1, <1>7, <2>1, <2>2 DEF Says
  <2>4. CASE Prompt(c) \in lost \cup mistaken
    BY <1>1, <2>4 DEF Stored
  <2>5. CASE Prompt(c) \notin lost \cup mistaken
    <3>1. PICK r \in records : r.message = Prompt(c)
      BY <2>3, <2>5 DEF WordsInv, WordsStored, Stored
    <3>2. OfUser(r)
      BY <2>5, <3>1, PromptIs DEF OfUser
    <3>3. r.portal = In[c]
      BY <3>1, <3>2, PromptIs DEF WordsInv, RecordsOwn
    <3>4. r.engine = l => r.portal = p
      BY <1>2, <3>1 DEF WordsInv, EnginesApart, Belongs
    <3>5. r \in records'
      BY <1>5, <2>3, <3>1, <3>3, <3>4 DEF Without
    <3> QED BY <3>1, <3>5 DEF Stored
  <2> QED BY <2>4, <2>5
<1> QED BY <1>10, <1>11, <1>12, <1>13, <1>14, <1>15 DEF WordsInv

LEMMA RestartKeepsWords ==
  ASSUME WordsInv, TranscriptTypeOK', TranscriptRestart
  PROVE  WordsInv'
<1>1. /\ kept' \in {{}, kept} /\ records' = kept'
      /\ lost' = lost \cup {r.message : r \in records \ records'}
      /\ session' = [p \in Portals |-> [session[p] EXCEPT !.leaving = NoEngine]]
      /\ writer' = [c \in Writers |-> IF writer[c].pc = "idle" THEN Resting
                                      ELSE [Resting EXCEPT !.pc = "over"]]
      /\ UNCHANGED <<opened, gone, said, mistaken>>
  BY DEF TranscriptRestart
<1>2. /\ Resting.pc = "idle" /\ Resting.engine = NoEngine
      /\ [Resting EXCEPT !.pc = "over"].pc = "over"
      /\ [Resting EXCEPT !.pc = "over"].engine = NoEngine
  BY DEF Resting
<1>3. \A c \in Writers : /\ writer'[c].engine = NoEngine
                         /\ writer'[c].pc = IF writer[c].pc = "idle" THEN "idle" ELSE "over"
  <2>1. SUFFICES ASSUME NEW c \in Writers
                 PROVE  /\ writer'[c].engine = NoEngine
                        /\ writer'[c].pc = IF writer[c].pc = "idle" THEN "idle" ELSE "over"
    OBVIOUS
  <2>2. CASE writer[c].pc = "idle"
    BY <1>1, <1>2, <2>2
  <2>3. CASE writer[c].pc # "idle"
    BY <1>1, <1>2, <2>3
  <2> QED BY <2>2, <2>3
<1>4. \A q \in Portals : /\ session'[q].engine = session[q].engine
                         /\ session'[q].leaving = NoEngine
                         /\ session'[q].deleted = session[q].deleted
  BY <1>1 DEF WordsInv, TranscriptTypeOK, Session
<1>5. records' \cup kept' \subseteq records \cup kept
  BY <1>1
<1>6. Known' = Known
  BY <1>1 DEF Known
<1>7. ASSUME NEW q \in Portals, NEW o \in Engines, Belongs(o, q)' PROVE Belongs(o, q)
  BY <1>4, <1>7, TranscriptAssumption DEF Belongs
<1>8. EditsSkip'
  BY <1>3, TranscriptAssumption DEF EditsSkip
<1>9. EnginesKnown'
  <2>1. gone' \subseteq Engines /\ \A r \in records' \cup kept' : r.engine \in Known'
    BY <1>1, <1>5, <1>6 DEF WordsInv, EnginesKnown
  <2>2. ASSUME NEW q \in Portals
        PROVE  {session'[q].engine, session'[q].leaving} \subseteq Known' \cup {NoEngine}
    BY <1>4, <1>6 DEF WordsInv, EnginesKnown
  <2>3. \A c \in Writers : /\ writer'[c].engine \in Known' \cup {NoEngine}
                           /\ writer'[c].pc \in {"begun", "put", "sent"} => writer'[c].engine # NoEngine
    BY <1>3
  <2> QED BY <2>1, <2>2, <2>3 DEF EnginesKnown
<1>10. EnginesApart'
  <2>1. SUFFICES ASSUME NEW q \in Portals, NEW o \in Engines, Belongs(o, q)'
                 PROVE  /\ \A q2 \in Portals : Belongs(o, q2)' => q = q2
                        /\ \A c \in Writers : writer'[c].engine = o => In[c] = q
                        /\ \A r \in records \cup kept : r.engine = o => r.portal = q
                        /\ \A m \in ToSet(said[o]) : In[m.by] = q
    BY <1>1, <1>5 DEF EnginesApart
  <2>2. Belongs(o, q)
    BY <1>7, <2>1
  <2>3. \A q2 \in Portals : Belongs(o, q2)' => q = q2
    BY <1>7, <2>2 DEF WordsInv, EnginesApart
  <2>4. \A c \in Writers : writer'[c].engine # o
    BY <1>3, TranscriptAssumption
  <2> QED BY <2>2, <2>3, <2>4 DEF WordsInv, EnginesApart
<1>11. RecordsOwn'
  <2>1. \A c \in Writers : writer[c].pc # "idle" => writer'[c].pc = "over"
    BY <1>3
  <2>2. SUFFICES ASSUME NEW r \in records' \cup kept', OfUser(r)'
                 PROVE  LET c == r.message.by
                        IN  /\ c \in Writers /\ r.message = Prompt(c)
                            /\ r.text = c /\ r.portal = In[c]
                            /\ writer'[c].pc \in IF c \in Edits THEN {"over"} ELSE {"put", "sent", "over"}
    BY DEF RecordsOwn
  <2> DEFINE c == r.message.by
  <2>3. r \in records \cup kept /\ OfUser(r)
    BY <1>1, <1>5, <2>2 DEF OfUser
  <2>4. /\ c \in Writers /\ r.message = Prompt(c)
        /\ r.text = c /\ r.portal = In[c]
        /\ writer[c].pc \in IF c \in Edits THEN {"over"} ELSE {"put", "sent", "over"}
    BY <2>3 DEF WordsInv, RecordsOwn
  <2>5. writer'[c].pc = "over"
    BY <2>1, <2>4
  <2> QED BY <2>4, <2>5
<1>12. OneOfEach'
  BY <1>1, <1>5 DEF WordsInv, OneOfEach, OfUser
<1>13. WordsStored'
  <2>1. SUFFICES ASSUME NEW c \in Writers \ Edits, Says(c)' PROVE Stored(c)'
    BY DEF WordsStored
  <2>2. In[c] \in Portals /\ writer'[c].pc # "put"
    BY <1>3, TranscriptAssumption
  <2>3. Says(c)
    BY <1>1, <1>4, <2>1, <2>2 DEF Says
  <2>4. CASE Prompt(c) \in lost \cup mistaken
    BY <1>1, <2>4 DEF Stored
  <2>5. CASE Prompt(c) \notin lost \cup mistaken
    <3>1. PICK r \in records : r.message = Prompt(c)
      BY <2>3, <2>5 DEF WordsInv, WordsStored, Stored
    <3>2. CASE r \in records'
      BY <3>1, <3>2 DEF Stored
    <3>3. CASE r \notin records'
      BY <1>1, <3>1, <3>3 DEF Stored
    <3> QED BY <3>2, <3>3
  <2> QED BY <2>4, <2>5
<1> QED BY <1>8, <1>9, <1>10, <1>11, <1>12, <1>13 DEF WordsInv

-----------------------------------------------------------------------------
LEMMA WordsBegin == TranscriptInit => WordsInv
<1> SUFFICES ASSUME TranscriptInit PROVE WordsInv
  OBVIOUS
<1>1. TranscriptTypeOK
  BY TranscriptBegins DEF TranscriptInv
<1>2. /\ session = [p \in Portals |->
                      [engine |-> NoEngine, deleted |-> FALSE, leaving |-> NoEngine]]
      /\ opened = {} /\ gone = {} /\ records = {} /\ kept = {}
      /\ writer = [c \in Writers |-> Resting]
  BY DEF TranscriptInit
<1>3. Resting.pc = "idle" /\ Resting.engine = NoEngine
  BY DEF Resting
<1>4. \A c \in Writers : writer[c].pc = "idle" /\ writer[c].engine = NoEngine
  BY <1>2, <1>3
<1>5. \A p \in Portals : session[p].engine = NoEngine /\ session[p].leaving = NoEngine
  BY <1>2
<1>6. EditsSkip
  BY <1>4, TranscriptAssumption DEF EditsSkip
<1>7. EnginesKnown
  BY <1>2, <1>4, <1>5 DEF EnginesKnown
<1>8. EnginesApart
  BY <1>5, TranscriptAssumption DEF EnginesApart, Belongs
<1>9. RecordsOwn /\ OneOfEach
  BY <1>2 DEF RecordsOwn, OneOfEach
<1>10. WordsStored
  BY <1>2, <1>4 DEF WordsStored, Says
<1> QED BY <1>1, <1>6, <1>7, <1>8, <1>9, <1>10 DEF WordsInv

LEMMA WordsStepKeeps ==
  WordsInv /\ TranscriptTypeOK' /\ [TranscriptNext]_transcriptVars => WordsInv'
<1> SUFFICES ASSUME WordsInv, TranscriptTypeOK', [TranscriptNext]_transcriptVars PROVE WordsInv'
  OBVIOUS
<1>1. CASE TranscriptRestart
  BY <1>1, RestartKeepsWords
<1>2. ASSUME NEW p \in Portals, DeletesFromHere(p) \/ DeleteBegins(p) \/ DeleteEnds(p)
      PROVE  WordsInv'
  BY <1>2, DeletesFromHereKeepsWords, DeleteBeginsKeepsWords, DeleteEndsKeepsWords
<1>3. ASSUME NEW c \in Writers,
             \/ LooksUp(c) \/ Resumes(c) \/ MakesSession(c) \/ PutsWords(c) \/ Sends(c)
             \/ Breaks(c) \/ PutsAttribution(c) \/ EditMoves(c) \/ PutsEdited(c)
      PROVE  WordsInv'
  BY <1>3, LooksUpKeepsWords, ResumesKeepsWords, MakesSessionKeepsWords, PutsWordsKeepsWords,
     SendsKeepsWords, BreaksKeepsWords, PutsAttributionKeepsWords, EditMovesKeepsWords,
     PutsEditedKeepsWords
<1>4. CASE UNCHANGED transcriptVars
  <2>1. UNCHANGED <<session, opened, gone, said, writer, records, kept, lost, mistaken>>
    BY <1>4 DEF transcriptVars
  <2>2. EditsSkip' /\ EnginesKnown' /\ EnginesApart' /\ RecordsOwn' /\ OneOfEach'
    BY <2>1 DEF WordsInv, EditsSkip, EnginesKnown, Known, EnginesApart, Belongs, RecordsOwn,
       OneOfEach, OfUser
  <2>3. WordsStored'
    BY <2>1 DEF WordsInv, WordsStored, Says, Stored
  <2> QED BY <2>2, <2>3 DEF WordsInv
<1> QED BY <1>1, <1>2, <1>3, <1>4 DEF TranscriptNext

LEMMA WordsInvHolds == TranscriptSpec => []WordsInv
<1>1. TranscriptInv' => TranscriptTypeOK'
  BY DEF TranscriptInv
<1>2. TranscriptInv /\ WordsInv /\ [TranscriptNext]_transcriptVars => WordsInv'
  BY <1>1, TranscriptStepKeeps, WordsStepKeeps
<1> QED BY <1>2, WordsBegin, TranscriptInvHolds, PTL DEF TranscriptSpec

\* Through edits that move a session in OpenCode, deletions that a chat undoes, failed
\* writes and restarts, a user's message in a transcript is shown with the words of its own
\* user: the store has one record of it, of the portal session it is in.
THEOREM OwnWords == TranscriptSpec => []OwnWordsShown
<1>1. WordsInv => OwnWordsShown
  <2>1. SUFFICES ASSUME WordsInv, NEW p \in Portals,
                        ~session[p].deleted, session[p].engine \in opened,
                        NEW m \in ToSet(said[session[p].engine]),
                        m.role = "user", m \notin lost \cup mistaken
                 PROVE  Shown(p, m) = {m.by}
    BY DEF OwnWordsShown
  <2> DEFINE o == session[p].engine
             c == m.by
             direct == {r \in records : r.engine = o /\ r.message = m}
             moved == {r \in records : r.portal = p /\ r.message = m}
             found == {r \in Found(o, m, p) : m.role = "user"}
  <2>2. /\ o \in Engines /\ said[o] \in Seq(SessionMessage)
    BY <2>1 DEF WordsInv, TranscriptTypeOK
  <2>3. m \in SessionMessage
    BY <2>1, <2>2 DEF ToSet
  <2>4. c \in Writers /\ m = Prompt(c)
    BY <2>1, <2>3 DEF SessionMessage, Prompt
  <2>5. In[c] = p
    BY <2>1, <2>2 DEF WordsInv, EnginesApart, Belongs
  <2>6. \A r \in records : r.message = m => r.text = c /\ r.portal = p
    BY <2>1, <2>5 DEF WordsInv, RecordsOwn, OfUser
  <2>7. \A r, s \in records : r.message = m /\ s.message = m => r = s
    BY <2>1 DEF WordsInv, OneOfEach, OfUser
  <2>8. \A r \in found : r.text = c
    BY <2>6 DEF Found
  <2>9. c \notin Edits => found # {}
    <3>1. SUFFICES ASSUME c \notin Edits PROVE Found(o, m, p) # {}
      BY <2>1
    <3>2. Says(c)
      BY <2>1, <2>4, <2>5 DEF Says
    <3>3. PICK r \in records : r.message = m
      BY <2>1, <2>4, <3>1, <3>2 DEF WordsInv, WordsStored, Stored
    <3>4. moved = {r}
      BY <2>6, <2>7, <3>3
    <3>5. Cardinality(moved) = 1
      BY <3>4, FS_Singleton
    <3> QED BY <3>4, <3>5 DEF Found
  <2>10. Shown(p, m) = IF found # {} THEN {r.text : r \in found}
                       ELSE IF c \in Edits THEN {c} ELSE {}
    BY DEF Shown
  <2>11. CASE found # {}
    <3>1. {r.text : r \in found} = {c}
      BY <2>8, <2>11
    <3> QED BY <2>10, <2>11, <3>1
  <2>12. CASE found = {}
    BY <2>9, <2>10, <2>12
  <2> QED BY <2>11, <2>12
<1> QED BY <1>1, WordsInvHolds, PTL

-----------------------------------------------------------------------------
(* TaskRecords: what is written can be read *)

RecordsTypeOK ==
  /\ disk \in [TaskIds -> Record \cup {NoRecord}]
  /\ limits \in LimitSettings
  /\ fresh \in SUBSET TaskIds

\* What this process wrote is a record of this version that fits.
FreshFits ==
  \A t \in fresh : /\ disk[t] # NoRecord
                   /\ disk[t].sound
                   /\ Size(disk[t]) <= limits.persist

RecordsInv == RecordsTypeOK /\ FreshFits /\ NoneLeftRunning

LimitType == [load : Nat, persist : Nat \ {0}, tail : Nat, list : Nat, scan : Nat]

LEMMA SizeTyped ==
  ASSUME NEW r \in Record
  PROVE  Size(r) \in Nat
BY DEF Record, Size

\* Every form of a record is one, and as sound as it; and of the fields that all have.
LEMMA FormsTyped ==
  ASSUME NEW r \in Record, NEW tail \in Nat
  PROVE  /\ Minimal(r, tail) \in Record /\ Minimal(r, tail).sound = r.sound
         /\ Minimal(r, tail).status = r.status
         /\ UltraMinimal(r) \in Record /\ UltraMinimal(r).sound = r.sound
         /\ UltraMinimal(r).status = r.status
<1>1. Min({r.events, tail}) \in Nat
  <2>1. r.events \in Nat
    BY DEF Record
  <2>2. CASE r.events <= tail
    <3>1. \E x \in {r.events, tail} : \A y \in {r.events, tail} : x =< y
      BY <2>1, <2>2
    <3> QED BY <2>1, <3>1 DEF Min
  <2>3. CASE tail < r.events
    <3>1. \E x \in {r.events, tail} : \A y \in {r.events, tail} : x =< y
      BY <2>1, <2>3
    <3> QED BY <2>1, <3>1 DEF Min
  <2> QED BY <2>1, <2>2, <2>3
<1>2. Minimal(r, tail) = [r EXCEPT !.bulk = 0, !.events = Min({r.events, tail})]
  BY DEF Minimal, Record
<1>3. /\ Minimal(r, tail) \in Record /\ Minimal(r, tail).sound = r.sound
      /\ Minimal(r, tail).status = r.status
  <2> DEFINE m == Min({r.events, tail})
  <2>1. Minimal(r, tail) = [r EXCEPT !.bulk = 0, !.events = m]
    BY <1>2
  <2>2. m \in Nat
    BY <1>1
  <2> HIDE DEF m
  <2>3. [r EXCEPT !.bulk = 0, !.events = m] \in Record
    BY <2>2 DEF Record
  <2>4. /\ [r EXCEPT !.bulk = 0, !.events = m].sound = r.sound
        /\ [r EXCEPT !.bulk = 0, !.events = m].status = r.status
    BY DEF Record
  <2> QED BY <2>1, <2>3, <2>4
<1>4. /\ UltraMinimal(r) \in Record /\ UltraMinimal(r).sound = r.sound
      /\ UltraMinimal(r).status = r.status
  BY DEF Record, UltraMinimal
<1> QED BY <1>3, <1>4

\* What is written of a record, if anything, is one of it that fits; nothing is only
\* when not even the least form does.
LEMMA EncodeFits ==
  ASSUME NEW r \in Record, NEW lim \in LimitType
  PROVE  /\ Encode(r, lim) = NoRecord => Size(UltraMinimal(r)) > lim.persist
         /\ Encode(r, lim) # NoRecord =>
              /\ Encode(r, lim) \in Record
              /\ Encode(r, lim).sound = r.sound
              /\ Encode(r, lim).status = r.status
              /\ Size(Encode(r, lim)) <= lim.persist
<1> DEFINE a == Minimal(r, lim.tail)
           b == Minimal(r, 0)
           c == UltraMinimal(r)
           forms == {r, a, b, c}
           fits == {f \in forms : Size(f) <= lim.persist}
<1>1. /\ a \in Record /\ b \in Record /\ c \in Record
      /\ \A f \in forms : f \in Record /\ f.sound = r.sound /\ f.status = r.status
  BY FormsTyped DEF LimitType
<1>2. Encode(r, lim) = IF fits = {} THEN NoRecord
                       ELSE CHOOSE f \in fits : \A g \in fits : Size(g) <= Size(f)
  BY DEF Encode, LargestFitting
<1>3. CASE fits = {}
  <2>1. ~(Size(c) <= lim.persist)
    BY <1>3
  <2>2. Size(c) > lim.persist
    BY <2>1, <1>1, SizeTyped DEF LimitType
  <2> QED BY <1>2, <1>3, <2>2
<1>4. CASE fits # {}
  <2>1. \E f \in fits : \A g \in fits : Size(g) <= Size(f)
    <3>1. ASSUME NEW F \in SUBSET forms, F # {}
          PROVE  \E f \in F : \A g \in F : Size(g) <= Size(f)
      <4> DEFINE n(f) == Size(f)
      <4>1. n(r) \in Nat /\ n(a) \in Nat /\ n(b) \in Nat /\ n(c) \in Nat
        BY <1>1, SizeTyped
      <4>2. \E f \in F : \A g \in F : n(g) <= n(f)
        <5> HIDE DEF n, a, b, c
        <5> QED BY <3>1, <4>1
      <4> QED BY <4>2
    <3>2. fits \in SUBSET forms
      OBVIOUS
    <3> HIDE DEF fits, forms
    <3> QED BY <1>4, <3>1, <3>2
  <2>2. Encode(r, lim) \in fits
    <3> HIDE DEF fits
    <3> QED BY <1>2, <1>4, <2>1
  <2>3. /\ Encode(r, lim) \in Record
        /\ Encode(r, lim).sound = r.sound
        /\ Encode(r, lim).status = r.status
        /\ Size(Encode(r, lim)) <= lim.persist
    <3> HIDE DEF a, b, c
    <3> QED BY <2>2, <1>1
  <2>4. Encode(r, lim) # NoRecord
    BY <2>3, TaskRecordsAssumption
  <2> QED BY <2>3, <2>4
<1> QED BY <1>3, <1>4

LEMMA LimitsTyped ==
  ASSUME NEW lim \in LimitSettings
  PROVE  lim \in LimitType
BY TaskRecordsAssumption DEF LimitType

\* A record of this version that is saved, in place of what there was of it.
LEMMA SaveKeeps ==
  ASSUME RecordsInv, NEW t \in TaskIds, NEW r \in Record, r.sound, Save(t, r)
  PROVE  RecordsInv'
<1> DEFINE e == Encode(r, limits)
<1>1. limits \in LimitType /\ limits' = limits /\ limits \in LimitSettings
  BY LimitsTyped DEF RecordsInv, RecordsTypeOK, Save
<1>2. CASE e = NoRecord
  <2>1. disk' = disk /\ fresh' = fresh
    BY <1>2 DEF Save, RecordsInv, RecordsTypeOK
  <2> QED BY <1>1, <2>1 DEF RecordsInv, RecordsTypeOK, FreshFits, NoneLeftRunning, Files, Size
<1>3. CASE e # NoRecord
  <2>1. e \in Record /\ e.sound /\ Size(e) <= limits.persist
    BY <1>1, <1>3, EncodeFits
  <2>2. disk' = [disk EXCEPT ![t] = e] /\ fresh' = fresh \cup {t}
    BY <1>3 DEF Save
  <2> HIDE DEF e
  <2>3. /\ disk' \in [TaskIds -> Record \cup {NoRecord}]
        /\ disk'[t] = e /\ \A u \in TaskIds \ {t} : disk'[u] = disk[u]
    BY <2>1, <2>2 DEF RecordsInv, RecordsTypeOK
  <2>4. RecordsTypeOK'
    BY <1>1, <2>2, <2>3 DEF RecordsInv, RecordsTypeOK
  <2>5. FreshFits'
    <3>1. SUFFICES ASSUME NEW u \in fresh'
                   PROVE  /\ disk'[u] # NoRecord /\ disk'[u].sound
                          /\ Size(disk'[u]) <= limits.persist
      BY <1>1 DEF FreshFits, Size
    <3>2. CASE u = t
      BY <3>2, <2>1, <2>3, <1>3
    <3>3. CASE u # t
      BY <3>1, <3>3, <2>2, <2>3 DEF RecordsInv, RecordsTypeOK, FreshFits
    <3> QED BY <3>2, <3>3
  <2>6. NoneLeftRunning'
    <3>1. SUFFICES ASSUME NEW u \in TaskIds, disk'[u] # NoRecord, u \notin fresh',
                          disk'[u].status \in ActiveStatuses
                   PROVE  limits.persist < 2
      BY <1>1 DEF NoneLeftRunning, Files
    <3>2. u # t /\ u \notin fresh /\ disk'[u] = disk[u]
      BY <3>1, <2>2, <2>3
    <3> QED BY <3>1, <3>2 DEF RecordsInv, NoneLeftRunning, Files
  <2> QED BY <2>4, <2>5, <2>6 DEF RecordsInv
<1> QED BY <1>2, <1>3

LEMMA RecordCreated ==
  ASSUME RecordsInv, NEW t \in TaskIds, CreateOrGet(t)
  PROVE  RecordsInv'
<1>1. PICK bulk \in Sizes, details \in Sizes :
        Save(t, [status |-> "accepted", bulk |-> bulk, events |-> 0, details |-> details,
                 error |-> 0, sound |-> TRUE])
  BY DEF CreateOrGet
<1> DEFINE r == [status |-> "accepted", bulk |-> bulk, events |-> 0, details |-> details,
                 error |-> 0, sound |-> TRUE]
<1>2. r \in Record /\ r.sound
  BY TaskRecordsAssumption DEF Record, ActiveStatuses
<1> HIDE DEF r
<1> QED BY <1>1, <1>2, SaveKeeps DEF r

LEMMA RecordUpdates ==
  ASSUME RecordsInv, NEW t \in TaskIds, Update(t)
  PROVE  RecordsInv'
<1>1. disk[t] \in Record /\ disk[t].sound
  BY DEF Update, Loads, Files, RecordsInv, RecordsTypeOK
<1>2. PICK status \in {"running", "ended"}, bulk \in Sizes, details \in Sizes, error \in Sizes :
        Save(t, [disk[t] EXCEPT !.status = status, !.bulk = bulk, !.details = details,
                                !.error = error])
  BY DEF Update
<1> DEFINE r == [disk[t] EXCEPT !.status = status, !.bulk = bulk, !.details = details,
                                !.error = error]
<1>3. r \in Record /\ r.sound
  BY <1>1, TaskRecordsAssumption DEF Record, ActiveStatuses
<1>4. Save(t, r)
  BY <1>2
<1> HIDE DEF r
<1> QED BY <1>3, <1>4, SaveKeeps

LEMMA RecordAppends ==
  ASSUME RecordsInv, NEW t \in TaskIds, AppendEvent(t)
  PROVE  RecordsInv'
<1>1. disk[t] \in Record /\ disk[t].sound
  BY DEF AppendEvent, Loads, Files, RecordsInv, RecordsTypeOK
<1> DEFINE r == [disk[t] EXCEPT !.events = disk[t].events + 1]
<1>2. r \in Record /\ r.sound
  BY <1>1 DEF Record
<1>3. Save(t, r)
  BY DEF AppendEvent
<1> HIDE DEF r
<1> QED BY <1>2, <1>3, SaveKeeps

\* What recovery writes of a task is a record of this version that has ended; it can
\* unless there is room for no record.
LEMMA RecoveredEnds ==
  ASSUME NEW r \in Record, NEW lim \in LimitType
  PROVE  /\ Recovered(r, lim) = NoRecord => lim.persist < 2
         /\ Recovered(r, lim) # NoRecord =>
              /\ Recovered(r, lim) \in Record
              /\ Recovered(r, lim).sound
              /\ Recovered(r, lim).status = "blocked"
              /\ Size(Recovered(r, lim)) <= lim.persist
<1> DEFINE q == IF r.sound /\ Size(r) <= lim.load THEN r ELSE FromPrefix(r)
           b == Blocked(q)
<1>1. q \in Record
  BY DEF Record, FromPrefix
<1>2. b \in Record /\ b.sound /\ b.status = "blocked" /\ b.error = 1
  <2> HIDE DEF q
  <2>1. b = [q EXCEPT !.status = "blocked", !.events = q.events + 1, !.error = 1, !.sound = TRUE]
    BY DEF Blocked
  <2> DEFINE x == [q EXCEPT !.status = "blocked", !.events = q.events + 1, !.error = 1, !.sound = TRUE]
  <2>2. x \in Record
    <3>1. q.events + 1 \in Nat
      BY <1>1 DEF Record
    <3> QED BY <1>1, <3>1 DEF Record
  <2>3. x.status = "blocked" /\ x.error = 1
    BY <1>1 DEF Record
  <2>4. x.sound
    BY <1>1 DEF Record
  <2> QED BY <2>1, <2>2, <2>3, <2>4
<1>5. Size(UltraMinimal(b)) = 2
  <2> HIDE DEF b
  <2>1. /\ UltraMinimal(b).bulk = 0 /\ UltraMinimal(b).events = 0
        /\ UltraMinimal(b).details = 0 /\ UltraMinimal(b).error = 1
    BY <1>2 DEF Record, UltraMinimal
  <2> QED BY <2>1 DEF Size
<1>3. Recovered(r, lim) = Encode(b, lim)
  BY DEF Recovered
<1>4. lim.persist \in Nat
  BY DEF LimitType
<1> HIDE DEF b
<1> QED BY <1>2, <1>3, <1>4, <1>5, EncodeFits

LEMMA RecordsRestartKeeps ==
  ASSUME RecordsInv, RecordsRestart
  PROVE  RecordsInv'
<1>1. PICK lim \in LimitSettings, odd \in SUBSET Files :
     LET found == [t \in TaskIds |-> IF t \in odd THEN [disk[t] EXCEPT !.sound = FALSE] ELSE disk[t]]
         active == {t \in Files : found[t].status \in ActiveStatuses}
         loaded == {t \in active : found[t].sound /\ Size(found[t]) <= lim.load}
         refused == {t \in active : Recovered(found[t], lim) = NoRecord}
         reached == {s \in SUBSET (active \ (loaded \cup refused)) :
                       refused \subseteq loaded => s = active \ (loaded \cup refused)}
     IN  /\ limits' = lim
         /\ \E s \in reached :
              LET ends == (loaded \ refused) \cup s
              IN  /\ disk' = [t \in TaskIds |-> IF t \in ends THEN Recovered(found[t], lim) ELSE found[t]]
                  /\ fresh' = ends
  BY DEF RecordsRestart
<1> DEFINE found == [t \in TaskIds |-> IF t \in odd THEN [disk[t] EXCEPT !.sound = FALSE] ELSE disk[t]]
           active == {t \in Files : found[t].status \in ActiveStatuses}
           loaded == {t \in active : found[t].sound /\ Size(found[t]) <= lim.load}
           refused == {t \in active : Recovered(found[t], lim) = NoRecord}
           reached == {s \in SUBSET (active \ (loaded \cup refused)) :
                       refused \subseteq loaded => s = active \ (loaded \cup refused)}
<1>2. limits' = lim /\ lim \in LimitType
  BY <1>1, LimitsTyped
<1>3. PICK s \in reached :
        /\ disk' = [t \in TaskIds |-> IF t \in (loaded \ refused) \cup s
                                      THEN Recovered(found[t], lim) ELSE found[t]]
        /\ fresh' = (loaded \ refused) \cup s
  BY <1>1
<1> DEFINE ends == (loaded \ refused) \cup s
<1>4. /\ \A t \in Files : found[t] \in Record
      /\ \A t \in TaskIds \ Files : found[t] = NoRecord
      /\ Files \subseteq TaskIds
  BY DEF Files, Record, RecordsInv, RecordsTypeOK
<1>5. ends \subseteq active \ refused /\ active \subseteq Files
  OBVIOUS
<1>6. active \ ends # {} => lim.persist < 2
  <2>1. SUFFICES ASSUME active \ ends # {} PROVE refused # {}
    <3>1. ASSUME NEW t \in refused PROVE lim.persist < 2
      BY <1>2, <1>4, RecoveredEnds
    <3> QED BY <3>1, <2>1
  <2> HIDE DEF active, refused, loaded
  <2> QED BY <2>1
<1>7. \A t \in ends : /\ disk'[t] = Recovered(found[t], lim)
                      /\ disk'[t] \in Record /\ disk'[t] # NoRecord /\ disk'[t].sound
                      /\ disk'[t].status = "blocked" /\ Size(disk'[t]) <= lim.persist
  <2>1. SUFFICES ASSUME NEW t \in ends
                 PROVE  /\ disk'[t] = Recovered(found[t], lim)
                        /\ disk'[t] \in Record /\ disk'[t] # NoRecord /\ disk'[t].sound
                        /\ disk'[t].status = "blocked" /\ Size(disk'[t]) <= lim.persist
    OBVIOUS
  <2>2. t \in Files /\ found[t] \in Record /\ Recovered(found[t], lim) # NoRecord
    BY <1>4, <1>5
  <2>3. disk'[t] = Recovered(found[t], lim)
    BY <1>3, <1>4, <2>2
  <2> HIDE DEF found
  <2> QED BY <1>2, <2>2, <2>3, RecoveredEnds
<1>8. \A t \in TaskIds \ ends : disk'[t] = found[t]
  BY <1>3
<1>9. fresh' = ends /\ DOMAIN disk' = TaskIds /\ disk' = [t \in TaskIds |-> disk'[t]]
  BY <1>3
<1> HIDE DEF found, active, ends
<1>10. RecordsTypeOK'
  <2>1. \A t \in TaskIds : disk'[t] \in Record \cup {NoRecord}
    BY <1>4, <1>7, <1>8
  <2>2. fresh' \in SUBSET TaskIds
    BY <1>4, <1>5, <1>9
  <2> QED BY <1>2, <1>9, <2>1, <2>2 DEF RecordsTypeOK
<1>11. FreshFits'
  BY <1>2, <1>7, <1>9 DEF FreshFits, Size
<1>12. NoneLeftRunning'
  <2>1. SUFFICES ASSUME NEW t \in TaskIds, t \notin ends, disk'[t] # NoRecord,
                        disk'[t].status \in ActiveStatuses
                 PROVE  lim.persist < 2
    BY <1>2, <1>9 DEF NoneLeftRunning, Files
  <2>2. disk'[t] = found[t] /\ t \in Files
    BY <1>4, <1>8, <2>1
  <2>3. t \in active
    BY <2>1, <2>2 DEF active
  <2> QED BY <1>6, <2>1, <2>3
<1> QED BY <1>10, <1>11, <1>12 DEF RecordsInv

LEMMA RecordsInvHolds == RecordsSpec => []RecordsInv
<1>1. RecordsInit => RecordsInv
  BY DEF RecordsInit, RecordsInv, RecordsTypeOK, FreshFits, NoneLeftRunning, Files
<1>2. RecordsInv /\ [RecordsNext]_recordVars => RecordsInv'
  <2>1. SUFFICES ASSUME RecordsInv, [RecordsNext]_recordVars PROVE RecordsInv'
    OBVIOUS
  <2>2. CASE UNCHANGED recordVars
    BY <2>1, <2>2 DEF recordVars, RecordsInv, RecordsTypeOK, FreshFits, NoneLeftRunning, Files, Size
  <2>3. CASE RecordsNext
    BY <2>1, <2>3, RecordCreated, RecordUpdates, RecordAppends, RecordsRestartKeeps DEF RecordsNext
  <2> QED BY <2>1, <2>2, <2>3
<1> QED BY <1>1, <1>2, PTL DEF RecordsSpec

\* What is in the files are records, for any number of tasks and any limits.
THEOREM RecordsTypeCorrect == RecordsSpec => []RecordsTypeOK
<1>1. RecordsInv => RecordsTypeOK
  BY DEF RecordsInv
<1> QED BY <1>1, RecordsInvHolds, PTL

\* A restart ends every task that an earlier process left running, for any number of tasks,
\* sizes of their files and limits: one that cannot be loaded is ended by what its first bytes
\* say, in a form that fits every limit but the very smallest.
THEOREM NoTaskLeftRunning == RecordsSpec => []NoneLeftRunning
<1>1. RecordsInv => NoneLeftRunning
  BY DEF RecordsInv
<1> QED BY <1>1, RecordsInvHolds, PTL

\* What a process has written it can read, in whichever form it was made to fit, if it may
\* load as much as it may write.
THEOREM WrittenIsReadable == RecordsSpec => []StaysReadable
<1>1. RecordsInv => StaysReadable
  <2>1. SUFFICES ASSUME RecordsInv, limits.persist <= limits.load, NEW t \in fresh
                 PROVE  AnswerCode(t) = 200
    BY DEF StaysReadable
  <2>2. /\ limits.persist \in Nat /\ limits.load \in Nat
        /\ t \in TaskIds /\ disk[t] \in Record /\ disk[t] # NoRecord
        /\ disk[t].sound /\ Size(disk[t]) <= limits.persist
    BY <2>1, LimitsTyped DEF RecordsInv, RecordsTypeOK, FreshFits, LimitType
  <2>3. Size(disk[t]) \in Nat
    BY <2>2, SizeTyped
  <2>4. Loads(t) /\ t \in Files
    BY <2>1, <2>2, <2>3 DEF Loads, Files
  <2> QED BY <2>4 DEF AnswerCode
<1> QED BY <1>1, RecordsInvHolds, PTL

\* When every file loads and no listing was cut short, the task that an event is bound to is the
\* only active one of its session, and the status of the queue counts every task, for any
\* limits and any order in which the directory is scanned.
THEOREM FindsTheTask == RecordsSpec => []FindIsRight
<1>1. RecordsInv => FindIsRight
  <2> DEFINE n == Cardinality(Files)
  <2>1. SUFFICES ASSUME RecordsInv, \A t \in Files : Loads(t), ~PossiblyTruncated,
                        limits.list * limits.scan > 0, NEW scanned \in Scans
                 PROVE  /\ \A ours \in SUBSET TaskIds :
                             LET running == {t \in ours \cap Files : disk[t].status \in ActiveStatuses}
                             IN  FindForEvent(scanned, ours, {}) =
                                   IF Cardinality(running) = 1 THEN running ELSE {}
                        /\ \A s \in DOMAIN Counts(scanned) :
                             Counts(scanned)[s] = Cardinality({t \in Files : disk[t].status = s})
    BY DEF FindIsRight
  <2>2. limits.list \in Nat /\ limits.scan \in Nat
    BY <2>1, LimitsTyped DEF RecordsInv, RecordsTypeOK, LimitType
  <2>3. limits.list > 0 /\ limits.scan > 0
    <3>1. limits.list # 0 /\ limits.scan # 0
      BY <2>1, <2>2
    <3> QED BY <2>2, <3>1
  <2>4. IsFiniteSet(Files) /\ Files \in SUBSET Nat
    <3>1. Files \subseteq 1 .. MaxTasks /\ MaxTasks \in Nat
      BY TaskRecordsAssumption DEF Files, TaskIds
    <3>2. IsFiniteSet(1 .. MaxTasks)
      BY <3>1, FS_Interval
    <3>3. IsFiniteSet(Files)
      BY <3>1, <3>2, FS_Subset
    <3>4. Files \in SUBSET Nat
      BY <3>1
    <3> QED BY <3>3, <3>4
  <2>5. n \in Nat /\ n <= limits.list /\ n <= limits.scan
    <3>1. n \in Nat
      BY <2>4, FS_CardinalityType
    <3> HIDE DEF n
    <3>2. ~(n > limits.list) /\ ~(n > limits.scan)
      BY <2>1, <2>3 DEF PossiblyTruncated, n
    <3> QED BY <2>2, <3>1, <3>2
  <2>6. scanned = Files
    <3>1. Min({limits.scan, n}) = n
      <4> HIDE DEF n
      <4>1. \E x \in {limits.scan, n} : \A y \in {limits.scan, n} : x =< y
        BY <2>2, <2>5
      <4>2. /\ Min({limits.scan, n}) \in {limits.scan, n}
            /\ \A y \in {limits.scan, n} : Min({limits.scan, n}) =< y
        BY <4>1 DEF Min
      <4> QED BY <2>2, <2>5, <4>2
    <3>2. scanned \in SUBSET Files /\ Cardinality(scanned) = n
      BY <2>1, <2>3, <3>1 DEF Scans, kSubset
    <3> QED BY <2>4, <3>2, FS_Subset
  <2>7. ListedTasks(scanned) = Files
    <3>1. ASSUME NEW t \in Files PROVE Cardinality({u \in Files : u <= t}) <= limits.list
      <4> DEFINE low == {u \in Files : u <= t}
      <4>1. IsFiniteSet(low) /\ Cardinality(low) <= n
        BY <2>4, FS_Subset
      <4>2. Cardinality(low) \in Nat
        BY <4>1, FS_CardinalityType
      <4> HIDE DEF n, low
      <4>3. Cardinality(low) <= limits.list
        BY <2>2, <2>5, <4>1, <4>2
      <4> QED BY <4>3 DEF low
    <3>2. {t \in scanned : Loads(t)} = Files
      BY <2>1, <2>6
    <3> QED BY <3>1, <3>2 DEF ListedTasks
  <2>8. ASSUME NEW ours \in SUBSET TaskIds
        PROVE  LET running == {t \in ours \cap Files : disk[t].status \in ActiveStatuses}
               IN  FindForEvent(scanned, ours, {}) =
                     IF Cardinality(running) = 1 THEN running ELSE {}
    <3> DEFINE running == {t \in ours \cap Files : disk[t].status \in ActiveStatuses}
    <3>1. {t \in ListedTasks(scanned) \cap ours : disk[t].status \in ActiveStatuses} = running
      BY <2>7
    <3>2. {t \in ListedTasks(scanned) \cap ours : t \in {} /\ disk[t].details > 0} = {}
      OBVIOUS
    <3> QED BY <3>1, <3>2 DEF FindForEvent
  <2>9. \A s \in DOMAIN Counts(scanned) :
          Counts(scanned)[s] = Cardinality({t \in Files : disk[t].status = s})
    BY <2>7 DEF Counts
  <2> QED BY <2>8, <2>9
<1> QED BY <1>1, RecordsInvHolds, PTL

-----------------------------------------------------------------------------
(* ChatLog: what a reader is given, and what is on disk *)

Payload == Seq(Entry) \cup {NoFile}

ChatLogTypeOK ==
  /\ stored \in [Logs -> Payload]
  /\ memory \in [Logs -> Payload]
  /\ truth \in [Logs -> Payload]
  /\ recency \in [Logs -> Nat]
  /\ pending \in SUBSET Logs /\ recent \in SUBSET Logs /\ unsure \in SUBSET Logs
  /\ IsFiniteSet({s \in Logs : Cached(s)})

\* What is not on disk is in memory, and what is in memory and not waiting is on disk.
WaitsInMemory ==
  \A s \in Logs :
    /\ s \in pending => Cached(s)
    /\ Cached(s) /\ s \notin pending \cup unsure => memory[s] = stored[s]

LogInv == ChatLogTypeOK /\ WaitsInMemory /\ ReadsExact /\ OutcomeOnDisk

\* What stays is in the cache, and nothing else.
LEMMA KeepDoes ==
  ASSUME ChatLogTypeOK, NEW staying \in SUBSET {t \in Logs : Cached(t)}
  PROVE  /\ IsFiniteSet(staying)
         /\ Keep(staying) \in [Logs -> Nat]
         /\ \A t \in Logs : Keep(staying)[t] # 0 <=> t \in staying
<1>1. IsFiniteSet(staying)
  BY FS_Subset DEF ChatLogTypeOK
<1>2. ASSUME NEW t \in staying PROVE Rank(t, staying) \in Nat \ {0}
  <2> DEFINE low == {u \in staying : recency[u] <= recency[t]}
  <2>1. IsFiniteSet(low)
    BY <1>1, FS_Subset
  <2>2. t \in low
    BY DEF ChatLogTypeOK
  <2>3. Cardinality(low) \in Nat /\ Cardinality(low) # 0
    <3> HIDE DEF low
    <3> QED BY <2>1, <2>2, FS_CardinalityType, FS_EmptySet
  <2> QED BY <2>3 DEF Rank
<1> QED BY <1>1, <1>2 DEF Keep

LEMMA LastUsed ==
  ASSUME ChatLogTypeOK, NEW s \in Logs, NEW staying \in SUBSET Others(s), MovesToEnd(s, staying)
  PROVE  /\ recency' \in [Logs -> Nat]
         /\ recency'[s] # 0
         /\ \A t \in Logs \ {s} : recency'[t] # 0 <=> t \in staying
         /\ IsFiniteSet({t \in Logs : recency'[t] # 0})
<1>1. staying \in SUBSET {t \in Logs : Cached(t)} /\ s \notin staying
  BY DEF Others
<1>2. /\ IsFiniteSet(staying) /\ Cardinality(staying) \in Nat
      /\ Keep(staying) \in [Logs -> Nat]
      /\ \A t \in Logs : Keep(staying)[t] # 0 <=> t \in staying
  BY <1>1, KeepDoes, FS_CardinalityType
<1>3. /\ recency' \in [Logs -> Nat]
      /\ recency'[s] = Cardinality(staying) + 1
      /\ \A t \in Logs \ {s} : recency'[t] = Keep(staying)[t]
  BY <1>2 DEF MovesToEnd
<1>4. recency'[s] # 0
  BY <1>2, <1>3
<1>5. {t \in Logs : recency'[t] # 0} = staying \cup {s}
  BY <1>1, <1>2, <1>3, <1>4
<1>6. IsFiniteSet(staying \cup {s})
  BY <1>2, FS_AddElement
<1> QED BY <1>2, <1>3, <1>4, <1>5, <1>6

\* What goes from the cache is not waiting; the rest stays as it is.
LEMMA RememberDoes ==
  ASSUME ChatLogTypeOK, NEW s \in Logs, NEW payload \in Payload, Remember(s, payload)
  PROVE  /\ recency' \in [Logs -> Nat] /\ memory' \in [Logs -> Payload]
         /\ IsFiniteSet({t \in Logs : recency'[t] # 0})
         /\ recency'[s] # 0 /\ memory'[s] = payload
         /\ \A t \in Logs \ {s} : /\ recency'[t] # 0 => Cached(t) /\ memory'[t] = memory[t]
                                  /\ Cached(t) /\ recency'[t] = 0 => t \notin pending
<1>1. Evicted(s) \in SUBSET (Others(s) \ pending)
  BY DEF Evicted
<1> DEFINE staying == Others(s) \ Evicted(s)
<1>2. MovesToEnd(s, staying) /\ staying \in SUBSET Others(s)
  BY DEF Remember
<1>3. /\ recency' \in [Logs -> Nat]
      /\ recency'[s] # 0
      /\ \A t \in Logs \ {s} : recency'[t] # 0 <=> t \in staying
      /\ IsFiniteSet({t \in Logs : recency'[t] # 0})
  <2> HIDE DEF staying
  <2> QED BY <1>2, LastUsed
<1>4. <<>> \in Payload
  BY EmptySeq DEF Payload
<1>5. memory' = [t \in Logs |-> IF t = s THEN payload
                                ELSE IF t \in Evicted(s) THEN <<>> ELSE memory[t]]
  BY DEF Remember
<1>6. memory' \in [Logs -> Payload]
  BY <1>4, <1>5 DEF ChatLogTypeOK
<1>7. ASSUME NEW t \in Logs \ {s}
      PROVE  /\ recency'[t] # 0 => Cached(t) /\ memory'[t] = memory[t]
             /\ Cached(t) /\ recency'[t] = 0 => t \notin pending
  BY <1>1, <1>3, <1>5 DEF Others
<1> QED BY <1>3, <1>5, <1>6, <1>7

\* Whoever uses s, readers see of the other sessions what they saw.
LEMMA OthersSeen ==
  ASSUME LogInv, NEW s \in Logs,
         recency' \in [Logs -> Nat], memory' \in [Logs -> Payload],
         \A t \in Logs \ {s} :
            /\ recency'[t] # 0 => Cached(t) /\ memory'[t] = memory[t]
            /\ Cached(t) /\ recency'[t] = 0 => t \notin pending
            /\ stored'[t] = stored[t] /\ truth'[t] = truth[t]
            /\ t \in pending' <=> t \in pending
            /\ t \in unsure' <=> t \in unsure
  PROVE  \A t \in Logs \ {s} :
           /\ t \in pending' => recency'[t] # 0
           /\ recency'[t] # 0 /\ t \notin pending' \cup unsure' => memory'[t] = stored'[t]
           /\ t \notin unsure' => /\ View(t)' = View(t)
                                  /\ View(t)' = truth'[t]
                                  /\ stored'[t] = stored[t]
<1>1. SUFFICES ASSUME NEW t \in Logs \ {s}
               PROVE  /\ t \in pending' => recency'[t] # 0
                      /\ recency'[t] # 0 /\ t \notin pending' \cup unsure' => memory'[t] = stored'[t]
                      /\ t \notin unsure' => /\ View(t)' = View(t)
                                             /\ View(t)' = truth'[t]
                                             /\ stored'[t] = stored[t]
  OBVIOUS
<1>2. /\ t \in pending => Cached(t)
      /\ Cached(t) /\ t \notin pending \cup unsure => memory[t] = stored[t]
      /\ t \notin unsure => View(t) = truth[t]
  BY DEF LogInv, WaitsInMemory, ReadsExact
<1>3. t \notin unsure' => View(t)' = View(t)
  BY <1>2 DEF View, Cached
<1> QED BY <1>2, <1>3

\* What a reader sees ended in a payload is ended in another.
EndedIn(p, q) ==
  \A i \in DOMAIN Entries(p) :
    p[i].status # "running" => i \in DOMAIN Entries(q) /\ q[i].status = p[i].status

\* A step that uses one session keeps what holds if it does so for this one.
LEMMA OneKeeps ==
  ASSUME LogInv, NEW s \in Logs,
         ChatLogTypeOK',
         \A t \in Logs \ {s} :
            /\ recency'[t] # 0 => Cached(t) /\ memory'[t] = memory[t]
            /\ Cached(t) /\ recency'[t] = 0 => t \notin pending
            /\ stored'[t] = stored[t] /\ truth'[t] = truth[t]
            /\ t \in pending' <=> t \in pending
            /\ t \in unsure' <=> t \in unsure,
         s \in pending' => recency'[s] # 0,
         recency'[s] # 0 /\ s \notin pending' \cup unsure' => memory'[s] = stored'[s],
         s \notin unsure' => View(s)' = truth'[s] /\ EndedIn(View(s)', stored'[s])
  PROVE  LogInv'
<1>1. \A t \in Logs \ {s} :
           /\ t \in pending' => recency'[t] # 0
           /\ recency'[t] # 0 /\ t \notin pending' \cup unsure' => memory'[t] = stored'[t]
           /\ t \notin unsure' => /\ View(t)' = View(t)
                                  /\ View(t)' = truth'[t]
                                  /\ stored'[t] = stored[t]
  <2>1. recency' \in [Logs -> Nat] /\ memory' \in [Logs -> Payload]
    BY DEF ChatLogTypeOK
  <2> QED BY <2>1, OthersSeen
<1>2. WaitsInMemory'
  BY <1>1 DEF WaitsInMemory, Cached
<1>3. ReadsExact'
  BY <1>1 DEF ReadsExact
<1>4. OutcomeOnDisk'
  <2>1. SUFFICES ASSUME NEW t \in Logs \ unsure' PROVE EndedIn(View(t)', stored'[t])
    BY DEF OutcomeOnDisk, EndedIn, Entries
  <2>2. CASE t = s
    BY <2>2
  <2>3. CASE t # s
    <3>1. t \notin unsure /\ View(t)' = View(t) /\ stored'[t] = stored[t]
      BY <1>1, <2>3
    <3>2. EndedIn(View(t), stored[t])
      BY <3>1 DEF LogInv, OutcomeOnDisk, EndedIn
    <3> QED BY <3>1, <3>2
  <2> QED BY <2>2, <2>3
<1> QED BY <1>2, <1>3, <1>4 DEF LogInv

LEMMA ViewTyped ==
  ASSUME ChatLogTypeOK, NEW s \in Logs
  PROVE  View(s) \in Payload
BY DEF ChatLogTypeOK, View

LEMMA EntriesTyped ==
  ASSUME NEW p \in Payload
  PROVE  Entries(p) \in Seq(Entry) /\ (DOMAIN Entries(p) # {} => Entries(p) = p)
<1>1. <<>> \in Seq(Entry) /\ DOMAIN <<>> = {}
  BY EmptySeq
<1> QED BY <1>1 DEF Entries, Payload

\* A payload with a new entry, with an entry, with its end, with one event more: nothing
\* else has ended than what had.
LEMMA NewDoes ==
  ASSUME NEW p \in Payload, NEW id \in RequestIds
  PROVE  WithNew(p, id) \in Seq(Entry) /\ EndedIn(WithNew(p, id), p)
<1> DEFINE e == [id |-> id, status |-> "running", events |-> 0]
           q == Entries(p)
<1>1. e \in Entry /\ e.status = "running"
  BY DEF Entry, Statuses
<1>2. q \in Seq(Entry)
  BY EntriesTyped
<1> HIDE DEF e, q
<1>3. /\ Append(q, e) \in Seq(Entry)
      /\ Len(q) \in Nat /\ DOMAIN q = 1 .. Len(q)
      /\ DOMAIN Append(q, e) = 1 .. Len(q) + 1
      /\ \A i \in 1 .. Len(q) : Append(q, e)[i] = q[i]
      /\ Append(q, e)[Len(q) + 1] = e
  BY <1>1, <1>2, AppendProperties, LenProperties
<1>4. WithNew(p, id) = Append(q, e)
  BY DEF WithNew, e, q
<1>5. ASSUME NEW i \in DOMAIN Append(q, e), Append(q, e)[i].status # "running"
      PROVE  i \in DOMAIN q /\ q[i] = Append(q, e)[i]
  <2>1. i \in 1 .. Len(q) \/ i = Len(q) + 1
    BY <1>3
  <2> QED BY <1>1, <1>3, <1>5, <2>1
<1>6. DOMAIN q # {} => q = p
  BY EntriesTyped DEF q
<1>7. EndedIn(Append(q, e), p)
  <2>1. SUFFICES ASSUME NEW i \in DOMAIN Entries(Append(q, e)),
                        Append(q, e)[i].status # "running"
                 PROVE  i \in DOMAIN Entries(p) /\ p[i].status = Append(q, e)[i].status
    BY DEF EndedIn
  <2>2. i \in DOMAIN Append(q, e)
    BY DEF Entries
  <2>3. i \in DOMAIN q /\ q[i] = Append(q, e)[i] /\ q = p
    BY <1>5, <1>6, <2>1, <2>2
  <2> QED BY <2>3 DEF q
<1> QED BY <1>3, <1>4, <1>7

LEMMA EntryDoes ==
  ASSUME NEW p \in Payload, NEW id \in RequestIds
  PROVE  WithEntry(p, id) \in Seq(Entry) /\ EndedIn(WithEntry(p, id), p)
<1>1. CASE \E i \in DOMAIN Entries(p) : p[i].id = id
  <2>1. WithEntry(p, id) = p /\ DOMAIN Entries(p) # {}
    BY <1>1 DEF WithEntry
  <2>2. p \in Seq(Entry)
    BY <2>1, EntriesTyped
  <2>3. EndedIn(p, p)
    BY DEF EndedIn
  <2> QED BY <2>1, <2>2, <2>3
<1>2. CASE ~ \E i \in DOMAIN Entries(p) : p[i].id = id
  <2>1. WithEntry(p, id) = WithNew(p, id)
    BY <1>2 DEF WithEntry
  <2> QED BY <2>1, NewDoes
<1> QED BY <1>1, <1>2

LEMMA SeqExcept ==
  ASSUME NEW S, NEW q \in Seq(S), NEW k, NEW x, k \in DOMAIN q => x \in S
  PROVE  /\ [q EXCEPT ![k] = x] \in Seq(S)
         /\ DOMAIN [q EXCEPT ![k] = x] = DOMAIN q
         /\ \A i \in DOMAIN q : [q EXCEPT ![k] = x][i] = IF i = k THEN x ELSE q[i]
<1>1. Len(q) \in Nat /\ DOMAIN q = 1 .. Len(q) /\ q \in [1 .. Len(q) -> S]
  BY LenProperties
<1> DEFINE r == [q EXCEPT ![k] = x]
<1>2. /\ DOMAIN r = 1 .. Len(q)
      /\ r = [i \in 1 .. Len(q) |-> IF i = k THEN x ELSE q[i]]
  BY <1>1
<1>3. r \in [1 .. Len(q) -> S]
  BY <1>1, <1>2
<1>4. r \in Seq(S)
  <2> HIDE DEF r
  <2> QED BY <1>1, <1>3, SeqDef
<1> QED BY <1>1, <1>2, <1>4

LEMMA FinishedTyped ==
  ASSUME NEW p \in Payload, NEW id \in RequestIds, NEW events \in Nat
  PROVE  Finished(p, id, events) \in Payload
<1> DEFINE q == WithEntry(p, id)
           k == Place(q, id)
           x == [q[k] EXCEPT !.status = "ended"]
           q1 == [q EXCEPT ![k] = x]
           y == [q1[k] EXCEPT !.events = events]
           q2 == [q1 EXCEPT ![k] = y]
<1>1. Finished(p, id, events) = q2
  BY DEF Finished
<1>2. q \in Seq(Entry)
  BY EntryDoes
<1>3. k \in DOMAIN q => x \in Entry
  <2> HIDE DEF q, k
  <2>1. SUFFICES ASSUME k \in DOMAIN q PROVE x \in Entry
    OBVIOUS
  <2>2. q[k] \in Entry
    BY <1>2, <2>1, ElementOfSeq, LenProperties
  <2> QED BY <2>2 DEF Entry, Statuses
<1>4. q1 \in Seq(Entry)
  <2> HIDE DEF q, k, x
  <2> QED BY <1>2, <1>3, SeqExcept
<1>5. k \in DOMAIN q1 => y \in Entry
  <2> HIDE DEF q, k, x, q1
  <2>1. SUFFICES ASSUME k \in DOMAIN q1 PROVE y \in Entry
    OBVIOUS
  <2>2. q1[k] \in Entry
    BY <1>4, <2>1, ElementOfSeq, LenProperties
  <2> QED BY <2>2 DEF Entry
<1>6. q2 \in Seq(Entry)
  <2> HIDE DEF q, k, x, q1, y
  <2> QED BY <1>4, <1>5, SeqExcept
<1> QED BY <1>1, <1>6 DEF Payload

LEMMA ExtendedDoes ==
  ASSUME NEW p \in Payload, NEW id \in RequestIds
  PROVE  Extended(p, id) \in Payload /\ EndedIn(Extended(p, id), p)
<1> DEFINE q == WithEntry(p, id)
           k == Place(q, id)
           x == [q[k] EXCEPT !.events = q[k].events + 1]
           q1 == [q EXCEPT ![k] = x]
<1>1. Extended(p, id) = q1
  BY DEF Extended
<1>2. q \in Seq(Entry) /\ EndedIn(q, p)
  BY EntryDoes
<1>3. k \in DOMAIN q => x \in Entry /\ x.status = q[k].status
  <2> HIDE DEF q, k
  <2>1. SUFFICES ASSUME k \in DOMAIN q PROVE x \in Entry /\ x.status = q[k].status
    OBVIOUS
  <2>2. q[k] \in Entry
    BY <1>2, <2>1, ElementOfSeq, LenProperties
  <2> QED BY <2>2 DEF Entry
<1>4. /\ q1 \in Seq(Entry) /\ DOMAIN q1 = DOMAIN q
      /\ \A i \in DOMAIN q : q1[i] = IF i = k THEN x ELSE q[i]
  <2> HIDE DEF q, k, x
  <2> QED BY <1>2, <1>3, SeqExcept
<1>5. \A i \in DOMAIN q : q1[i].status = q[i].status
  <2> HIDE DEF q, k, x, q1
  <2> QED BY <1>3, <1>4
<1>6. EndedIn(q1, p)
  <2> HIDE DEF q, q1
  <2>1. SUFFICES ASSUME NEW i \in DOMAIN Entries(q1), q1[i].status # "running"
                 PROVE  i \in DOMAIN Entries(p) /\ p[i].status = q1[i].status
    BY DEF EndedIn
  <2>2. i \in DOMAIN q
    <3>1. DOMAIN Entries(q1) \subseteq DOMAIN q1
      BY EmptySeq DEF Entries
    <3> QED BY <1>4, <2>1, <3>1
  <2>3. i \in DOMAIN Entries(q)
    <3>1. q # NoFile
      BY <1>2, ChatLogAssumption
    <3> QED BY <2>2, <3>1 DEF Entries
  <2> QED BY <1>2, <1>5, <2>1, <2>2, <2>3 DEF EndedIn
<1> QED BY <1>1, <1>4, <1>6 DEF Payload

\* A write that is tried: nothing has ended in the file that does not end in memory.
LEMMA WriteKeeps ==
  ASSUME LogInv, NEW s \in Logs, NEW payload \in Payload, NEW intended \in Payload,
         s \notin unsure => payload = intended,
         Write(s, payload, intended)
  PROVE  LogInv'
<1>0. ChatLogTypeOK
  BY DEF LogInv
<1>1. /\ recency' \in [Logs -> Nat] /\ memory' \in [Logs -> Payload]
      /\ IsFiniteSet({t \in Logs : recency'[t] # 0})
      /\ recency'[s] # 0 /\ memory'[s] = payload
      /\ \A t \in Logs \ {s} : /\ recency'[t] # 0 => Cached(t) /\ memory'[t] = memory[t]
                               /\ Cached(t) /\ recency'[t] = 0 => t \notin pending
  BY <1>0, RememberDoes DEF Write
<1>2. View(s)' = payload
  BY <1>1 DEF View, Cached
<1>3. EndedIn(payload, payload)
  BY DEF EndedIn
<1>4. CASE /\ stored' = [stored EXCEPT ![s] = payload]
           /\ pending' = pending \ {s}
           /\ recent' = (recent \ Evicted(s)) \cup {s}
           /\ truth' = [truth EXCEPT ![s] = IF s \in unsure THEN payload ELSE intended]
           /\ unsure' = unsure \ {s}
  <2>1. truth'[s] = payload /\ stored'[s] = payload
    BY <1>0, <1>4 DEF ChatLogTypeOK
  <2>2. ChatLogTypeOK'
    <3>1. /\ stored' \in [Logs -> Payload]
          /\ truth' \in [Logs -> Payload]
          /\ pending' \in SUBSET Logs /\ recent' \in SUBSET Logs /\ unsure' \in SUBSET Logs
      BY <1>0, <1>4 DEF ChatLogTypeOK
    <3> QED BY <1>1, <3>1 DEF ChatLogTypeOK, Cached
  <2>3. \A t \in Logs \ {s} :
            /\ stored'[t] = stored[t] /\ truth'[t] = truth[t]
            /\ t \in pending' <=> t \in pending
            /\ t \in unsure' <=> t \in unsure
    BY <1>0, <1>4 DEF ChatLogTypeOK
  <2> QED BY <1>1, <1>2, <1>3, <2>1, <2>2, <2>3, OneKeeps
<1>5. CASE /\ recent' = recent \ Evicted(s)
           /\ unsure' = unsure \cup {s}
           /\ truth' = [truth EXCEPT ![s] = NoFile]
           /\ UNCHANGED <<stored, pending>>
  <2>1. ChatLogTypeOK'
    <3>1. NoFile \in Payload
      BY DEF Payload
    <3>2. /\ stored' \in [Logs -> Payload]
          /\ truth' \in [Logs -> Payload]
          /\ pending' \in SUBSET Logs /\ recent' \in SUBSET Logs /\ unsure' \in SUBSET Logs
      BY <1>0, <1>5, <3>1 DEF ChatLogTypeOK
    <3> QED BY <1>1, <3>2 DEF ChatLogTypeOK, Cached
  <2>2. s \in unsure'
    BY <1>5
  <2>3. \A t \in Logs \ {s} :
            /\ stored'[t] = stored[t] /\ truth'[t] = truth[t]
            /\ t \in pending' <=> t \in pending
            /\ t \in unsure' <=> t \in unsure
    BY <1>0, <1>5 DEF ChatLogTypeOK
  <2> QED BY <1>1, <2>1, <2>2, <2>3, OneKeeps
<1> QED BY <1>4, <1>5 DEF Write

\* One that may wait: what has ended is on disk already.
LEMMA CoalescedKeeps ==
  ASSUME LogInv, NEW s \in Logs, NEW payload \in Payload, NEW intended \in Payload,
         s \notin unsure => payload = intended /\ EndedIn(payload, stored[s]),
         WriteCoalesced(s, payload, intended)
  PROVE  LogInv'
<1>0. ChatLogTypeOK
  BY DEF LogInv
<1>1. CASE s \in recent
  <2>0. /\ Remember(s, payload)
        /\ pending' = pending \cup {s}
        /\ recent' = recent \ Evicted(s)
        /\ truth' = [truth EXCEPT ![s] = IF s \in unsure THEN NoFile ELSE intended]
        /\ UNCHANGED <<stored, unsure>>
    BY <1>1 DEF WriteCoalesced
  <2>1. /\ recency' \in [Logs -> Nat] /\ memory' \in [Logs -> Payload]
        /\ IsFiniteSet({t \in Logs : recency'[t] # 0})
        /\ recency'[s] # 0 /\ memory'[s] = payload
        /\ \A t \in Logs \ {s} : /\ recency'[t] # 0 => Cached(t) /\ memory'[t] = memory[t]
                                 /\ Cached(t) /\ recency'[t] = 0 => t \notin pending
    BY <1>0, <2>0, RememberDoes
  <2>2. View(s)' = payload /\ s \in pending'
    BY <2>0, <2>1 DEF View, Cached
  <2>3. ChatLogTypeOK'
    <3>1. NoFile \in Payload
      BY DEF Payload
    <3>2. /\ stored' \in [Logs -> Payload]
          /\ truth' \in [Logs -> Payload]
          /\ pending' \in SUBSET Logs /\ recent' \in SUBSET Logs /\ unsure' \in SUBSET Logs
      BY <1>0, <2>0, <3>1 DEF ChatLogTypeOK
    <3> QED BY <2>1, <3>2 DEF ChatLogTypeOK, Cached
  <2>4. \A t \in Logs \ {s} :
            /\ stored'[t] = stored[t] /\ truth'[t] = truth[t]
            /\ t \in pending' <=> t \in pending
            /\ t \in unsure' <=> t \in unsure
    BY <1>0, <2>0 DEF ChatLogTypeOK
  <2>5. s \notin unsure' => truth'[s] = payload /\ EndedIn(payload, stored'[s])
    BY <1>0, <2>0 DEF ChatLogTypeOK
  <2> QED BY <2>1, <2>2, <2>3, <2>4, <2>5, OneKeeps
<1>2. CASE s \notin recent
  <2>1. Write(s, payload, intended)
    BY <1>2 DEF WriteCoalesced
  <2> QED BY <2>1, WriteKeeps
<1> QED BY <1>1, <1>2

\* What is written is made of what readers see, and that is what was written.
LEMMA SeenIsTrue ==
  ASSUME LogInv, NEW s \in Logs
  PROVE  /\ View(s) \in Payload /\ truth[s] \in Payload
         /\ s \notin unsure => View(s) = truth[s] /\ EndedIn(View(s), stored[s])
<1>1. View(s) \in Payload /\ truth[s] \in Payload
  BY ViewTyped DEF LogInv, ChatLogTypeOK
<1> QED BY <1>1 DEF LogInv, ReadsExact, OutcomeOnDisk, EndedIn

LEMMA GetKeeps ==
  ASSUME LogInv, NEW s \in Logs, Get(s)
  PROVE  LogInv'
<1>0. ChatLogTypeOK
  BY DEF LogInv
<1>1. /\ recency' \in [Logs -> Nat] /\ memory' \in [Logs -> Payload]
      /\ IsFiniteSet({t \in Logs : recency'[t] # 0})
      /\ recency'[s] # 0 /\ memory'[s] = View(s)
      /\ \A t \in Logs \ {s} : /\ recency'[t] # 0 => Cached(t) /\ memory'[t] = memory[t]
                               /\ Cached(t) /\ recency'[t] = 0 => t \notin pending
  <2>1. CASE Cached(s)
    <3>1. MovesToEnd(s, Others(s)) /\ memory' = memory
      BY <2>1 DEF Get
    <3>2. /\ recency' \in [Logs -> Nat]
          /\ recency'[s] # 0
          /\ \A t \in Logs \ {s} : recency'[t] # 0 <=> t \in Others(s)
          /\ IsFiniteSet({t \in Logs : recency'[t] # 0})
      BY <1>0, <3>1, LastUsed
    <3> QED BY <1>0, <2>1, <3>1, <3>2 DEF Others, View, ChatLogTypeOK
  <2>2. CASE ~Cached(s)
    <3>1. Remember(s, stored[s]) /\ View(s) = stored[s]
      BY <2>2 DEF Get, View
    <3>2. stored[s] \in Payload
      BY <1>0 DEF ChatLogTypeOK
    <3> QED BY <1>0, <3>1, <3>2, RememberDoes
  <2> QED BY <2>1, <2>2
<1>2. UNCHANGED <<stored, pending, truth, unsure>> /\ recent' \subseteq recent
  BY DEF Get
<1>3. View(s)' = View(s)
  BY <1>1 DEF View, Cached
<1>4. ChatLogTypeOK'
  BY <1>0, <1>1, <1>2 DEF ChatLogTypeOK, Cached
<1>5. s \notin pending' \cup unsure' => memory'[s] = stored'[s]
  BY <1>1, <1>2 DEF View, LogInv, WaitsInMemory
<1>6. s \notin unsure' => View(s)' = truth'[s] /\ EndedIn(View(s)', stored'[s])
  BY <1>2, <1>3, SeenIsTrue
<1> QED BY <1>1, <1>2, <1>4, <1>5, <1>6, OneKeeps

LEMMA StartKeeps ==
  ASSUME LogInv, NEW s \in Logs, NEW id \in RequestIds, StartEntry(s, id)
  PROVE  LogInv'
<1>1. Write(s, WithNew(View(s), id), WithNew(truth[s], id))
  BY DEF StartEntry
<1>2. /\ WithNew(View(s), id) \in Payload /\ WithNew(truth[s], id) \in Payload
      /\ s \notin unsure => WithNew(View(s), id) = WithNew(truth[s], id)
  BY SeenIsTrue, NewDoes DEF Payload
<1> QED BY <1>1, <1>2, WriteKeeps

LEMMA FinishKeeps ==
  ASSUME LogInv, NEW s \in Logs, NEW id \in RequestIds, FinishEntry(s, id)
  PROVE  LogInv'
<1>1. PICK events \in 0 .. 1 :
        Write(s, Finished(View(s), id, events), Finished(truth[s], id, events))
  BY DEF FinishEntry
<1>2. /\ Finished(View(s), id, events) \in Payload /\ Finished(truth[s], id, events) \in Payload
      /\ s \notin unsure => Finished(View(s), id, events) = Finished(truth[s], id, events)
  BY SeenIsTrue, FinishedTyped
<1> QED BY <1>1, <1>2, WriteKeeps

LEMMA LogAppends ==
  ASSUME LogInv, NEW s \in Logs, NEW id \in RequestIds, AppendToEntry(s, id)
  PROVE  LogInv'
<1>1. WriteCoalesced(s, Extended(View(s), id), Extended(truth[s], id))
  BY DEF AppendToEntry
<1>2. /\ Extended(View(s), id) \in Payload /\ Extended(truth[s], id) \in Payload
      /\ EndedIn(Extended(View(s), id), View(s))
  BY SeenIsTrue, ExtendedDoes
<1>3. s \notin unsure => /\ Extended(View(s), id) = Extended(truth[s], id)
                         /\ EndedIn(Extended(View(s), id), stored[s])
  <2>1. SUFFICES ASSUME s \notin unsure
                 PROVE  /\ Extended(View(s), id) = Extended(truth[s], id)
                        /\ EndedIn(Extended(View(s), id), stored[s])
    OBVIOUS
  <2>2. View(s) = truth[s] /\ EndedIn(View(s), stored[s])
    BY <2>1, SeenIsTrue
  <2>3. EndedIn(Extended(View(s), id), stored[s])
    BY <1>2, <2>2 DEF EndedIn
  <2> QED BY <2>2, <2>3
<1> QED BY <1>1, <1>2, <1>3, CoalescedKeeps

LEMMA DeleteKeeps ==
  ASSUME LogInv, NEW s \in Logs, Delete(s)
  PROVE  LogInv'
<1>0. ChatLogTypeOK
  BY DEF LogInv
<1>1. /\ recency' = Keep(Others(s))
      /\ memory' = [memory EXCEPT ![s] = <<>>]
      /\ pending' = pending \ {s} /\ recent' = recent \ {s}
      /\ stored' = [stored EXCEPT ![s] = NoFile]
      /\ truth' = [truth EXCEPT ![s] = NoFile] /\ unsure' = unsure \ {s}
  BY DEF Delete
<1>2. Others(s) \in SUBSET {t \in Logs : Cached(t)} /\ s \notin Others(s)
  BY DEF Others
<1>3. /\ recency' \in [Logs -> Nat]
      /\ \A t \in Logs : recency'[t] # 0 <=> t \in Others(s)
      /\ IsFiniteSet(Others(s))
  BY <1>0, <1>1, <1>2, KeepDoes
<1>4. ChatLogTypeOK'
  <2>1. NoFile \in Payload /\ <<>> \in Payload
    BY EmptySeq DEF Payload
  <2>2. {t \in Logs : recency'[t] # 0} = Others(s)
    BY <1>2, <1>3
  <2>3. /\ stored' \in [Logs -> Payload] /\ memory' \in [Logs -> Payload]
        /\ truth' \in [Logs -> Payload]
        /\ pending' \in SUBSET Logs /\ recent' \in SUBSET Logs /\ unsure' \in SUBSET Logs
    BY <1>0, <1>1, <2>1 DEF ChatLogTypeOK
  <2> QED BY <1>3, <2>2, <2>3 DEF ChatLogTypeOK, Cached
<1>5. \A t \in Logs \ {s} :
        /\ recency'[t] # 0 => Cached(t) /\ memory'[t] = memory[t]
        /\ Cached(t) => recency'[t] # 0
        /\ stored'[t] = stored[t] /\ truth'[t] = truth[t]
        /\ t \in pending' <=> t \in pending
        /\ t \in unsure' <=> t \in unsure
  BY <1>0, <1>1, <1>3 DEF Others, ChatLogTypeOK
<1>6. s \notin pending' /\ recency'[s] = 0
  BY <1>1, <1>2, <1>3
<1>7. View(s)' = NoFile /\ truth'[s] = NoFile /\ EndedIn(NoFile, stored'[s])
  <2>1. stored'[s] = NoFile /\ truth'[s] = NoFile
    BY <1>0, <1>1 DEF ChatLogTypeOK
  <2>2. EndedIn(NoFile, NoFile)
    BY DEF EndedIn
  <2> QED BY <1>6, <2>1, <2>2 DEF View, Cached
<1> QED BY <1>4, <1>5, <1>6, <1>7, OneKeeps

LEMMA FlushKeeps ==
  ASSUME LogInv, Flush
  PROVE  LogInv'
<1>1. PICK s \in Logs : Cached(s) /\ Write(s, memory[s], truth[s])
  BY DEF Flush, LogInv, ChatLogTypeOK
<1>2. View(s) = memory[s]
  BY <1>1 DEF View
<1> QED BY <1>1, <1>2, SeenIsTrue, WriteKeeps

LEMMA LogRestartKeeps ==
  ASSUME LogInv, LogRestart
  PROVE  LogInv'
<1>1. ChatLogTypeOK'
  <2>1. <<>> \in Payload
    BY EmptySeq DEF Payload
  <2>2. {s \in Logs : recency'[s] # 0} = {} /\ recency' \in [Logs -> Nat]
    BY DEF LogRestart
  <2>3. IsFiniteSet({s \in Logs : recency'[s] # 0})
    BY <2>2, FS_EmptySet
  <2> QED BY <2>1, <2>2, <2>3 DEF LogRestart, LogInv, ChatLogTypeOK, Cached
<1>2. \A s \in Logs : View(s)' = stored'[s] /\ truth'[s] = stored'[s] /\ recency'[s] = 0
  BY DEF LogRestart, View, Cached
<1>3. WaitsInMemory'
  BY <1>2 DEF WaitsInMemory, Cached, LogRestart
<1>4. ReadsExact'
  BY <1>2 DEF ReadsExact
<1>5. OutcomeOnDisk'
  <2>1. SUFFICES ASSUME NEW s \in Logs PROVE EndedIn(View(s)', stored'[s])
    BY DEF OutcomeOnDisk, EndedIn, Entries
  <2> QED BY <1>2 DEF EndedIn
<1> QED BY <1>1, <1>3, <1>4, <1>5 DEF LogInv

LEMMA LogInvHolds == ChatLogSpec => []LogInv
<1>1. ChatLogInit => LogInv
  <2>1. SUFFICES ASSUME ChatLogInit PROVE LogInv
    OBVIOUS
  <2>2. \A s \in Logs : /\ View(s) = stored[s] /\ truth[s] = stored[s] /\ stored[s] = NoFile
                        /\ ~Cached(s)
    BY <2>1 DEF ChatLogInit, View, Cached
  <2>3. ChatLogTypeOK
    <3>1. <<>> \in Payload /\ NoFile \in Payload
      BY EmptySeq DEF Payload
    <3>2. {s \in Logs : Cached(s)} = {}
      BY <2>2
    <3>3. IsFiniteSet({s \in Logs : Cached(s)})
      BY <3>2, FS_EmptySet
    <3> QED BY <2>1, <3>1, <3>3 DEF ChatLogInit, ChatLogTypeOK
  <2>4. WaitsInMemory
    BY <2>1, <2>2 DEF WaitsInMemory, ChatLogInit
  <2>5. ReadsExact
    BY <2>2 DEF ReadsExact
  <2>6. OutcomeOnDisk
    BY <2>2 DEF OutcomeOnDisk
  <2> QED BY <2>3, <2>4, <2>5, <2>6 DEF LogInv
<1>2. LogInv /\ [ChatLogNext]_chatLogVars => LogInv'
  <2>1. SUFFICES ASSUME LogInv, [ChatLogNext]_chatLogVars PROVE LogInv'
    OBVIOUS
  <2>2. CASE UNCHANGED chatLogVars
    BY <2>1, <2>2 DEF chatLogVars, LogInv, ChatLogTypeOK, WaitsInMemory, ReadsExact,
                      OutcomeOnDisk, Cached, View, Entries
  <2>3. CASE IntervalPasses
    <3>1. recent' \subseteq recent /\ UNCHANGED <<stored, memory, recency, pending, truth, unsure>>
      BY <2>3 DEF IntervalPasses
    <3> QED BY <2>1, <3>1 DEF LogInv, ChatLogTypeOK, WaitsInMemory, ReadsExact,
                      OutcomeOnDisk, Cached, View, Entries
  <2>4. CASE \E s \in Logs : Get(s) \/ Delete(s)
    BY <2>1, <2>4, GetKeeps, DeleteKeeps
  <2>5. CASE \E s \in Logs, id \in RequestIds :
               StartEntry(s, id) \/ FinishEntry(s, id) \/ AppendToEntry(s, id)
    BY <2>1, <2>5, StartKeeps, FinishKeeps, LogAppends
  <2>6. CASE Flush
    BY <2>1, <2>6, FlushKeeps
  <2>7. CASE LogRestart
    BY <2>1, <2>7, LogRestartKeeps
  <2> QED BY <2>1, <2>2, <2>3, <2>4, <2>5, <2>6, <2>7 DEF ChatLogNext
<1> QED BY <1>1, <1>2, PTL DEF ChatLogSpec

\* Files, cache, its order and what waits for the disk are well formed.
THEOREM ChatLogTypeCorrect == ChatLogSpec => []ChatLogTypeOK
<1>1. LogInv => ChatLogTypeOK
  BY DEF LogInv
<1> QED BY <1>1, LogInvHolds, PTL

\* A reader is given what was written, for any number of sessions and any size of the cache.
THEOREM ReadersSeeWritten == ChatLogSpec => []ReadsExact
<1>1. LogInv => ReadsExact
  BY DEF LogInv
<1> QED BY <1>1, LogInvHolds, PTL

\* What readers see ended has ended on disk.
THEOREM OutcomesAreOnDisk == ChatLogSpec => []OutcomeOnDisk
<1>1. LogInv => OutcomeOnDisk
  BY DEF LogInv
<1> QED BY <1>1, LogInvHolds, PTL

=============================================================================
