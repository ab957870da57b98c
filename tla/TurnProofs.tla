----------------------------- MODULE TurnProofs -----------------------------
(***************************************************************************)
(* Proofs about a turn of a chat and what it stands on.  ChatSend, from    *)
(* its prompt to its answer, and AutoRouting, the model its requests are   *)
(* sent to: for every set of chats, words, requests, models and tokens.    *)
(* The supervisor of OpenCode's process, for every threshold and any       *)
(* number of faults; the credential caches, for any calls and accounts,    *)
(* and however long answers live, questions take and margins are.          *)
(***************************************************************************)
EXTENDS ChatSend, AutoRouting, Supervisor, Credentials, SequenceTheorems, WellFoundedInduction,
        FiniteSetTheorems, TLAPS


(***************************************************************************)
(* The sets of numbers that the models take the largest or the least of.   *)
(***************************************************************************)
LEMMA Least ==
  ASSUME NEW T \in SUBSET Nat, T # {}
  PROVE  \E x \in T : \A y \in T : x <= y
<1> DEFINE F == {0 .. t : t \in T}
<1>1. F \subseteq FiniteSubsetsOf(Nat)
  <2>1. \A t \in T : IsFiniteSet(0 .. t)
    BY FS_Interval
  <2> QED BY <2>1 DEF FiniteSubsetsOf
<1>2. F # {}
  OBVIOUS
<1>3. PICK X \in F : \A Y \in F : ~(<<Y, X>> \in StrictSubsetOrdering(Nat))
  <2> HIDE DEF F
  <2> QED BY <1>1, <1>2, FS_StrictSubsetOrderingWellFounded, WFMin
<1>4. PICK x \in T : X = 0 .. x
  OBVIOUS
<1>5. ASSUME NEW y \in T, y < x PROVE FALSE
  <2>1. 0 .. y \subseteq 0 .. x /\ 0 .. y # 0 .. x /\ 0 .. x \in SUBSET Nat /\ 0..y \in SUBSET Nat
    <3>1. x \in 0 .. x /\ x \notin 0 .. y
      BY <1>5
    <3> QED BY <3>1, <1>5
  <2>2. <<0 .. y, X>> \in StrictSubsetOrdering(Nat)
    BY <2>1, <1>4 DEF StrictSubsetOrdering
  <2> QED BY <2>2, <1>3
<1>6. \A y \in T : x <= y
  BY <1>5
<1> QED BY <1>6

LEMMA Greatest ==
  ASSUME NEW S \in SUBSET Nat, S # {}, IsFiniteSet(S)
  PROVE  \E x \in S : \A y \in S : y <= x
<1> DEFINE From(t) == {y \in S : y >= t}
           F == {From(t) : t \in S}
<1>1. F \subseteq FiniteSubsetsOf(Nat)
  <2>1. \A t \in S : IsFiniteSet(From(t))
    BY FS_Subset
  <2> QED BY <2>1 DEF FiniteSubsetsOf
<1>2. PICK X \in F : \A Y \in F : ~(<<Y, X>> \in StrictSubsetOrdering(Nat))
  <2>1. F # {}
    OBVIOUS
  <2> HIDE DEF F
  <2> QED BY <1>1, <2>1, FS_StrictSubsetOrderingWellFounded, WFMin
<1>3. PICK x \in S : X = From(x)
  OBVIOUS
<1>4. ASSUME NEW t \in S, ~(t <= x) PROVE FALSE
  <2>1. x \in Nat /\ t \in Nat /\ t > x
    BY <1>4
  <2>2. \A y \in From(t) : y \in From(x)
    <3> TAKE y \in From(t)
    <3>1. y \in S /\ y \in Nat /\ y >= t
      OBVIOUS
    <3> QED BY <3>1, <2>1
  <2>3. x \in From(x) /\ x \notin From(t)
    BY <2>1
  <2>4. <<From(t), X>> \in StrictSubsetOrdering(Nat)
    BY <2>2, <2>3, <1>3 DEF StrictSubsetOrdering
  <2> QED BY <2>4, <1>2
<1> QED BY <1>4

LEMMA MaxIn ==
  ASSUME NEW S \in SUBSET Nat, S # {}, IsFiniteSet(S)
  PROVE  Max(S) \in S /\ \A y \in S : y <= Max(S)
<1>1. \E x \in S : \A y \in S : x >= y
  BY Greatest
<1> QED BY <1>1 DEF Max

LEMMA MinIn ==
  ASSUME NEW S \in SUBSET Nat, S # {}
  PROVE  Min(S) \in S /\ \A y \in S : Min(S) <= y
<1>1. \E x \in S : \A y \in S : x =< y
  BY Least
<1> QED BY <1>1 DEF Min

(***************************************************************************)
(* Sequences.                                                              *)
(***************************************************************************)
LEMMA FunctionIsSeq ==
    ASSUME NEW S, NEW n \in Nat, NEW f \in [1 .. n -> S]
    PROVE  f \in Seq(S) /\ Len(f) = n
BY SeqDef

LEMMA Appended ==
    ASSUME NEW S, NEW s \in Seq(S), NEW e \in S
    PROVE  /\ Append(s, e) \in Seq(S)
           /\ DOMAIN Append(s, e) = DOMAIN s \cup {Len(s) + 1}
           /\ Len(s) + 1 \notin DOMAIN s
           /\ Append(s, e)[Len(s) + 1] = e
           /\ \A i \in DOMAIN s : Append(s, e)[i] = s[i]
BY AppendProperties, LenProperties

(***************************************************************************)
(* ChatSend: how messages are judged.                                      *)
(***************************************************************************)
LEMMA PlacesAreNumbers ==
    ASSUME history \in Seq(Message)
    PROVE  Places = 1 .. Len(history) /\ Len(history) \in Nat /\ Places \subseteq Nat
BY DEF Places

\* The last of some places of the history is one of them, or 0 if there are none.
LEMMA LastOfPlaces ==
    ASSUME history \in Seq(Message), NEW S \in SUBSET Places
    PROVE  Max({0} \cup S) \in Nat /\ (Max({0} \cup S) # 0 => Max({0} \cup S) \in S)
<1>1. Places = 1 .. Len(history) /\ Len(history) \in Nat
  BY PlacesAreNumbers
<1>2. IsFiniteSet({0} \cup S)
  <2>1. IsFiniteSet(1 .. Len(history))
    BY <1>1, FS_Interval
  <2>2. IsFiniteSet(S)
    BY <1>1, <2>1, FS_Subset
  <2>3. IsFiniteSet(S \cup {0})
    BY <2>2, FS_AddElement
  <2>4. S \cup {0} = {0} \cup S
    OBVIOUS
  <2>5. QED BY <2>3, <2>4
<1>3. {0} \cup S \in SUBSET Nat /\ {0} \cup S # {}
  BY <1>1
<1>4. QED BY <1>2, <1>3, MaxIn

\* A completion in a terminal state is a message of those given.
LEMMA CompletionIsGiven ==
    ASSUME history \in Seq(Message), NEW given \in SUBSET Places,
           Completion(given).state \in Terminal
    PROVE  Completion(given).place \in given
<1> DEFINE found == {n \in DOMAIN CompletionOrder : Latest(given, CompletionOrder[n]) # 0}
<1>1. found # {}
  BY DEF Completion, Terminal
<1>2. found \in SUBSET Nat
  BY DEF CompletionOrder
<1>3. Min(found) \in found
  BY <1>1, <1>2, MinIn
<1> DEFINE first == CompletionOrder[Min(found)]
<1>4. Latest(given, first) # 0
  BY <1>3
<1>5. Latest(given, first) \in given
  <2>1. {i \in given : history[i].is = first} \in SUBSET Places
    OBVIOUS
  <2>2. QED BY <2>1, <1>4, LastOfPlaces DEF Latest
<1>6. Completion(given).place = Latest(given, first)
  BY <1>1 DEF Completion
<1>7. QED BY <1>5, <1>6

(***************************************************************************)
(* ChatSend: a chat ends with what is its own.                             *)
(***************************************************************************)
Outcomes == {"", "raised", "dropped", "synthetic", "incomplete"} \cup Terminal

ChatRecord ==
  [pc : {"idle", "listed", "posted", "probing", "taking", "waiting", "over"},
   before : SUBSET Nat, blind : BOOLEAN, accepted : BOOLEAN,
   outcome : Outcomes,
   took : Nat, counted : SUBSET Nat, user : Nat]

SendTypeOK ==
  /\ history \in Seq(Message)
  /\ work \in [Senders -> {"none", "sent", "on", "off"}]
  /\ chat \in [Senders -> ChatRecord]
  /\ overlapped \subseteq Senders

\* What a chat that can see, and is alone, works with is there and its own.
Own(c) == {i \in Places : history[i].by = c}

\* Who is busy is alone with the session or known to be not.
AloneOrKnown ==
  \A c, d \in Senders : c # d /\ Busy(c) /\ Busy(d) => c \in overlapped

\* Until it is over, what came since a chat noted what was there is of its own prompt.
SinceIsOwn(c) == chat[c].pc \notin {"idle", "over"} => Places \ chat[c].before \subseteq Own(c)

TakenIsOwn(c) ==
  /\ chat[c].counted \cup ({chat[c].took, chat[c].user} \ {0}) \subseteq Own(c)
  /\ chat[c].accepted => \E i \in Prompts : history[i].by = c

SendInv ==
  /\ SendTypeOK
  /\ AloneOrKnown
  /\ \A c \in Senders \ overlapped : ~chat[c].blind => SinceIsOwn(c) /\ TakenIsOwn(c)

LEMMA SendTypesStart ==
    ASSUME SendInit
    PROVE  SendTypeOK
<1>1. NoChat \in ChatRecord
  BY DEF NoChat, ChatRecord, Outcomes
<1>2. history \in Seq(Message)
  BY DEF SendInit
<1>3. QED BY <1>1, <1>2 DEF SendInit, SendTypeOK

\* What a message that is added, or that changes, leaves of the history.
LEMMA HistoryGrows ==
    ASSUME history \in Seq(Message), NEW m \in Message, history' = Append(history, m)
    PROVE  /\ history' \in Seq(Message)
           /\ Places' = Places \cup {Len(history) + 1}
           /\ Len(history) + 1 \notin Places
           /\ history'[Len(history) + 1] = m
           /\ \A i \in Places : history'[i] = history[i]
BY DEF Places

LEMMA MessageChanges ==
    ASSUME history \in Seq(Message), NEW c \in Senders, LastOf(c) # 0,
           NEW j \in Judgements, history' = [history EXCEPT ![LastOf(c)].is = j]
    PROVE  /\ history' \in Seq(Message)
           /\ Places' = Places
           /\ Prompts' = Prompts
           /\ \A i \in Places : history'[i].by = history[i].by
<1> DEFINE k == LastOf(c)
<1>1. k \in Assistants
  <2>1. {i \in Assistants : history[i].by = c} \in SUBSET Places
    BY DEF Assistants
  <2>2. QED BY <2>1, LastOfPlaces DEF LastOf
<1>2. k \in Places /\ history[k].is # "prompt"
  BY <1>1 DEF Assistants, Prompts
<1> HIDE DEF k
<1>3. /\ [history[k] EXCEPT !.is = j] \in Message
      /\ [history[k] EXCEPT !.is = j].by = history[k].by
      /\ [history[k] EXCEPT !.is = j].is = j
  <2>1. history[k] \in Message
    BY <1>2 DEF Places
  <2>2. QED BY <2>1 DEF Message
<1>4. history' = [history EXCEPT ![k] = [history[k] EXCEPT !.is = j]]
  BY DEF k
<1>5. history' \in Seq(Message) /\ Places' = Places
  <2>1. k \in 1 .. Len(history)
    BY <1>2, PlacesAreNumbers
  <2> DEFINE e == [history[k] EXCEPT !.is = j]
  <2>2. e \in Message /\ history' = [history EXCEPT ![k] = e]
    BY <1>3, <1>4
  <2> HIDE DEF e
  <2>3. [history EXCEPT ![k] = e] \in Seq(Message) /\ Len([history EXCEPT ![k] = e]) = Len(history)
    BY <2>1, <2>2, ExceptSeq
  <2>4. history' \in Seq(Message) /\ Len(history') = Len(history)
    BY <2>2, <2>3
  <2>5. QED BY <2>4 DEF Places
<1>6. \A i \in Places : history'[i] = IF i = k THEN [history[k] EXCEPT !.is = j] ELSE history[i]
  BY <1>4 DEF Places
<1>7. j # "prompt"
  BY DEF Judgements
<1>8. Prompts' = Prompts
  BY <1>2, <1>3, <1>5, <1>6, <1>7 DEF Prompts
<1>9. QED BY <1>3, <1>5, <1>6, <1>8

\* A chat that accounts for what it lists.
LEMMA AccountsTypes ==
    ASSUME SendTypeOK, NEW c \in Senders, NEW listed \in SUBSET Places, NEW took \in Nat,
           NEW outcome \in Outcomes,
           AccountsFor(c, outcome, took, listed)
    PROVE  chat' \in [Senders -> ChatRecord]
<1>1. New(c, listed) \in SUBSET Nat
  <2>1. Places \subseteq Nat
    BY PlacesAreNumbers DEF SendTypeOK
  <2>2. QED BY <2>1 DEF New
<1>2. DetectedUser(c, listed) \in Nat
  <2>1. (listed \cap Prompts) \ chat[c].before \in SUBSET Places
    OBVIOUS
  <2>2. QED BY <2>1, LastOfPlaces DEF DetectedUser, SendTypeOK
<1>3. chat \in [Senders -> ChatRecord]
  BY DEF SendTypeOK
<1> DEFINE u == DetectedUser(c, listed)
           n == New(c, listed)
<1>4. chat' = [chat EXCEPT ![c] =
         [chat[c] EXCEPT !.pc = "over", !.outcome = outcome, !.took = took, !.before = {},
                         !.counted = chat[c].counted \cup n, !.user = u]]
  BY <1>3 DEF AccountsFor, ChatRecord
<1> HIDE DEF u, n
<1>5. [chat[c] EXCEPT !.pc = "over", !.outcome = outcome, !.took = took, !.before = {},
                         !.counted = chat[c].counted \cup n, !.user = u] \in ChatRecord
  BY <1>1, <1>2, <1>3 DEF ChatRecord, u, n
<1>6. QED BY <1>3, <1>4, <1>5

\* Taking a completion of New messages, or waiting.
LEMMA JudgedTypes ==
    ASSUME SendTypeOK, NEW c \in Senders, NEW given \in SUBSET Places,
           Completion(New(c, given)).state \in Terminal
    PROVE  /\ Completion(New(c, given)).place \in New(c, given)
           /\ Completion(New(c, given)).place \in Nat
<1>1. New(c, given) \in SUBSET Places /\ history \in Seq(Message)
  BY DEF New, SendTypeOK
<1>2. QED BY <1>1, CompletionIsGiven, PlacesAreNumbers

\* The reply is a message of the chat's own work, if there is one.
LEMMA OwnReply ==
    ASSUME history \in Seq(Message), NEW c \in Senders
    PROVE  LET own == {i \in Assistants : history[i].by = c}
           IN  (IF own = {} THEN {} ELSE {Max(own)}) \in SUBSET Places
<1> DEFINE own == {i \in Assistants : history[i].by = c}
<1>1. own \in SUBSET Places
  BY DEF Assistants
<1>2. own # {} => Max(own) \in own
  <2>1. own \in SUBSET Nat /\ IsFiniteSet(1 .. Len(history)) /\ own \subseteq 1 .. Len(history)
    BY <1>1, PlacesAreNumbers, FS_Interval
  <2>2. IsFiniteSet(own)
    BY <2>1, FS_Subset
  <2> HIDE DEF own
  <2>3. QED BY <2>1, <2>2, MaxIn
<1>3. QED BY <1>1, <1>2

LEMMA RecordsTake ==
    ASSUME NEW r \in ChatRecord, NEW p \in {"taking", "waiting"}, NEW o \in Outcomes,
           NEW k \in Nat, NEW n \in SUBSET Nat
    PROVE  /\ [r EXCEPT !.pc = p] \in ChatRecord
           /\ [r EXCEPT !.pc = p, !.outcome = o, !.took = k, !.counted = n] \in ChatRecord
           /\ [r EXCEPT !.pc = p, !.accepted = TRUE, !.outcome = o, !.took = k, !.counted = n]
                \in ChatRecord
BY DEF ChatRecord

LEMMA SendTypesStep ==
    ASSUME SendTypeOK, SendNext
    PROVE  SendTypeOK'
<1> USE DEF SendTypeOK
<1>1. PICK c \in Senders :
        \/ ListsBefore(c) \/ Posts(c) \/ SkillRefused(c) \/ PostRefused(c)
        \/ Disconnects(c) \/ Lost(c)
        \/ ReplyComes(c) \/ Probes(c) \/ ProbeEnds(c)
        \/ TakesReply(c) \/ Polls(c) \/ TimesOut(c) \/ PollFails(c)
        \/ Arrives(c) \/ Begins(c) \/ MessageBecomes(c) \/ Stops(c)
  BY DEF SendNext
<1>2. Places \in SUBSET Nat /\ chat[c] \in ChatRecord
  BY PlacesAreNumbers
<1>3. \A outcome \in {"raised", "dropped"} : Over(c, outcome) \in [Senders -> ChatRecord]
  <2> TAKE outcome \in {"raised", "dropped"}
  <2>1. Over(c, outcome) = [chat EXCEPT ![c] = [chat[c] EXCEPT !.pc = "over",
                                                  !.outcome = outcome, !.before = {}]]
    BY DEF Over
  <2>2. [chat[c] EXCEPT !.pc = "over", !.outcome = outcome, !.before = {}] \in ChatRecord
    BY <1>2 DEF ChatRecord, Outcomes
  <2>3. QED BY <2>1, <2>2
<1>4. CASE ListsBefore(c)
  <2>1. PICK blind \in BOOLEAN :
          chat' = [chat EXCEPT ![c] = [NoChat EXCEPT !.pc = "listed", !.blind = blind,
                                         !.before = IF blind THEN {} ELSE Places]]
    BY <1>4 DEF ListsBefore
  <2>2. [NoChat EXCEPT !.pc = "listed", !.blind = blind,
                       !.before = IF blind THEN {} ELSE Places] \in ChatRecord
    BY <1>2 DEF NoChat, ChatRecord, Outcomes
  <2>3. chat' \in [Senders -> ChatRecord]
    BY <2>1, <2>2
  <2>4. overlapped' \subseteq Senders
    BY <1>4 DEF ListsBefore
  <2>5. QED BY <1>4, <2>3, <2>4 DEF ListsBefore
<1>5. CASE Posts(c)
  <2>1. chat' = [chat EXCEPT ![c] = [chat[c] EXCEPT !.pc = "posted"]]
    BY <1>5 DEF Posts
  <2>2. [chat[c] EXCEPT !.pc = "posted"] \in ChatRecord
    BY <1>2 DEF ChatRecord
  <2>3. chat' \in [Senders -> ChatRecord]
    BY <2>1, <2>2
  <2>4. QED BY <1>5, <2>3 DEF Posts
<1>6. CASE SkillRefused(c)
  <2>1. chat' \in [Senders -> ChatRecord]
    BY <1>3, <1>6, AccountsTypes DEF SkillRefused, Outcomes
  <2>2. QED BY <1>6, <2>1 DEF SkillRefused
<1>7. CASE PostRefused(c)
  BY <1>3, <1>7 DEF PostRefused
<1>8. CASE Disconnects(c)
  <2>1. chat' \in [Senders -> ChatRecord]
    <3>1. [chat[c] EXCEPT !.pc = "probing"] \in ChatRecord
      BY <1>2 DEF ChatRecord
    <3>2. [chat EXCEPT ![c] = [chat[c] EXCEPT !.pc = "probing"]] \in [Senders -> ChatRecord]
      BY <3>1
    <3>3. QED BY <1>3, <1>8, <3>2 DEF Disconnects
  <2>2. QED BY <1>8, <2>1 DEF Disconnects
<1>9. CASE Lost(c)
  BY <1>9 DEF Lost
<1>10. CASE ReplyComes(c)
  <2> DEFINE own == {i \in Assistants : history[i].by = c}
             given == IF own = {} THEN {} ELSE {Max(own)}
             found == Completion(New(c, given))
  <2>1. given \in SUBSET Places
    BY OwnReply
  <2>2. JudgesReply(c, given) /\ UNCHANGED <<history, work, overlapped>>
    BY <1>10 DEF ReplyComes
  <2> HIDE DEF given
  <2>3. New(c, given) \in SUBSET Nat
    BY <1>2, <2>1 DEF New
  <2>4. CASE found.state \in Terminal
    <3>1. found.place \in Nat
      BY <2>1, <2>4, JudgedTypes
    <3>2. chat' = [chat EXCEPT ![c] = [chat[c] EXCEPT !.pc = "taking", !.outcome = found.state,
                                         !.took = found.place, !.counted = New(c, given)]]
      BY <2>2, <2>4 DEF JudgesReply
    <3>3. chat' \in [Senders -> ChatRecord]
      BY <1>2, <2>3, <2>4, <3>1, <3>2, RecordsTake DEF Outcomes
    <3>4. QED BY <2>2, <3>3
  <2>5. CASE found.state \notin Terminal
    <3>1. chat' = [chat EXCEPT ![c] = [chat[c] EXCEPT !.pc = "waiting"]]
      BY <2>2, <2>5 DEF JudgesReply
    <3>2. [chat[c] EXCEPT !.pc = "waiting"] \in ChatRecord
      BY <1>2 DEF ChatRecord
    <3>3. QED BY <2>2, <3>1, <3>2
  <2>6. QED BY <2>4, <2>5
<1>11. CASE Probes(c)
  <2> DEFINE found == Completion(New(c, Places))
             next == IF found.state \in Terminal THEN "taking" ELSE "waiting"
             o == IF next = "taking" THEN found.state ELSE ""
             k == IF next = "taking" THEN found.place ELSE 0
  <2>1. o \in Outcomes /\ k \in Nat /\ next \in {"taking", "waiting"}
    BY JudgedTypes DEF Outcomes
  <2>2. chat' = [chat EXCEPT ![c] = [chat[c] EXCEPT !.pc = next, !.accepted = TRUE,
                                       !.outcome = o, !.took = k, !.counted = New(c, Places)]]
    BY <1>11 DEF Probes
  <2>3. New(c, Places) \in SUBSET Nat
    BY <1>2 DEF New
  <2> HIDE DEF o, k, next
  <2>4. chat' \in [Senders -> ChatRecord]
    BY <1>2, <2>1, <2>2, <2>3, RecordsTake
  <2>5. QED BY <1>11, <2>4 DEF Probes
<1>12. CASE ProbeEnds(c)
  BY <1>3, <1>12 DEF ProbeEnds
<1>13. CASE TakesReply(c)
  <2>1. PICK listed \in {{}, Places} : AccountsFor(c, chat[c].outcome, chat[c].took, listed)
    BY <1>13 DEF TakesReply
  <2>2. chat[c].took \in Nat
    BY <1>2 DEF ChatRecord
  <2>3. chat[c].outcome \in Outcomes
    BY <1>2 DEF ChatRecord
  <2>4. chat' \in [Senders -> ChatRecord]
    BY <2>1, <2>2, <2>3, AccountsTypes
  <2>5. QED BY <1>13, <2>4 DEF TakesReply
<1>14. CASE Polls(c)
  <2> DEFINE found == Completion(New(c, Places))
  <2>1. found.state \in Terminal /\ AccountsFor(c, found.state, found.place, Places)
    BY <1>14 DEF Polls
  <2>2. found.place \in Nat
    BY <2>1, JudgedTypes
  <2> HIDE DEF found
  <2>3. chat' \in [Senders -> ChatRecord]
    BY <2>1, <2>2, AccountsTypes DEF Outcomes
  <2>4. QED BY <1>14, <2>3 DEF Polls
<1>15. CASE TimesOut(c)
  <2>1. chat' \in [Senders -> ChatRecord]
    BY <1>15, AccountsTypes DEF TimesOut, Outcomes
  <2>2. QED BY <1>15, <2>1 DEF TimesOut
<1>16. CASE PollFails(c)
  BY <1>3, <1>16 DEF PollFails
<1>17. CASE Arrives(c)
  <2>1. [by |-> c, is |-> "prompt"] \in Message
    BY DEF Message
  <2>2. history' \in Seq(Message)
    BY <1>17, <2>1, HistoryGrows DEF Arrives
  <2>3. QED BY <1>17, <2>2 DEF Arrives
<1>18. CASE Begins(c)
  <2>1. [by |-> c, is |-> "working"] \in Message
    BY DEF Message, Judgements
  <2>2. history' \in Seq(Message)
    BY <1>18, <2>1, HistoryGrows DEF Begins
  <2>3. QED BY <1>18, <2>2 DEF Begins
<1>19. CASE MessageBecomes(c)
  <2>1. PICK j \in Judgements : history' = [history EXCEPT ![LastOf(c)].is = j]
    BY <1>19 DEF MessageBecomes, Judgements
  <2>2. history' \in Seq(Message)
    BY <1>19, <2>1, MessageChanges DEF MessageBecomes
  <2>3. QED BY <1>19, <2>2 DEF MessageBecomes
<1>20. CASE Stops(c)
  BY <1>20 DEF Stops
<1>21. QED BY <1>1, <1>4, <1>5, <1>6, <1>7, <1>8, <1>9, <1>10, <1>11, <1>12, <1>13, <1>14, <1>15,
              <1>16, <1>17, <1>18, <1>19, <1>20

LEMMA AloneStep ==
    ASSUME SendTypeOK, AloneOrKnown, SendNext
    PROVE  AloneOrKnown'
<1> USE DEF SendTypeOK
<1>1. PICK c \in Senders :
        \/ ListsBefore(c) \/ Posts(c) \/ SkillRefused(c) \/ PostRefused(c)
        \/ Disconnects(c) \/ Lost(c)
        \/ ReplyComes(c) \/ Probes(c) \/ ProbeEnds(c)
        \/ TakesReply(c) \/ Polls(c) \/ TimesOut(c) \/ PollFails(c)
        \/ Arrives(c) \/ Begins(c) \/ MessageBecomes(c) \/ Stops(c)
  BY DEF SendNext
<1>2. CASE ListsBefore(c)
  <2>1. \A d \in Senders \ {c} : chat'[d] = chat[d] /\ work'[d] = work[d]
    BY <1>2 DEF ListsBefore
  <2>2. \A d \in Senders \ {c} : Busy(d)' <=> Busy(d)
    BY <2>1 DEF Busy
  <2>3. /\ overlapped \subseteq overlapped'
        /\ \A d \in Senders \ {c} : Busy(d) => {c, d} \subseteq overlapped'
    BY <1>2 DEF ListsBefore
  <2>4. QED BY <2>2, <2>3 DEF AloneOrKnown
<1>3. CASE ~ListsBefore(c)
  <2>1. UNCHANGED overlapped
    BY <1>1, <1>3 DEF Posts, SkillRefused, PostRefused, Disconnects, Lost, ReplyComes, Probes,
      ProbeEnds, TakesReply, Polls, TimesOut, PollFails, Arrives, Begins, MessageBecomes, Stops
  <2>2. /\ \A d \in Senders \ {c} : chat'[d].pc = chat[d].pc
        /\ chat[c].pc = "idle" => chat'[c].pc = "idle"
        /\ chat[c].pc = "over" => chat'[c].pc = "over"
    BY <1>1, <1>3 DEF Posts, SkillRefused, PostRefused, Disconnects, Lost, ReplyComes, Probes,
      ProbeEnds, TakesReply, Polls, TimesOut, PollFails, Arrives, Begins, MessageBecomes, Stops,
      AccountsFor, Over, JudgesReply
  <2>3. /\ \A d \in Senders \ {c} : work'[d] = work[d]
        /\ work'[c] \in {"sent", "on"} => work[c] \in {"sent", "on"} \/ chat[c].pc = "listed"
    BY <1>1, <1>3 DEF Posts, SkillRefused, PostRefused, Disconnects, Lost, ReplyComes, Probes,
      ProbeEnds, TakesReply, Polls, TimesOut, PollFails, Arrives, Begins, MessageBecomes, Stops
  <2>4. \A d \in Senders : Busy(d)' => Busy(d)
    BY <2>2, <2>3 DEF Busy
  <2>5. QED BY <2>1, <2>4 DEF AloneOrKnown
<1>4. QED BY <1>2, <1>3

\* What a chat takes from a listing is its own, if what came since it began is.
LEMMA ListedIsOwn ==
    ASSUME SendTypeOK, NEW c \in Senders, chat[c].pc \notin {"idle", "over"}, SinceIsOwn(c),
           NEW listed \in SUBSET Places
    PROVE  /\ New(c, listed) \subseteq Own(c)
           /\ DetectedUser(c, listed) # 0 => DetectedUser(c, listed) \in Own(c)
<1>1. New(c, listed) \subseteq Own(c)
  BY DEF New, SinceIsOwn
<1>2. ASSUME DetectedUser(c, listed) # 0 PROVE DetectedUser(c, listed) \in Own(c)
  <2>1. (listed \cap Prompts) \ chat[c].before \in SUBSET Places
    OBVIOUS
  <2>2. DetectedUser(c, listed) \in (listed \cap Prompts) \ chat[c].before
    BY <1>2, <2>1, LastOfPlaces DEF DetectedUser, SendTypeOK
  <2>3. QED BY <2>2 DEF SinceIsOwn
<1>3. QED BY <1>1, <1>2

LEMMA AccountsOwn ==
    ASSUME SendTypeOK, NEW c \in Senders, chat[c].pc \notin {"idle", "over"}, SinceIsOwn(c),
           TakenIsOwn(c), NEW listed \in SUBSET Places, NEW outcome,
           NEW took, took = 0 \/ took \in Own(c),
           AccountsFor(c, outcome, took, listed), UNCHANGED history
    PROVE  SinceIsOwn(c)' /\ TakenIsOwn(c)'
<1>1. /\ chat'[c].pc = "over" /\ chat'[c].took = took
      /\ chat'[c].counted = chat[c].counted \cup New(c, listed)
      /\ chat'[c].user = DetectedUser(c, listed)
      /\ chat'[c].accepted = chat[c].accepted
  BY DEF AccountsFor, SendTypeOK, ChatRecord
<1>2. Own(c)' = Own(c) /\ Prompts' = Prompts
  BY DEF Own, Prompts, Places
<1>3. SinceIsOwn(c)'
  BY <1>1 DEF SinceIsOwn
<1>4. TakenIsOwn(c)'
  BY <1>1, <1>2, ListedIsOwn DEF TakenIsOwn
<1>5. QED BY <1>3, <1>4

LEMMA OverOwn ==
    ASSUME SendTypeOK, NEW c \in Senders, TakenIsOwn(c), NEW outcome,
           chat' = Over(c, outcome), UNCHANGED history
    PROVE  SinceIsOwn(c)' /\ TakenIsOwn(c)'
<1>1. /\ chat'[c].pc = "over" /\ chat'[c].took = chat[c].took
      /\ chat'[c].counted = chat[c].counted /\ chat'[c].user = chat[c].user
      /\ chat'[c].accepted = chat[c].accepted
  BY DEF Over, SendTypeOK, ChatRecord
<1>2. Own(c)' = Own(c) /\ Prompts' = Prompts
  BY DEF Own, Prompts, Places
<1>3. QED BY <1>1, <1>2 DEF SinceIsOwn, TakenIsOwn

LEMMA UnchangedOwn ==
    ASSUME NEW d \in Senders, SinceIsOwn(d), TakenIsOwn(d), chat'[d] = chat[d],
           UNCHANGED history
    PROVE  SinceIsOwn(d)' /\ TakenIsOwn(d)'
<1>1. Own(d)' = Own(d) /\ Prompts' = Prompts /\ Places' = Places
  BY DEF Own, Prompts, Places
<1>2. QED BY <1>1 DEF SinceIsOwn, TakenIsOwn

\* A message of a prompt at work comes while nobody else is busy, or is known to be.
LEMMA GrowthOwn ==
    ASSUME SendTypeOK, AloneOrKnown, NEW c \in Senders, Busy(c), NEW m \in Message, m.by = c,
           history' = Append(history, m), UNCHANGED chat,
           NEW d \in Senders \ overlapped, SinceIsOwn(d), TakenIsOwn(d)
    PROVE  SinceIsOwn(d)' /\ TakenIsOwn(d)'
<1>1. /\ Places' = Places \cup {Len(history) + 1}
      /\ history'[Len(history) + 1] = m
      /\ \A i \in Places : history'[i] = history[i]
  BY HistoryGrows DEF SendTypeOK
<1>2. Own(d) \subseteq Own(d)' /\ Prompts \subseteq Prompts'
  BY <1>1 DEF Own, Prompts
<1>3. TakenIsOwn(d)'
  BY <1>1, <1>2 DEF TakenIsOwn, Prompts
<1>4. SinceIsOwn(d)'
  <2>1. SUFFICES ASSUME chat[d].pc \notin {"idle", "over"}
                 PROVE  (Places \ chat[d].before \subseteq Own(d))'
    BY DEF SinceIsOwn
  <2>2. d = c
    BY <2>1 DEF AloneOrKnown, Busy
  <2>3. Len(history) + 1 \in Own(d)'
    BY <1>1, <2>2 DEF Own
  <2>4. QED BY <1>1, <1>2, <2>1, <2>3 DEF SinceIsOwn
<1>5. QED BY <1>3, <1>4

LEMMA OwnStep ==
    ASSUME SendInv, SendNext, NEW d \in Senders \ overlapped', ~chat'[d].blind
    PROVE  SinceIsOwn(d)' /\ TakenIsOwn(d)'
<1> USE DEF SendTypeOK
<1>1. PICK c \in Senders :
        \/ ListsBefore(c) \/ Posts(c) \/ SkillRefused(c) \/ PostRefused(c)
        \/ Disconnects(c) \/ Lost(c)
        \/ ReplyComes(c) \/ Probes(c) \/ ProbeEnds(c)
        \/ TakesReply(c) \/ Polls(c) \/ TimesOut(c) \/ PollFails(c)
        \/ Arrives(c) \/ Begins(c) \/ MessageBecomes(c) \/ Stops(c)
  BY DEF SendNext
<1>2. SendTypeOK /\ AloneOrKnown /\ Places \in SUBSET Places
  BY DEF SendInv
<1>3. CASE ListsBefore(c) /\ d = c
  <2>1. /\ chat'[c].before = Places /\ chat'[c].counted = {} /\ chat'[c].took = 0
        /\ chat'[c].user = 0 /\ chat'[c].accepted = FALSE
    BY <1>2, <1>3 DEF ListsBefore, NoChat
  <2>2. Places' = Places
    BY <1>3 DEF ListsBefore, Places
  <2>3. QED BY <1>3, <2>1, <2>2 DEF SinceIsOwn, TakenIsOwn
<1>4. d \notin overlapped
  <2>1. overlapped \subseteq overlapped'
    BY <1>1 DEF ListsBefore, Posts, SkillRefused, PostRefused, Disconnects, Lost, ReplyComes,
      Probes, ProbeEnds, TakesReply, Polls, TimesOut, PollFails, Arrives, Begins, MessageBecomes,
      Stops
  <2>2. QED BY <2>1
<1>5. CASE ~(ListsBefore(c) /\ d = c)
  <2>1. chat'[d].blind = chat[d].blind
    <3>1. CASE d # c
      BY <1>1, <1>2, <3>1 DEF ListsBefore, Posts, SkillRefused, PostRefused, Disconnects, Lost,
        ReplyComes, Probes, ProbeEnds, TakesReply, Polls, TimesOut, PollFails, Arrives, Begins,
        MessageBecomes, Stops, AccountsFor, Over, JudgesReply
    <3>2. CASE d = c /\ (Posts(c) \/ Disconnects(c) \/ ReplyComes(c))
      <4>1. \A o : chat' = Over(c, o) => chat'[c].blind = chat[c].blind
        BY <1>2 DEF Over, ChatRecord
      <4>2. \A given : JudgesReply(c, given) => chat'[c].blind = chat[c].blind
        BY <1>2 DEF JudgesReply, ChatRecord
      <4>3. CASE Posts(c)
        BY <1>2, <3>2, <4>3 DEF Posts, ChatRecord
      <4>4. CASE Disconnects(c)
        BY <1>2, <3>2, <4>1, <4>4 DEF Disconnects, ChatRecord
      <4>5. CASE ReplyComes(c)
        BY <3>2, <4>2, <4>5 DEF ReplyComes
      <4>6. QED BY <3>2, <4>3, <4>4, <4>5
    <3>3. CASE d = c /\ Probes(c)
      <4> DEFINE found == Completion(New(c, Places))
                 next == IF found.state \in Terminal THEN "taking" ELSE "waiting"
                 o == IF next = "taking" THEN found.state ELSE ""
                 k == IF next = "taking" THEN found.place ELSE 0
                 x == [chat[c] EXCEPT !.pc = next, !.accepted = TRUE, !.outcome = o, !.took = k,
                                      !.counted = New(c, Places)]
      <4>1. chat' = [chat EXCEPT ![c] = x]
        BY <3>3 DEF Probes
      <4> HIDE DEF next, o, k
      <4>2. x.blind = chat[c].blind
        BY <1>2 DEF ChatRecord
      <4> HIDE DEF x
      <4>3. chat'[c] = x
        BY <1>2, <4>1
      <4>4. QED BY <3>3, <4>2, <4>3
    <3>4. CASE d = c /\ (SkillRefused(c) \/ TakesReply(c) \/ Polls(c) \/ TimesOut(c))
      <4>1. \A o : chat' = Over(c, o) => chat'[c].blind = chat[c].blind
        BY <1>2 DEF Over, ChatRecord
      <4>2. \A o, k, listed : AccountsFor(c, o, k, listed) => chat'[c].blind = chat[c].blind
        BY <1>2 DEF AccountsFor, ChatRecord
      <4>3. QED BY <3>4, <4>1, <4>2 DEF SkillRefused, TakesReply, Polls, TimesOut
    <3>5. CASE d = c /\ (PostRefused(c) \/ ProbeEnds(c) \/ PollFails(c))
      BY <1>2, <3>5 DEF PostRefused, ProbeEnds, PollFails, Over, ChatRecord
    <3>6. CASE Lost(c) \/ Arrives(c) \/ Begins(c) \/ MessageBecomes(c) \/ Stops(c)
      BY <3>6 DEF Lost, Arrives, Begins, MessageBecomes, Stops
    <3>7. QED BY <1>1, <1>5, <3>1, <3>2, <3>3, <3>4, <3>5, <3>6
  <2>2. SinceIsOwn(d) /\ TakenIsOwn(d)
    BY <1>4, <2>1 DEF SendInv
  <2>3. CASE UNCHANGED history /\ chat'[d] = chat[d]
    BY <2>2, <2>3, UnchangedOwn
  <2>4. CASE ListsBefore(c)
    <3>1. UNCHANGED history /\ chat'[d] = chat[d]
      BY <1>2, <1>5, <2>4 DEF ListsBefore
    <3>2. QED BY <2>3, <3>1
  <2>5. CASE d # c /\ UNCHANGED history
    <3>1. chat'[d] = chat[d]
      BY <1>1, <1>2, <2>5 DEF ListsBefore, Posts, SkillRefused, PostRefused, Disconnects, Lost,
        ReplyComes, Probes, ProbeEnds, TakesReply, Polls, TimesOut, PollFails, Arrives, Begins,
        MessageBecomes, Stops, AccountsFor, Over, JudgesReply
    <3>2. QED BY <2>3, <2>5, <3>1
  <2>6. CASE Lost(c) \/ Stops(c)
    BY <2>3, <2>6 DEF Lost, Stops
  <2>7. CASE Arrives(c)
    <3>1. [by |-> c, is |-> "prompt"] \in Message /\ Busy(c)
      BY <2>7 DEF Message, Arrives, Busy
    <3>2. QED BY <1>2, <1>4, <2>2, <2>7, <3>1, GrowthOwn DEF Arrives
  <2>8. CASE Begins(c)
    <3>1. [by |-> c, is |-> "working"] \in Message /\ Busy(c)
      BY <2>8 DEF Message, Judgements, Begins, Busy
    <3>2. QED BY <1>2, <1>4, <2>2, <2>8, <3>1, GrowthOwn DEF Begins
  <2>9. CASE MessageBecomes(c)
    <3>1. PICK j \in Judgements : history' = [history EXCEPT ![LastOf(c)].is = j]
      BY <2>9 DEF MessageBecomes, Judgements
    <3>2. Places' = Places /\ Prompts' = Prompts /\ \A i \in Places : history'[i].by = history[i].by
      BY <1>2, <2>9, <3>1, MessageChanges DEF MessageBecomes
    <3>3. Own(d)' = Own(d) /\ chat' = chat
      BY <2>9, <3>2 DEF Own, MessageBecomes
    <3>4. QED BY <2>2, <3>2, <3>3 DEF SinceIsOwn, TakenIsOwn, Prompts
  <2>10. CASE d = c /\ Posts(c)
    <3>1. /\ chat'[c].before = chat[c].before /\ chat'[c].counted = chat[c].counted
          /\ chat'[c].took = chat[c].took /\ chat'[c].user = chat[c].user
          /\ chat'[c].accepted = chat[c].accepted /\ chat[c].pc = "listed" /\ history' = history
      BY <1>2, <2>10 DEF Posts, ChatRecord
    <3>2. Own(c)' = Own(c) /\ Prompts' = Prompts /\ Places' = Places
      BY <3>1 DEF Own, Prompts, Places
    <3>3. QED BY <2>2, <2>10, <3>1, <3>2 DEF SinceIsOwn, TakenIsOwn
  <2>11. CASE d = c /\ SkillRefused(c)
    BY <1>2, <2>2, <2>11, AccountsOwn, OverOwn DEF SkillRefused
  <2>12. CASE d = c /\ (PostRefused(c) \/ ProbeEnds(c) \/ PollFails(c))
    BY <1>2, <2>2, <2>12, OverOwn DEF PostRefused, ProbeEnds, PollFails
  <2>13. CASE d = c /\ Disconnects(c)
    <3>1. CASE HasProbe(c)
      <4>1. /\ chat'[c].before = chat[c].before /\ chat'[c].counted = chat[c].counted
            /\ chat'[c].took = chat[c].took /\ chat'[c].user = chat[c].user
            /\ chat'[c].accepted = chat[c].accepted /\ chat[c].pc = "posted" /\ history' = history
        BY <1>2, <2>13, <3>1 DEF Disconnects, ChatRecord
      <4>2. Own(c)' = Own(c) /\ Prompts' = Prompts /\ Places' = Places
        BY <4>1 DEF Own, Prompts, Places
      <4>3. QED BY <2>2, <2>13, <4>1, <4>2 DEF SinceIsOwn, TakenIsOwn
    <3>2. CASE ~HasProbe(c)
      BY <1>2, <2>2, <2>13, <3>2, OverOwn DEF Disconnects
    <3>3. QED BY <3>1, <3>2
  <2>14. CASE d = c /\ ReplyComes(c)
    <3> DEFINE own == {i \in Assistants : history[i].by = c}
               given == IF own = {} THEN {} ELSE {Max(own)}
               found == Completion(New(c, given))
    <3>1. given \in SUBSET Places
      BY <1>2, OwnReply
    <3>2. JudgesReply(c, given) /\ history' = history /\ chat[c].pc = "posted"
      BY <2>14 DEF ReplyComes
    <3> HIDE DEF given
    <3>3. New(c, given) \subseteq Own(c)
      BY <1>2, <2>2, <2>14, <3>1, <3>2, ListedIsOwn
    <3>4. /\ chat'[c].before = chat[c].before /\ chat'[c].user = chat[c].user
          /\ chat'[c].accepted = chat[c].accepted
          /\ chat'[c].took = chat[c].took \/ chat'[c].took \in Own(c)
          /\ chat'[c].counted = chat[c].counted \/ chat'[c].counted = New(c, given)
      <4>1. CASE found.state \in Terminal
        <5>1. found.place \in Own(c)
          BY <1>2, <3>1, <3>3, <4>1, JudgedTypes
        <5>2. QED BY <1>2, <3>2, <4>1, <5>1 DEF JudgesReply, ChatRecord
      <4>2. CASE found.state \notin Terminal
        BY <1>2, <3>2, <4>2 DEF JudgesReply, ChatRecord
      <4>3. QED BY <4>1, <4>2
    <3>5. Own(c)' = Own(c) /\ Prompts' = Prompts /\ Places' = Places
      BY <3>2 DEF Own, Prompts, Places
    <3>6. QED BY <2>2, <2>14, <3>2, <3>3, <3>4, <3>5 DEF SinceIsOwn, TakenIsOwn
  <2>15. CASE d = c /\ Probes(c)
    <3> DEFINE found == Completion(New(c, Places))
               k == IF found.state \in Terminal THEN found.place ELSE 0
    <3>1. New(c, Places) \subseteq Own(c) /\ chat[c].pc = "probing" /\ history' = history
      BY <1>2, <2>2, <2>15, ListedIsOwn DEF Probes
    <3>2. k = 0 \/ k \in Own(c)
      BY <1>2, <3>1, JudgedTypes
    <3>3. /\ chat'[c].before = chat[c].before /\ chat'[c].user = chat[c].user
          /\ chat'[c].took = k /\ chat'[c].counted = New(c, Places)
      <4>1. CASE found.state \in Terminal
        BY <1>2, <2>15, <4>1 DEF Probes, ChatRecord
      <4>2. CASE found.state \notin Terminal
        <5>1. chat' = [chat EXCEPT ![c] =
                 [chat[c] EXCEPT !.pc = "waiting", !.accepted = TRUE, !.outcome = "",
                                 !.took = 0, !.counted = New(c, Places)]]
          BY <2>15, <4>2 DEF Probes
        <5>2. chat'[c] = [chat[c] EXCEPT !.pc = "waiting", !.accepted = TRUE, !.outcome = "",
                                         !.took = 0, !.counted = New(c, Places)]
          BY <1>2, <5>1
        <5>3. chat[c] \in ChatRecord
          BY <1>2
        <5>4. QED BY <4>2, <5>2, <5>3 DEF ChatRecord
      <4>3. QED BY <4>1, <4>2
    <3>4. \E i \in Prompts : history[i].by = c
      <4>1. PICK i \in Prompts : history[i].by = c \/ i \notin chat[c].before
        BY <2>15 DEF Probes, Detected
      <4>2. i \in Own(c)
        BY <2>2, <2>15, <3>1, <4>1 DEF SinceIsOwn, Own, Prompts
      <4>3. QED BY <4>1, <4>2 DEF Own
    <3>5. Own(c)' = Own(c) /\ Prompts' = Prompts /\ Places' = Places
      BY <3>1 DEF Own, Prompts, Places
    <3> HIDE DEF k
    <3>6. QED BY <2>2, <2>15, <3>1, <3>2, <3>3, <3>4, <3>5 DEF SinceIsOwn, TakenIsOwn
  <2>16. CASE d = c /\ TakesReply(c)
    <3>1. PICK listed \in {{}, Places} : AccountsFor(c, chat[c].outcome, chat[c].took, listed)
      BY <2>16 DEF TakesReply
    <3>2. /\ chat[c].pc \notin {"idle", "over"} /\ history' = history /\ listed \in SUBSET Places
          /\ chat[c].took = 0 \/ chat[c].took \in Own(c)
      BY <2>2, <2>16, <3>1 DEF TakesReply, TakenIsOwn
    <3>3. QED BY <1>2, <2>2, <2>16, <3>1, <3>2, AccountsOwn
  <2>17. CASE d = c /\ Polls(c)
    <3> DEFINE found == Completion(New(c, Places))
    <3>1. /\ chat[c].pc \notin {"idle", "over"} /\ history' = history
          /\ found.state \in Terminal /\ AccountsFor(c, found.state, found.place, Places)
      BY <2>17 DEF Polls
    <3>2. found.place \in Own(c)
      BY <1>2, <2>2, <2>17, <3>1, JudgedTypes, ListedIsOwn
    <3> HIDE DEF found
    <3>3. QED BY <1>2, <2>2, <2>17, <3>1, <3>2, AccountsOwn
  <2>18. CASE d = c /\ TimesOut(c)
    BY <1>2, <2>2, <2>18, AccountsOwn DEF TimesOut
  <2>19. CASE d # c /\ ~(Arrives(c) \/ Begins(c) \/ MessageBecomes(c) \/ ListsBefore(c))
    <3>1. UNCHANGED history
      BY <1>1, <2>19 DEF Posts, SkillRefused, PostRefused, Disconnects, Lost, ReplyComes, Probes,
        ProbeEnds, TakesReply, Polls, TimesOut, PollFails, Stops
    <3>2. QED BY <2>5, <2>19, <3>1
  <2>20. QED
    BY <1>1, <1>5, <2>4, <2>6, <2>7, <2>8, <2>9, <2>10, <2>11, <2>12, <2>13, <2>14, <2>15, <2>16,
       <2>17, <2>18, <2>19
<1>6. QED BY <1>3, <1>5

(* SendTypeOK and the sources of what a chat takes, in every state. *)
LEMMA SendInvHolds == SendSpec => []SendInv
<1>1. SendInit => SendInv
  <2>1. ASSUME SendInit PROVE SendInv
    <3>1. SendTypeOK
      BY <2>1, SendTypesStart
    <3>2. AloneOrKnown
      BY <2>1 DEF SendInit, AloneOrKnown, Busy, NoChat
    <3>3. \A c \in Senders : SinceIsOwn(c) /\ TakenIsOwn(c)
      BY <2>1 DEF SendInit, SinceIsOwn, TakenIsOwn, NoChat
    <3>4. QED BY <3>1, <3>2, <3>3 DEF SendInv
  <2>2. QED BY <2>1
<1>2. SendInv /\ [SendNext]_sendVars => SendInv'
  <2>1. ASSUME SendInv, SendNext PROVE SendInv'
    <3>1. SendTypeOK'
      BY <2>1, SendTypesStep DEF SendInv
    <3>2. AloneOrKnown'
      BY <2>1, AloneStep DEF SendInv
    <3>3. \A d \in Senders \ overlapped' : ~chat'[d].blind => SinceIsOwn(d)' /\ TakenIsOwn(d)'
      BY <2>1, OwnStep
    <3>4. QED BY <3>1, <3>2, <3>3 DEF SendInv
  <2>2. ASSUME SendInv, UNCHANGED sendVars PROVE SendInv'
    BY <2>2 DEF SendInv, sendVars, SendTypeOK, AloneOrKnown, Busy, SinceIsOwn, TakenIsOwn, Own,
      Prompts, Places
  <2>3. QED BY <2>1, <2>2
<1>3. QED BY <1>1, <1>2, PTL DEF SendSpec

\* The state of every chat, of its session's history and of OpenCode's work is well formed.
THEOREM SendTypeCorrect == SendSpec => []SendTypeOK
<1>1. SendInv => SendTypeOK
  BY DEF SendInv
<1>2. QED BY <1>1, SendInvHolds, PTL

\* A chat that was alone in its session, and could list what was there, answers with its own
\* answer, accounts for its own messages, and waits after a broken connection only if
\* OpenCode has its prompt (chat_api.py), for any number of chats of any words.
THEOREM AnswersAreOwn == SendSpec => []AnswerIsOwn
<1>1. SendInv => AnswerIsOwn
  BY DEF SendInv, AnswerIsOwn, TakenIsOwn, Own
<1>2. QED BY <1>1, SendInvHolds, PTL

(***************************************************************************)
(* AutoRouting: what its state is made of.                                 *)
(***************************************************************************)
Turns == {Turn(r) : r \in AutoRequests} \cup {NoTurn}

Efforts == UNION {row.efforts : row \in Rows}

DecisionRecord ==
  [turn : Turns, token : Tokens \cup {""}, by : AutoRequests \cup {""},
   model : Models \cup {Fallback}, session : BOOLEAN, efforts : SUBSET Efforts, old : BOOLEAN]

RequestRecord ==
  [pc : {"idle", "waiting", "asking", "listing", "routed", "over"}, token : Tokens \cup {""},
   pick : Models \cup {Fallback}, row : Rows \cup {NoRow}, decision : DecisionRecord,
   effort : ToSet(EffortLadder) \cup {""}, reported : Models \cup {Fallback, ""}]

CatalogRecord ==
  [token : Tokens \cup {""}, rows : [Models -> Rows \cup {NoRow}], stale : BOOLEAN]

RoutingTypeOK ==
  /\ token \in Tokens
  /\ request \in [AutoRequests -> RequestRecord]
  /\ routing \in Seq(AutoRequests)
  /\ decisions \in Seq(DecisionRecord)
  /\ catalog \in CatalogRecord
  /\ failed \subseteq Tokens \cup {""}
  /\ last \in DecisionRecord
  /\ dropped \subseteq AutoRequests \cup {""}
  /\ overtaken \subseteq AutoRequests

(***************************************************************************)
(* AutoRouting: a turn is routed once.                                     *)
(***************************************************************************)
Deciding(r) == request[r].pc \in {"asking", "listing"}

\* Who asks holds the lock, and found nothing it could reuse; a pick is a model.
LockHeld ==
  \A r \in AutoRequests :
    /\ Deciding(r) => routing # <<>> /\ Head(routing) = r /\ \A i \in Position(r) : decisions[i].old
    /\ request[r].pc = "listing" => request[r].pick \in Models

\* A decision is the only one of its key, and one that has grown old is known to have.
KeysApart ==
  \A i, j \in DOMAIN decisions :
    /\ decisions[i].turn = decisions[j].turn /\ decisions[i].token = decisions[j].token => i = j
    /\ decisions[i].old => decisions[i].by \in dropped

\* What a request was given is remembered still, or is known not to be.
Findable(d) ==
  \/ d.turn = NoTurn
  \/ d.by \in dropped
  \/ \E i \in DOMAIN decisions : /\ decisions[i].turn = d.turn /\ decisions[i].token = d.token
                                /\ decisions[i].by = d.by

AllFindable ==
  \A q \in AutoRequests : \E d \in DecisionRecord : d = request[q].decision /\ Findable(d)

\* Nothing was given to another since.
LastIsOwn ==
  \A r \in AutoRequests \ overtaken :
    /\ request[r].pc = "routed" => last.model = request[r].decision.model
    /\ request[r].pc = "over" => request[r].reported = request[r].decision.model

RoutingInv ==
  /\ RoutingTypeOK
  /\ LockHeld
  /\ KeysApart
  /\ AllFindable
  /\ LastIsOwn

\* The decision that a request asks for.
DecisionOf(r, d) ==
  d \in DecisionRecord /\ d.turn = Turn(r) /\ d.token = request[r].token /\ d.by = r /\ ~d.old

(***************************************************************************)
(* AutoRouting: the operators.                                             *)
(***************************************************************************)
\* An effort that is clamped is one of the ladder.
LEMMA ClampTypes ==
    ASSUME NEW effort \in ToSet(EffortLadder), NEW allowed
    PROVE  Clamp(effort, allowed) \in ToSet(EffortLadder)
<1> DEFINE asked == CHOOSE i \in DOMAIN EffortLadder : EffortLadder[i] = effort
           lower == {i \in 2 .. asked - 1 : EffortLadder[i] \in allowed}
           higher == {i \in asked + 1 .. Len(EffortLadder) : EffortLadder[i] \in allowed}
<1>1. DOMAIN EffortLadder = 1 .. 6 /\ Len(EffortLadder) = 6
  BY DEF EffortLadder
<1>2. asked \in 1 .. 6
  <2>1. \E i \in DOMAIN EffortLadder : EffortLadder[i] = effort
    BY DEF ToSet
  <2>2. QED BY <1>1, <2>1
<1>3. lower \in SUBSET (1 .. 6) /\ higher \in SUBSET (1 .. 6)
  <2>1. 2 .. asked - 1 \subseteq 1 .. 6 /\ asked + 1 .. Len(EffortLadder) \subseteq 1 .. 6
    <3> HIDE DEF asked
    <3>1. QED BY <1>1, <1>2
  <2>2. QED BY <2>1
<1>4. \A i \in 1 .. 6 : EffortLadder[i] \in ToSet(EffortLadder)
  BY <1>1 DEF ToSet
<1>5. lower # {} => Max(lower) \in 1 .. 6
  <2> HIDE DEF lower
  <2>1. lower \in SUBSET Nat /\ IsFiniteSet(1 .. 6)
    <3>1. \A n \in Nat : IsFiniteSet(1 .. n)
      BY FS_Interval
    <3>2. IsFiniteSet(1 .. 6)
      BY <3>1
    <3>3. QED BY <1>3, <3>2
  <2>2. IsFiniteSet(lower)
    BY <1>3, <2>1, FS_Subset
  <2>3. lower # {} => Max(lower) \in lower
    BY <2>1, <2>2, MaxIn
  <2>4. QED BY <1>3, <2>3
<1>6. higher # {} => Min(higher) \in 1 .. 6
  <2> HIDE DEF higher
  <2>1. higher \in SUBSET Nat
    BY <1>3
  <2>2. higher # {} => Min(higher) \in higher
    BY <2>1, MinIn
  <2>3. QED BY <1>3, <2>2
<1>7. QED BY <1>4, <1>5, <1>6 DEF Clamp

\* What the sources allow is what some row of Copilot's lists.
LEMMA AllowedTypes ==
    ASSUME NEW own \in Rows \cup {NoRow}, NEW listed \in Rows \cup {NoRow}
    PROVE  Allowed(<<own, listed>>) \in SUBSET Efforts
<1> DEFINE rows == <<own, listed>>
           listing == {i \in DOMAIN rows : rows[i] # NoRow /\ rows[i].efforts # {}}
<1>1. DOMAIN rows = 1 .. 2 /\ \A i \in 1 .. 2 : rows[i] \in Rows \cup {NoRow}
  OBVIOUS
<1>2. listing \in SUBSET Nat
  BY <1>1
<1>3. listing # {} => Min(listing) \in listing
  <2> HIDE DEF listing
  <2>1. QED BY <1>2, MinIn
<1>4. listing # {} => rows[Min(listing)] \in Rows
  BY <1>1, <1>3
<1>5. listing # {} => rows[Min(listing)].efforts \in SUBSET Efforts
  BY <1>4 DEF Efforts
<1>6. QED BY <1>5 DEF Allowed

\* What goes over the cap is at the front, and the rest stays.
LEMMA Capped ==
    ASSUME NEW S, NEW kept \in Seq(S), MaxDecisions \in Nat
    PROVE  LET over == Max({0, Len(kept) - MaxDecisions})
               rest == SubSeq(kept, over + 1, Len(kept))
           IN  /\ over \in 0 .. Len(kept)
               /\ rest \in Seq(S)
               /\ \A i \in DOMAIN rest : over + i \in DOMAIN kept /\ rest[i] = kept[over + i]
               /\ \A i \in DOMAIN kept : i \in 1 .. over \/
                                         (i - over \in DOMAIN rest /\ rest[i - over] = kept[i])
<1> DEFINE n == Len(kept) - MaxDecisions
           over == Max({0, n})
           rest == SubSeq(kept, over + 1, Len(kept))
<1>1. Len(kept) \in Nat /\ n \in Int /\ n <= Len(kept)
  OBVIOUS
<1>2. over = IF n > 0 THEN n ELSE 0
  <2> HIDE DEF n
  <2>1. \E x \in {0, n} : \A y \in {0, n} : x >= y
    BY <1>1
  <2>2. over \in {0, n} /\ \A y \in {0, n} : over >= y
    BY <2>1 DEF Max
  <2>3. QED BY <1>1, <2>2
<1>3. over \in 0 .. Len(kept)
  BY <1>1, <1>2
<1> HIDE DEF over
<1>4. /\ rest \in Seq(S)
      /\ Len(rest) = Len(kept) - over
      /\ \A i \in 1 .. Len(kept) - over : rest[i] = kept[over + i]
  BY <1>3
<1>5. DOMAIN rest = 1 .. Len(kept) - over /\ DOMAIN kept = 1 .. Len(kept)
  BY <1>4
<1> HIDE DEF rest
<1>6. \A i \in DOMAIN rest : over + i \in DOMAIN kept /\ rest[i] = kept[over + i]
  BY <1>1, <1>3, <1>4, <1>5
<1>7. ASSUME NEW i \in DOMAIN kept, i \notin 1 .. over
      PROVE  i - over \in DOMAIN rest /\ rest[i - over] = kept[i]
  <2>1. i - over \in 1 .. Len(kept) - over /\ over + (i - over) = i
    BY <1>1, <1>3, <1>5, <1>7
  <2>2. QED BY <1>4, <1>5, <2>1
<1>8. /\ over \in 0 .. Len(kept)
      /\ rest \in Seq(S)
      /\ \A i \in DOMAIN rest : over + i \in DOMAIN kept /\ rest[i] = kept[over + i]
      /\ \A i \in DOMAIN kept : i \in 1 .. over \/
                                (i - over \in DOMAIN rest /\ rest[i - over] = kept[i])
  BY <1>3, <1>4, <1>6, <1>7
<1>9. QED BY <1>8 DEF over, rest

\* The decisions before the cap: the new one among them, nothing lost that was not old.
LEMMA KeptDecisions ==
    ASSUME RoutingTypeOK, KeysApart, NEW r \in AutoRequests, NEW d, DecisionOf(r, d),
           \A i \in Position(r) : decisions[i].old
    PROVE  LET kept == IF Position(r) # {}
                       THEN [i \in DOMAIN decisions |-> IF i \in Position(r) THEN d ELSE decisions[i]]
                       ELSE Append(decisions, d)
           IN  /\ kept \in Seq(DecisionRecord)
               /\ \E j \in DOMAIN kept : kept[j] = d
               /\ \A i \in DOMAIN decisions :
                    decisions[i].by \in dropped \/ \E j \in DOMAIN kept : kept[j] = decisions[i]
               /\ \A i, j \in DOMAIN kept :
                    /\ kept[i].turn = kept[j].turn /\ kept[i].token = kept[j].token => i = j
                    /\ kept[i].old => kept[i].by \in dropped
<1>0. /\ decisions \in Seq(DecisionRecord)
      /\ d \in DecisionRecord /\ d.turn = Turn(r) /\ d.token = request[r].token /\ ~d.old
  BY DEF RoutingTypeOK, DecisionOf
<1>1. CASE Position(r) # {}
  <2> DEFINE kept == [i \in DOMAIN decisions |-> IF i \in Position(r) THEN d ELSE decisions[i]]
  <2>1. /\ DOMAIN decisions = 1 .. Len(decisions) /\ Len(decisions) \in Nat
        /\ \A i \in 1 .. Len(decisions) : decisions[i] \in DecisionRecord
    BY <1>0, LenProperties, ElementOfSeq
  <2>2. kept \in Seq(DecisionRecord)
    <3>1. kept \in [1 .. Len(decisions) -> DecisionRecord]
      BY <1>0, <2>1
    <3> HIDE DEF kept
    <3>2. QED BY <2>1, <3>1, FunctionIsSeq
  <2>3. \A i \in DOMAIN kept : /\ i \in DOMAIN decisions
                               /\ kept[i].turn = decisions[i].turn
                               /\ kept[i].token = decisions[i].token
                               /\ kept[i].old => kept[i] = decisions[i]
    BY <1>0 DEF Position
  <2>4. \E j \in DOMAIN kept : kept[j] = d
    BY <1>1 DEF Position
  <2>5. \A i \in DOMAIN decisions :
          decisions[i].by \in dropped \/ \E j \in DOMAIN kept : kept[j] = decisions[i]
    BY DEF KeysApart
  <2>6. \A i, j \in DOMAIN kept :
          /\ kept[i].turn = kept[j].turn /\ kept[i].token = kept[j].token => i = j
          /\ kept[i].old => kept[i].by \in dropped
    <3> HIDE DEF kept
    <3>1. QED BY <2>3 DEF KeysApart
  <2>7. QED BY <1>1, <2>2, <2>4, <2>5, <2>6
<1>2. CASE Position(r) = {}
  <2> DEFINE kept == Append(decisions, d)
  <2>1. /\ DOMAIN kept = DOMAIN decisions \cup {Len(decisions) + 1}
        /\ Len(decisions) + 1 \notin DOMAIN decisions
        /\ kept[Len(decisions) + 1] = d
        /\ \A i \in DOMAIN decisions : kept[i] = decisions[i]
        /\ kept \in Seq(DecisionRecord)
    BY <1>0, Appended
  <2> HIDE DEF kept
  <2>2. \A i \in DOMAIN decisions : decisions[i].turn # d.turn \/ decisions[i].token # d.token
    BY <1>0, <1>2 DEF Position
  <2>3. \A i, j \in DOMAIN kept :
          /\ kept[i].turn = kept[j].turn /\ kept[i].token = kept[j].token => i = j
          /\ kept[i].old => kept[i].by \in dropped
    BY <1>0, <2>1, <2>2 DEF KeysApart
  <2>4. /\ \E j \in DOMAIN kept : kept[j] = d
        /\ \A i \in DOMAIN decisions :
             decisions[i].by \in dropped \/ \E j \in DOMAIN kept : kept[j] = decisions[i]
    BY <2>1
  <2>5. QED BY <1>2, <2>1, <2>3, <2>4 DEF kept
<1>3. QED BY <1>1, <1>2

\* Remembering a decision: it is there or over the cap, and so are those before it.
LEMMA Remembering ==
    ASSUME RoutingTypeOK, KeysApart, NEW r \in AutoRequests, NEW d, DecisionOf(r, d),
           \A i \in Position(r) : decisions[i].old, RemembersDecision(r, d)
    PROVE  /\ decisions' \in Seq(DecisionRecord)
           /\ dropped \subseteq dropped' /\ dropped' \subseteq AutoRequests \cup {""}
           /\ KeysApart'
           /\ Findable(d)'
           /\ \A e \in DecisionRecord : Findable(e) => Findable(e)'
<1> DEFINE kept == IF Position(r) # {}
                   THEN [i \in DOMAIN decisions |-> IF i \in Position(r) THEN d ELSE decisions[i]]
                   ELSE Append(decisions, d)
           over == Max({0, Len(kept) - MaxDecisions})
<1>1. /\ kept \in Seq(DecisionRecord)
      /\ \E j \in DOMAIN kept : kept[j] = d
      /\ \A i \in DOMAIN decisions :
           decisions[i].by \in dropped \/ \E j \in DOMAIN kept : kept[j] = decisions[i]
      /\ \A i, j \in DOMAIN kept :
           /\ kept[i].turn = kept[j].turn /\ kept[i].token = kept[j].token => i = j
           /\ kept[i].old => kept[i].by \in dropped
  BY KeptDecisions
<1>2. /\ decisions' = SubSeq(kept, over + 1, Len(kept))
      /\ dropped' = dropped \cup {kept[i].by : i \in 1 .. over}
  BY DEF RemembersDecision
<1> HIDE DEF kept
<1>3. /\ over \in 0 .. Len(kept)
      /\ decisions' \in Seq(DecisionRecord)
      /\ \A i \in DOMAIN decisions' : over + i \in DOMAIN kept /\ decisions'[i] = kept[over + i]
      /\ \A i \in DOMAIN kept : i \in 1 .. over \/
                     (i - over \in DOMAIN decisions' /\ decisions'[i - over] = kept[i])
  <2>1. MaxDecisions \in Nat
    BY AutoRoutingAssumption
  <2> DEFINE rest == SubSeq(kept, over + 1, Len(kept))
  <2>2. /\ over \in 0 .. Len(kept)
        /\ rest \in Seq(DecisionRecord)
        /\ \A i \in DOMAIN rest : over + i \in DOMAIN kept /\ rest[i] = kept[over + i]
        /\ \A i \in DOMAIN kept : i \in 1 .. over \/
                                  (i - over \in DOMAIN rest /\ rest[i - over] = kept[i])
    BY <1>1, <2>1, Capped
  <2>3. decisions' = rest
    BY <1>2
  <2> HIDE DEF rest, over
  <2>4. QED BY <2>2, <2>3
<1> HIDE DEF over
<1>4. dropped \subseteq dropped' /\ dropped' \subseteq AutoRequests \cup {""}
  <2>1. \A i \in 1 .. over : kept[i] \in DecisionRecord
    BY <1>1, <1>3
  <2>2. \A i \in 1 .. over : kept[i].by \in AutoRequests \cup {""}
    BY <2>1 DEF DecisionRecord
  <2>3. QED BY <1>2, <2>2 DEF RoutingTypeOK
<1>5. KeysApart'
  <2>1. \A i, j \in DOMAIN decisions' : over + i = over + j => i = j
    <3>1. DOMAIN decisions' \subseteq Nat /\ over \in Nat
      BY <1>3, LenProperties
    <3>2. QED BY <3>1
  <2>2. \A i \in DOMAIN decisions' : over + i \in DOMAIN kept /\ decisions'[i] = kept[over + i]
    BY <1>3
  <2>3. \A i, j \in DOMAIN decisions' :
          /\ decisions'[i].turn = decisions'[j].turn /\ decisions'[i].token = decisions'[j].token
               => over + i = over + j
          /\ decisions'[i].old => decisions'[i].by \in dropped
    BY <1>1, <2>2
  <2>4. QED BY <1>4, <2>1, <2>3 DEF KeysApart
<1>6. \A j \in DOMAIN kept :
        kept[j].by \in dropped' \/ \E i \in DOMAIN decisions' : decisions'[i] = kept[j]
  BY <1>2, <1>3
<1>7. Findable(d)'
  BY <1>1, <1>6 DEF Findable
<1>8. \A e \in DecisionRecord : Findable(e) => Findable(e)'
  <2> TAKE e \in DecisionRecord
  <2>1. SUFFICES ASSUME Findable(e), e.turn # NoTurn, e.by \notin dropped'
                 PROVE  \E i \in DOMAIN decisions' : /\ decisions'[i].turn = e.turn
                          /\ decisions'[i].token = e.token /\ decisions'[i].by = e.by
    BY DEF Findable
  <2>2. PICK i \in DOMAIN decisions : /\ decisions[i].turn = e.turn /\ decisions[i].token = e.token
                                      /\ decisions[i].by = e.by
    BY <1>4, <2>1 DEF Findable
  <2>3. PICK j \in DOMAIN kept : kept[j] = decisions[i]
    BY <1>1, <1>4, <2>1, <2>2
  <2>4. QED BY <1>6, <2>1, <2>2, <2>3
<1>9. QED BY <1>3, <1>4, <1>5, <1>7, <1>8

LEMMA DecisionTypes ==
    ASSUME RoutingTypeOK, NEW r \in AutoRequests
    PROVE  DecisionOf(r, Decision(r))
<1>1. request[r].token \in Tokens \cup {""} /\ Turn(r) \in Turns
  BY DEF RoutingTypeOK, RequestRecord, Turns
<1>2. QED BY <1>1 DEF Decision, DecisionOf, DecisionRecord, Undecided

\* Every way a pick is judged ends with a decision that is remembered.
LEMMA JudgedRemembers ==
    ASSUME RoutingTypeOK, NEW r \in AutoRequests, request[r].pick \in Models,
           NEW rows \in [Models -> Rows \cup {NoRow}], Judged(r, rows)
    PROVE  \E d : DecisionOf(r, d) /\ RemembersDecision(r, d)
<1> DEFINE own == request[r].row
           listed == rows[request[r].pick]
           picked == [Decision(r) EXCEPT !.model = request[r].pick, !.session = TRUE,
                                         !.efforts = Allowed(<<own, listed>>)]
<1>1. FallsBack(r) \/ RemembersDecision(r, picked)
  BY DEF Judged
<1>2. DecisionOf(r, Decision(r))
  BY DecisionTypes
<1>3. DecisionOf(r, picked)
  <2>1. own \in Rows \cup {NoRow} /\ listed \in Rows \cup {NoRow}
    BY DEF RoutingTypeOK, RequestRecord
  <2>2. Allowed(<<own, listed>>) \in SUBSET Efforts
    BY <2>1, AllowedTypes
  <2>3. QED BY <1>2, <2>2 DEF DecisionOf, DecisionRecord
<1>4. QED BY <1>1, <1>2, <1>3 DEF FallsBack

\* A request that holds the lock and is done with it has remembered a decision.
Decides(r) ==
  /\ Deciding(r)
  /\ \E d : DecisionOf(r, d) /\ RemembersDecision(r, d)
  /\ catalog' \in CatalogRecord /\ failed' \subseteq Tokens \cup {""} /\ token' = token

LEMMA DecidingActions ==
    ASSUME RoutingTypeOK, LockHeld, NEW r \in AutoRequests,
           RouteFails(r) \/ JudgesPick(r) \/ ListsCatalog(r) \/ ListingFails(r)
    PROVE  Decides(r)
<1>1. catalog \in CatalogRecord /\ failed \subseteq Tokens \cup {""}
  BY DEF RoutingTypeOK
<1>2. /\ request[r].pc = "listing" => request[r].pick \in Models
      /\ request[r].token \in Tokens \cup {""}
  BY DEF LockHeld, RoutingTypeOK, RequestRecord
<1>3. /\ catalog.rows \in [Models -> Rows \cup {NoRow}]
      /\ Unlisted.rows \in [Models -> Rows \cup {NoRow}]
  BY <1>1 DEF CatalogRecord, Unlisted
<1>4. CASE RouteFails(r)
  <2>1. DecisionOf(r, Decision(r)) /\ RemembersDecision(r, Decision(r))
    BY <1>4, DecisionTypes DEF RouteFails, FallsBack
  <2>2. QED BY <1>1, <1>4, <2>1 DEF Decides, RouteFails, Deciding
<1>5. CASE JudgesPick(r)
  <2>1. \E d : DecisionOf(r, d) /\ RemembersDecision(r, d)
    BY <1>2, <1>3, <1>5, JudgedRemembers DEF JudgesPick
  <2>2. QED BY <1>1, <1>5, <2>1 DEF Decides, JudgesPick, Deciding
<1>6. CASE ListsCatalog(r)
  <2>1. PICK rows \in [Models -> Rows \cup {NoRow}] :
          /\ catalog' = [token |-> request[r].token, rows |-> rows, stale |-> FALSE]
          /\ Judged(r, rows)
    BY <1>6 DEF ListsCatalog
  <2>2. \E d : DecisionOf(r, d) /\ RemembersDecision(r, d)
    BY <1>2, <1>6, <2>1, JudgedRemembers DEF ListsCatalog
  <2>3. catalog' \in CatalogRecord
    BY <1>2, <2>1 DEF CatalogRecord
  <2>4. QED BY <1>1, <1>6, <2>2, <2>3 DEF Decides, ListsCatalog, Deciding
<1>7. CASE ListingFails(r)
  <2>1. \E d : DecisionOf(r, d) /\ RemembersDecision(r, d)
    BY <1>2, <1>3, <1>7, JudgedRemembers DEF ListingFails
  <2>2. QED BY <1>1, <1>2, <1>7, <2>1 DEF Decides, ListingFails, Deciding
<1>8. QED BY <1>4, <1>5, <1>6, <1>7

\* A request that is given a decision, and the others.
LEMMA GivenTo ==
    ASSUME RoutingTypeOK, NEW r \in AutoRequests, NEW d \in DecisionRecord, Given(r, d)
    PROVE  /\ request' \in [AutoRequests -> RequestRecord]
           /\ request'[r].pc = "routed" /\ request'[r].decision = d
           /\ \A q \in AutoRequests \ {r} : request'[q] = request[q]
           /\ overtaken \subseteq overtaken' /\ overtaken' \subseteq AutoRequests
           /\ \A q \in AutoRequests \ {r} : request[q].pc = "routed" => q \in overtaken'
<1> DEFINE e == Clamp(Body[r].effort, d.efforts)
           new == [NoRequest EXCEPT !.pc = "routed", !.decision = d, !.effort = e]
<1>1. e \in ToSet(EffortLadder)
  BY AutoRoutingAssumption, ClampTypes
<1>2. new \in RequestRecord /\ new.pc = "routed" /\ new.decision = d
  <2> HIDE DEF e
  <2>1. QED BY <1>1 DEF NoRequest, RequestRecord
<1>3. request' = [request EXCEPT ![r] = new]
  BY DEF Given
<1>4. overtaken' = overtaken \cup {q \in AutoRequests \ {r} : request[q].pc = "routed"}
  BY DEF Given
<1> HIDE DEF new
<1>5. QED BY <1>2, <1>3, <1>4 DEF RoutingTypeOK

LEMMA GivenLast ==
    ASSUME RoutingTypeOK, LastIsOwn, NEW r \in AutoRequests, NEW d \in DecisionRecord,
           Given(r, d), last' = d
    PROVE  LastIsOwn'
BY GivenTo DEF LastIsOwn

LEMMA GivenFindable ==
    ASSUME RoutingTypeOK, NEW r \in AutoRequests, NEW d \in DecisionRecord, Given(r, d),
           Findable(d)', \A e \in DecisionRecord : Findable(e) => Findable(e)', AllFindable
    PROVE  AllFindable'
<1>1. ASSUME NEW q \in AutoRequests
      PROVE  \E e \in DecisionRecord : e = request'[q].decision /\ Findable(e)'
  <2>1. CASE q = r
    BY <2>1, GivenTo
  <2>2. CASE q # r
    <3>1. PICK e \in DecisionRecord : e = request[q].decision /\ Findable(e)
      BY DEF AllFindable
    <3>2. request'[q] = request[q]
      BY <2>2, GivenTo
    <3>3. QED BY <3>1, <3>2
  <2>3. QED BY <2>1, <2>2
<1>2. QED BY <1>1 DEF AllFindable

\* What was findable stays so while the requests keep what they were given.
LEMMA StayFindable ==
    ASSUME AllFindable, \A e \in DecisionRecord : Findable(e) => Findable(e)',
           \A q \in AutoRequests : request'[q].decision = request[q].decision
    PROVE  AllFindable'
BY DEF AllFindable

(***************************************************************************)
(* AutoRouting: every step keeps the invariant.                            *)
(***************************************************************************)
\* The request at the lock is done with it, and nobody else was.
LEMMA DecidesStep ==
    ASSUME RoutingInv, NEW r \in AutoRequests, Decides(r)
    PROVE  RoutingInv'
<1>1. RoutingTypeOK /\ LockHeld /\ KeysApart /\ LastIsOwn
      /\ AllFindable
  BY DEF RoutingInv
<1>2. PICK d : DecisionOf(r, d) /\ RemembersDecision(r, d)
  BY DEF Decides
<1>3. d \in DecisionRecord /\ Given(r, d) /\ last' = d /\ routing' = Tail(routing)
  BY <1>2 DEF DecisionOf, RemembersDecision
<1>4. routing # <<>> /\ Head(routing) = r /\ \A i \in Position(r) : decisions[i].old
  BY <1>1 DEF Decides, LockHeld
<1>5. /\ decisions' \in Seq(DecisionRecord)
      /\ dropped' \subseteq AutoRequests \cup {""}
      /\ KeysApart' /\ Findable(d)'
      /\ \A e \in DecisionRecord : Findable(e) => Findable(e)'
  BY <1>1, <1>2, <1>4, Remembering
<1>6. RoutingTypeOK'
  <2>1. routing' \in Seq(AutoRequests)
    BY <1>1, <1>3, <1>4, HeadTailProperties DEF RoutingTypeOK
  <2>2. QED BY <1>1, <1>3, <1>5, <2>1, GivenTo DEF RoutingTypeOK, Decides
<1>7. LockHeld'
  <2>1. \A q \in AutoRequests \ {r} : ~Deciding(q)
    BY <1>1, <1>4 DEF LockHeld
  <2>2. \A q \in AutoRequests : ~Deciding(q)'
    BY <1>1, <1>3, <2>1, GivenTo DEF Deciding
  <2>3. QED BY <2>2 DEF LockHeld, Deciding
<1>8. AllFindable'
  BY <1>1, <1>3, <1>5, GivenFindable
<1>9. LastIsOwn'
  BY <1>1, <1>3, GivenLast
<1>10. QED BY <1>5, <1>6, <1>7, <1>8, <1>9 DEF RoutingInv

LEMMA WordlessStep ==
    ASSUME RoutingInv, NEW r \in AutoRequests, ComesWordless(r)
    PROVE  RoutingInv'
<1>1. RoutingTypeOK /\ LockHeld /\ KeysApart /\ LastIsOwn
      /\ AllFindable
  BY DEF RoutingInv
<1> DEFINE d == [Undecided EXCEPT !.by = r]
<1>2. d \in DecisionRecord /\ d.turn = NoTurn
  BY DEF Undecided, DecisionRecord, Turns
<1>3. /\ Given(r, d) /\ last' = d
      /\ UNCHANGED <<token, routing, decisions, catalog, failed, dropped>>
  BY DEF ComesWordless
<1> HIDE DEF d
<1>4. /\ KeysApart' /\ Findable(d)'
      /\ \A e \in DecisionRecord : Findable(e) => Findable(e)'
  BY <1>1, <1>2, <1>3 DEF KeysApart, Findable
<1>5. RoutingTypeOK'
  BY <1>1, <1>2, <1>3, GivenTo DEF RoutingTypeOK
<1>6. LockHeld'
  <2>1. /\ ~Deciding(r)' /\ request'[r].pc # "listing"
        /\ \A q \in AutoRequests \ {r} : request'[q] = request[q]
    BY <1>1, <1>2, <1>3, GivenTo DEF Deciding
  <2>2. QED BY <1>1, <1>3, <2>1 DEF LockHeld, Deciding, Position
<1>7. AllFindable'
  BY <1>1, <1>2, <1>3, <1>4, GivenFindable
<1>8. LastIsOwn'
  BY <1>1, <1>2, <1>3, GivenLast
<1>9. QED BY <1>4, <1>5, <1>6, <1>7, <1>8 DEF RoutingInv

LEMMA ReusesStep ==
    ASSUME RoutingInv, NEW r \in AutoRequests, Reuses(r)
    PROVE  RoutingInv'
<1>1. RoutingTypeOK /\ LockHeld /\ KeysApart /\ LastIsOwn /\ AllFindable
  BY DEF RoutingInv
<1>2. PICK d : \E i \in DOMAIN decisions : d = decisions[i] /\ last' = d /\ Given(r, d)
  BY DEF Reuses, Remembered, Position
<1>3. d \in DecisionRecord
  <2>1. decisions \in Seq(DecisionRecord)
    BY <1>1 DEF RoutingTypeOK
  <2>2. \A i \in DOMAIN decisions : decisions[i] \in DecisionRecord
    BY <2>1, LenProperties, ElementOfSeq
  <2>3. QED BY <1>2, <2>2
<1>4. /\ Given(r, d) /\ last' = d /\ routing' = Tail(routing)
      /\ routing # <<>> /\ Head(routing) = r /\ request[r].pc = "waiting"
      /\ UNCHANGED <<token, decisions, catalog, failed, dropped>>
  BY <1>2 DEF Reuses, AtLock
<1>5. Findable(d)'
  BY <1>2, <1>4 DEF Findable
<1>6. KeysApart' /\ \A e \in DecisionRecord : Findable(e) => Findable(e)'
  BY <1>1, <1>4 DEF KeysApart, Findable
<1>7. RoutingTypeOK'
  <2>1. routing' \in Seq(AutoRequests)
    BY <1>1, <1>4, HeadTailProperties DEF RoutingTypeOK
  <2>2. QED BY <1>1, <1>3, <1>4, <2>1, GivenTo DEF RoutingTypeOK
<1>8. LockHeld'
  <2>1. \A q \in AutoRequests : ~Deciding(q)
    BY <1>1, <1>4 DEF LockHeld, Deciding
  <2>2. \A q \in AutoRequests : ~Deciding(q)'
    BY <1>1, <1>3, <1>4, <2>1, GivenTo DEF Deciding
  <2>3. QED BY <2>2 DEF LockHeld, Deciding
<1>9. AllFindable'
  BY <1>1, <1>3, <1>4, <1>5, <1>6, GivenFindable
<1>10. LastIsOwn'
  BY <1>1, <1>3, <1>4, GivenLast
<1>11. QED BY <1>6, <1>7, <1>8, <1>9, <1>10 DEF RoutingInv

\* A request moves on, and keeps its token and its decision.
LEMMA MovesStep ==
    ASSUME RoutingInv, NEW r \in AutoRequests,
           Comes(r) \/ AsksRoute(r) \/ Picks(r) \/ Reports(r)
    PROVE  RoutingInv'
<1>1. RoutingTypeOK /\ LockHeld /\ KeysApart /\ LastIsOwn
      /\ AllFindable
  BY DEF RoutingInv
<1>2. UNCHANGED <<token, decisions, catalog, failed, last, dropped, overtaken>>
  BY DEF Comes, AsksRoute, Picks, Reports
<1>3. KeysApart' /\ \A e \in DecisionRecord : Findable(e) => Findable(e)'
  BY <1>1, <1>2 DEF KeysApart, Findable
<1>4. request[r] \in RequestRecord /\ last.model \in Models \cup {Fallback}
  BY <1>1 DEF RoutingTypeOK, DecisionRecord
<1>5. PICK new \in RequestRecord :
        /\ request' = [request EXCEPT ![r] = new]
        /\ new.decision = request[r].decision
        /\ \/ Comes(r) /\ new.pc = "waiting"
           \/ AsksRoute(r) /\ new.pc = "asking" /\ new.token = request[r].token
           \/ /\ Picks(r) /\ new.pc = "listing" /\ new.token = request[r].token
              /\ new.pick \in Models
           \/ Reports(r) /\ new.pc = "over" /\ new.reported = last.model
  <2>1. CASE Comes(r)
    <3>1. [request[r] EXCEPT !.pc = "waiting", !.token = token] \in RequestRecord
      BY <1>1, <1>4 DEF RequestRecord, RoutingTypeOK
    <3>2. request' = [request EXCEPT ![r] = [request[r] EXCEPT !.pc = "waiting", !.token = token]]
      BY <2>1 DEF Comes
    <3>3. /\ [request[r] EXCEPT !.pc = "waiting", !.token = token].decision = request[r].decision
          /\ [request[r] EXCEPT !.pc = "waiting", !.token = token].pc = "waiting"
      BY <1>4 DEF RequestRecord
    <3>4. QED BY <2>1, <3>1, <3>2, <3>3
  <2>2. CASE AsksRoute(r)
    <3> DEFINE x == [request[r] EXCEPT !.pc = "asking"]
    <3>1. /\ x \in RequestRecord /\ x.decision = request[r].decision /\ x.pc = "asking"
          /\ x.token = request[r].token
      BY <1>4 DEF RequestRecord
    <3>2. request' = [request EXCEPT ![r] = x]
      BY <2>2 DEF AsksRoute
    <3>3. QED BY <2>2, <3>1, <3>2
  <2>3. CASE Picks(r)
    <3>1. PICK m \in Models, row \in Rows :
            request' = [request EXCEPT ![r].pc = "listing", ![r].pick = m, ![r].row = row]
      BY <2>3 DEF Picks
    <3> DEFINE x == [request[r] EXCEPT !.pc = "listing", !.pick = m, !.row = row]
    <3>2. /\ x \in RequestRecord /\ x.decision = request[r].decision /\ x.pc = "listing"
          /\ x.token = request[r].token /\ x.pick \in Models
      BY <1>4 DEF RequestRecord
    <3>3. request' = [request EXCEPT ![r] = x]
      BY <3>1
    <3> HIDE DEF x
    <3>4. QED BY <2>3, <3>2, <3>3
  <2>4. CASE Reports(r)
    <3> DEFINE x == [request[r] EXCEPT !.pc = "over", !.reported = last.model]
    <3>1. /\ x \in RequestRecord /\ x.decision = request[r].decision /\ x.pc = "over"
          /\ x.reported = last.model
      BY <1>4 DEF RequestRecord
    <3>2. request' = [request EXCEPT ![r] = x]
      BY <2>4 DEF Reports
    <3> HIDE DEF x
    <3>3. QED BY <2>4, <3>1, <3>2
  <2>5. QED BY <2>1, <2>2, <2>3, <2>4
<1>6. /\ request'[r] = new
      /\ \A q \in AutoRequests \ {r} : request'[q] = request[q]
      /\ request' \in [AutoRequests -> RequestRecord]
  BY <1>1, <1>5 DEF RoutingTypeOK
<1>7. routing' \in Seq(AutoRequests)
  <2>1. CASE Comes(r)
    BY <1>1, <2>1, AppendProperties DEF Comes, RoutingTypeOK
  <2>2. CASE ~Comes(r)
    BY <1>1, <2>2 DEF AsksRoute, Picks, Reports, RoutingTypeOK
  <2>3. QED BY <2>1, <2>2
<1>8. RoutingTypeOK'
  BY <1>1, <1>2, <1>6, <1>7 DEF RoutingTypeOK
<1>9. LockHeld'
  <2>1. routing # <<>> => routing' # <<>> /\ Head(routing') = Head(routing)
    <3>1. CASE Comes(r)
      <4>1. routing \in Seq(AutoRequests) /\ routing' = Append(routing, r)
        BY <1>1, <3>1 DEF Comes, RoutingTypeOK
      <4>2. QED BY <4>1, AppendProperties
    <3>2. CASE ~Comes(r)
      BY <3>2 DEF AsksRoute, Picks, Reports
    <3>3. QED BY <3>1, <3>2
  <2>2. ASSUME NEW q \in AutoRequests, q # r
        PROVE  /\ Deciding(q)' => routing' # <<>> /\ Head(routing') = q
                                  /\ (\A i \in Position(q) : decisions[i].old)'
               /\ request'[q].pc = "listing" => request'[q].pick \in Models
    <3>1. Deciding(q)' => Deciding(q) /\ Position(q)' = Position(q)
      BY <1>2, <1>6, <2>2 DEF Deciding, Position
    <3>2. QED BY <1>1, <1>2, <1>6, <2>1, <2>2, <3>1 DEF LockHeld
  <2>3. /\ Deciding(r)' => routing' # <<>> /\ Head(routing') = r
                           /\ (\A i \in Position(r) : decisions[i].old)'
        /\ request'[r].pc = "listing" => request'[r].pick \in Models
    <3>1. CASE Comes(r) \/ Reports(r)
      BY <1>5, <1>6, <3>1 DEF Deciding, Comes, Reports, AsksRoute, Picks, AtLock
    <3>2. CASE AsksRoute(r)
      <4>1. request'[r].token = request[r].token /\ request'[r].pc = "asking"
        BY <1>5, <1>6, <3>2 DEF AsksRoute, Comes, Picks, Reports, AtLock
      <4>2. Position(r)' = Position(r)
        BY <1>2, <4>1 DEF Position
      <4>3. \A i \in Position(r) : decisions[i].old
        BY <3>2 DEF AsksRoute, Remembered
      <4>4. routing # <<>> /\ Head(routing) = r
        BY <3>2 DEF AsksRoute, AtLock
      <4>5. QED BY <1>2, <2>1, <4>1, <4>2, <4>3, <4>4
    <3>3. CASE Picks(r)
      <4>1. /\ request'[r].token = request[r].token /\ request'[r].pick \in Models
        BY <1>5, <1>6, <3>3 DEF AsksRoute, Comes, Picks, Reports, AtLock
      <4>2. Position(r)' = Position(r)
        BY <1>2, <4>1 DEF Position
      <4>3. Deciding(r)
        BY <3>3 DEF Picks, Deciding
      <4>4. QED BY <1>1, <1>2, <2>1, <4>1, <4>2, <4>3 DEF LockHeld
    <3>4. QED BY <3>1, <3>2, <3>3
  <2>4. QED BY <2>2, <2>3 DEF LockHeld
<1>10. AllFindable'
  <2>1. \A q \in AutoRequests : request'[q].decision = request[q].decision
    BY <1>5, <1>6
  <2>2. QED BY <1>1, <1>3, <2>1, StayFindable
<1>11. LastIsOwn'
  <2>1. ASSUME NEW q \in AutoRequests \ overtaken, q # r
        PROVE  /\ request'[q].pc = "routed" => last'.model = request'[q].decision.model
               /\ request'[q].pc = "over" => request'[q].reported = request'[q].decision.model
    BY <1>1, <1>2, <1>6, <2>1 DEF LastIsOwn
  <2>2. ASSUME r \notin overtaken
        PROVE  /\ request'[r].pc = "routed" => last'.model = request'[r].decision.model
               /\ request'[r].pc = "over" => request'[r].reported = request'[r].decision.model
    <3>1. CASE Reports(r)
      <4>1. request'[r].pc = "over" /\ request'[r].reported = last.model
        BY <1>5, <1>6, <3>1 DEF AsksRoute, Comes, Picks, Reports, AtLock
      <4>2. last.model = request[r].decision.model
        BY <1>1, <2>2, <3>1 DEF LastIsOwn, Reports
      <4>3. QED BY <1>5, <1>6, <4>1, <4>2
    <3>2. CASE ~Reports(r)
      BY <1>5, <1>6, <3>2
    <3>3. QED BY <3>1, <3>2
  <2>3. QED BY <1>2, <2>1, <2>2 DEF LastIsOwn
<1>12. QED BY <1>3, <1>8, <1>9, <1>10, <1>11 DEF RoutingInv

\* Time passes.
LEMMA TimeStep ==
    ASSUME RoutingInv, GrowsOld \/ CatalogAges \/ TokenRenewed
    PROVE  RoutingInv'
<1>1. RoutingTypeOK /\ LockHeld /\ KeysApart /\ LastIsOwn
      /\ AllFindable
  BY DEF RoutingInv
<1>2. UNCHANGED <<request, routing, last, overtaken>>
  BY DEF GrowsOld, CatalogAges, TokenRenewed
<1>3. CASE GrowsOld
  <2>1. PICK i \in DOMAIN decisions :
          /\ decisions' = [decisions EXCEPT ![i].old = TRUE]
          /\ dropped' = dropped \cup {decisions[i].by}
    BY <1>3 DEF GrowsOld
  <2> DEFINE x == [decisions[i] EXCEPT !.old = TRUE]
  <2>2. decisions \in Seq(DecisionRecord) /\ i \in 1 .. Len(decisions) /\ decisions[i] \in DecisionRecord
    BY <1>1, <2>1, LenProperties, ElementOfSeq DEF RoutingTypeOK
  <2>3. /\ x \in DecisionRecord /\ x.turn = decisions[i].turn /\ x.token = decisions[i].token
        /\ x.by = decisions[i].by /\ x.old = TRUE
    BY <2>2 DEF DecisionRecord
  <2>4. decisions' = [decisions EXCEPT ![i] = x]
    BY <2>1
  <2> HIDE DEF x
  <2>5. /\ [decisions EXCEPT ![i] = x] \in Seq(DecisionRecord)
        /\ \A j \in 1 .. Len(decisions) :
             [decisions EXCEPT ![i] = x][j] = IF j = i THEN x ELSE decisions[j]
    BY <2>2, <2>3, ExceptSeq
  <2>6. DOMAIN decisions' = DOMAIN decisions /\ DOMAIN decisions = 1 .. Len(decisions)
    BY <2>2, <2>4, LenProperties
  <2>7. /\ decisions' \in Seq(DecisionRecord)
        /\ \A j \in DOMAIN decisions : decisions'[j] = IF j = i THEN x ELSE decisions[j]
    BY <2>4, <2>5, <2>6
  <2>8. \A j \in DOMAIN decisions :
          /\ decisions'[j].turn = decisions[j].turn /\ decisions'[j].token = decisions[j].token
          /\ decisions'[j].by = decisions[j].by
          /\ decisions[j].old => decisions'[j].old
          /\ decisions'[j].old => decisions[j].old \/ decisions[j].by \in dropped'
    BY <2>1, <2>3, <2>7
  <2>9. RoutingTypeOK'
    <3>1. decisions[i].by \in AutoRequests \cup {""}
      BY <2>2 DEF DecisionRecord
    <3>2. QED BY <1>1, <1>2, <1>3, <2>1, <2>7, <3>1 DEF RoutingTypeOK, GrowsOld
  <2>10. KeysApart'
    BY <1>1, <2>1, <2>6, <2>8 DEF KeysApart
  <2>11. LockHeld'
    <3>1. \A q \in AutoRequests : Position(q)' = Position(q) /\ (Deciding(q)' <=> Deciding(q))
      BY <1>2, <2>6, <2>8 DEF Position, Deciding
    <3>2. \A q \in AutoRequests : Position(q) \subseteq DOMAIN decisions
      BY DEF Position
    <3>3. QED BY <1>1, <1>2, <2>8, <3>1, <3>2 DEF LockHeld
  <2>12. AllFindable'
    <3>1. \A e \in DecisionRecord : Findable(e) => Findable(e)'
      BY <2>1, <2>6, <2>8 DEF Findable
    <3>2. QED BY <1>1, <1>2, <3>1, StayFindable
  <2>13. LastIsOwn'
    BY <1>1, <1>2 DEF LastIsOwn
  <2>14. QED BY <2>9, <2>10, <2>11, <2>12, <2>13 DEF RoutingInv
<1>4. CASE CatalogAges \/ TokenRenewed
  <2>1. UNCHANGED <<decisions, dropped>>
    BY <1>4 DEF CatalogAges, TokenRenewed
  <2>2. catalog' \in CatalogRecord
    <3>1. CASE catalog' = [catalog EXCEPT !.stale = TRUE]
      BY <1>1, <3>1 DEF RoutingTypeOK, CatalogRecord
    <3>2. CASE UNCHANGED catalog
      BY <1>1, <3>2 DEF RoutingTypeOK
    <3>3. QED BY <1>4, <3>1, <3>2 DEF CatalogAges, TokenRenewed
  <2>3. failed' \subseteq Tokens \cup {""} /\ token' \in Tokens
    BY <1>1, <1>4 DEF CatalogAges, TokenRenewed, RoutingTypeOK
  <2>4. RoutingTypeOK'
    BY <1>1, <1>2, <2>1, <2>2, <2>3 DEF RoutingTypeOK
  <2>5. LockHeld' /\ KeysApart' /\ LastIsOwn'
    BY <1>1, <1>2, <2>1 DEF LockHeld, KeysApart, LastIsOwn, Deciding, Position
  <2>6. AllFindable'
    <3>1. \A e \in DecisionRecord : Findable(e) => Findable(e)'
      BY <2>1 DEF Findable
    <3>2. QED BY <1>1, <1>2, <3>1, StayFindable
  <2>7. QED BY <2>4, <2>5, <2>6 DEF RoutingInv
<1>5. QED BY <1>3, <1>4

LEMMA RoutingInvHolds == RoutingSpec => []RoutingInv
<1>1. RoutingInit => RoutingInv
  <2>1. ASSUME RoutingInit PROVE RoutingInv
    <3>1. Undecided \in DecisionRecord /\ Undecided.turn = NoTurn
      BY DEF Undecided, DecisionRecord, Turns
    <3>2. NoRequest \in RequestRecord /\ NoRequest.decision = Undecided /\ NoRequest.pc = "idle"
      BY <3>1 DEF NoRequest, RequestRecord
    <3>3. Unlisted \in CatalogRecord
      BY DEF Unlisted, CatalogRecord
    <3>4. RoutingTypeOK
      BY <2>1, <3>1, <3>2, <3>3 DEF RoutingInit, RoutingTypeOK
    <3>5. \A r \in AutoRequests : request[r] = NoRequest
      BY <2>1 DEF RoutingInit
    <3>6. LockHeld /\ LastIsOwn
      BY <3>1, <3>2, <3>5 DEF LockHeld, LastIsOwn, Deciding
    <3>9. AllFindable
      BY <3>1, <3>2, <3>5 DEF AllFindable, Findable
    <3>7. KeysApart
      BY <2>1 DEF RoutingInit, KeysApart
    <3>8. QED BY <3>4, <3>6, <3>7, <3>9 DEF RoutingInv
  <2>2. QED BY <2>1
<1>2. RoutingInv /\ [RoutingNext]_routingVars => RoutingInv'
  <2>1. ASSUME RoutingInv, RoutingNext PROVE RoutingInv'
    <3>1. CASE GrowsOld \/ CatalogAges \/ TokenRenewed
      BY <2>1, <3>1, TimeStep
    <3>2. ASSUME NEW r \in AutoRequests,
                 RouteFails(r) \/ JudgesPick(r) \/ ListsCatalog(r) \/ ListingFails(r)
          PROVE  RoutingInv'
      <4>1. Decides(r)
        BY <2>1, <3>2, DecidingActions DEF RoutingInv
      <4>2. QED BY <2>1, <4>1, DecidesStep
    <3>3. QED BY <2>1, <3>1, <3>2, WordlessStep, ReusesStep, MovesStep DEF RoutingNext
  <2>2. ASSUME RoutingInv, UNCHANGED routingVars PROVE RoutingInv'
    <3>1. /\ UNCHANGED <<token, request, routing, decisions>>
          /\ UNCHANGED <<catalog, failed, last, dropped, overtaken>>
      BY <2>2 DEF routingVars
    <3>2. RoutingTypeOK'
      BY <2>2, <3>1 DEF RoutingInv, RoutingTypeOK
    <3>3. LockHeld' /\ KeysApart' /\ LastIsOwn'
      BY <2>2, <3>1 DEF RoutingInv, LockHeld, KeysApart, LastIsOwn, Deciding, Position
    <3>4. AllFindable'
      BY <2>2, <3>1 DEF RoutingInv, AllFindable, Findable
    <3>5. QED BY <3>2, <3>3, <3>4 DEF RoutingInv
  <2>3. QED BY <2>1, <2>2
<1>3. QED BY <1>1, <1>2, PTL DEF RoutingSpec

\* The requests for an automatic model, the lock, the remembered decisions and the catalog are
\* well formed; the effort that is sent is one of the ladder.
THEOREM RoutingTypeCorrect == RoutingSpec => []RoutingTypeOK
<1>1. RoutingInv => RoutingTypeOK
  BY DEF RoutingInv
<1>2. QED BY <1>1, RoutingInvHolds, PTL

\* The requests of a turn are sent by one decision, however many come at a time and whatever
\* Copilot answers (copilot_auto_session.py), unless it was pushed out or grew old.
THEOREM TurnsRoutedOnce == RoutingSpec => []TurnRoutedOnce
<1>1. RoutingInv => TurnRoutedOnce
  <2>1. SUFFICES ASSUME RoutingInv, NEW q \in AutoRequests, NEW r \in AutoRequests,
                        request[q].decision.turn # NoTurn,
                        request[q].decision.turn = request[r].decision.turn,
                        request[q].decision.token = request[r].decision.token,
                        request[q].decision.by \notin dropped,
                        request[r].decision.by \notin dropped
                 PROVE  request[q].decision.by = request[r].decision.by
    BY DEF TurnRoutedOnce
  <2>2. /\ KeysApart
        /\ \E d \in DecisionRecord : d = request[q].decision /\ Findable(d)
        /\ \E d \in DecisionRecord : d = request[r].decision /\ Findable(d)
    BY <2>1 DEF RoutingInv, AllFindable
  <2>3. PICK i \in DOMAIN decisions : /\ decisions[i].turn = request[q].decision.turn
                                      /\ decisions[i].token = request[q].decision.token
                                      /\ decisions[i].by = request[q].decision.by
    BY <2>1, <2>2 DEF Findable
  <2>4. PICK j \in DOMAIN decisions : /\ decisions[j].turn = request[r].decision.turn
                                      /\ decisions[j].token = request[r].decision.token
                                      /\ decisions[j].by = request[r].decision.by
    BY <2>1, <2>2 DEF Findable
  <2>5. QED BY <2>1, <2>2, <2>3, <2>4 DEF KeysApart
<1>2. QED BY <1>1, RoutingInvHolds, PTL

\* A chat reports the model that its request was sent to (_model_attribution), as long as no
\* other request was given a decision since.
THEOREM OwnModelReported == RoutingSpec => []ReportsOwn
<1>1. RoutingInv => ReportsOwn
  BY DEF RoutingInv, LastIsOwn, ReportsOwn
<1>2. QED BY <1>1, RoutingInvHolds, PTL

-----------------------------------------------------------------------------
(* Supervisor: the inductive invariant *)

\* Children are born in the order of their numbers, and nothing is known of one
\* that is not born.
Births ==
  \A c \in Children : c > process => kid[c] = "unborn" /\ missed[c] = Never

\* Only the child spawned last may be alive, and it is not where a coroutine has
\* yet to spawn the next one or has seen this one end.
LastAlive ==
  /\ \A c \in Children : Alive(c) => c = process
  /\ \A a \in Actors : at[a] \in {"spawn", "drain"} => ~Alive(process)
  /\ at["main"] \in {"boot", "unready", "down"} => ~Alive(process)

\* Only the last child has a pump; until the cleanup the manager knows it, so that
\* its drain retires it before the next spawn.
PumpKnown ==
  /\ pumps \subseteq {process}
  /\ at["main"] \in {"boot", "spawn", "ready", "serve"} => pumps \subseteq {output}
  /\ at["main"] = "boot" => pumps = {}
  /\ \A a \in Actors : at[a] = "spawn" => pumps = {}

\* The counter says no more than the child deserves.
Deserved ==
  at["watchdog"] # "off" => \/ missed[process] >= Threshold
                            \/ failures <= missed[process]

SupervisorInv == SupervisorTypeOK /\ Births /\ LastAlive /\ PumpKnown /\ Deserved

-----------------------------------------------------------------------------
(* What the shared parts of the actions do *)

\* A coroutine whose start failed: the children that were not alive stay as they
\* are, and at startup none is left alive.
LEMMA GivenUp ==
  ASSUME SupervisorTypeOK, NEW a \in Actors, GiveUp(a)
  PROVE  /\ at' = [at EXCEPT ![a] = IF a = "main" THEN "down" ELSE "sleep"]
         /\ kid' \in [Children -> Conditions]
         /\ backoff' \in BOOLEAN
         /\ \A c \in Children : kid'[c] \in Running => kid[c] \in Running
         /\ \A c \in Children : kid[c] = "unborn" => kid'[c] = "unborn"
         /\ a = "main" => \A c \in Children : kid'[c] \notin Running
<1> USE DEF Actors, Children, Conditions, Running, NoChild
<1>1. CASE a = "main"
  <2>1. kid' = [c \in Children |-> IF Alive(c) THEN "dead" ELSE kid[c]]
    BY <1>1 DEF GiveUp
  <2>2. \A c \in Children : kid'[c] = IF Alive(c) THEN "dead" ELSE kid[c]
    BY <2>1
  <2>3. QED
    BY <1>1, <2>1, <2>2 DEF GiveUp, SupervisorTypeOK, Alive
<1>2. CASE a = "watchdog"
  BY <1>2 DEF GiveUp, SupervisorTypeOK
<1>3. QED
  BY <1>1, <1>2

LEMMA FaultCounted == SupervisorTypeOK /\ Fault => faults' \in 0 .. MaxFaults
  BY SupervisorAssumption DEF SupervisorTypeOK, Fault

\* The parts of the state that a start leaves alone, and what it does to the rest.
LEMMA StartDoes ==
  ASSUME SupervisorTypeOK, NEW a \in Actors, Start(a)
  PROVE  /\ UNCHANGED <<process, failures, missed>>
         /\ stopping' = FALSE
         /\ faults' \in 0 .. MaxFaults
         /\ backoff' \in BOOLEAN
         /\ kid' \in [Children -> Conditions]
         /\ \A c \in Children : kid'[c] \in Running => kid[c] \in Running
         /\ \A c \in Children : kid[c] = "unborn" => kid'[c] = "unborn"
         /\ \/ at' = [at EXCEPT ![a] = "spawn"]
            \/ a = "main" /\ at' = [at EXCEPT ![a] = "down"]
            \/ a = "watchdog" /\ at' = [at EXCEPT ![a] = "sleep"]
<1>1. UNCHANGED <<process, failures, missed>> /\ stopping' = FALSE
  BY DEF Start
<1>2. CASE Fault /\ GiveUp(a)
  BY <1>1, <1>2, GivenUp, FaultCounted DEF Actors
<1>3. CASE at' = [at EXCEPT ![a] = "spawn"] /\ UNCHANGED <<kid, backoff, faults>>
  BY <1>1, <1>3 DEF SupervisorTypeOK
<1>4. QED
  BY <1>2, <1>3 DEF Start

-----------------------------------------------------------------------------
(* Steps *)

\* The startup hook of the managed OpenCode.
LEMMA LaunchKeeps == SupervisorInv /\ Launch => SupervisorInv'
<1> SUFFICES ASSUME SupervisorInv, Launch PROVE SupervisorInv'
  OBVIOUS
<1> USE SupervisorAssumption DEF Children, NoChild, Actors, Conditions, Never, Running
<1>1. /\ UNCHANGED <<process, failures, missed, output, pumps>>
      /\ stopping' \in BOOLEAN /\ backoff' \in BOOLEAN /\ faults' \in 0 .. MaxFaults
      /\ kid' \in [Children -> Conditions]
      /\ \A c \in Children : kid'[c] \in Running => kid[c] \in Running
      /\ \A c \in Children : kid[c] = "unborn" => kid'[c] = "unborn"
      /\ \E pc \in {"spawn", "down", "unready"} : at' = [at EXCEPT !["main"] = pc]
  <2>1. CASE Start("main")
    BY <2>1, StartDoes DEF Launch, SupervisorInv
  <2>2. CASE ~Start("main")
    BY <2>2 DEF Launch, SupervisorInv, SupervisorTypeOK
  <2>3. QED
    BY <2>1, <2>2
<1>2. at["main"] = "boot"
  BY DEF Launch
<1>3. SupervisorTypeOK'
  BY <1>1, <1>2 DEF SupervisorInv, SupervisorTypeOK
<1>4. Births'
  BY <1>1 DEF SupervisorInv, SupervisorTypeOK, Births
<1>5. LastAlive'
  BY <1>1, <1>2 DEF SupervisorInv, SupervisorTypeOK, LastAlive, Alive
<1>6. PumpKnown'
  BY <1>1, <1>2 DEF SupervisorInv, SupervisorTypeOK, PumpKnown
<1>7. Deserved'
  BY <1>1, <1>2 DEF SupervisorInv, SupervisorTypeOK, Deserved
<1>8. QED
  BY <1>3, <1>4, <1>5, <1>6, <1>7 DEF SupervisorInv

\* A coroutine, in a step of start or of stop.
LEMMA SpawnedKeeps == ASSUME SupervisorInv, NEW a \in Actors, Spawned(a) PROVE SupervisorInv'
<1> USE SupervisorAssumption DEF Children, NoChild, Actors, Conditions, Never, Running
<1> DEFINE c == process + 1
<1>1. c \in Children /\ process' = c /\ at[a] = "spawn"
  BY DEF Spawned
<1>2. /\ kid' = [kid EXCEPT ![c] = "starting"]
      /\ output' = c /\ pumps' = pumps \cup {c}
      /\ at' = [at EXCEPT ![a] = "ready"]
      /\ UNCHANGED <<stopping, failures, backoff, faults, missed>>
  BY <1>1 DEF Spawned
<1>3. pumps' = {c}
  BY <1>1, <1>2 DEF SupervisorInv, PumpKnown
<1>4. SupervisorTypeOK'
  BY <1>1, <1>2, <1>3 DEF SupervisorInv, SupervisorTypeOK
<1>5. Births'
  BY <1>1, <1>2 DEF SupervisorInv, SupervisorTypeOK, Births
<1>6. LastAlive'
  BY <1>1, <1>2 DEF SupervisorInv, SupervisorTypeOK, LastAlive, Alive
<1>7. PumpKnown'
  BY <1>1, <1>2, <1>3 DEF SupervisorInv, SupervisorTypeOK, PumpKnown
<1>8. missed'[process'] = Never
  BY <1>1, <1>2 DEF SupervisorInv, SupervisorTypeOK, Births
<1>9. Deserved'
  BY <1>8 DEF Deserved
<1>10. QED
  BY <1>4, <1>5, <1>6, <1>7, <1>9 DEF SupervisorInv

LEMMA GiveUpKeeps ==
  ASSUME SupervisorInv, NEW a \in Actors, at[a] \in {"spawn", "ready"}, GiveUp(a),
         UNCHANGED <<process, output, pumps, stopping, failures, missed>>,
         faults' \in 0 .. MaxFaults
  PROVE  SupervisorInv'
<1> USE SupervisorAssumption DEF Children, NoChild, Actors, Conditions, Never, Running
<1>1. /\ at' = [at EXCEPT ![a] = IF a = "main" THEN "down" ELSE "sleep"]
      /\ kid' \in [Children -> Conditions]
      /\ backoff' \in BOOLEAN
      /\ \A c \in Children : kid'[c] \in Running => kid[c] \in Running
      /\ \A c \in Children : kid[c] = "unborn" => kid'[c] = "unborn"
      /\ a = "main" => \A c \in Children : kid'[c] \notin Running
  BY GivenUp DEF SupervisorInv
<1>2. SupervisorTypeOK'
  BY <1>1 DEF SupervisorInv, SupervisorTypeOK
<1>3. Births'
  BY <1>1 DEF SupervisorInv, SupervisorTypeOK, Births
<1>4. LastAlive'
  BY <1>1 DEF SupervisorInv, SupervisorTypeOK, LastAlive, Alive
<1>5. PumpKnown'
  BY <1>1 DEF SupervisorInv, SupervisorTypeOK, PumpKnown
<1>6. Deserved'
  BY <1>1 DEF SupervisorInv, SupervisorTypeOK, Deserved
<1>7. QED
  BY <1>2, <1>3, <1>4, <1>5, <1>6 DEF SupervisorInv

LEMMA StartedKeeps == ASSUME SupervisorInv, NEW a \in Actors, Started(a) PROVE SupervisorInv'
<1> USE SupervisorAssumption DEF Children, NoChild, Actors, Conditions, Never, Running
<1>1. /\ at[a] = "ready" /\ kid[process] = "healthy" /\ failures' = 0
      /\ missed' = [missed EXCEPT ![process] = 0]
      /\ UNCHANGED <<process, kid, output, pumps, stopping, faults>>
  BY DEF Started
<1>2. process \in Children
  BY <1>1 DEF SupervisorInv, SupervisorTypeOK
<1>3. backoff' \in BOOLEAN
  BY DEF SupervisorInv, SupervisorTypeOK, Started, Resume
<1>4. a = "watchdog" => at["main"] = "serve"
  BY <1>1 DEF SupervisorInv, SupervisorTypeOK
<1>5. at' = [x \in Actors |-> IF x = "main" THEN "serve" ELSE "sleep"]
  <2>1. CASE a = "main"
    BY <2>1 DEF Started, Resume
  <2>2. CASE a = "watchdog"
    BY <2>2, <1>4 DEF SupervisorInv, SupervisorTypeOK, Started, Resume
  <2>3. QED
    BY <2>1, <2>2
<1>6. SupervisorTypeOK'
  BY <1>1, <1>2, <1>3, <1>5 DEF SupervisorInv, SupervisorTypeOK
<1>7. Births'
  BY <1>1, <1>2 DEF SupervisorInv, SupervisorTypeOK, Births
<1>8. LastAlive'
  BY <1>1, <1>5 DEF SupervisorInv, SupervisorTypeOK, LastAlive, Alive
<1>9. at["main"] \in {"ready", "serve"}
  BY <1>1 DEF SupervisorInv, SupervisorTypeOK
<1>10. PumpKnown'
  BY <1>1, <1>5, <1>9 DEF SupervisorInv, SupervisorTypeOK, PumpKnown
<1>11. Deserved'
  BY <1>1, <1>2 DEF SupervisorInv, SupervisorTypeOK, Deserved
<1>12. QED
  BY <1>6, <1>7, <1>8, <1>10, <1>11 DEF SupervisorInv

LEMMA ManagerKeeps == ASSUME SupervisorInv, NEW a \in Actors, ManagerStep(a) PROVE SupervisorInv'
<1> USE SupervisorAssumption DEF Children, NoChild, Actors, Conditions, Never, Running
<1>1. CASE Spawned(a)
  BY <1>1, SpawnedKeeps
<1>2. CASE SpawnFails(a)
  <2>1. faults' \in 0 .. MaxFaults
    BY <1>2, FaultCounted DEF SpawnFails, SupervisorInv
  <2>2. QED
    BY <1>2, <2>1, GiveUpKeeps DEF SpawnFails
<1>3. CASE Started(a)
  BY <1>3, StartedKeeps
<1>4. CASE NotReady(a)
  <2>1. faults' \in 0 .. MaxFaults
    BY <1>4, FaultCounted DEF NotReady, SupervisorInv, SupervisorTypeOK
  <2>2. QED
    BY <1>4, <2>1, GiveUpKeeps DEF NotReady
<1>5. CASE ChildGone(a)
  <2> USE <1>5 DEF ChildGone
  <2>1. SupervisorTypeOK'
    BY DEF SupervisorInv, SupervisorTypeOK
  <2>2. Births'
    BY DEF SupervisorInv, Births
  <2>3. LastAlive'
    BY DEF SupervisorInv, SupervisorTypeOK, LastAlive, Alive
  <2>4. PumpKnown'
    BY DEF SupervisorInv, SupervisorTypeOK, PumpKnown
  <2>5. Deserved'
    BY DEF SupervisorInv, SupervisorTypeOK, Deserved
  <2>6. QED
    BY <2>1, <2>2, <2>3, <2>4, <2>5 DEF SupervisorInv
<1>6. CASE Kill(a)
  <2> USE <1>6 DEF Kill
  <2>1. SupervisorTypeOK'
    BY DEF SupervisorInv, SupervisorTypeOK
  <2>2. Births'
    BY DEF SupervisorInv, SupervisorTypeOK, Births
  <2>3. LastAlive'
    BY DEF SupervisorInv, SupervisorTypeOK, LastAlive, Alive
  <2>4. PumpKnown'
    BY DEF SupervisorInv, PumpKnown
  <2>5. Deserved'
    BY DEF SupervisorInv, Deserved
  <2>6. QED
    BY <2>1, <2>2, <2>3, <2>4, <2>5 DEF SupervisorInv
<1>7. QED
  BY <1>1, <1>2, <1>3, <1>4, <1>5, <1>6 DEF ManagerStep

\* The watchdog's stop ends and its start begins.
LEMMA RestartKeeps == SupervisorInv /\ Restart => SupervisorInv'
<1> SUFFICES ASSUME SupervisorInv, Restart PROVE SupervisorInv'
  OBVIOUS
<1> USE SupervisorAssumption DEF Children, NoChild, Actors, Conditions, Never, Running
<1>1. /\ UNCHANGED <<process, failures, missed>>
      /\ stopping' = FALSE
      /\ faults' \in 0 .. MaxFaults
      /\ backoff' \in BOOLEAN
      /\ kid' \in [Children -> Conditions]
      /\ \A c \in Children : kid'[c] \in Running => kid[c] \in Running
      /\ \A c \in Children : kid[c] = "unborn" => kid'[c] = "unborn"
      /\ \/ at' = [at EXCEPT !["watchdog"] = "spawn"]
         \/ at' = [at EXCEPT !["watchdog"] = "sleep"]
  BY StartDoes DEF SupervisorInv, Restart
<1>2. at["watchdog"] = "drain" /\ at["main"] = "serve"
  BY DEF Restart, SupervisorInv, SupervisorTypeOK
<1>3. output' = NoChild /\ pumps' = {}
  BY <1>2 DEF Restart, Drain, SupervisorInv, PumpKnown
<1>4. SupervisorTypeOK'
  BY <1>1, <1>2, <1>3 DEF SupervisorInv, SupervisorTypeOK
<1>5. Births'
  BY <1>1 DEF SupervisorInv, SupervisorTypeOK, Births
<1>6. LastAlive'
  BY <1>1, <1>2 DEF SupervisorInv, SupervisorTypeOK, LastAlive, Alive
<1>7. PumpKnown'
  BY <1>3 DEF PumpKnown
<1>8. Deserved'
  BY <1>1, <1>2 DEF SupervisorInv, SupervisorTypeOK, Deserved
<1>9. QED
  BY <1>4, <1>5, <1>6, <1>7, <1>8 DEF SupervisorInv

\* The cleanup, from its first hook that matters here to its end.
LEMMA CleanupKeeps == SupervisorInv /\ Cleanup => SupervisorInv'
<1> SUFFICES ASSUME SupervisorInv, Cleanup PROVE SupervisorInv'
  OBVIOUS
<1> USE SupervisorAssumption DEF Children, NoChild, Actors, Conditions, Never, Running
<1>1. /\ at["main"] \in {"serve", "unready"}
      /\ stopping' = TRUE /\ output' \in {NoChild, output}
      /\ UNCHANGED <<process, kid, pumps, failures, backoff, faults, missed>>
      /\ StopAwait \in {"term", "drain"} /\ (StopAwait = "term" <=> Alive(process))
  BY DEF Cleanup, StopAwait
<1>2. at' = [x \in Actors |-> IF x = "main" THEN StopAwait ELSE "off"]
  BY DEF Cleanup
<1>3. SupervisorTypeOK'
  BY <1>1, <1>2 DEF SupervisorInv, SupervisorTypeOK, Alive
<1>4. Births'
  BY <1>1 DEF SupervisorInv, Births
<1>5. LastAlive'
  BY <1>1, <1>2 DEF SupervisorInv, LastAlive, Alive
<1>6. PumpKnown'
  BY <1>1, <1>2 DEF SupervisorInv, PumpKnown
<1>7. Deserved'
  BY <1>2 DEF Deserved
<1>8. QED
  BY <1>3, <1>4, <1>5, <1>6, <1>7 DEF SupervisorInv

LEMMA DownKeeps == SupervisorInv /\ Down => SupervisorInv'
<1> SUFFICES ASSUME SupervisorInv, Down PROVE SupervisorInv'
  OBVIOUS
<1> USE SupervisorAssumption DEF Children, NoChild, Actors, Conditions, Never, Running, Down, Drain
<1>1. SupervisorTypeOK'
  BY DEF SupervisorInv, SupervisorTypeOK
<1>2. Births'
  BY DEF SupervisorInv, Births
<1>3. LastAlive'
  BY DEF SupervisorInv, SupervisorTypeOK, LastAlive, Alive
<1>4. PumpKnown'
  BY DEF SupervisorInv, SupervisorTypeOK, PumpKnown
<1>5. Deserved'
  BY DEF SupervisorInv, SupervisorTypeOK, Deserved
<1>6. QED
  BY <1>1, <1>2, <1>3, <1>4, <1>5 DEF SupervisorInv

\* The watchdog's loop.
LEMMA WatchdogKeeps == SupervisorInv /\ WatchdogStep => SupervisorInv'
<1> SUFFICES ASSUME SupervisorInv, WatchdogStep PROVE SupervisorInv'
  OBVIOUS
<1> USE SupervisorAssumption DEF Children, NoChild, Actors, Conditions, Never, Running
<1>1. CASE Restart
  BY <1>1, RestartKeeps
<1>2. ASSUME UNCHANGED <<process, kid, output, pumps, backoff, faults>>,
             stopping' \in BOOLEAN, failures' \in Nat,
             missed' \in [Children -> 0 .. Never],
             \A c \in Children : c # process => missed'[c] = missed[c],
             NEW pc \in {"sleep", "probe", "term", "drain"},
             at' = [at EXCEPT !["watchdog"] = pc], at["watchdog"] # "off",
             pc = "drain" => ~Alive(process),
             Deserved'
      PROVE  SupervisorInv'
  <2>1. SupervisorTypeOK'
    BY <1>2 DEF SupervisorInv, SupervisorTypeOK
  <2>2. Births'
    BY <1>2 DEF SupervisorInv, SupervisorTypeOK, Births
  <2>3. LastAlive'
    BY <1>2 DEF SupervisorInv, SupervisorTypeOK, LastAlive, Alive
  <2>4. PumpKnown'
    BY <1>2 DEF SupervisorInv, SupervisorTypeOK, PumpKnown
  <2>5. QED
    BY <1>2, <2>1, <2>2, <2>3, <2>4 DEF SupervisorInv
<1>3. StopAwait \in {"term", "drain"} /\ (StopAwait = "drain" => ~Alive(process))
  BY DEF StopAwait
<1>4. CASE SeesExit
  <2>1. Deserved'
    BY <1>4 DEF SeesExit, SupervisorInv, SupervisorTypeOK, Deserved
  <2>2. QED
    BY <1>2, <1>3, <1>4, <2>1 DEF SeesExit, SupervisorInv, SupervisorTypeOK
<1>5. CASE Probe
  <2>1. Deserved'
    BY <1>5 DEF Probe, SupervisorInv, SupervisorTypeOK, Deserved
  <2>2. QED
    BY <1>2, <1>5, <2>1 DEF Probe, SupervisorInv, SupervisorTypeOK
<1>6. CASE ProbedHealthy
  <2>1. process \in Children
    BY <1>6 DEF ProbedHealthy, SupervisorInv, SupervisorTypeOK
  <2>2. Deserved'
    BY <1>6, <2>1 DEF ProbedHealthy, SupervisorInv, SupervisorTypeOK, Deserved
  <2>3. QED
    BY <1>2, <1>6, <2>1, <2>2 DEF ProbedHealthy, SupervisorInv, SupervisorTypeOK
<1>7. CASE ProbedUnhealthy
  <2>1. process \in Children
    BY <1>7 DEF ProbedUnhealthy, SupervisorInv, SupervisorTypeOK
  <2>2. /\ missed' \in [Children -> 0 .. Never]
        /\ missed'[process] = IF missed[process] < Threshold THEN missed[process] + 1 ELSE missed[process]
        /\ \A c \in Children : c # process => missed'[c] = missed[c]
    BY <1>7, <2>1 DEF ProbedUnhealthy, SupervisorInv, SupervisorTypeOK
  <2>3. Deserved'
    BY <1>7, <2>1, <2>2 DEF ProbedUnhealthy, SupervisorInv, SupervisorTypeOK, Deserved
  <2>4. CASE at' = [at EXCEPT !["watchdog"] = "sleep"] /\ UNCHANGED stopping
    BY <1>2, <1>7, <2>2, <2>3, <2>4 DEF ProbedUnhealthy, SupervisorInv, SupervisorTypeOK
  <2>5. CASE at' = [at EXCEPT !["watchdog"] = StopAwait] /\ stopping' = TRUE
    <3>1. failures' \in Nat /\ at["watchdog"] # "off"
      BY <1>7 DEF ProbedUnhealthy, SupervisorInv, SupervisorTypeOK
    <3>2. UNCHANGED <<process, kid, output, pumps, backoff, faults>>
      BY <1>7 DEF ProbedUnhealthy
    <3>3. QED
      BY <1>2, <1>3, <2>2, <2>3, <2>5, <3>1, <3>2
  <2>6. QED
    BY <1>7, <2>4, <2>5 DEF ProbedUnhealthy
<1>8. CASE BackoffEnds
  BY <1>8 DEF BackoffEnds, SupervisorInv, SupervisorTypeOK, Births, LastAlive, Alive, PumpKnown, Deserved
<1>9. QED
  BY <1>1, <1>4, <1>5, <1>6, <1>7, <1>8 DEF WatchdogStep

\* The child, its output and its faults.
LEMMA ChildKeeps == ASSUME SupervisorInv, NEW c \in Children, ChildStep(c) PROVE SupervisorInv'
<1> USE SupervisorAssumption DEF Children, NoChild, Actors, Conditions, Never, Running
<1>1. ASSUME NEW condition \in {"healthy", "hung", "dead"}, Becomes(c, condition),
             kid[c] \in Running, faults' \in 0 .. MaxFaults
      PROVE  SupervisorInv'
  <2> USE <1>1 DEF Becomes
  <2>1. SupervisorTypeOK'
    BY DEF SupervisorInv, SupervisorTypeOK
  <2>2. Births'
    BY DEF SupervisorInv, SupervisorTypeOK, Births
  <2>3. LastAlive'
    BY DEF SupervisorInv, SupervisorTypeOK, LastAlive, Alive
  <2>4. PumpKnown'
    BY DEF SupervisorInv, PumpKnown
  <2>5. Deserved'
    BY DEF SupervisorInv, Deserved
  <2>6. QED
    BY <2>1, <2>2, <2>3, <2>4, <2>5 DEF SupervisorInv
<1>2. faults \in 0 .. MaxFaults
  BY DEF SupervisorInv, SupervisorTypeOK
<1>3. Fault => faults' \in 0 .. MaxFaults
  BY FaultCounted DEF SupervisorInv
<1>4. CASE ComesUp(c)
  BY <1>1, <1>2, <1>4 DEF ComesUp
<1>5. CASE Recovers(c)
  BY <1>1, <1>2, <1>5 DEF Recovers
<1>6. CASE Hangs(c)
  BY <1>1, <1>3, <1>6 DEF Hangs
<1>7. CASE Dies(c)
  BY <1>1, <1>2, <1>3, <1>7 DEF Dies, Alive
<1>8. CASE PumpEnds(c)
  BY <1>8 DEF PumpEnds, SupervisorInv, SupervisorTypeOK, Births, LastAlive, Alive, PumpKnown, Deserved
<1>9. QED
  BY <1>4, <1>5, <1>6, <1>7, <1>8 DEF ChildStep

LEMMA NextKeeps == SupervisorInv /\ [SupervisorNext]_supervisorVars => SupervisorInv'
<1> SUFFICES ASSUME SupervisorInv, [SupervisorNext]_supervisorVars PROVE SupervisorInv'
  OBVIOUS
<1>1. CASE SupervisorNext
  BY <1>1, LaunchKeeps, CleanupKeeps, DownKeeps, WatchdogKeeps, ManagerKeeps, ChildKeeps
  DEF SupervisorNext
<1>2. CASE UNCHANGED supervisorVars
  BY <1>2 DEF supervisorVars, SupervisorInv, SupervisorTypeOK, Births, LastAlive, Alive, PumpKnown, Deserved
<1>3. QED
  BY <1>1, <1>2

LEMMA SupervisorStarts == SupervisorInit => SupervisorInv
<1> SUFFICES ASSUME SupervisorInit PROVE SupervisorInv
  OBVIOUS
<1> USE SupervisorAssumption DEF Children, NoChild, Actors, Conditions, Never, Running, SupervisorInit
<1>1. SupervisorTypeOK
  <2>1. at["main"] = "boot" /\ at["watchdog"] = "off"
    OBVIOUS
  <2>2. missed \in [Children -> 0 .. Never] /\ kid \in [Children -> Conditions]
    OBVIOUS
  <2>3. at \in [Actors -> {"boot", "spawn", "ready", "unready", "serve", "off",
                          "sleep", "probe", "term", "drain", "down"}]
    OBVIOUS
  <2>4. /\ process = NoChild /\ output = NoChild /\ pumps = {} /\ stopping = FALSE
        /\ failures = 0 /\ backoff = FALSE /\ faults = 0 /\ MaxFaults \in Nat
    OBVIOUS
  <2>5. \A a \in Actors : at[a] \in {"term", "ready"} => process # NoChild
    BY <2>1
  <2> HIDE DEF SupervisorInit, Conditions, Actors, Never, Running
  <2>6. pumps \subseteq 1 .. process /\ process \in {NoChild} \cup Children /\ output \in {NoChild, process}
    BY <2>4
  <2>7. failures \in Nat /\ faults \in 0 .. MaxFaults
    BY <2>4
  <2>8. stopping \in BOOLEAN /\ backoff \in BOOLEAN
    BY <2>4, Zenon
  <2>9. QED
    BY <2>1, <2>2, <2>3, <2>5, <2>6, <2>7, <2>8 DEF SupervisorTypeOK
<1>2. Births /\ LastAlive /\ PumpKnown /\ Deserved
  BY DEF Births, LastAlive, Alive, PumpKnown, Deserved
<1>3. QED
  BY <1>1, <1>2 DEF SupervisorInv

LEMMA Invariance == SupervisorSpec => []SupervisorInv
  BY SupervisorStarts, NextKeeps, PTL DEF SupervisorSpec

-----------------------------------------------------------------------------
(* Theorems *)

\* The watchdog is at work only while the adapter serves, and coroutine and child
\* are where the code can leave them.
THEOREM SupervisorTypeCorrect == SupervisorSpec => []SupervisorTypeOK
<1>1. SupervisorInv => SupervisorTypeOK
  BY DEF SupervisorInv
<1>2. QED
  BY <1>1, Invariance, PTL

\* There is one child at most, none once the adapter is down, and one log pump.
THEOREM OneChildHolds == SupervisorSpec => []OneChild
<1>1. SupervisorInv => OneChild
  BY DEF SupervisorInv, LastAlive, PumpKnown, OneChild, Actors
<1>2. QED
  BY <1>1, Invariance, PTL

\* No child that was found healthy is terminated by the watchdog before it failed
\* as many probes in a row as the threshold says.
THEOREM PatienceHolds == SupervisorSpec => KilledForCause
<1>1. SupervisorInv /\ [SupervisorNext]_supervisorVars => [at["watchdog"] # "term" /\ at'["watchdog"] = "term"
                                => missed'[process] >= Threshold]_supervisorVars
  <2> SUFFICES ASSUME SupervisorInv, SupervisorNext, at["watchdog"] # "term", at'["watchdog"] = "term"
               PROVE  missed'[process] >= Threshold
    BY DEF supervisorVars
  <2> USE SupervisorAssumption DEF Children, NoChild, Actors, Conditions, Never, Running
  <2>1. CASE ProbedUnhealthy
    <3>1. process \in Children /\ missed[process] \in 0 .. Never
      BY <2>1 DEF ProbedUnhealthy, SupervisorInv, SupervisorTypeOK
    <3>2. missed'[process] = IF missed[process] < Threshold THEN missed[process] + 1 ELSE missed[process]
      BY <2>1, <3>1 DEF ProbedUnhealthy, SupervisorInv, SupervisorTypeOK
    <3>3. failures + 1 >= Threshold
      BY <2>1 DEF ProbedUnhealthy, SupervisorInv, SupervisorTypeOK
    <3>4. QED
      BY <2>1, <3>1, <3>2, <3>3 DEF ProbedUnhealthy, SupervisorInv, SupervisorTypeOK, Deserved
  <2>2. CASE WatchdogStep /\ ~ProbedUnhealthy
    BY <2>2, StartDoes DEF WatchdogStep, SeesExit, Probe, ProbedHealthy, Restart, BackoffEnds,
       StopAwait, SupervisorInv, SupervisorTypeOK
  <2>3. CASE Launch
    BY <2>3, StartDoes DEF Launch, SupervisorInv, SupervisorTypeOK
  <2>4. CASE Cleanup \/ Down
    BY <2>4 DEF Cleanup, Down, SupervisorInv, SupervisorTypeOK
  <2>5. ASSUME NEW a \in Actors, ManagerStep(a) PROVE FALSE
    BY <2>5, GivenUp DEF ManagerStep, Spawned, SpawnFails, Started, Resume, NotReady, ChildGone,
       Kill, SupervisorInv, SupervisorTypeOK
  <2>6. ASSUME NEW c \in Children, ChildStep(c) PROVE FALSE
    BY <2>6 DEF ChildStep, ComesUp, Recovers, Hangs, Dies, PumpEnds, Becomes
  <2>7. QED
    BY <2>1, <2>2, <2>3, <2>4, <2>5, <2>6 DEF SupervisorNext
<1>2. QED
  BY <1>1, Invariance, PTL DEF SupervisorSpec, KilledForCause


-----------------------------------------------------------------------------
(* Credentials: the inductive invariant *)

AtProvider == {"asking", "told"}

\* A call at the provider holds the lock.
AskerHoldsLock ==
  \A c \in Calls : call[c].pc \in AtProvider => lock # <<>> /\ Head(lock) = c

\* The cache is still as the call found it when it asked: not good for its account.
AskedForCause ==
  \A c \in Calls : call[c].pc \in AtProvider =>
    /\ call[c].account \in Accounts
    /\ call[c].since <= clock
    /\ \/ cached = NoAnswer
       \/ cached.account # call[c].account
       \/ cached.expires - call[c].since < Margin[kind]

\* A cached answer ends for the adapter no later than for the provider, and one that is
\* on its way will.
HonestLife ==
  /\ cached.expires <= cached.dies
  /\ \A c \in Calls : kind = "platform" /\ call[c].pc = "told"
                        => call[c].since + Life[kind] <= call[c].dies

CredentialsInv ==
  /\ CredentialsTypeOK
  /\ AskerHoldsLock /\ AskedForCause /\ HonestLife
  /\ ExchangeShared /\ SharedIsGood

-----------------------------------------------------------------------------
(* What the shared parts of the actions do *)

LEMMA NoneIsNone ==
  /\ \A answer \in CachedAnswer : answer # NoAnswer
  /\ NoAnswer.account = NoAccount /\ NoAnswer.expires = 0 /\ NoAnswer.dies = 0
  BY CredentialsAssumption DEF CachedAnswer, NoAnswer

LEMMA NoCallTyped == NoCall \in Call /\ NoCall.pc = "idle" /\ NoCall.taken = NoAccount
  BY DEF NoCall, Call, Steps

\* At most one call is at the provider.
LEMMA OneAtProvider ==
  ASSUME AskerHoldsLock, NEW c \in Calls, NEW d \in Calls,
         lock # <<>>, Head(lock) = c, call[d].pc \in AtProvider
  PROVE  d = c
  BY DEF AskerHoldsLock

\* The lock is passed on.
LEMMA ReleaseTyped ==
  ASSUME lock \in Seq(Calls), lock # <<>>
  PROVE  Tail(lock) \in Seq(Calls)
  BY HeadTailProperties

\* A call that takes an answer of the cache takes a good one.
LEMMA TakesGood ==
  ASSUME CredentialsInv, NEW c \in Calls, NEW account \in Accounts, Valid(account),
         TakesCached(c, account)
  PROVE  /\ call' \in [Calls -> Call]
         /\ call'[c].pc = "served"
         /\ call'[c].taken = call'[c].account
         /\ call'[c].left >= Margin[kind]
         /\ \A d \in Calls \ {c} : call'[d] = call[d]
<1> DEFINE served == [NoCall EXCEPT !.pc = "served", !.account = account,
                                    !.taken = cached.account, !.left = cached.dies - clock]
<1>1. cached \in CachedAnswer /\ cached.account = account
      /\ cached.expires - clock >= Margin[kind] /\ cached.expires <= cached.dies
  BY DEF CredentialsInv, CredentialsTypeOK, Valid, HonestLife
<1>2. served \in Call
  <2>1. cached.account \in Accounts /\ cached.dies - clock \in Int
    BY <1>1 DEF CachedAnswer, CredentialsInv, CredentialsTypeOK
  <2>2. QED
    BY <2>1, NoCallTyped DEF Call, Steps
<1>3. /\ served.pc = "served" /\ served.taken = served.account
      /\ served.left = cached.dies - clock
  BY <1>1, NoCallTyped DEF Call
<1>4. Margin[kind] \in Nat
  BY CredentialsAssumption DEF CredentialsInv, CredentialsTypeOK
<1>5. served.left >= Margin[kind]
  BY <1>1, <1>3, <1>4 DEF CachedAnswer, CredentialsInv, CredentialsTypeOK
<1>6. call' = [call EXCEPT ![c] = served] /\ call \in [Calls -> Call]
  BY DEF TakesCached, CredentialsInv, CredentialsTypeOK
<1> HIDE DEF served
<1>7. QED
  BY <1>2, <1>3, <1>5, <1>6

\* A call that ends, and one whose answer is its own.
LEMMA EndsTyped ==
  ASSUME CredentialsTypeOK, NEW c \in Calls, Ends(c)
  PROVE  /\ call' \in [Calls -> Call]
         /\ call'[c].pc = "over"
         /\ \A d \in Calls \ {c} : call'[d] = call[d]
<1> DEFINE over == [NoCall EXCEPT !.pc = "over"]
<1>1. over \in Call /\ over.pc = "over"
  BY NoCallTyped DEF Call, Steps
<1>2. call' = [call EXCEPT ![c] = over] /\ call \in [Calls -> Call]
  BY DEF Ends, CredentialsTypeOK
<1> HIDE DEF over
<1>3. QED
  BY <1>1, <1>2

\* Storing an answer that was asked for with cause keeps the invariant.
LEMMA StoreKeeps ==
  ASSUME CredentialsInv, NEW c \in Calls, NEW answer \in CachedAnswer, Store(c, answer),
         lock # <<>>, Head(lock) = c,
         answer.expires <= answer.dies,
         \/ cached = NoAnswer
         \/ cached.account # answer.account
         \/ cached.expires - answer.asked < Margin[kind],
         UNCHANGED <<kind, clock, file>>
  PROVE  CredentialsInv'
<1> DEFINE served == [NoCall EXCEPT !.pc = "served", !.account = answer.account]
<1>1. served \in Call /\ served.pc = "served" /\ served.taken = NoAccount
  BY NoCallTyped DEF Call, Steps, CachedAnswer
<1>2. /\ call' = [call EXCEPT ![c] = served] /\ call \in [Calls -> Call]
      /\ cached' = answer /\ previous' = cached /\ lock' = Tail(lock)
  BY DEF Store, Release, CredentialsInv, CredentialsTypeOK
<1> HIDE DEF served
<1>3. call' \in [Calls -> Call] /\ call'[c] = served
      /\ \A d \in Calls \ {c} : call'[d] = call[d]
  BY <1>1, <1>2
<1>4. \A d \in Calls : call'[d].pc \notin AtProvider
  BY <1>1, <1>3, OneAtProvider DEF AtProvider, CredentialsInv
<1>5. CredentialsTypeOK'
  BY <1>2, <1>3, ReleaseTyped DEF CredentialsInv, CredentialsTypeOK
<1>6. AskerHoldsLock' /\ AskedForCause'
  BY <1>4 DEF AskerHoldsLock, AskedForCause
<1>7. HonestLife'
  BY <1>2, <1>4 DEF HonestLife, AtProvider
<1>8. ExchangeShared'
  BY <1>2 DEF ExchangeShared
<1>9. SharedIsGood'
  BY <1>1, <1>3 DEF SharedIsGood, CredentialsInv
<1>10. QED
  BY <1>5, <1>6, <1>7, <1>8, <1>9 DEF CredentialsInv

\* A call that goes on, or comes, away from the provider keeps the invariant.
LEMMA CallKeeps ==
  ASSUME CredentialsInv, NEW c \in Calls,
         call' \in [Calls -> Call],
         \A d \in Calls \ {c} : call'[d] = call[d],
         call'[c].pc \notin AtProvider,
         call'[c].pc = "served" /\ call'[c].taken # NoAccount
           => call'[c].taken = call'[c].account /\ call'[c].left >= Margin[kind],
         UNCHANGED <<kind, clock, file, cached, previous>>,
         lock' \in Seq(Calls),
         \A d \in Calls \ {c} : call[d].pc \in AtProvider => lock' # <<>> /\ Head(lock') = d
  PROVE  CredentialsInv'
<1>1. \A d \in Calls : call'[d].pc \in AtProvider => d # c /\ call'[d] = call[d]
  OBVIOUS
<1>2. CredentialsTypeOK'
  BY DEF CredentialsInv, CredentialsTypeOK
<1>3. AskerHoldsLock'
  BY <1>1 DEF AskerHoldsLock
<1>4. AskedForCause'
  BY <1>1 DEF AskedForCause, CredentialsInv
<1>5. HonestLife'
  BY <1>1 DEF HonestLife, CredentialsInv, AtProvider
<1>6. ExchangeShared'
  BY DEF ExchangeShared, CredentialsInv
<1>7. SharedIsGood'
  BY DEF SharedIsGood, CredentialsInv
<1>8. QED
  BY <1>2, <1>3, <1>4, <1>5, <1>6, <1>7 DEF CredentialsInv

\* So does one that leaves the lock.
LEMMA LeavesLock ==
  ASSUME CredentialsInv, NEW c \in Calls, lock # <<>>, Head(lock) = c, Release
  PROVE  /\ lock' \in Seq(Calls)
         /\ \A d \in Calls \ {c} : call[d].pc \notin AtProvider
<1>1. lock' \in Seq(Calls)
  BY ReleaseTyped DEF Release, CredentialsInv, CredentialsTypeOK
<1>2. \A d \in Calls \ {c} : call[d].pc \notin AtProvider
  BY OneAtProvider DEF CredentialsInv
<1>3. QED
  BY <1>1, <1>2

-----------------------------------------------------------------------------
(* Each step keeps the invariant *)

LEMMA CredentialsStart == CredentialsInit => CredentialsInv
<1> SUFFICES ASSUME CredentialsInit PROVE CredentialsInv
  OBVIOUS
<1>1. \A c \in Calls : call[c] = NoCall
  BY DEF CredentialsInit
<1>2. NoCall.pc = "idle" /\ NoCall \in Call
  BY NoCallTyped DEF NoCall
<1>3. file \in Accounts \cup {NoAccount}
  BY DEF CredentialsInit, Configured, SaveOrClearCopilot, SaveOrClearPlatform
<1>4. <<>> \in Seq(Calls)
  OBVIOUS
<1>5. CredentialsTypeOK
  BY <1>2, <1>3, <1>4 DEF CredentialsInit, CredentialsTypeOK
<1>6. AskerHoldsLock /\ AskedForCause /\ HonestLife
  BY <1>1, <1>2, NoneIsNone
  DEF AskerHoldsLock, AskedForCause, HonestLife, AtProvider, CredentialsInit
<1>7. ExchangeShared /\ SharedIsGood
  BY <1>1, <1>2 DEF ExchangeShared, SharedIsGood, CredentialsInit
<1>8. QED
  BY <1>5, <1>6, <1>7 DEF CredentialsInv

LEMMA RewrittenKeeps == CredentialsInv /\ Rewritten => CredentialsInv'
<1> SUFFICES ASSUME CredentialsInv, Rewritten PROVE CredentialsInv'
  OBVIOUS
<1>1. file' \in Accounts \cup {NoAccount}
  BY DEF Rewritten, Configured, SaveOrClearCopilot, SaveOrClearPlatform
<1>2. UNCHANGED <<kind, clock, cached, call, lock, previous>>
  BY DEF Rewritten
<1>3. CredentialsTypeOK'
  BY <1>1, <1>2 DEF CredentialsInv, CredentialsTypeOK
<1>4. AskerHoldsLock' /\ AskedForCause' /\ HonestLife' /\ ExchangeShared' /\ SharedIsGood'
  BY <1>2 DEF CredentialsInv, AskerHoldsLock, AskedForCause, HonestLife, ExchangeShared, SharedIsGood
<1>5. QED
  BY <1>3, <1>4 DEF CredentialsInv

LEMMA TickKeeps == CredentialsInv /\ Tick => CredentialsInv'
<1> SUFFICES ASSUME CredentialsInv, Tick PROVE CredentialsInv'
  OBVIOUS
<1>1. UNCHANGED <<kind, file, cached, call, lock, previous>> /\ clock' = clock + 1
  BY DEF Tick
<1>2. CredentialsTypeOK'
  BY <1>1 DEF CredentialsInv, CredentialsTypeOK
<1>3. AskedForCause'
  BY <1>1 DEF CredentialsInv, AskedForCause, CredentialsTypeOK, Call
<1>4. AskerHoldsLock' /\ HonestLife' /\ ExchangeShared' /\ SharedIsGood'
  BY <1>1 DEF CredentialsInv, AskerHoldsLock, HonestLife, ExchangeShared, SharedIsGood
<1>5. QED
  BY <1>2, <1>3, <1>4 DEF CredentialsInv

LEMMA ComingKeeps ==
  ASSUME CredentialsInv, NEW c \in Calls, Unconfigured(c) \/ Hits(c) \/ Misses(c)
  PROVE  CredentialsInv'
<1>1. CASE Unconfigured(c)
  <2>1. Ends(c) /\ UNCHANGED <<kind, clock, file, cached, lock, previous>>
    BY <1>1 DEF Unconfigured
  <2>2. /\ call' \in [Calls -> Call] /\ call'[c].pc = "over"
        /\ \A d \in Calls \ {c} : call'[d] = call[d]
    BY <2>1, EndsTyped DEF CredentialsInv
  <2>3. QED
    BY <2>1, <2>2, CallKeeps DEF CredentialsInv, AskerHoldsLock, CredentialsTypeOK, AtProvider
<1>2. CASE Hits(c)
  <2>1. /\ TakesCached(c, file) /\ Valid(file) /\ file \in Accounts
        /\ UNCHANGED <<kind, clock, file, cached, lock, previous>>
    BY <1>2 DEF Hits, CredentialsInv, CredentialsTypeOK
  <2>2. /\ call' \in [Calls -> Call]
        /\ call'[c].pc = "served"
        /\ call'[c].taken = call'[c].account
        /\ call'[c].left >= Margin[kind]
        /\ \A d \in Calls \ {c} : call'[d] = call[d]
    BY <2>1, TakesGood
  <2>3. QED
    BY <2>1, <2>2, CallKeeps DEF CredentialsInv, AskerHoldsLock, CredentialsTypeOK, AtProvider
<1>3. CASE Misses(c)
  <2> DEFINE waits == [NoCall EXCEPT !.pc = "waiting", !.account = file]
  <2>1. /\ call' = [call EXCEPT ![c] = waits] /\ lock' = Append(lock, c)
        /\ UNCHANGED <<kind, clock, file, cached, previous>>
    BY <1>3 DEF Misses
  <2>2. waits \in Call /\ waits.pc = "waiting"
    BY NoCallTyped DEF Call, Steps, CredentialsInv, CredentialsTypeOK
  <2> HIDE DEF waits
  <2>3. /\ call' \in [Calls -> Call] /\ call'[c].pc = "waiting"
        /\ \A d \in Calls \ {c} : call'[d] = call[d]
    BY <2>1, <2>2 DEF CredentialsInv, CredentialsTypeOK
  <2>4. lock \in Seq(Calls)
    BY DEF CredentialsInv, CredentialsTypeOK
  <2>5. lock' \in Seq(Calls) /\ lock' # <<>> /\ (lock # <<>> => Head(lock') = Head(lock))
    BY <2>1, <2>4, AppendProperties
  <2>6. \A d \in Calls \ {c} : call[d].pc \in AtProvider => lock' # <<>> /\ Head(lock') = d
    BY <2>5 DEF CredentialsInv, AskerHoldsLock
  <2>7. QED
    BY <2>1, <2>3, <2>5, <2>6, CallKeeps DEF AtProvider
<1>4. QED
  BY <1>1, <1>2, <1>3

LEMMA FindsNoneKeeps ==
  ASSUME CredentialsInv, NEW c \in Calls, FindsNone(c)
  PROVE  CredentialsInv'
<1>1. /\ lock # <<>> /\ Head(lock) = c /\ Release /\ Ends(c)
      /\ cached' = NoAnswer /\ previous' = NoAnswer
      /\ UNCHANGED <<kind, clock, file>>
  BY DEF FindsNone, HoldsLock
<1>2. /\ call' \in [Calls -> Call] /\ call'[c].pc = "over"
      /\ \A d \in Calls \ {c} : call'[d] = call[d]
  BY <1>1, EndsTyped DEF CredentialsInv
<1>3. lock' \in Seq(Calls) /\ \A d \in Calls : call'[d].pc \notin AtProvider
  BY <1>1, <1>2, LeavesLock DEF AtProvider
<1>4. CredentialsTypeOK'
  BY <1>1, <1>2, <1>3 DEF CredentialsInv, CredentialsTypeOK
<1>5. AskerHoldsLock' /\ AskedForCause'
  BY <1>3 DEF AskerHoldsLock, AskedForCause
<1>6. HonestLife'
  BY <1>1, <1>3, NoneIsNone DEF HonestLife, AtProvider
<1>7. ExchangeShared' /\ SharedIsGood'
  BY <1>1, <1>2 DEF ExchangeShared, SharedIsGood, CredentialsInv
<1>8. QED
  BY <1>4, <1>5, <1>6, <1>7 DEF CredentialsInv

LEMMA AtLockKeeps ==
  ASSUME CredentialsInv, NEW c \in Calls, FindsAnswer(c) \/ Mints(c) \/ Lacks(c)
  PROVE  CredentialsInv'
<1>1. /\ HoldsLock(c) /\ lock # <<>> /\ Head(lock) = c
      /\ UNCHANGED <<kind, clock, file>>
  BY DEF FindsAnswer, Mints, Lacks, HoldsLock
<1>2. Current(c) \in Accounts \cup {NoAccount}
  BY DEF Current, CredentialsInv, CredentialsTypeOK, Call
<1>3. CASE FindsAnswer(c)
  <2>1. /\ TakesCached(c, Current(c)) /\ Valid(Current(c)) /\ Current(c) \in Accounts
        /\ Release /\ UNCHANGED <<cached, previous>>
    BY <1>2, <1>3 DEF FindsAnswer
  <2>2. /\ call' \in [Calls -> Call]
        /\ call'[c].pc = "served"
        /\ call'[c].taken = call'[c].account
        /\ call'[c].left >= Margin[kind]
        /\ \A d \in Calls \ {c} : call'[d] = call[d]
    BY <2>1, TakesGood
  <2>3. lock' \in Seq(Calls) /\ \A d \in Calls \ {c} : call[d].pc \notin AtProvider
    BY <1>1, <2>1, LeavesLock
  <2>4. QED
    BY <1>1, <2>1, <2>2, <2>3, CallKeeps DEF AtProvider
<1>4. CASE Mints(c)
  <2> DEFINE minted == [account |-> Current(c), asked |-> clock,
                        expires |-> clock + Life[kind], dies |-> clock + Life[kind]]
  <2>1. Store(c, minted) /\ Current(c) \in Accounts /\ ~Valid(Current(c))
    BY <1>4, CredentialsAssumption DEF Mints
  <2>2. clock + Life[kind] \in Nat /\ clock \in Nat
    BY CredentialsAssumption DEF CredentialsInv, CredentialsTypeOK
  <2>3. minted \in CachedAnswer
    BY <2>1, <2>2 DEF CachedAnswer
  <2>4. \/ cached = NoAnswer
        \/ cached.account # minted.account
        \/ cached.expires - minted.asked < Margin[kind]
    <3>1. SUFFICES ASSUME cached # NoAnswer PROVE \/ cached.account # Current(c)
                                              \/ cached.expires - clock < Margin[kind]
      OBVIOUS
    <3>2. cached \in CachedAnswer /\ Margin[kind] \in Nat
      BY <3>1, CredentialsAssumption DEF CredentialsInv, CredentialsTypeOK
    <3>3. QED
      BY <2>1, <2>2, <3>1, <3>2 DEF Valid, CachedAnswer
  <2>5. minted.expires <= minted.dies
    BY <2>2
  <2> HIDE DEF minted
  <2>6. QED
    BY <1>1, <2>1, <2>3, <2>4, <2>5, StoreKeeps
<1>5. CASE Lacks(c)
  <2>1. Ends(c) /\ Release /\ UNCHANGED <<cached, previous>>
    BY <1>5 DEF Lacks
  <2>2. /\ call' \in [Calls -> Call] /\ call'[c].pc = "over"
        /\ \A d \in Calls \ {c} : call'[d] = call[d]
    BY <2>1, EndsTyped DEF CredentialsInv
  <2>3. lock' \in Seq(Calls) /\ \A d \in Calls \ {c} : call[d].pc \notin AtProvider
    BY <1>1, <2>1, LeavesLock
  <2>4. QED
    BY <1>1, <2>1, <2>2, <2>3, CallKeeps DEF AtProvider
<1>6. QED
  BY <1>3, <1>4, <1>5

LEMMA AsksKeeps ==
  ASSUME CredentialsInv, NEW c \in Calls, AsksProvider(c)
  PROVE  CredentialsInv'
<1> DEFINE asking == [NoCall EXCEPT !.pc = "asking", !.account = Current(c), !.since = clock]
<1>1. /\ lock # <<>> /\ Head(lock) = c /\ call' = [call EXCEPT ![c] = asking]
      /\ Current(c) \in Accounts /\ ~Valid(Current(c))
      /\ UNCHANGED <<kind, clock, file, cached, lock, previous>>
  BY DEF AsksProvider, HoldsLock
<1>2. asking \in Call
  BY <1>1, NoCallTyped DEF Call, Steps, CredentialsInv, CredentialsTypeOK
<1>3. /\ asking.pc = "asking" /\ asking.account = Current(c) /\ asking.since = clock
  BY <1>1, NoCallTyped DEF Call
<1> HIDE DEF asking
<1>4. call' \in [Calls -> Call] /\ call'[c] = asking
      /\ \A d \in Calls \ {c} : call'[d] = call[d]
  BY <1>1, <1>2 DEF CredentialsInv, CredentialsTypeOK
<1>5. \A d \in Calls \ {c} : call'[d].pc \notin AtProvider
  BY <1>1, <1>4, OneAtProvider DEF CredentialsInv
<1>6. CredentialsTypeOK'
  BY <1>1, <1>4 DEF CredentialsInv, CredentialsTypeOK
<1>7. AskerHoldsLock'
  BY <1>1, <1>5 DEF AskerHoldsLock
<1>8. cached # NoAnswer => \/ cached.account # Current(c)
                       \/ cached.expires - clock < Margin[kind]
  <2>1. SUFFICES ASSUME cached # NoAnswer PROVE \/ cached.account # Current(c)
                                            \/ cached.expires - clock < Margin[kind]
    OBVIOUS
  <2>2. cached \in CachedAnswer /\ Margin[kind] \in Nat /\ clock \in Nat
    BY <2>1, CredentialsAssumption DEF CredentialsInv, CredentialsTypeOK
  <2>3. QED
    BY <1>1, <2>1, <2>2 DEF Valid, CachedAnswer
<1>9. AskedForCause'
  <2>1. SUFFICES ASSUME NEW d \in Calls, call'[d].pc \in AtProvider
                 PROVE  /\ call'[d].account \in Accounts
                        /\ call'[d].since <= clock
                        /\ \/ cached = NoAnswer
                           \/ cached.account # call'[d].account
                           \/ cached.expires - call'[d].since < Margin[kind]
    BY <1>1 DEF AskedForCause
  <2>2. d = c
    BY <1>5, <2>1
  <2>3. clock <= clock
    BY DEF CredentialsInv, CredentialsTypeOK
  <2>4. QED
    BY <1>1, <1>3, <1>4, <1>8, <2>2, <2>3
<1>10. HonestLife'
  BY <1>1, <1>3, <1>4, <1>5 DEF CredentialsInv, HonestLife, AtProvider
<1>11. ExchangeShared' /\ SharedIsGood'
  BY <1>1, <1>3, <1>4 DEF CredentialsInv, ExchangeShared, SharedIsGood
<1>12. QED
  BY <1>6, <1>7, <1>9, <1>10, <1>11 DEF CredentialsInv

LEMMA AnswersKeep ==
  ASSUME CredentialsInv, NEW c \in Calls, ProviderAnswers(c)
  PROVE  CredentialsInv'
<1>1. PICK dies \in IF kind = "copilot" THEN clock .. clock + Life[kind] ELSE {clock + Life[kind]} :
        call' = [call EXCEPT ![c].pc = "told", ![c].dies = dies]
  BY DEF ProviderAnswers
<1> DEFINE told == [call[c] EXCEPT !.pc = "told", !.dies = dies]
<1>2. call[c].pc = "asking" /\ UNCHANGED <<kind, clock, file, cached, lock, previous>>
  BY DEF ProviderAnswers
<1>3. clock \in Nat /\ Life[kind] \in Nat /\ call \in [Calls -> Call]
  BY CredentialsAssumption DEF CredentialsInv, CredentialsTypeOK
<1>4. dies \in Nat /\ (kind = "platform" => dies = clock + Life[kind])
  BY <1>1, <1>3
<1>5. told \in Call /\ told.pc = "told" /\ told.dies = dies
      /\ told.account = call[c].account /\ told.since = call[c].since
  BY <1>3, <1>4 DEF Call, Steps
<1>6. call' = [call EXCEPT ![c] = told]
  BY <1>1, <1>3
<1> HIDE DEF told
<1>7. call' \in [Calls -> Call] /\ call'[c] = told
      /\ \A d \in Calls \ {c} : call'[d] = call[d]
  BY <1>3, <1>5, <1>6
<1>8. \A d \in Calls : /\ call'[d].pc \in AtProvider => call[d].pc \in AtProvider
                       /\ call'[d].account = call[d].account /\ call'[d].since = call[d].since
  BY <1>2, <1>5, <1>7 DEF AtProvider
<1>9. CredentialsTypeOK'
  BY <1>2, <1>7 DEF CredentialsInv, CredentialsTypeOK
<1>10. AskerHoldsLock' /\ AskedForCause'
  BY <1>2, <1>8 DEF CredentialsInv, AskerHoldsLock, AskedForCause
<1>11. call[c].since <= clock /\ call[c].since \in Nat
  BY <1>2, <1>3 DEF CredentialsInv, AskedForCause, AtProvider, Call
<1>12. kind = "platform" => told.since + Life[kind] <= told.dies
  BY <1>3, <1>4, <1>5, <1>11
<1>13. HonestLife'
  BY <1>2, <1>7, <1>12 DEF CredentialsInv, HonestLife
<1>14. ExchangeShared' /\ SharedIsGood'
  BY <1>2, <1>5, <1>7 DEF CredentialsInv, ExchangeShared, SharedIsGood
<1>15. QED
  BY <1>9, <1>10, <1>13, <1>14 DEF CredentialsInv

\* An answer as it is cached when call c comes back with it.
LEMMA ObtainedStored ==
  ASSUME CredentialsInv, NEW c \in Calls, call[c].pc \in AtProvider,
         NEW expires \in Nat, NEW dies \in Nat, expires <= dies,
         Store(c, Obtained(c, expires, dies)), UNCHANGED <<kind, clock, file>>
  PROVE  CredentialsInv'
<1> DEFINE answer == Obtained(c, expires, dies)
<1>1. call[c].account \in Accounts /\ call[c].since \in Nat
  BY DEF CredentialsInv, AskedForCause, CredentialsTypeOK, Call
<1>2. /\ answer \in CachedAnswer /\ answer.expires <= answer.dies
      /\ answer.account = call[c].account /\ answer.asked = call[c].since
  BY <1>1 DEF Obtained, CachedAnswer
<1>3. \/ cached = NoAnswer
      \/ cached.account # answer.account
      \/ cached.expires - answer.asked < Margin[kind]
  BY <1>2 DEF CredentialsInv, AskedForCause
<1>4. lock # <<>> /\ Head(lock) = c
  BY DEF CredentialsInv, AskerHoldsLock
<1> HIDE DEF answer
<1>5. Store(c, answer)
  BY DEF answer
<1>6. QED
  BY <1>2, <1>3, <1>4, <1>5, StoreKeeps

LEMMA ReceivesKeeps ==
  ASSUME CredentialsInv, NEW c \in Calls, Receives(c)
  PROVE  CredentialsInv'
<1>1. call[c].pc = "told" /\ call[c].pc \in AtProvider /\ UNCHANGED <<kind, clock, file>>
  BY DEF Receives, AtProvider
<1>2. /\ call[c].since \in Nat /\ call[c].dies \in Nat /\ clock \in Nat
      /\ Life[kind] \in Nat /\ FailureLife \in Nat
  BY CredentialsAssumption DEF CredentialsInv, CredentialsTypeOK, Call
<1>3. CASE kind = "copilot"
  <2>1. Store(c, Obtained(c, call[c].dies, call[c].dies))
    BY <1>3 DEF Receives, CopilotToken
  <2>2. QED
    BY <1>1, <1>2, <2>1, ObtainedStored
<1>4. CASE kind = "platform"
  <2>1. Store(c, Obtained(c, call[c].since + Life[kind], call[c].dies))
    BY <1>4 DEF Receives, PlatformToken
  <2>2. call[c].since + Life[kind] <= call[c].dies
    BY <1>1, <1>4 DEF CredentialsInv, HonestLife
  <2>3. call[c].since + Life[kind] \in Nat
    BY <1>2
  <2>4. QED
    BY <1>1, <1>2, <2>1, <2>2, <2>3, ObtainedStored
<1>5. CASE kind = "quota"
  <2>1. Store(c, Obtained(c, clock + Life[kind], clock + Life[kind]))
    BY <1>5 DEF Receives, QuotaAnswer
  <2>2. clock + Life[kind] \in Nat
    BY <1>2
  <2>3. QED
    BY <1>1, <2>1, <2>2, ObtainedStored
<1>6. QED
  BY <1>3, <1>4, <1>5 DEF CredentialsInv, CredentialsTypeOK, Kinds

LEMMA FailsKeeps ==
  ASSUME CredentialsInv, NEW c \in Calls, Fails(c)
  PROVE  CredentialsInv'
<1>1. call[c].pc \in AtProvider /\ UNCHANGED <<kind, clock, file>>
  BY DEF Fails, AtProvider
<1>2. CASE kind = "quota"
  <2>1. Store(c, Obtained(c, clock + FailureLife, clock + FailureLife))
    BY <1>2 DEF Fails, QuotaAnswer
  <2>2. clock + FailureLife \in Nat
    BY CredentialsAssumption DEF CredentialsInv, CredentialsTypeOK
  <2>3. QED
    BY <1>1, <2>1, <2>2, ObtainedStored
<1>3. CASE kind # "quota"
  <2>1. Ends(c) /\ Release /\ UNCHANGED <<cached, previous>>
    BY <1>3 DEF Fails
  <2>2. /\ call' \in [Calls -> Call] /\ call'[c].pc = "over"
        /\ \A d \in Calls \ {c} : call'[d] = call[d]
    BY <2>1, EndsTyped DEF CredentialsInv
  <2>3. lock # <<>> /\ Head(lock) = c
    BY <1>1 DEF CredentialsInv, AskerHoldsLock
  <2>4. lock' \in Seq(Calls) /\ \A d \in Calls \ {c} : call[d].pc \notin AtProvider
    BY <2>1, <2>3, LeavesLock
  <2>5. QED
    BY <1>1, <2>1, <2>2, <2>4, CallKeeps DEF AtProvider
<1>4. QED
  BY <1>2, <1>3

LEMMA ForwardsKeeps ==
  ASSUME CredentialsInv, NEW c \in Calls, Forwards(c)
  PROVE  CredentialsInv'
<1>1. Ends(c) /\ UNCHANGED <<kind, clock, file, cached, lock, previous>>
  BY DEF Forwards, CopilotForwards, PlatformForwards, QuotaReplies
<1>2. /\ call' \in [Calls -> Call] /\ call'[c].pc = "over"
      /\ \A d \in Calls \ {c} : call'[d] = call[d]
  BY <1>1, EndsTyped DEF CredentialsInv
<1>3. QED
  BY <1>1, <1>2, CallKeeps DEF CredentialsInv, AskerHoldsLock, CredentialsTypeOK, AtProvider

LEMMA StepKeeps == CredentialsInv /\ [CredentialsNext]_credentialVars => CredentialsInv'
<1> SUFFICES ASSUME CredentialsInv, [CredentialsNext]_credentialVars PROVE CredentialsInv'
  OBVIOUS
<1>1. CASE Rewritten
  BY <1>1, RewrittenKeeps
<1>2. CASE Tick
  BY <1>2, TickKeeps
<1>3. ASSUME NEW c \in Calls,
             \/ Unconfigured(c) \/ Hits(c) \/ Misses(c) \/ LockStep(c)
             \/ ProviderAnswers(c) \/ Receives(c) \/ Fails(c) \/ Forwards(c)
      PROVE  CredentialsInv'
  <2>1. CASE Unconfigured(c) \/ Hits(c) \/ Misses(c)
    BY <2>1, ComingKeeps
  <2>2. CASE LockStep(c)
    BY <2>2, FindsNoneKeeps, AtLockKeeps, AsksKeeps DEF LockStep
  <2>3. CASE ProviderAnswers(c)
    BY <2>3, AnswersKeep
  <2>4. CASE Receives(c)
    BY <2>4, ReceivesKeeps
  <2>5. CASE Fails(c)
    BY <2>5, FailsKeeps
  <2>6. CASE Forwards(c)
    BY <2>6, ForwardsKeeps
  <2>7. QED
    BY <1>3, <2>1, <2>2, <2>3, <2>4, <2>5, <2>6
<1>4. CASE UNCHANGED credentialVars
  BY <1>4 DEF CredentialsInv, CredentialsTypeOK, AskerHoldsLock, AskedForCause, HonestLife,
              ExchangeShared, SharedIsGood, Valid, credentialVars
<1>5. QED
  BY <1>1, <1>2, <1>3, <1>4 DEF CredentialsNext

LEMMA Inductive == CredentialsSpec => []CredentialsInv
<1>1. QED
  BY CredentialsStart, StepKeeps, PTL DEF CredentialsSpec

-----------------------------------------------------------------------------
(* Theorems *)

\* Calls that queue for a token or the quota, however many, share one question to the
\* provider: what is cached is asked for again only when it was about to end.
THEOREM QuestionShared == CredentialsSpec => []ExchangeShared
<1>1. CredentialsInv => ExchangeShared
  BY DEF CredentialsInv
<1>2. QED
  BY <1>1, Inductive, PTL

\* A call that takes a cached answer, before the lock or behind it, gets one of the account
\* it read itself, which the provider honours for the margin at least, however long the
\* answer was on its way.
THEOREM CachedIsGood == CredentialsSpec => []SharedIsGood
<1>1. CredentialsInv => SharedIsGood
  BY DEF CredentialsInv
<1>2. QED
  BY <1>1, Inductive, PTL

=============================================================================
