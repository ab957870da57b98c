------------------------------ MODULE Sessions ------------------------------
(***************************************************************************)
(* Portal sessions: the record of each (session_store.py), the chats and   *)
(* task executions that find or replace its OpenCode session, the routes   *)
(* of sessions_api.py that delete, clear, rename and edit it, and the      *)
(* titles generated for it (session_title.py).                             *)
(*                                                                         *)
(* Every operation reads the record, awaits OpenCode, and writes: some     *)
(* write the record they read, some read it again first.                   *)
(*                                                                         *)
(* A caller x that creates an OpenCode session creates the one named x; an *)
(* edit forks the one named after it.  A chat or an edit is also the turn  *)
(* (user message and answer) that it adds to an OpenCode session.          *)
(***************************************************************************)
EXTENDS Naturals, Sequences, FiniteSets

CONSTANTS Portals,      \* portal session ids
          Chats,        \* runs of handle_chat_payload_for_app
          Executes,     \* POST /api/tasks/execute requests
          Edits,        \* the edit and delete-from-here requests
          Deletes,      \* DELETE /api/sessions/{id}
          Clears,       \* POST /api/clear
          Renames,      \* POST /api/sessions/{id}/rename
          Forces,       \* POST /api/sessions/{id}/title/generate
          PortalOf,     \* the portal session a request names
          ResendOf,     \* the chat that an asynchronous edit starts
          Fragile,      \* OpenCode sessions that may get lost
          None

Callers  == Chats \cup Executes
Removals == Deletes \cup Clears
Ids      == Callers \cup Edits      \* OpenCode sessions, by who creates them
Turns    == Chats \cup Edits
Titlers  == Chats \cup Forces
Resends  == {ResendOf[e] : e \in Edits}

ASSUME SessionsAssumption ==
    /\ PortalOf \in [Callers \cup Edits \cup Deletes \cup Renames \cup Forces -> Portals]
    /\ ResendOf \in [Edits -> Chats]
    /\ \A e, f \in Edits : ResendOf[e] = ResendOf[f] => e = f
    /\ \A e \in Edits : PortalOf[ResendOf[e]] = PortalOf[e]
    /\ Chats \cap Executes = {} /\ Edits \cap Callers = {} /\ Forces \cap Chats = {}
    /\ Fragile \subseteq Ids
    /\ None \notin Ids \cup Renames \cup Titlers

VARIABLES
    rec,        \* session_store: the record of each portal session
    log,        \* whether a session has a chat log
    turn,       \* chats and executes
    edit,       \* edits
    gone,       \* deletes and clears: what is still to be removed
    ren,        \* renames
    title,      \* title calls, of chats in the background or forced
    oc,         \* OpenCode: its sessions
    talk        \* OpenCode: the turns a session holds

asks == <<turn, edit, gone, ren, title>>
vars == <<rec, log, turn, edit, gone, ren, title, oc, talk>>

\* used: whether last_message and message_count tell of a turn.
Record   == [at      : Ids \cup {None},
             deleted : BOOLEAN,
             custom  : Renames \cup {None},
             gen     : Titlers \cup {None},
             used    : BOOLEAN]
NoRecord == [at |-> None, deleted |-> FALSE, custom |-> None, gen |-> None, used |-> FALSE]

Active(p) == rec[p].at # None /\ ~rec[p].deleted

\* snap: the record as it was read.  at: the OpenCode session of the chat.
Turn == [pc   : {"unborn", "idle", "get", "create", "send", "told", "over"},
         snap : Record,
         at   : Ids \cup {None},
         ok   : BOOLEAN]
At(pc) == [pc |-> pc, snap |-> NoRecord, at |-> None, ok |-> FALSE]

Edit == [pc     : {"idle", "look", "list", "fork", "send", "done"},
         kind   : {"cut", "sync", "async"},
         target : Turns \cup {None},
         at     : Ids \cup {None},
         keep   : Seq(Turns)]
NoEdit(pc) == [pc |-> pc, kind |-> "cut", target |-> None, at |-> None, keep |-> <<>>]

TypeOK ==
    /\ rec \in [Portals -> Record]
    /\ log \in [Portals -> BOOLEAN]
    /\ turn \in [Callers -> Turn]
    /\ edit \in [Edits -> Edit]
    /\ gone \in [Removals -> [begun : BOOLEAN,
                              todo  : SUBSET (Portals \X Ids),
                              cur   : (Portals \X Ids) \cup {None}]]
    /\ ren \in [Renames -> {"idle", "body", "done"}]
    /\ title \in [Titlers -> {"none", "start", "call", "publish", "done"}]
    /\ oc \in [Ids -> {"none", "live", "lost"}]
    /\ talk \in [Ids -> Seq(Turns)]
    /\ \A e \in Edits : edit[e].pc \in {"look", "list", "fork"} => edit[e].at # None

Init ==
    /\ rec = [p \in Portals |-> NoRecord]
    /\ log = [p \in Portals |-> FALSE]
    /\ turn = [x \in Callers |-> At(IF x \in Resends THEN "unborn" ELSE "idle")]
    /\ edit = [e \in Edits |-> NoEdit("idle")]
    /\ gone = [k \in Removals |-> [begun |-> FALSE, todo |-> {}, cur |-> None]]
    /\ ren = [r \in Renames |-> "idle"]
    /\ title = [x \in Titlers |-> "none"]
    /\ oc = [x \in Ids |-> "none"]
    /\ talk = [x \in Ids |-> <<>>]
-----------------------------------------------------------------------------
(* Chats, and executes as far as they ensure their session *)

\* A chat of a deleted session is refused; the failure of a resend is logged.
ChatBegin(c) ==
    LET r == rec[PortalOf[c]] IN
    /\ turn[c].pc = "idle"
    /\ IF r.deleted
       THEN /\ turn' = [turn EXCEPT ![c] = At("over")]
            /\ log' = [log EXCEPT ![PortalOf[c]] = @ \/ c \in Resends]
       ELSE /\ turn' = [turn EXCEPT ![c] =
                  [At(IF r.at = None THEN "create" ELSE "get") EXCEPT !.snap = r]]
            /\ UNCHANGED log
    /\ UNCHANGED <<rec, edit, gone, ren, title, oc, talk>>

\* An execute does not ask whether its session is deleted.
ExecuteBegin(x) ==
    LET r == rec[PortalOf[x]] IN
    /\ turn[x].pc = "idle"
    /\ turn' = [turn EXCEPT ![x] = [At(IF r.at = None THEN "create" ELSE "get") EXCEPT !.snap = r]]
    /\ UNCHANGED <<rec, log, edit, gone, ren, title, oc, talk>>

\* With its session at hand, a chat starts its chat log entry; of an execute
\* no more is followed here.
GoesOn(x, s) ==
    IF x \in Chats
    THEN /\ turn' = [turn EXCEPT ![x] = [At("send") EXCEPT !.at = s]]
         /\ log' = [log EXCEPT ![PortalOf[x]] = TRUE]
    ELSE turn' = [turn EXCEPT ![x] = At("over")] /\ UNCHANGED log

SessionFound(x) ==
    /\ turn[x].pc = "get" /\ oc[turn[x].snap.at] = "live"
    /\ GoesOn(x, turn[x].snap.at)
    /\ UNCHANGED <<rec, edit, gone, ren, title, oc, talk>>

SessionLost(x) ==
    /\ turn[x].pc = "get" /\ oc[turn[x].snap.at] = "lost"
    /\ turn' = [turn EXCEPT ![x].pc = "create"]
    /\ UNCHANGED <<rec, log, edit, gone, ren, title, oc, talk>>

\* create_session answered: the record that was read is stored, with the new
\* OpenCode session, whatever the store holds by now.
SessionMade(x) ==
    /\ turn[x].pc = "create"
    /\ oc' = [oc EXCEPT ![x] = "live"]
    /\ rec' = [rec EXCEPT ![PortalOf[x]] = [turn[x].snap EXCEPT !.at = x]]
    /\ GoesOn(x, x)
    /\ UNCHANGED <<edit, gone, ren, title, talk>>

Arrives(c) ==
    /\ turn[c].pc = "send" /\ oc[turn[c].at] = "live"
    /\ c \notin {talk[turn[c].at][i] : i \in 1..Len(talk[turn[c].at])}
    /\ talk' = [talk EXCEPT ![turn[c].at] = Append(@, c)]
    /\ UNCHANGED <<rec, log, asks, oc>>

Holds(s, t) == \E i \in 1..Len(talk[s]) : talk[s][i] = t

\* (Mutant: the record of a deleted session is updated, and with it revived.)
UpdateReviving(p) == [rec EXCEPT ![p].used = TRUE, ![p].deleted = FALSE]

\* update_after_chat
UpdateAfterChat(p) == IF rec[p].deleted THEN rec ELSE [rec EXCEPT ![p].used = TRUE]

\* The answer came, or the time for it is over.
ChatAnswered(c) ==
    LET p == PortalOf[c] IN
    /\ turn[c].pc = "send"
    /\ rec' = UpdateAfterChat(p)
    /\ log' = [log EXCEPT ![p] = TRUE]
    /\ \E ok \in BOOLEAN :
         /\ ok => Holds(turn[c].at, c)
         /\ turn' = [turn EXCEPT ![c] =
               [pc |-> "told", snap |-> rec'[p], at |-> None, ok |-> ok]]
    /\ UNCHANGED <<edit, gone, ren, title, oc, talk>>

\* A call to OpenCode fails: the chat's log entry says so.
ChatFails(x) ==
    /\ turn[x].pc \in {"get", "create", "send"}
    /\ turn' = [turn EXCEPT ![x] = At("over")]
    /\ log' = [log EXCEPT ![PortalOf[x]] = @ \/ x \in Chats]
    /\ UNCHANGED <<rec, edit, gone, ren, title, oc, talk>>
-----------------------------------------------------------------------------
(* Titles *)

\* find_title_task: the background title call of p that has not ended.
OnItsWay(c)  == title[c] \in {"start", "call", "publish"}
TitleTask(p) == \E c \in Chats : PortalOf[c] = p /\ OnItsWay(c)

\* The portal was told, and a session without a name gets a title call, as far
\* as the record from before the telling says.
ChatCloses(c) ==
    /\ turn[c].pc = "told"
    /\ turn' = [turn EXCEPT ![c] = At("over")]
    /\ title' = IF turn[c].ok /\ ~turn[c].snap.deleted /\ ~TitleTask(PortalOf[c])
                   /\ turn[c].snap.custom = None /\ turn[c].snap.gen = None
                THEN [title EXCEPT ![c] = "start"] ELSE title
    /\ UNCHANGED <<rec, log, edit, gone, ren, oc, talk>>

\* generate_session_title up to the call of the model
TitleBegins(c) ==
    LET r == rec[PortalOf[c]] IN
    /\ title[c] = "start"
    /\ title' = [title EXCEPT ![c] =
          IF ~r.deleted /\ r.custom = None /\ r.gen = None THEN "call" ELSE "done"]
    /\ UNCHANGED <<rec, log, turn, edit, gone, ren, oc, talk>>

\* The route: a title call on its way is waited for, and a generated title is
\* replaced only on demand.
ForceBegin(f) ==
    LET r == rec[PortalOf[f]] IN
    /\ title[f] = "none"
    /\ \E force \in BOOLEAN :
         title' = [title EXCEPT ![f] =
            IF /\ Active(PortalOf[f]) /\ ~TitleTask(PortalOf[f])
               /\ r.custom = None /\ (r.gen = None \/ force)
            THEN "call" ELSE "done"]
    /\ UNCHANGED <<rec, log, turn, edit, gone, ren, oc, talk>>

\* (Mutant: the record is not read again after the call.)
TitleMadeBlind(x) ==
    /\ title[x] = "call"
    /\ title' = [title EXCEPT ![x] = "done"]
    /\ rec' = [rec EXCEPT ![PortalOf[x]].gen = x]
    /\ UNCHANGED <<log, turn, edit, gone, ren, oc, talk>>

\* The model answered: a rename or a deletion that landed meanwhile wins.  The
\* background call goes on to tell the portal a title it stored.
TitleMade(x) ==
    LET p == PortalOf[x]
        wins == Active(p) /\ rec[p].custom = None
    IN
    /\ title[x] = "call"
    /\ title' = [title EXCEPT ![x] = IF wins /\ x \in Chats THEN "publish" ELSE "done"]
    /\ rec' = IF wins THEN [rec EXCEPT ![p].gen = x] ELSE rec
    /\ UNCHANGED <<log, turn, edit, gone, ren, oc, talk>>

\* The call failed, or the portal was told.
TitleEnds(x) ==
    /\ title[x] \in {"call", "publish"}
    /\ title' = [title EXCEPT ![x] = "done"]
    /\ UNCHANGED <<rec, log, turn, edit, gone, ren, oc, talk>>

RenameBegin(r) ==
    /\ ren[r] = "idle"
    /\ ren' = [ren EXCEPT ![r] = IF Active(PortalOf[r]) THEN "body" ELSE "done"]
    /\ UNCHANGED <<rec, log, turn, edit, gone, title, oc, talk>>

\* The request's body was read; a name that is no text is refused.
RenameStores(r) ==
    /\ ren[r] = "body"
    /\ ren' = [ren EXCEPT ![r] = "done"]
    /\ rec' \in {rec, [rec EXCEPT ![PortalOf[r]].custom = r]}
    /\ UNCHANGED <<log, turn, edit, gone, title, oc, talk>>
-----------------------------------------------------------------------------
(* Editing: the conversation is cut before a turn, and possibly continued *)

\* The turns of q before turn t.
Before(q, t) ==
    SubSeq(q, 1, (CHOOSE i \in 1..Len(q) : q[i] = t) - 1)

\* Deleting from here lists the messages once; an edit has listed them before.
EditBegin(e) ==
    LET p == PortalOf[e] IN
    /\ edit[e].pc = "idle"
    /\ IF Active(p)
       THEN \E kind \in {"cut", "sync", "async"}, t \in Turns :
              edit' = [edit EXCEPT ![e] =
                [pc     |-> IF kind = "cut" THEN "list" ELSE "look",
                 kind   |-> kind,
                 target |-> t,
                 at     |-> rec[p].at,
                 keep   |-> <<>>]]
       ELSE edit' = [edit EXCEPT ![e] = NoEdit("done")]
    /\ UNCHANGED <<rec, log, turn, gone, ren, title, oc, talk>>

\* The turn is there: the record is read a second time, by _delete_from_here.
EditLooked(e) ==
    LET p == PortalOf[e] IN
    /\ edit[e].pc = "look"
    /\ oc[edit[e].at] = "live" /\ Holds(edit[e].at, edit[e].target)
    /\ edit' = [edit EXCEPT ![e] =
          IF Active(p) THEN [@ EXCEPT !.pc = "list", !.at = rec[p].at] ELSE NoEdit("done")]
    /\ UNCHANGED <<rec, log, turn, gone, ren, title, oc, talk>>

EditListed(e) ==
    /\ edit[e].pc = "list"
    /\ oc[edit[e].at] = "live" /\ Holds(edit[e].at, edit[e].target)
    /\ edit' = [edit EXCEPT ![e].pc = "fork",
                            ![e].keep = Before(talk[edit[e].at], edit[e].target)]
    /\ UNCHANGED <<rec, log, turn, gone, ren, title, oc, talk>>

\* What OpenCode may make of a fork: some first part of the conversation.
Forks(e) ==
    IF edit[e].keep = <<>> THEN {<<>>}
    ELSE IF oc[edit[e].at] # "live" THEN {}
    ELSE {SubSeq(talk[edit[e].at], 1, n) : n \in 0..Len(talk[edit[e].at])}

\* (Mutant: any fork is taken.)
AcceptedAny(e) == Forks(e)

\* The candidates are tried until one holds just what comes before the turn.
Accepted(e) == {q \in Forks(e) : q = edit[e].keep}

\* (Mutant: the new record does not take the manual name over.)
ReplacedUnnamed(p, s, q) ==
    [NoRecord EXCEPT !.at = s, !.gen = rec[p].gen, !.used = q # <<>>]

\* replace_opencode_session_after_mutation
Replaced(p, s, q) == [rec[p] EXCEPT !.at = s, !.used = q # <<>>]

\* The fork was listed and is the session's OpenCode session from now on, unless
\* the session was deleted; a new turn is sent at once, or by a chat.
EditForked(e) ==
    LET p == PortalOf[e] IN
    /\ edit[e].pc = "fork"
    /\ \E q \in Accepted(e) :
         /\ oc' = [oc EXCEPT ![e] = "live"]
         /\ talk' = [talk EXCEPT ![e] = q]
         /\ IF ~Active(p)
            THEN edit' = [edit EXCEPT ![e] = NoEdit("done")] /\ UNCHANGED <<rec, turn>>
            ELSE /\ rec' = [rec EXCEPT ![p] = Replaced(p, e, q)]
                 /\ edit' = [edit EXCEPT ![e] =
                      NoEdit(IF edit[e].kind = "sync" THEN "send" ELSE "done")]
                 /\ turn' = IF edit[e].kind = "async"
                            THEN [turn EXCEPT ![ResendOf[e]] = At("idle")] ELSE turn
    /\ UNCHANGED <<log, gone, ren, title>>

EditArrives(e) ==
    /\ edit[e].pc = "send" /\ oc[e] = "live" /\ ~Holds(e, e)
    /\ talk' = [talk EXCEPT ![e] = Append(@, e)]
    /\ UNCHANGED <<rec, log, asks, oc>>

EditAnswered(e) ==
    /\ edit[e].pc = "send" /\ Holds(e, e)
    /\ rec' = UpdateAfterChat(PortalOf[e])
    /\ edit' = [edit EXCEPT ![e] = NoEdit("done")]
    /\ UNCHANGED <<log, turn, gone, ren, title, oc, talk>>

\* A call to OpenCode fails, the turn is not there, or no fork is right.
EditFails(e) ==
    /\ edit[e].pc \in {"look", "list", "fork", "send"}
    /\ edit' = [edit EXCEPT ![e] = NoEdit("done")]
    /\ UNCHANGED <<rec, log, turn, gone, ren, title, oc, talk>>
-----------------------------------------------------------------------------
(* Deleting one session, or all of them one after another *)

DeleteBegin(d) ==
    LET p == PortalOf[d] IN
    /\ ~gone[d].begun
    /\ gone' = [gone EXCEPT ![d] =
          [begun |-> TRUE, todo |-> IF Active(p) THEN {<<p, rec[p].at>>} ELSE {}, cur |-> None]]
    /\ UNCHANGED <<rec, log, turn, edit, ren, title, oc, talk>>

ClearBegin(k) ==
    /\ ~gone[k].begun
    /\ gone' = [gone EXCEPT ![k] =
          [begun |-> TRUE, todo |-> {<<p, rec[p].at>> : p \in {x \in Portals : Active(x)}}, cur |-> None]]
    /\ UNCHANGED <<rec, log, turn, edit, ren, title, oc, talk>>

\* OpenCode is asked to delete the session that the record named at the start.
RemoveCalls(k) ==
    /\ gone[k].cur = None
    /\ \E w \in gone[k].todo :
         gone' = [gone EXCEPT ![k] = [begun |-> TRUE, todo |-> @.todo \ {w}, cur |-> w]]
    /\ UNCHANGED <<rec, log, turn, edit, ren, title, oc, talk>>

RemoveLands(k) ==
    /\ gone[k].cur # None /\ oc[gone[k].cur[2]] = "live"
    /\ oc' = [oc EXCEPT ![gone[k].cur[2]] = "lost"]
    /\ UNCHANGED <<rec, log, asks, talk>>

\* It is deleted, or was not there: the record and the chat log follow.
RemoveAnswered(k) ==
    LET p == gone[k].cur[1] IN
    /\ gone[k].cur # None /\ oc[gone[k].cur[2]] = "lost"
    /\ rec' = [rec EXCEPT ![p].deleted = TRUE]
    /\ log' = [log EXCEPT ![p] = FALSE]
    /\ gone' = [gone EXCEPT ![k].cur = None]
    /\ UNCHANGED <<turn, edit, ren, title, oc, talk>>

RemoveFails(k) ==
    /\ gone[k].cur # None
    /\ gone' = [gone EXCEPT ![k].cur = None]
    /\ UNCHANGED <<rec, log, turn, edit, ren, title, oc, talk>>

\* OpenCode loses a session by itself.
OpenCodeLoses(x) ==
    /\ x \in Fragile /\ oc[x] = "live"
    /\ oc' = [oc EXCEPT ![x] = "lost"]
    /\ UNCHANGED <<rec, log, asks, talk>>
-----------------------------------------------------------------------------
CallerStep(x) == SessionFound(x) \/ SessionLost(x) \/ SessionMade(x) \/ ChatFails(x)

ChatStep(c) ==
    ChatBegin(c) \/ Arrives(c) \/ ChatAnswered(c) \/ ChatCloses(c) \/ TitleBegins(c)

EditStep(e) ==
    \/ EditBegin(e) \/ EditLooked(e) \/ EditListed(e) \/ EditForked(e)
    \/ EditArrives(e) \/ EditAnswered(e) \/ EditFails(e)

Next ==
    \/ \E x \in Callers : CallerStep(x)
    \/ \E c \in Chats : ChatStep(c)
    \/ \E x \in Executes : ExecuteBegin(x)
    \/ \E f \in Forces : ForceBegin(f)
    \/ \E x \in Titlers : TitleMade(x) \/ TitleEnds(x)
    \/ \E r \in Renames : RenameBegin(r) \/ RenameStores(r)
    \/ \E e \in Edits : EditStep(e)
    \/ \E d \in Deletes : DeleteBegin(d)
    \/ \E k \in Clears : ClearBegin(k)
    \/ \E k \in Removals : RemoveCalls(k) \/ RemoveLands(k) \/ RemoveAnswered(k) \/ RemoveFails(k)
    \/ \E x \in Ids : OpenCodeLoses(x)

Spec == Init /\ [][Next]_vars
-----------------------------------------------------------------------------
(* Properties *)

\* Nothing is under way that will store an older record of p than the present
\* one, name p, or write p's chat log.
Quiet(p) ==
    /\ \A c \in Chats : PortalOf[c] = p =>
          /\ turn[c].pc \notin {"get", "create", "send"}
          /\ c \in Resends => turn[c].pc # "idle"
    /\ \A x \in Executes : PortalOf[x] = p /\ turn[x].pc \in {"get", "create"} =>
          turn[x].snap = [rec[p] EXCEPT !.at = turn[x].snap.at]
    /\ \A r \in Renames : PortalOf[r] = p => ren[r] # "body"

\* A deleted session that is quiet is deleted for good: chats, edits, titles,
\* renames and late answers leave its record and its absent chat log alone,
\* and start nothing.  (A task executed in it moves it to a new OpenCode session,
\* but does not bring it back.)
DeletedIsFinal ==
    [][\A p \in Portals : rec[p].deleted /\ Quiet(p) =>
         /\ rec'[p] = [rec[p] EXCEPT !.at = rec'[p].at]
         /\ log'[p] => log[p]
         /\ Quiet(p)']_vars

\* x has found OpenCode's session lost, or none, and now stores a new one.
MovesSession(x) == turn[x].pc = "create" /\ turn'[x].pc \in {"send", "over"} /\ oc'[x] = "live"

\* A manual name goes only for another one, or because a chat or an execute
\* that found OpenCode's session lost stores the record it read before.
NameKept ==
    [][\A p \in Portals : rec[p].custom # None /\ rec'[p].custom # rec[p].custom =>
         \/ \E r \in Renames : PortalOf[r] = p /\ rec'[p].custom = r /\ ren[r] # ren'[r]
         \/ \E x \in Callers : /\ PortalOf[x] = p /\ MovesSession(x)
                               /\ rec'[p].custom = turn[x].snap.custom]_vars

\* A title is never generated over a manual name or for a deleted session,
\* although the model takes its time.
TitleYields ==
    [][\A p \in Portals : (rec[p].custom # None \/ rec[p].deleted) /\ rec'[p].gen # rec[p].gen =>
         \E x \in Callers : /\ PortalOf[x] = p /\ MovesSession(x)
                            /\ rec'[p].gen = turn[x].snap.gen]_vars

\* One background title call per session, however many chats end together.
OneTitleTask ==
    \A b, c \in Chats :
        PortalOf[b] = PortalOf[c] /\ OnItsWay(b) /\ OnItsWay(c) => b = c

\* An edit keeps all that was said before the turn it cuts, and nothing else.
EditKeepsEarlier ==
    [][\A e \in Edits : edit[e].pc = "fork" /\ rec'[PortalOf[e]].at = e =>
         talk'[e] = Before(talk[edit[e].at], edit[e].target)]_vars

\* Every other field of the record survives the move of a session to a new
\* OpenCode session.
FieldsSurviveMove ==
    [][\A c \in Chats : MovesSession(c) /\ turn[c].snap.at # None =>
         rec'[PortalOf[c]] = [rec[PortalOf[c]] EXCEPT !.at = c]]_vars
=============================================================================
