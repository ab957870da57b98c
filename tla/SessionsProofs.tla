--------------------------- MODULE SessionsProofs ---------------------------
(***************************************************************************)
(* Theorems about Sessions: type correctness, that manual names are kept,  *)
(* that titles yield to them, that one title task runs per session, that a *)
(* deleted session which nothing in flight concerns stays deleted, and     *)
(* that an edit keeps what came before the turn it cuts.                   *)
(***************************************************************************)
EXTENDS Sessions, SequenceTheorems, TLAPS

\* What comes before a turn is a conversation.
LEMMA BeforeTyped ==
    ASSUME NEW q \in Seq(Turns), NEW t, \E i \in 1..Len(q) : q[i] = t
    PROVE  Before(q, t) \in Seq(Turns)
<1> DEFINE i == CHOOSE i \in 1..Len(q) : q[i] = t
<1>1. i \in 1..Len(q)
    OBVIOUS
<1>2. \A j \in 1..(i - 1) : q[j] \in Turns
    BY <1>1
<1>3. i - 1 \in Int
    BY <1>1
<1> HIDE DEF i
<1>4. SubSeq(q, 1, i - 1) \in Seq(Turns)
    BY <1>2, <1>3, SubSeqProperties
<1> QED
    BY <1>4 DEF Before, i

\* The turns that the callers and the edits are, and what they may create.
LEMMA Owners ==
    /\ \A x \in Callers : PortalOf[x] \in Portals /\ x \in Ids
    /\ \A c \in Chats : c \in Callers /\ c \in Turns /\ c \in Titlers
    /\ \A e \in Edits : /\ PortalOf[e] \in Portals /\ e \in Ids /\ e \in Turns
                        /\ ResendOf[e] \in Chats /\ ResendOf[e] \in Callers
    /\ \A x \in Titlers : PortalOf[x] \in Portals
    /\ \A r \in Renames : PortalOf[r] \in Portals
    /\ \A d \in Deletes : PortalOf[d] \in Portals
BY SessionsAssumption DEF Callers, Ids, Turns, Titlers

LEMMA InitTyped == Init => TypeOK
BY DEF Init, TypeOK, NoRecord, Record, At, Turn, NoEdit, Edit

LEMMA AtTyped ==
    /\ \A pc \in {"unborn", "idle", "get", "create", "send", "told", "over"} : At(pc) \in Turn
    /\ \A s \in Ids \cup {None} : [At("send") EXCEPT !.at = s] \in Turn
    /\ \A pc \in {"get", "create"} : \A r \in Record : [At(pc) EXCEPT !.snap = r] \in Turn
BY DEF At, Turn, NoRecord, Record

\* The record stored with a new OpenCode session, and the one kept after a turn.
LEMMA RecordMoved ==
    ASSUME NEW r \in Record
    PROVE  /\ \A x \in Ids : [r EXCEPT !.at = x] \in Record
           /\ [r EXCEPT !.used = TRUE] \in Record
BY DEF Record

LEMMA GoesOnTyped ==
    ASSUME TypeOK, NEW x \in Callers, NEW s \in Ids \cup {None}, GoesOn(x, s)
    PROVE  turn' \in [Callers -> Turn] /\ log' \in [Portals -> BOOLEAN]
<1>1. CASE x \in Chats
    BY <1>1, AtTyped, Owners DEF TypeOK, GoesOn
<1>2. CASE x \notin Chats
    BY <1>2, AtTyped DEF TypeOK, GoesOn
<1> QED
    BY <1>1, <1>2

LEMMA CallerTyped ==
    ASSUME TypeOK, NEW x \in Callers, CallerStep(x) \/ (x \in Executes /\ ExecuteBegin(x))
    PROVE  TypeOK'
<1>1. CASE SessionFound(x)
  <2>1. turn[x].snap.at \in Ids \cup {None}
      BY DEF TypeOK, Turn, Record
  <2> QED
      BY <1>1, <2>1, GoesOnTyped DEF TypeOK, SessionFound
<1>2. CASE SessionLost(x)
  <2>1. turn[x] \in Turn /\ turn \in [Callers -> Turn]
      BY DEF TypeOK
  <2>2. [turn[x] EXCEPT !.pc = "create"] \in Turn
      BY <2>1 DEF Turn
  <2>3. turn' = [turn EXCEPT ![x] = [turn[x] EXCEPT !.pc = "create"]]
      BY <1>2 DEF SessionLost
  <2>4. turn' \in [Callers -> Turn]
      BY <2>1, <2>2, <2>3
  <2> QED
      BY <1>2, <2>4 DEF TypeOK, SessionLost
<1>3. CASE SessionMade(x)
  <2>1. [turn[x].snap EXCEPT !.at = x] \in Record
      BY RecordMoved, Owners DEF TypeOK, Turn
  <2>2. turn' \in [Callers -> Turn] /\ log' \in [Portals -> BOOLEAN]
      BY <1>3, Owners, GoesOnTyped DEF SessionMade
  <2> QED
      BY <1>3, <2>1, <2>2, Owners DEF TypeOK, SessionMade
<1>4. CASE ChatFails(x)
    BY <1>4, AtTyped, Owners DEF TypeOK, ChatFails
<1>5. CASE x \in Executes /\ ExecuteBegin(x)
    BY <1>5, AtTyped, Owners DEF TypeOK, ExecuteBegin
<1> QED
    BY <1>1, <1>2, <1>3, <1>4, <1>5 DEF CallerStep

\* update_after_chat leaves a typed store, and everything but the mark of use.
LEMMA UpdateWrites ==
    ASSUME TypeOK, NEW p \in Portals
    PROVE  /\ UpdateAfterChat(p) \in [Portals -> Record]
           /\ \A q \in Portals :
                /\ UpdateAfterChat(p)[q].deleted = rec[q].deleted
                /\ UpdateAfterChat(p)[q].custom = rec[q].custom
                /\ UpdateAfterChat(p)[q].gen = rec[q].gen
                /\ UpdateAfterChat(p)[q].at = rec[q].at
                /\ rec[q].deleted => UpdateAfterChat(p)[q] = rec[q]
<1>1. CASE rec[p].deleted
    BY <1>1 DEF TypeOK, UpdateAfterChat
<1>2. CASE ~rec[p].deleted
  <2>1. UpdateAfterChat(p) = [rec EXCEPT ![p] = [rec[p] EXCEPT !.used = TRUE]]
      BY <1>2 DEF UpdateAfterChat
  <2>2. rec[p] \in Record
      BY DEF TypeOK
  <2>3. [rec[p] EXCEPT !.used = TRUE] \in Record
      BY <2>2, RecordMoved
  <2> QED
      BY <1>2, <2>1, <2>3 DEF TypeOK, Record
<1> QED
    BY <1>1, <1>2

LEMMA ChatTyped ==
    ASSUME TypeOK, NEW c \in Chats, ChatStep(c)
    PROVE  TypeOK'
<1> USE Owners
<1>1. CASE ChatBegin(c)
  <2> DEFINE p == PortalOf[c]
  <2>0. rec[p] \in Record
      BY DEF TypeOK
  <2>3. [At(IF rec[p].at = None THEN "create" ELSE "get") EXCEPT !.snap = rec[p]] \in Turn
      BY <2>0, AtTyped
  <2>4. At("over") \in Turn
      BY AtTyped
  <2>1. turn' \in [Callers -> Turn]
      BY <1>1, <2>3, <2>4 DEF TypeOK, ChatBegin
  <2>2. log' \in [Portals -> BOOLEAN]
      BY <1>1 DEF TypeOK, ChatBegin
  <2> QED
      BY <1>1, <2>1, <2>2 DEF TypeOK, ChatBegin
<1>2. CASE Arrives(c)
  <2>1. turn[c].at \in Ids \cup {None}
      BY DEF TypeOK, Turn
  <2> DEFINE s == turn[c].at
  <2>2. CASE s = None
    <3>1. talk' = talk
        BY <1>2, <2>2, SessionsAssumption DEF TypeOK, Arrives
    <3> QED
        BY <1>2, <3>1 DEF TypeOK, Arrives, asks
  <2>3. CASE s \in Ids
    <3>1. Append(talk[s], c) \in Seq(Turns)
        BY <2>3 DEF TypeOK
    <3> QED
        BY <1>2, <3>1 DEF TypeOK, Arrives, asks
  <2> QED
      BY <2>1, <2>2, <2>3
<1>3. CASE ChatAnswered(c)
  <2> DEFINE p == PortalOf[c]
  <2>1. rec' \in [Portals -> Record]
      BY <1>3, UpdateWrites DEF ChatAnswered
  <2>2. PICK ok \in BOOLEAN :
          turn' = [turn EXCEPT ![c] = [pc |-> "told", snap |-> rec'[p], at |-> None, ok |-> ok]]
      BY <1>3 DEF ChatAnswered
  <2>3. [pc |-> "told", snap |-> rec'[p], at |-> None, ok |-> ok] \in Turn
      BY <2>1, <2>2 DEF Turn
  <2> QED
      BY <1>3, <2>1, <2>2, <2>3 DEF TypeOK, ChatAnswered
<1>4. CASE ChatCloses(c)
    BY <1>4, AtTyped DEF TypeOK, ChatCloses
<1>5. CASE TitleBegins(c)
    BY <1>5 DEF TypeOK, TitleBegins
<1> QED
    BY <1>1, <1>2, <1>3, <1>4, <1>5 DEF ChatStep

LEMMA TitleTyped ==
    ASSUME TypeOK,
           \/ \E f \in Forces : ForceBegin(f)
           \/ \E x \in Titlers : TitleMade(x) \/ TitleEnds(x)
    PROVE  TypeOK'
<1> USE Owners
<1>1. ASSUME NEW f \in Forces, ForceBegin(f)
      PROVE  TypeOK'
    BY <1>1 DEF TypeOK, ForceBegin, Titlers
<1>2. ASSUME NEW x \in Titlers, TitleMade(x)
      PROVE  TypeOK'
  <2> DEFINE p == PortalOf[x]
  <2>0. rec[p] \in Record
      BY DEF TypeOK
  <2>1. [rec[p] EXCEPT !.gen = x] \in Record
      BY <2>0 DEF Record
  <2>2. CASE Active(p) /\ rec[p].custom = None
    <3>1. rec' = [rec EXCEPT ![p] = [rec[p] EXCEPT !.gen = x]]
        BY <1>2, <2>2 DEF TitleMade
    <3>2. rec' \in [Portals -> Record]
        BY <2>1, <3>1 DEF TypeOK
    <3> QED
        BY <1>2, <3>2 DEF TypeOK, TitleMade
  <2>3. CASE ~(Active(p) /\ rec[p].custom = None)
      BY <1>2, <2>3 DEF TypeOK, TitleMade
  <2> QED
      BY <2>2, <2>3
<1>3. ASSUME NEW x \in Titlers, TitleEnds(x)
      PROVE  TypeOK'
    BY <1>3 DEF TypeOK, TitleEnds
<1> QED
    BY <1>1, <1>2, <1>3

LEMMA RenameTyped ==
    ASSUME TypeOK, NEW r \in Renames, RenameBegin(r) \/ RenameStores(r)
    PROVE  TypeOK'
<1> USE Owners
<1>1. CASE RenameBegin(r)
    BY <1>1 DEF TypeOK, RenameBegin
<1>2. CASE RenameStores(r)
  <2> DEFINE p == PortalOf[r]
  <2>0. rec[p] \in Record
      BY DEF TypeOK
  <2>1. [rec[p] EXCEPT !.custom = r] \in Record
      BY <2>0 DEF Record
  <2>2. rec' = rec \/ rec' = [rec EXCEPT ![p] = [rec[p] EXCEPT !.custom = r]]
      BY <1>2 DEF RenameStores
  <2>3. rec' \in [Portals -> Record]
      BY <2>1, <2>2 DEF TypeOK
  <2> QED
      BY <1>2, <2>3 DEF TypeOK, RenameStores
<1> QED
    BY <1>1, <1>2

LEMMA NoEditTyped == \A pc \in {"idle", "look", "list", "fork", "send", "done"} : NoEdit(pc) \in Edit
BY DEF NoEdit, Edit

\* An edit that is given a typed state, with an OpenCode session if it needs one.
LEMMA EditSet ==
    ASSUME TypeOK, NEW e \in Edits, NEW v \in Edit,
           v.pc \in {"look", "list", "fork"} => v.at # None,
           edit' = [edit EXCEPT ![e] = v]
    PROVE  /\ edit' \in [Edits -> Edit]
           /\ \A d \in Edits : edit'[d].pc \in {"look", "list", "fork"} => edit'[d].at # None
BY DEF TypeOK

LEMMA EditEnded ==
    ASSUME TypeOK, NEW e \in Edits, NEW pc \in {"send", "done"}, edit' = [edit EXCEPT ![e] = NoEdit(pc)]
    PROVE  /\ edit' \in [Edits -> Edit]
           /\ \A d \in Edits : edit'[d].pc \in {"look", "list", "fork"} => edit'[d].at # None
<1>1. NoEdit(pc) \in Edit /\ NoEdit(pc).pc = pc
    BY NoEditTyped DEF NoEdit
<1> QED
    BY <1>1, EditSet

\* A fork that is accepted is a conversation.
LEMMA ForkTyped ==
    ASSUME TypeOK, NEW e \in Edits, NEW q \in Accepted(e)
    PROVE  q \in Seq(Turns) /\ q = edit[e].keep
BY DEF Accepted, TypeOK, Edit

LEMMA EditTyped ==
    ASSUME TypeOK, NEW e \in Edits, EditStep(e)
    PROVE  TypeOK'
<1> USE Owners, NoEditTyped
<1> DEFINE p == PortalOf[e]
<1>0. rec[p] \in Record /\ edit[e] \in Edit
    BY DEF TypeOK
<1>1. CASE EditBegin(e)
  <2>1. CASE Active(p)
    <3>1. PICK kind \in {"cut", "sync", "async"}, t \in Turns :
            edit' = [edit EXCEPT ![e] = [pc |-> IF kind = "cut" THEN "list" ELSE "look",
                                         kind |-> kind, target |-> t,
                                         at |-> rec[p].at, keep |-> <<>>]]
        BY <1>1, <2>1 DEF EditBegin
    <3>2. rec[p].at # None /\ rec[p].at \in Ids
        BY <1>0, <2>1 DEF Active, Record
    <3>3. [pc |-> IF kind = "cut" THEN "list" ELSE "look", kind |-> kind, target |-> t,
           at |-> rec[p].at, keep |-> <<>>] \in Edit
        BY <3>2 DEF Edit
    <3> QED
        BY <1>1, <3>1, <3>2, <3>3, EditSet DEF TypeOK, EditBegin
  <2>2. CASE ~Active(p)
      BY <1>1, <2>2, EditEnded DEF TypeOK, EditBegin
  <2> QED
      BY <2>1, <2>2
<1>2. CASE EditLooked(e)
  <2>1. CASE Active(p)
    <3>1. [edit[e] EXCEPT !.pc = "list", !.at = rec[p].at] \in Edit
        BY <1>0 DEF Edit, Record
    <3>2. edit' = [edit EXCEPT ![e] = [edit[e] EXCEPT !.pc = "list", !.at = rec[p].at]]
        BY <1>2, <2>1 DEF EditLooked
    <3>3. rec[p].at # None
        BY <2>1 DEF Active
    <3>4. [edit[e] EXCEPT !.pc = "list", !.at = rec[p].at].at # None
        BY <1>0, <3>3 DEF Edit
    <3> QED
        BY <1>2, <3>1, <3>2, <3>4, EditSet DEF TypeOK, EditLooked
  <2>2. CASE ~Active(p)
      BY <1>2, <2>2, EditEnded DEF TypeOK, EditLooked
  <2> QED
      BY <2>1, <2>2
<1>3. CASE EditListed(e)
  <2> DEFINE s == edit[e].at
             keep == Before(talk[s], edit[e].target)
  <2>1. s \in Ids
      BY <1>0, <1>3 DEF EditListed, TypeOK, Edit
  <2>2. keep \in Seq(Turns)
      BY <1>3, <2>1, BeforeTyped DEF TypeOK, EditListed, Holds
  <2>3. edit' = [edit EXCEPT ![e] = [edit[e] EXCEPT !.pc = "fork", !.keep = keep]]
      BY <1>3 DEF EditListed
  <2>4. s # None
      BY <1>3 DEF TypeOK, EditListed
  <2> HIDE DEF keep
  <2>5. [edit[e] EXCEPT !.pc = "fork", !.keep = keep] \in Edit
      BY <1>0, <2>2 DEF Edit
  <2>6. [edit[e] EXCEPT !.pc = "fork", !.keep = keep].at # None
      BY <1>0, <2>4 DEF Edit
  <2> QED
      BY <1>3, <2>3, <2>5, <2>6, EditSet DEF TypeOK, EditListed
<1>4. CASE EditForked(e)
  <2>1. PICK q \in Accepted(e) :
          /\ oc' = [oc EXCEPT ![e] = "live"]
          /\ talk' = [talk EXCEPT ![e] = q]
          /\ IF ~Active(p)
             THEN edit' = [edit EXCEPT ![e] = NoEdit("done")] /\ UNCHANGED <<rec, turn>>
             ELSE /\ rec' = [rec EXCEPT ![p] = Replaced(p, e, q)]
                  /\ edit' = [edit EXCEPT ![e] =
                       NoEdit(IF edit[e].kind = "sync" THEN "send" ELSE "done")]
                  /\ turn' = IF edit[e].kind = "async"
                             THEN [turn EXCEPT ![ResendOf[e]] = At("idle")] ELSE turn
      BY <1>4 DEF EditForked
  <2>2. /\ oc' \in [Ids -> {"none", "live", "lost"}]
        /\ talk' \in [Ids -> Seq(Turns)]
      BY <2>1, ForkTyped DEF TypeOK
  <2>3. Replaced(p, e, q) \in Record
      BY <1>0 DEF Replaced, Record
  <2>4. rec' \in [Portals -> Record]
      BY <2>1, <2>3 DEF TypeOK
  <2>5. At("idle") \in Turn
      BY AtTyped
  <2>6. turn' \in [Callers -> Turn]
      BY <2>1, <2>5 DEF TypeOK
  <2>7. PICK pc \in {"send", "done"} : edit' = [edit EXCEPT ![e] = NoEdit(pc)]
      BY <2>1
  <2>8. /\ edit' \in [Edits -> Edit]
        /\ \A d \in Edits : edit'[d].pc \in {"look", "list", "fork"} => edit'[d].at # None
      BY <2>7, EditEnded
  <2> QED
      BY <1>4, <2>2, <2>4, <2>6, <2>8 DEF TypeOK, EditForked
<1>5. CASE EditArrives(e)
  <2>1. Append(talk[e], e) \in Seq(Turns)
      BY DEF TypeOK
  <2> QED
      BY <1>5, <2>1 DEF TypeOK, EditArrives, asks
<1>6. CASE EditAnswered(e)
  <2>1. rec' \in [Portals -> Record]
      BY <1>6, UpdateWrites DEF EditAnswered
  <2> QED
      BY <1>6, <2>1, EditEnded DEF TypeOK, EditAnswered
<1>7. CASE EditFails(e)
    BY <1>7, EditEnded DEF TypeOK, EditFails
<1> QED
    BY <1>1, <1>2, <1>3, <1>4, <1>5, <1>6, <1>7 DEF EditStep

\* A delete or a clear under way, and what it may become.
LEMMA GoneSet ==
    ASSUME TypeOK, NEW k \in Removals, NEW b \in BOOLEAN,
           NEW todo \in SUBSET (Portals \X Ids), NEW cur \in (Portals \X Ids) \cup {None},
           gone' = [gone EXCEPT ![k] = [begun |-> b, todo |-> todo, cur |-> cur]]
    PROVE  gone' \in [Removals -> [begun : BOOLEAN,
                                   todo  : SUBSET (Portals \X Ids),
                                   cur   : (Portals \X Ids) \cup {None}]]
BY DEF TypeOK

LEMMA RemoveTyped ==
    ASSUME TypeOK,
           \/ \E d \in Deletes : DeleteBegin(d)
           \/ \E k \in Clears : ClearBegin(k)
           \/ \E k \in Removals : RemoveCalls(k) \/ RemoveLands(k) \/ RemoveAnswered(k) \/ RemoveFails(k)
           \/ \E x \in Ids : OpenCodeLoses(x)
    PROVE  TypeOK'
<1> USE Owners
<1> DEFINE Sets(k, b, todo, cur) == gone' = [gone EXCEPT ![k] = [begun |-> b, todo |-> todo, cur |-> cur]]
<1>a. \A p \in Portals : Active(p) => <<p, rec[p].at>> \in Portals \X Ids
    BY DEF TypeOK, Active, Record
<1>b. \A k \in Removals :
        /\ gone[k] = [begun |-> gone[k].begun, todo |-> gone[k].todo, cur |-> gone[k].cur]
        /\ gone[k].begun \in BOOLEAN
        /\ gone[k].todo \in SUBSET (Portals \X Ids)
        /\ gone[k].cur \in (Portals \X Ids) \cup {None}
    BY DEF TypeOK
<1>1. ASSUME NEW d \in Deletes, DeleteBegin(d)
      PROVE  TypeOK'
  <2> DEFINE p == PortalOf[d]
             todo == IF Active(p) THEN {<<p, rec[p].at>>} ELSE {}
  <2>1. d \in Removals /\ todo \in SUBSET (Portals \X Ids)
      BY <1>a DEF Removals
  <2>3. Sets(d, TRUE, todo, None)
      BY <1>1 DEF DeleteBegin
  <2> HIDE DEF todo
  <2>4. UNCHANGED <<rec, log, turn, edit, ren, title, oc, talk>>
      BY <1>1 DEF DeleteBegin
  <2> QED
      BY <1>b, <2>1, <2>3, <2>4, GoneSet DEF TypeOK
<1>2. ASSUME NEW k \in Clears, ClearBegin(k)
      PROVE  TypeOK'
  <2> DEFINE todo == {<<p, rec[p].at>> : p \in {x \in Portals : Active(x)}}
  <2>1. k \in Removals /\ todo \in SUBSET (Portals \X Ids)
      BY <1>a DEF Removals
  <2>3. Sets(k, TRUE, todo, None)
      BY <1>2 DEF ClearBegin
  <2> HIDE DEF todo
  <2>4. UNCHANGED <<rec, log, turn, edit, ren, title, oc, talk>>
      BY <1>2 DEF ClearBegin
  <2> QED
      BY <1>b, <2>1, <2>3, <2>4, GoneSet DEF TypeOK
<1>3. ASSUME NEW k \in Removals, RemoveCalls(k)
      PROVE  TypeOK'
  <2>1. PICK w \in gone[k].todo : Sets(k, TRUE, gone[k].todo \ {w}, w)
      BY <1>3 DEF RemoveCalls
  <2>2. w \in Portals \X Ids /\ gone[k].todo \ {w} \in SUBSET (Portals \X Ids)
      BY <1>b, <2>1
  <2>4. UNCHANGED <<rec, log, turn, edit, ren, title, oc, talk>>
      BY <1>3 DEF RemoveCalls
  <2> QED
      BY <1>b, <2>1, <2>2, <2>4, GoneSet DEF TypeOK
<1>4. ASSUME NEW k \in Removals, RemoveLands(k)
      PROVE  TypeOK'
  <2>1. oc' = [oc EXCEPT ![gone[k].cur[2]] = "lost"] /\ UNCHANGED <<rec, log, asks, talk>>
    BY <1>4 DEF RemoveLands
  <2>2. oc' \in [Ids -> {"none", "live", "lost"}]
    BY <2>1 DEF TypeOK
  <2> QED
    BY <2>1, <2>2 DEF TypeOK, asks
<1>5. ASSUME NEW k \in Removals, RemoveAnswered(k) \/ RemoveFails(k)
      PROVE  TypeOK'
  <2>1. Sets(k, gone[k].begun, gone[k].todo, None)
    <3>1. gone' = [gone EXCEPT ![k] = [gone[k] EXCEPT !.cur = None]]
        BY <1>5 DEF RemoveAnswered, RemoveFails
    <3>2. gone[k] \in [begun : BOOLEAN, todo : SUBSET (Portals \X Ids),
                      cur : (Portals \X Ids) \cup {None}]
        BY DEF TypeOK
    <3>3. [gone[k] EXCEPT !.cur = None] = [begun |-> gone[k].begun, todo |-> gone[k].todo, cur |-> None]
        BY <3>2
    <3> QED
        BY <3>1, <3>3
  <2>2. gone' \in [Removals -> [begun : BOOLEAN,
                                todo  : SUBSET (Portals \X Ids),
                                cur   : (Portals \X Ids) \cup {None}]]
      BY <1>b, <2>1, GoneSet
  <2>3. CASE RemoveAnswered(k)
    <3> DEFINE p == gone[k].cur[1]
    <3>1. p \in Portals
        BY <1>b, <2>3 DEF RemoveAnswered
    <3>2. rec[p] \in Record
        BY <3>1 DEF TypeOK
    <3>3. [rec[p] EXCEPT !.deleted = TRUE] \in Record
        BY <3>2 DEF Record
    <3>4. rec' = [rec EXCEPT ![p] = [rec[p] EXCEPT !.deleted = TRUE]]
        BY <2>3 DEF RemoveAnswered
    <3> HIDE DEF p
    <3>5. rec' \in [Portals -> Record]
        BY <3>3, <3>4 DEF TypeOK
    <3> QED
        BY <2>2, <2>3, <3>5 DEF TypeOK, RemoveAnswered
  <2>4. CASE RemoveFails(k)
      BY <2>2, <2>4 DEF TypeOK, RemoveFails
  <2> QED
      BY <1>5, <2>3, <2>4
<1>6. ASSUME NEW x \in Ids, OpenCodeLoses(x)
      PROVE  TypeOK'
    BY <1>6 DEF TypeOK, OpenCodeLoses, asks
<1> QED
    BY <1>1, <1>2, <1>3, <1>4, <1>5, <1>6

LEMMA NextTyped == TypeOK /\ [Next]_vars => TypeOK'
<1> SUFFICES ASSUME TypeOK, [Next]_vars
             PROVE  TypeOK'
    OBVIOUS
<1>1. CASE UNCHANGED vars
    BY <1>1 DEF TypeOK, vars, asks
<1>2. CASE Next
  <2>1. CASE \E x \in Callers : CallerStep(x)
      BY <2>1, CallerTyped
  <2>2. CASE \E c \in Chats : ChatStep(c)
      BY <2>2, ChatTyped
  <2>3. CASE \E x \in Executes : ExecuteBegin(x)
      BY <2>3, CallerTyped DEF Callers
  <2>4. CASE (\E f \in Forces : ForceBegin(f)) \/ (\E x \in Titlers : TitleMade(x) \/ TitleEnds(x))
      BY <2>4, TitleTyped
  <2>5. CASE \E r \in Renames : RenameBegin(r) \/ RenameStores(r)
      BY <2>5, RenameTyped
  <2>6. CASE \E e \in Edits : EditStep(e)
      BY <2>6, EditTyped
  <2> QED
      BY <1>2, <2>1, <2>2, <2>3, <2>4, <2>5, <2>6, RemoveTyped DEF Next
<1> QED
    BY <1>1, <1>2

\* The store, the logs, every request and OpenCode's sessions keep their types,
\* and an edit under way names an OpenCode session.
THEOREM TypeCorrect == Spec => []TypeOK
BY InitTyped, NextTyped, PTL DEF Spec
-----------------------------------------------------------------------------
(* What a step may do to a record *)

Kept(p)    == rec'[p] = rec[p]
Moved(p)   == \E x \in Callers : PortalOf[x] = p /\ SessionMade(x) /\ rec'[p] = [turn[x].snap EXCEPT !.at = x]
Updated(p) == ~rec[p].deleted /\ rec'[p] = [rec[p] EXCEPT !.used = TRUE]
Titled(p)  == Active(p) /\ rec[p].custom = None /\ \E x \in Titlers : rec'[p] = [rec[p] EXCEPT !.gen = x]
Renamed(p) == \E r \in Renames : /\ PortalOf[r] = p /\ ren[r] = "body" /\ ren'[r] = "done"
                                 /\ rec'[p] = [rec[p] EXCEPT !.custom = r]
Edited(p)  == Active(p) /\ \E e \in Edits, q \in Seq(Turns) :
                 PortalOf[e] = p /\ EditForked(e) /\ rec'[p] = Replaced(p, e, q)
Dropped(p) == rec'[p] = [rec[p] EXCEPT !.deleted = TRUE]

Changed(p) == Kept(p) \/ Moved(p) \/ Updated(p) \/ Titled(p) \/ Renamed(p) \/ Edited(p) \/ Dropped(p)

\* The writers of the session store.
LEMMA RecordChanges ==
    ASSUME TypeOK, [Next]_vars, NEW p \in Portals
    PROVE  Changed(p)
<1> USE Owners
<1>0. rec \in [Portals -> Record] /\ ren \in [Renames -> {"idle", "body", "done"}]
    BY DEF TypeOK
<1>1. ASSUME UNCHANGED rec
      PROVE  Changed(p)
    BY <1>1 DEF Changed, Kept
<1>2. ASSUME NEW x \in Callers, CallerStep(x)
      PROVE  Changed(p)
  <2>1. CASE SessionMade(x) /\ PortalOf[x] = p
    <3>1. rec'[p] = [turn[x].snap EXCEPT !.at = x]
        BY <1>0, <2>1 DEF SessionMade
    <3> QED
        BY <2>1, <3>1 DEF Changed, Moved
  <2>2. CASE SessionMade(x) /\ PortalOf[x] # p
      BY <1>0, <2>2 DEF SessionMade, Changed, Kept
  <2>3. CASE SessionFound(x) \/ SessionLost(x) \/ ChatFails(x)
      BY <1>1, <2>3 DEF SessionFound, SessionLost, ChatFails
  <2> QED
      BY <1>2, <2>1, <2>2, <2>3 DEF CallerStep
<1>3. ASSUME NEW q \in Portals, rec' = UpdateAfterChat(q)
      PROVE  Changed(p)
  <2>1. CASE rec[q].deleted \/ q # p
      BY <1>0, <1>3, <2>1 DEF UpdateAfterChat, Changed, Kept
  <2>2. CASE ~rec[q].deleted /\ q = p
    <3>1. rec' = [rec EXCEPT ![p] = [rec[p] EXCEPT !.used = TRUE]]
        BY <1>3, <2>2 DEF UpdateAfterChat
    <3> QED
        BY <1>0, <2>2, <3>1 DEF Changed, Updated
  <2> QED
      BY <2>1, <2>2
<1>4. ASSUME NEW c \in Chats, ChatStep(c)
      PROVE  Changed(p)
  <2>1. CASE ChatAnswered(c)
      BY <1>3, <2>1 DEF ChatAnswered
  <2>2. CASE ~ChatAnswered(c)
      BY <1>1, <1>4, <2>2 DEF ChatStep, ChatBegin, Arrives, ChatCloses, TitleBegins
  <2> QED
      BY <2>1, <2>2
<1>5. ASSUME NEW x \in Titlers, TitleMade(x)
      PROVE  Changed(p)
  <2>1. CASE rec' = rec \/ PortalOf[x] # p
      BY <1>0, <1>5, <2>1 DEF TitleMade, Changed, Kept
  <2>2. CASE rec' # rec /\ PortalOf[x] = p
    <3>1. /\ Active(p) /\ rec[p].custom = None
          /\ rec' = [rec EXCEPT ![p] = [rec[p] EXCEPT !.gen = x]]
        BY <1>5, <2>2 DEF TitleMade
    <3> QED
        BY <1>0, <3>1 DEF Changed, Titled
  <2> QED
      BY <2>1, <2>2
<1>6. ASSUME NEW r \in Renames, RenameStores(r)
      PROVE  Changed(p)
  <2>1. CASE rec' = rec \/ PortalOf[r] # p
      BY <1>0, <1>6, <2>1 DEF RenameStores, Changed, Kept
  <2>2. CASE rec' # rec /\ PortalOf[r] = p
    <3>1. rec' = [rec EXCEPT ![p] = [rec[p] EXCEPT !.custom = r]]
        BY <1>6, <2>2 DEF RenameStores
    <3>2. ren[r] = "body" /\ ren'[r] = "done"
        BY <1>0, <1>6 DEF RenameStores
    <3> QED
        BY <1>0, <2>2, <3>1, <3>2 DEF Changed, Renamed
  <2> QED
      BY <2>1, <2>2
<1>7. ASSUME NEW e \in Edits, EditStep(e)
      PROVE  Changed(p)
  <2>1. CASE EditForked(e)
    <3>1. CASE rec' = rec \/ PortalOf[e] # p
        BY <1>0, <2>1, <3>1 DEF EditForked, Changed, Kept
    <3>2. CASE rec' # rec /\ PortalOf[e] = p
      <4>1. PICK q \in Accepted(e) : Active(p) /\ rec' = [rec EXCEPT ![p] = Replaced(p, e, q)]
          BY <2>1, <3>2 DEF EditForked
      <4>2. q \in Seq(Turns)
          BY ForkTyped
      <4> QED
          BY <1>0, <2>1, <3>2, <4>1, <4>2 DEF Changed, Edited
    <3> QED
        BY <3>1, <3>2
  <2>2. CASE EditAnswered(e)
      BY <1>3, <2>2 DEF EditAnswered
  <2>3. CASE ~EditForked(e) /\ ~EditAnswered(e)
      BY <1>1, <1>7, <2>3 DEF EditStep, EditBegin, EditLooked, EditListed, EditArrives, EditFails
  <2> QED
      BY <2>1, <2>2, <2>3
<1>8. ASSUME NEW k \in Removals, RemoveAnswered(k)
      PROVE  Changed(p)
  <2> DEFINE q == gone[k].cur[1]
  <2>1. rec' = [rec EXCEPT ![q] = [rec[q] EXCEPT !.deleted = TRUE]]
      BY <1>8 DEF RemoveAnswered
  <2> HIDE DEF q
  <2> QED
      BY <1>0, <2>1 DEF Changed, Kept, Dropped
<1>9. CASE Next
  <2>1. ASSUME \/ \E x \in Executes : ExecuteBegin(x)
               \/ \E f \in Forces : ForceBegin(f)
               \/ \E x \in Titlers : TitleEnds(x)
               \/ \E r \in Renames : RenameBegin(r)
               \/ \E d \in Deletes : DeleteBegin(d)
               \/ \E k \in Clears : ClearBegin(k)
               \/ \E k \in Removals : RemoveCalls(k) \/ RemoveLands(k) \/ RemoveFails(k)
               \/ \E x \in Ids : OpenCodeLoses(x)
        PROVE  UNCHANGED rec
      BY <2>1 DEF ExecuteBegin, ForceBegin, TitleEnds, RenameBegin, DeleteBegin, ClearBegin,
                  RemoveCalls, RemoveLands, RemoveFails, OpenCodeLoses
  <2> QED
      BY <1>1, <1>2, <1>4, <1>5, <1>6, <1>7, <1>8, <1>9, <2>1 DEF Next
<1> QED
    BY <1>1, <1>9 DEF vars
-----------------------------------------------------------------------------
(* Names and titles *)

LEMMA MoveSeen ==
    ASSUME TypeOK, NEW x \in Callers, SessionMade(x)
    PROVE  MovesSession(x)
<1>1. oc'[x] = "live"
    BY Owners DEF TypeOK, SessionMade
<1>2. turn'[x].pc \in {"send", "over"}
    BY DEF TypeOK, SessionMade, GoesOn, At
<1> QED
    BY <1>1, <1>2 DEF SessionMade, MovesSession

LEMMA NameStep ==
    ASSUME TypeOK, [Next]_vars, NEW p \in Portals,
           rec[p].custom # None, rec'[p].custom # rec[p].custom
    PROVE  \/ \E r \in Renames : PortalOf[r] = p /\ rec'[p].custom = r /\ ren[r] # ren'[r]
           \/ \E x \in Callers : /\ PortalOf[x] = p /\ MovesSession(x)
                                 /\ rec'[p].custom = turn[x].snap.custom
<1>0. rec[p] \in Record
    BY DEF TypeOK
<1>1. Changed(p)
    BY RecordChanges
<1>2. ~Kept(p) /\ ~Updated(p) /\ ~Titled(p) /\ ~Dropped(p)
    BY <1>0 DEF Kept, Updated, Titled, Dropped, Record
<1>3. ~Edited(p)
    BY <1>0 DEF Edited, Replaced, Record
<1>4. CASE Moved(p)
  <2>1. PICK x \in Callers : PortalOf[x] = p /\ SessionMade(x) /\ rec'[p] = [turn[x].snap EXCEPT !.at = x]
      BY <1>4 DEF Moved
  <2>2. rec'[p].custom = turn[x].snap.custom
      BY <2>1 DEF TypeOK, Turn, Record
  <2> QED
      BY <2>1, <2>2, MoveSeen
<1>5. CASE Renamed(p)
    BY <1>0, <1>5 DEF Renamed, Record
<1> QED
    BY <1>1, <1>2, <1>3, <1>4, <1>5 DEF Changed

LEMMA TitleStep ==
    ASSUME TypeOK, [Next]_vars, NEW p \in Portals,
           rec[p].custom # None \/ rec[p].deleted, rec'[p].gen # rec[p].gen
    PROVE  \E x \in Callers : PortalOf[x] = p /\ MovesSession(x) /\ rec'[p].gen = turn[x].snap.gen
<1>0. rec[p] \in Record
    BY DEF TypeOK
<1>1. Changed(p)
    BY RecordChanges
<1>2. ~Kept(p) /\ ~Updated(p) /\ ~Renamed(p) /\ ~Dropped(p)
    BY <1>0 DEF Kept, Updated, Renamed, Dropped, Record
<1>3. ~Titled(p)
    BY DEF Titled, Active
<1>4. ~Edited(p)
    BY <1>0 DEF Edited, Replaced, Record
<1>5. PICK x \in Callers : PortalOf[x] = p /\ SessionMade(x) /\ rec'[p] = [turn[x].snap EXCEPT !.at = x]
    BY <1>1, <1>2, <1>3, <1>4 DEF Changed, Moved
<1>6. rec'[p].gen = turn[x].snap.gen
    BY <1>5 DEF TypeOK, Turn, Record
<1> QED
    BY <1>5, <1>6, MoveSeen

\* A manual name is lost only to a rename, or to a chat or execute that moves the
\* session and stores the record it had read.
THEOREM NamesKept == Spec => NameKept
<1>1. TypeOK /\ [Next]_vars =>
        [\A p \in Portals : rec[p].custom # None /\ rec'[p].custom # rec[p].custom =>
           \/ \E r \in Renames : PortalOf[r] = p /\ rec'[p].custom = r /\ ren[r] # ren'[r]
           \/ \E x \in Callers : /\ PortalOf[x] = p /\ MovesSession(x)
                                 /\ rec'[p].custom = turn[x].snap.custom]_vars
    BY NameStep
<1> QED
    BY <1>1, TypeCorrect, PTL DEF Spec, NameKept

\* A generated title yields to a manual name and to a deletion.
THEOREM TitlesYield == Spec => TitleYields
<1>1. TypeOK /\ [Next]_vars =>
        [\A p \in Portals : (rec[p].custom # None \/ rec[p].deleted) /\ rec'[p].gen # rec[p].gen =>
           \E x \in Callers : /\ PortalOf[x] = p /\ MovesSession(x)
                              /\ rec'[p].gen = turn[x].snap.gen]_vars
    BY TitleStep
<1> QED
    BY <1>1, TypeCorrect, PTL DEF Spec, TitleYields

\* A chat's title call is on its way only if it was, or if the chat just closed
\* while no other title call of its session was.
LEMMA TitleStarts ==
    ASSUME TypeOK, [Next]_vars, NEW c \in Chats, title'[c] \in {"start", "call", "publish"}
    PROVE  \/ title[c] \in {"start", "call", "publish"}
           \/ /\ ~TitleTask(PortalOf[c])
              /\ title' = [title EXCEPT ![c] = "start"]
<1> USE Owners
<1>0. title \in [Titlers -> {"none", "start", "call", "publish", "done"}]
    BY DEF TypeOK
<1>1. CASE UNCHANGED title
    BY <1>1
<1>2. ASSUME NEW b \in Chats, ChatCloses(b)
      PROVE  title' = title \/ (~TitleTask(PortalOf[b]) /\ title' = [title EXCEPT ![b] = "start"])
    BY <1>2 DEF ChatCloses
<1>3. ASSUME NEW b \in Chats, ChatStep(b), title' # title
      PROVE  ChatCloses(b) \/ TitleBegins(b)
    BY <1>3 DEF ChatStep, ChatBegin, Arrives, ChatAnswered, asks
<1>4. ASSUME NEW b \in Chats, TitleBegins(b)
      PROVE  title[c] \in {"start", "call", "publish"}
    BY <1>0, <1>4 DEF TitleBegins
<1>5. ASSUME NEW x \in Titlers, TitleMade(x) \/ TitleEnds(x)
      PROVE  title[c] \in {"start", "call", "publish"}
    BY <1>0, <1>5 DEF TitleMade, TitleEnds
<1>6. ASSUME NEW f \in Forces, ForceBegin(f)
      PROVE  title[c] \in {"start", "call", "publish"}
    BY <1>0, <1>6, SessionsAssumption DEF ForceBegin, Titlers
<1>7. ASSUME \/ \E x \in Callers : CallerStep(x)
             \/ \E x \in Executes : ExecuteBegin(x)
             \/ \E r \in Renames : RenameBegin(r) \/ RenameStores(r)
             \/ \E e \in Edits : EditStep(e)
             \/ \E d \in Deletes : DeleteBegin(d)
             \/ \E k \in Clears : ClearBegin(k)
             \/ \E k \in Removals : RemoveCalls(k) \/ RemoveLands(k) \/ RemoveAnswered(k) \/ RemoveFails(k)
             \/ \E x \in Ids : OpenCodeLoses(x)
      PROVE  UNCHANGED title
    BY <1>7 DEF CallerStep, SessionFound, SessionLost, SessionMade, ChatFails, ExecuteBegin, RenameBegin,
                RenameStores, EditStep, EditBegin, EditLooked, EditListed, EditForked, EditArrives,
                EditAnswered, EditFails, DeleteBegin, ClearBegin, RemoveCalls, RemoveLands,
                RemoveAnswered, RemoveFails, OpenCodeLoses, asks
<1>8. CASE \E b \in Chats : ChatCloses(b) /\ title' # title
  <2>1. PICK b \in Chats : ~TitleTask(PortalOf[b]) /\ title' = [title EXCEPT ![b] = "start"]
      BY <1>2, <1>8
  <2> QED
      BY <1>0, <2>1
<1>9. CASE Next /\ title' # title
    BY <1>3, <1>4, <1>5, <1>6, <1>7, <1>8, <1>9 DEF Next
<1> QED
    BY <1>1, <1>9 DEF vars, asks

\* One background title call per session, however many chats of it end together.
THEOREM TitleTasksAlone == Spec => []OneTitleTask
<1>1. Init => OneTitleTask
    BY Owners DEF Init, OneTitleTask, OnItsWay
<1>2. TypeOK /\ OneTitleTask /\ [Next]_vars => OneTitleTask'
  <2> SUFFICES ASSUME TypeOK, OneTitleTask, [Next]_vars,
                      NEW b \in Chats, NEW c \in Chats, PortalOf[b] = PortalOf[c],
                      title'[b] \in {"start", "call", "publish"}, title'[c] \in {"start", "call", "publish"}
               PROVE  b = c
      BY DEF OneTitleTask, OnItsWay
  <2>0. title \in [Titlers -> {"none", "start", "call", "publish", "done"}]
      BY DEF TypeOK
  <2>1. CASE title[b] \in {"start", "call", "publish"} /\ title[c] \in {"start", "call", "publish"}
      BY <2>1 DEF OneTitleTask, OnItsWay
  <2>2. CASE title[b] \notin {"start", "call", "publish"}
    <3>1. ~TitleTask(PortalOf[b]) /\ title' = [title EXCEPT ![b] = "start"]
        BY <2>2, TitleStarts
    <3>2. title[c] \notin {"start", "call", "publish"}
        BY <3>1 DEF TitleTask, OnItsWay
    <3> QED
        BY <2>0, <3>1, <3>2, Owners
  <2>3. CASE title[c] \notin {"start", "call", "publish"}
    <3>1. ~TitleTask(PortalOf[c]) /\ title' = [title EXCEPT ![c] = "start"]
        BY <2>3, TitleStarts
    <3>2. title[b] \notin {"start", "call", "publish"}
        BY <3>1 DEF TitleTask, OnItsWay
    <3> QED
        BY <2>0, <3>1, <3>2, Owners
  <2> QED
      BY <2>1, <2>2, <2>3
<1> QED
    BY <1>1, <1>2, TypeCorrect, PTL DEF Spec
-----------------------------------------------------------------------------
(* Deletion *)

\* Chats of a quiet session neither move nor answer in it, and none is resent.
LEMMA QuietChats ==
    ASSUME NEW p \in Portals, Quiet(p), NEW c \in Chats, PortalOf[c] = p
    PROVE  /\ turn[c].pc \notin {"get", "create", "send"}
           /\ c \in Resends => turn[c].pc # "idle"
BY DEF Quiet

LEMMA DeletedRecord ==
    ASSUME TypeOK, [Next]_vars, NEW p \in Portals, rec[p].deleted, Quiet(p)
    PROVE  rec'[p] = [rec[p] EXCEPT !.at = rec'[p].at]
<1>0. rec[p] \in Record
    BY DEF TypeOK
<1>1. Changed(p)
    BY RecordChanges
<1>2. CASE Kept(p) \/ Dropped(p)
  <2>1. rec'[p] = rec[p]
      BY <1>0, <1>2 DEF Kept, Dropped, Record
  <2> QED
      BY <1>0, <2>1 DEF Record
<1>3. ~Updated(p) /\ ~Titled(p) /\ ~Edited(p)
    BY DEF Updated, Titled, Edited, Active
<1>4. ~Renamed(p)
    BY DEF Renamed, Quiet
<1>5. CASE Moved(p)
  <2>1. PICK x \in Callers : PortalOf[x] = p /\ SessionMade(x) /\ rec'[p] = [turn[x].snap EXCEPT !.at = x]
      BY <1>5 DEF Moved
  <2>2. x \in Executes
      BY <2>1, QuietChats DEF SessionMade, Callers
  <2>3. turn[x].snap = [rec[p] EXCEPT !.at = turn[x].snap.at]
      BY <2>1, <2>2 DEF SessionMade, Quiet
  <2>4. turn[x].snap.at \in Ids \cup {None}
      BY DEF TypeOK, Turn, Record
  <2>5. rec'[p] = [rec[p] EXCEPT !.at = x]
      BY <1>0, <2>1, <2>3, <2>4 DEF Record
  <2> QED
      BY <1>0, <2>5 DEF Record
<1> QED
    BY <1>1, <1>2, <1>3, <1>4, <1>5 DEF Changed

\* Who may start or write a chat log.
LEMMA LogWrites ==
    ASSUME TypeOK, [Next]_vars, NEW p \in Portals, ~log[p], log'[p]
    PROVE  \E c \in Chats :
              /\ PortalOf[c] = p
              /\ \/ turn[c].pc \in {"get", "create", "send"}
                 \/ turn[c].pc = "idle" /\ (rec[p].deleted => c \in Resends)
<1> USE Owners
<1>0. log \in [Portals -> BOOLEAN]
    BY DEF TypeOK
<1>1. log' # log
    OBVIOUS
<1>2. ASSUME NEW x \in Callers, CallerStep(x)
      PROVE  x \in Chats /\ PortalOf[x] = p /\ turn[x].pc \in {"get", "create", "send"}
    BY <1>0, <1>1, <1>2 DEF CallerStep, SessionFound, SessionLost, SessionMade, ChatFails, GoesOn
<1>3. ASSUME NEW c \in Chats, ChatStep(c)
      PROVE  /\ PortalOf[c] = p
             /\ \/ turn[c].pc \in {"get", "create", "send"}
                \/ turn[c].pc = "idle" /\ (rec[p].deleted => c \in Resends)
    BY <1>0, <1>1, <1>3 DEF ChatStep, ChatBegin, Arrives, ChatAnswered, ChatCloses, TitleBegins
<1>4. ASSUME NEW k \in Removals, RemoveAnswered(k)
      PROVE  FALSE
    BY <1>0, <1>4 DEF RemoveAnswered
<1>5. ASSUME \/ \E x \in Executes : ExecuteBegin(x)
             \/ \E f \in Forces : ForceBegin(f)
             \/ \E x \in Titlers : TitleMade(x) \/ TitleEnds(x)
             \/ \E r \in Renames : RenameBegin(r) \/ RenameStores(r)
             \/ \E e \in Edits : EditStep(e)
             \/ \E d \in Deletes : DeleteBegin(d)
             \/ \E k \in Clears : ClearBegin(k)
             \/ \E k \in Removals : RemoveCalls(k) \/ RemoveLands(k) \/ RemoveFails(k)
             \/ \E x \in Ids : OpenCodeLoses(x)
      PROVE  UNCHANGED log
    BY <1>5 DEF ExecuteBegin, ForceBegin, TitleMade, TitleEnds, RenameBegin, RenameStores, EditStep,
                EditBegin, EditLooked, EditListed, EditForked, EditArrives, EditAnswered, EditFails,
                DeleteBegin, ClearBegin, RemoveCalls, RemoveLands, RemoveFails, OpenCodeLoses
<1>6. Next
    BY <1>1 DEF vars
<1> QED
    BY <1>1, <1>2, <1>3, <1>4, <1>5, <1>6 DEF Next

\* Who goes on with a turn.
LEMMA TurnWrites ==
    ASSUME TypeOK, [Next]_vars, NEW x \in Callers, turn'[x] # turn[x]
    PROVE  \/ CallerStep(x)
           \/ x \in Executes /\ ExecuteBegin(x)
           \/ x \in Chats /\ (ChatBegin(x) \/ ChatAnswered(x) \/ ChatCloses(x))
           \/ \E e \in Edits : x = ResendOf[e] /\ Active(PortalOf[e]) /\ EditForked(e)
<1> USE Owners
<1>0. turn \in [Callers -> Turn]
    BY DEF TypeOK
<1>2. ASSUME NEW y \in Callers, CallerStep(y)
      PROVE  x = y
    BY <1>0, <1>2 DEF CallerStep, SessionFound, SessionLost, SessionMade, ChatFails, GoesOn
<1>3. ASSUME NEW c \in Chats, ChatStep(c)
      PROVE  x = c /\ (ChatBegin(c) \/ ChatAnswered(c) \/ ChatCloses(c))
    BY <1>0, <1>3 DEF ChatStep, ChatBegin, Arrives, ChatAnswered, ChatCloses, TitleBegins, asks
<1>4. ASSUME NEW y \in Executes, ExecuteBegin(y)
      PROVE  x = y
    BY <1>0, <1>4 DEF ExecuteBegin
<1>5. ASSUME NEW e \in Edits, EditStep(e)
      PROVE  x = ResendOf[e] /\ Active(PortalOf[e]) /\ EditForked(e)
  <2>1. EditForked(e)
      BY <1>5 DEF EditStep, EditBegin, EditLooked, EditListed, EditArrives, EditAnswered, EditFails, asks
  <2> QED
      BY <1>0, <2>1 DEF EditForked
<1>6. ASSUME \/ \E f \in Forces : ForceBegin(f)
             \/ \E y \in Titlers : TitleMade(y) \/ TitleEnds(y)
             \/ \E r \in Renames : RenameBegin(r) \/ RenameStores(r)
             \/ \E d \in Deletes : DeleteBegin(d)
             \/ \E k \in Clears : ClearBegin(k)
             \/ \E k \in Removals : RemoveCalls(k) \/ RemoveLands(k) \/ RemoveAnswered(k) \/ RemoveFails(k)
             \/ \E y \in Ids : OpenCodeLoses(y)
      PROVE  UNCHANGED turn
    BY <1>6 DEF ForceBegin, TitleMade, TitleEnds, RenameBegin, RenameStores, DeleteBegin, ClearBegin,
                RemoveCalls, RemoveLands, RemoveAnswered, RemoveFails, OpenCodeLoses, asks
<1>7. Next
    BY DEF vars, asks
<1> QED
    BY <1>2, <1>3, <1>4, <1>5, <1>6, <1>7 DEF Next

LEMMA QuietStays ==
    ASSUME TypeOK, [Next]_vars, NEW p \in Portals, rec[p].deleted, Quiet(p)
    PROVE  Quiet(p)'
<1> USE Owners
<1>0. turn \in [Callers -> Turn] /\ rec[p] \in Record /\ rec \in [Portals -> Record]
    BY DEF TypeOK
<1>r. rec'[p] = [rec[p] EXCEPT !.at = rec'[p].at]
    BY DeletedRecord
<1>1. ASSUME NEW c \in Chats, PortalOf[c] = p
      PROVE  /\ turn'[c].pc \notin {"get", "create", "send"}
             /\ c \in Resends => turn'[c].pc # "idle"
  <2>1. CASE turn'[c] = turn[c]
      BY <1>1, <2>1, QuietChats
  <2>2. CASE turn'[c] # turn[c]
    <3>1. ~CallerStep(c) /\ c \notin Executes
        BY <1>1, QuietChats, SessionsAssumption DEF CallerStep, SessionFound, SessionLost, SessionMade, ChatFails
    <3>2. \A e \in Edits : c = ResendOf[e] => PortalOf[e] = p
        BY <1>1, SessionsAssumption
    <3>3. ChatBegin(c) \/ ChatAnswered(c) \/ ChatCloses(c)
        BY <2>2, <3>1, <3>2, TurnWrites DEF Active
    <3>4. turn'[c].pc = "over"
        BY <1>0, <1>1, <3>3, QuietChats DEF ChatBegin, ChatAnswered, ChatCloses, At
    <3> QED
        BY <3>4
  <2> QED
      BY <2>1, <2>2
<1>2. ASSUME NEW x \in Executes, PortalOf[x] = p, turn'[x].pc \in {"get", "create"}
      PROVE  turn'[x].snap = [rec'[p] EXCEPT !.at = turn'[x].snap.at]
  <2>0. x \in Callers /\ x \notin Chats /\ \A e \in Edits : x # ResendOf[e]
      BY SessionsAssumption DEF Callers
  <2>1. CASE turn'[x].snap = turn[x].snap /\ turn[x].pc \in {"get", "create"}
    <3>1. turn[x].snap = [rec[p] EXCEPT !.at = turn[x].snap.at]
        BY <1>2, <2>1 DEF Quiet
    <3> QED
        BY <1>0, <1>r, <2>1, <3>1 DEF Record
  <2>2. CASE ExecuteBegin(x)
    <3>1. rec' = rec /\ turn'[x].snap = rec[p]
        BY <1>0, <1>2, <2>0, <2>2 DEF ExecuteBegin, At
    <3> QED
        BY <1>0, <3>1 DEF Record
  <2>3. CASE CallerStep(x)
    <3>1. ~SessionFound(x) /\ ~SessionMade(x) /\ ~ChatFails(x)
        BY <1>0, <1>2, <2>0 DEF SessionFound, SessionMade, ChatFails, GoesOn, At
    <3>2. turn'[x].snap = turn[x].snap /\ turn[x].pc = "get"
        BY <1>0, <2>0, <2>3, <3>1 DEF CallerStep, SessionLost, Turn
    <3> QED
        BY <2>1, <3>2
  <2> QED
      BY <1>2, <2>0, <2>1, <2>2, <2>3, TurnWrites
<1>3. ASSUME NEW r \in Renames, PortalOf[r] = p
      PROVE  ren'[r] # "body"
  <2>0. ren \in [Renames -> {"idle", "body", "done"}] /\ ren[r] # "body" /\ ~Active(p)
      BY <1>3 DEF TypeOK, Quiet, Active
  <2>1. ASSUME NEW q \in Renames, RenameBegin(q) \/ RenameStores(q)
        PROVE  ren'[r] # "body"
      BY <1>3, <2>0, <2>1 DEF RenameBegin, RenameStores
  <2>2. ASSUME \/ \E x \in Callers : CallerStep(x)
               \/ \E c \in Chats : ChatStep(c)
               \/ \E x \in Executes : ExecuteBegin(x)
               \/ \E f \in Forces : ForceBegin(f)
               \/ \E x \in Titlers : TitleMade(x) \/ TitleEnds(x)
               \/ \E e \in Edits : EditStep(e)
               \/ \E d \in Deletes : DeleteBegin(d)
               \/ \E k \in Clears : ClearBegin(k)
               \/ \E k \in Removals : RemoveCalls(k) \/ RemoveLands(k) \/ RemoveAnswered(k) \/ RemoveFails(k)
               \/ \E x \in Ids : OpenCodeLoses(x)
        PROVE  UNCHANGED ren
      BY <2>2 DEF CallerStep, SessionFound, SessionLost, SessionMade, ChatFails, ExecuteBegin, ChatStep,
                  ChatBegin, Arrives, ChatAnswered, ChatCloses, TitleBegins, ForceBegin, TitleMade,
                  TitleEnds, EditStep, EditBegin, EditLooked, EditListed, EditForked, EditArrives,
                  EditAnswered, EditFails, DeleteBegin, ClearBegin, RemoveCalls, RemoveLands,
                  RemoveAnswered, RemoveFails, OpenCodeLoses, asks
  <2> QED
      BY <2>0, <2>1, <2>2 DEF Next, vars, asks
<1> QED
    BY <1>1, <1>2, <1>3 DEF Quiet

\* A deleted session that nothing in flight concerns keeps its record, but for the
\* OpenCode session that an execute may give it, gets no chat log, and stays quiet.
THEOREM DeletionFinal == Spec => DeletedIsFinal
<1>1. TypeOK /\ [Next]_vars =>
        [\A p \in Portals : rec[p].deleted /\ Quiet(p) =>
           /\ rec'[p] = [rec[p] EXCEPT !.at = rec'[p].at]
           /\ log'[p] => log[p]
           /\ Quiet(p)']_vars
  <2> SUFFICES ASSUME TypeOK, [Next]_vars, NEW p \in Portals, rec[p].deleted, Quiet(p)
               PROVE  /\ rec'[p] = [rec[p] EXCEPT !.at = rec'[p].at]
                      /\ log'[p] => log[p]
                      /\ Quiet(p)'
      OBVIOUS
  <2>1. log'[p] => log[p]
      BY LogWrites, QuietChats
  <2> QED
      BY <2>1, DeletedRecord, QuietStays
<1> QED
    BY <1>1, TypeCorrect, PTL DEF Spec, DeletedIsFinal
-----------------------------------------------------------------------------
(* Edits *)

\* No turn is twice in a conversation.
Once(q) == \A i, j \in 1..Len(q) : q[i] = q[j] => i = j

EditInv ==
    /\ \A p \in Portals : rec[p].at # None => oc[rec[p].at] # "none"
    /\ \A e \in Edits : edit[e].at # None => oc[edit[e].at] # "none"
    /\ \A e \in Edits : edit[e].pc \in {"idle", "look", "list", "fork"} => oc[e] = "none"
    /\ \A s \in Ids : Once(talk[s])
    /\ \A e \in Edits : edit[e].pc = "fork" =>
          /\ Holds(edit[e].at, edit[e].target)
          /\ edit[e].keep = Before(talk[edit[e].at], edit[e].target)

LEMMA BeforeIs ==
    ASSUME NEW q \in Seq(Turns), Once(q), NEW i \in 1..Len(q)
    PROVE  Before(q, q[i]) = SubSeq(q, 1, i - 1)
<1>1. (CHOOSE j \in 1..Len(q) : q[j] = q[i]) = i
    BY DEF Once
<1> QED
    BY <1>1 DEF Before

LEMMA BeforeOnce ==
    ASSUME NEW q \in Seq(Turns), Once(q), NEW t, \E i \in 1..Len(q) : q[i] = t
    PROVE  Once(Before(q, t))
<1>1. PICK i \in 1..Len(q) : q[i] = t
    OBVIOUS
<1>2. Before(q, t) = SubSeq(q, 1, i - 1)
    BY <1>1, BeforeIs
<1>3. i - 1 \in Int /\ \A j \in 1..(i - 1) : q[j] \in Turns
    OBVIOUS
<1>4. /\ Len(SubSeq(q, 1, i - 1)) = i - 1
      /\ \A j \in 1..(i - 1) : SubSeq(q, 1, i - 1)[j] = q[j]
    BY <1>3, SubSeqProperties
<1> QED
    BY <1>2, <1>4 DEF Once

\* A conversation that grows by a new turn keeps what came before its turns.
LEMMA BeforeGrows ==
    ASSUME NEW q \in Seq(Turns), Once(q), NEW c \in Turns, \A i \in 1..Len(q) : q[i] # c
    PROVE  /\ Once(Append(q, c))
           /\ \A i \in 1..Len(q) : /\ i \in 1..Len(Append(q, c)) /\ Append(q, c)[i] = q[i]
                                   /\ Before(Append(q, c), q[i]) = Before(q, q[i])
<1> DEFINE r == Append(q, c)
<1>1. r \in Seq(Turns) /\ Len(r) = Len(q) + 1 /\ r[Len(q) + 1] = c
    OBVIOUS
<1>2. \A i \in 1..Len(q) : r[i] = q[i]
    OBVIOUS
<1> HIDE DEF r
<1>3. Once(r)
    BY <1>1, <1>2 DEF Once
<1>4. ASSUME NEW i \in 1..Len(q)
      PROVE  Before(r, q[i]) = Before(q, q[i])
  <2>1. i \in 1..Len(r) /\ r[i] = q[i]
      BY <1>1, <1>2
  <2>2. Before(r, q[i]) = SubSeq(r, 1, i - 1) /\ Before(q, q[i]) = SubSeq(q, 1, i - 1)
      BY <1>1, <1>3, <2>1, BeforeIs
  <2>3. SubSeq(r, 1, i - 1) = SubSeq(q, 1, i - 1)
      BY <1>1, <1>2 DEF r
  <2> QED
      BY <2>2, <2>3
<1> QED
    BY <1>1, <1>2, <1>3, <1>4 DEF r

\* OpenCode's sessions are created by a caller or by an edit, and stay known.
LEMMA OpenCodeSteps ==
    ASSUME TypeOK, [Next]_vars, NEW s \in Ids
    PROVE  /\ oc[s] # "none" => oc'[s] # "none"
           /\ oc'[s] = oc[s] \/ oc[s] # "none" \/ (s \in Callers /\ SessionMade(s)) \/ (s \in Edits /\ EditForked(s))
<1> USE Owners
<1>0. oc \in [Ids -> {"none", "live", "lost"}]
    BY DEF TypeOK
<1> DEFINE Goal == /\ oc[s] # "none" => oc'[s] # "none"
                   /\ oc'[s] = oc[s] \/ oc[s] # "none" \/ (s \in Callers /\ SessionMade(s)) \/ (s \in Edits /\ EditForked(s))
<1>1. ASSUME NEW x \in Callers, CallerStep(x)
      PROVE  Goal
    BY <1>0, <1>1 DEF CallerStep, SessionFound, SessionLost, SessionMade, ChatFails
<1>2. ASSUME NEW e \in Edits, EditStep(e)
      PROVE  Goal
    BY <1>0, <1>2 DEF EditStep, EditBegin, EditLooked, EditListed, EditForked, EditArrives,
                      EditAnswered, EditFails
<1>3. ASSUME NEW k \in Removals, RemoveLands(k)
      PROVE  Goal
  <2>1. gone[k].cur[2] \in Ids
      BY <1>3, SessionsAssumption DEF TypeOK, RemoveLands
  <2> QED
      BY <1>0, <1>3, <2>1 DEF RemoveLands
<1>4. ASSUME NEW x \in Ids, OpenCodeLoses(x)
      PROVE  Goal
    BY <1>0, <1>4 DEF OpenCodeLoses
<1>5. ASSUME \/ \E c \in Chats : ChatStep(c)
             \/ \E x \in Executes : ExecuteBegin(x)
             \/ \E f \in Forces : ForceBegin(f)
             \/ \E x \in Titlers : TitleMade(x) \/ TitleEnds(x)
             \/ \E r \in Renames : RenameBegin(r) \/ RenameStores(r)
             \/ \E d \in Deletes : DeleteBegin(d)
             \/ \E k \in Clears : ClearBegin(k)
             \/ \E k \in Removals : RemoveCalls(k) \/ RemoveAnswered(k) \/ RemoveFails(k)
      PROVE  UNCHANGED oc
    BY <1>5 DEF ChatStep, ChatBegin, Arrives, ChatAnswered, ChatCloses, TitleBegins, ExecuteBegin,
                ForceBegin, TitleMade, TitleEnds, RenameBegin, RenameStores, DeleteBegin, ClearBegin,
                RemoveCalls, RemoveAnswered, RemoveFails
<1>6. CASE UNCHANGED oc
    BY <1>6
<1>7. CASE Next
    BY <1>1, <1>2, <1>3, <1>4, <1>5, <1>6, <1>7 DEF Next
<1> QED
    BY <1>6, <1>7 DEF vars

\* A conversation grows by a turn it does not hold, or is a fork just made.
LEMMA TalkSteps ==
    ASSUME TypeOK, [Next]_vars, NEW s \in Ids
    PROVE  \/ talk'[s] = talk[s]
           \/ \E c \in Turns : ~Holds(s, c) /\ talk'[s] = Append(talk[s], c)
           \/ s \in Edits /\ EditForked(s) /\ talk'[s] = edit[s].keep
<1> USE Owners
<1>0. talk \in [Ids -> Seq(Turns)]
    BY DEF TypeOK
<1> DEFINE Goal == \/ talk'[s] = talk[s]
                   \/ \E c \in Turns : ~Holds(s, c) /\ talk'[s] = Append(talk[s], c)
                   \/ s \in Edits /\ EditForked(s) /\ talk'[s] = edit[s].keep
<1>1. ASSUME NEW c \in Chats, ChatStep(c)
      PROVE  Goal
  <2>1. CASE Arrives(c)
      BY <1>0, <2>1 DEF Arrives, Holds
  <2>2. CASE ~Arrives(c)
      BY <1>1, <2>2 DEF ChatStep, ChatBegin, ChatAnswered, ChatCloses, TitleBegins
  <2> QED
      BY <2>1, <2>2
<1>2. ASSUME NEW e \in Edits, EditStep(e)
      PROVE  Goal
  <2>1. CASE EditForked(e)
      BY <1>0, <2>1, ForkTyped DEF EditForked
  <2>2. CASE EditArrives(e)
      BY <1>0, <2>2 DEF EditArrives
  <2>3. CASE ~EditForked(e) /\ ~EditArrives(e)
      BY <1>2, <2>3 DEF EditStep, EditBegin, EditLooked, EditListed, EditAnswered, EditFails
  <2> QED
      BY <2>1, <2>2, <2>3
<1>3. ASSUME \/ \E x \in Callers : CallerStep(x)
             \/ \E x \in Executes : ExecuteBegin(x)
             \/ \E f \in Forces : ForceBegin(f)
             \/ \E x \in Titlers : TitleMade(x) \/ TitleEnds(x)
             \/ \E r \in Renames : RenameBegin(r) \/ RenameStores(r)
             \/ \E d \in Deletes : DeleteBegin(d)
             \/ \E k \in Clears : ClearBegin(k)
             \/ \E k \in Removals : RemoveCalls(k) \/ RemoveLands(k) \/ RemoveAnswered(k) \/ RemoveFails(k)
             \/ \E x \in Ids : OpenCodeLoses(x)
      PROVE  UNCHANGED talk
    BY <1>3 DEF CallerStep, SessionFound, SessionLost, SessionMade, ChatFails, ExecuteBegin, ForceBegin,
                TitleMade, TitleEnds, RenameBegin, RenameStores, DeleteBegin, ClearBegin, RemoveCalls,
                RemoveLands, RemoveAnswered, RemoveFails, OpenCodeLoses
<1>4. CASE Next
    BY <1>1, <1>2, <1>3, <1>4 DEF Next
<1> QED
    BY <1>4 DEF vars

LEMMA EditSteps ==
    ASSUME TypeOK, [Next]_vars, NEW e \in Edits, edit'[e] # edit[e]
    PROVE  EditStep(e)
<1> USE Owners
<1>0. edit \in [Edits -> Edit]
    BY DEF TypeOK
<1>1. ASSUME NEW d \in Edits, EditStep(d)
      PROVE  e = d
    BY <1>0, <1>1 DEF EditStep, EditBegin, EditLooked, EditListed, EditForked, EditArrives,
                      EditAnswered, EditFails, asks
<1>2. ASSUME \/ \E x \in Callers : CallerStep(x)
             \/ \E c \in Chats : ChatStep(c)
             \/ \E x \in Executes : ExecuteBegin(x)
             \/ \E f \in Forces : ForceBegin(f)
             \/ \E x \in Titlers : TitleMade(x) \/ TitleEnds(x)
             \/ \E r \in Renames : RenameBegin(r) \/ RenameStores(r)
             \/ \E d \in Deletes : DeleteBegin(d)
             \/ \E k \in Clears : ClearBegin(k)
             \/ \E k \in Removals : RemoveCalls(k) \/ RemoveLands(k) \/ RemoveAnswered(k) \/ RemoveFails(k)
             \/ \E x \in Ids : OpenCodeLoses(x)
      PROVE  UNCHANGED edit
    BY <1>2 DEF CallerStep, SessionFound, SessionLost, SessionMade, ChatFails, ExecuteBegin, ChatStep,
                ChatBegin, Arrives, ChatAnswered, ChatCloses, TitleBegins, ForceBegin, TitleMade,
                TitleEnds, RenameBegin, RenameStores, DeleteBegin, ClearBegin, RemoveCalls,
                RemoveLands, RemoveAnswered, RemoveFails, OpenCodeLoses, asks
<1> QED
    BY <1>1, <1>2 DEF Next, vars, asks

\* An edit reaches its fork by a listing, and takes its OpenCode session from the record.
LEMMA EditMoves ==
    ASSUME TypeOK, NEW e \in Edits, EditStep(e), edit'[e] # edit[e]
    PROVE  /\ edit'[e].pc = "fork" => EditListed(e)
           /\ edit'[e].at \in {edit[e].at, rec[PortalOf[e]].at, None}
<1>0. edit \in [Edits -> Edit] /\ edit[e] \in Edit
    BY DEF TypeOK
<1>1. ASSUME NEW pc \in {"send", "done"}, edit' = [edit EXCEPT ![e] = NoEdit(pc)]
      PROVE  edit'[e].pc # "fork" /\ edit'[e].at = None
    BY <1>0, <1>1 DEF NoEdit
<1>2. CASE EditBegin(e)
    BY <1>0, <1>1, <1>2 DEF EditBegin
<1>3. CASE EditLooked(e)
    BY <1>0, <1>1, <1>3 DEF EditLooked, Edit
<1>4. CASE EditListed(e)
    BY <1>0, <1>4 DEF EditListed, Edit
<1>5. CASE EditForked(e)
  <2>1. \E pc \in {"send", "done"} : edit' = [edit EXCEPT ![e] = NoEdit(pc)]
      BY <1>5 DEF EditForked
  <2> QED
      BY <1>1, <2>1
<1>6. CASE EditAnswered(e) \/ EditFails(e)
    BY <1>1, <1>6 DEF EditAnswered, EditFails
<1>7. CASE EditArrives(e)
    BY <1>7 DEF EditArrives, asks
<1> QED
    BY <1>2, <1>3, <1>4, <1>5, <1>6, <1>7 DEF EditStep

LEMMA EditInvStep ==
    ASSUME TypeOK, EditInv, [Next]_vars
    PROVE  EditInv'
<1> USE Owners
<1>0. /\ oc \in [Ids -> {"none", "live", "lost"}] /\ rec \in [Portals -> Record]
      /\ edit \in [Edits -> Edit] /\ talk \in [Ids -> Seq(Turns)]
    BY DEF TypeOK
<1>n. None \notin Ids
    BY SessionsAssumption
<1>1. ASSUME NEW p \in Portals, rec'[p].at # None
      PROVE  oc'[rec'[p].at] # "none"
  <2>1. CASE rec'[p].at = rec[p].at
    <3>1. rec[p].at \in Ids /\ oc[rec[p].at] # "none"
        BY <1>0, <1>1, <2>1 DEF EditInv, Record
    <3> QED
        BY <2>1, <3>1, OpenCodeSteps
  <2>2. CASE Moved(p)
    <3>1. PICK x \in Callers : SessionMade(x) /\ rec'[p] = [turn[x].snap EXCEPT !.at = x]
        BY <2>2 DEF Moved
    <3>2. rec'[p].at = x
        BY <3>1 DEF TypeOK, Turn, Record
    <3> QED
        BY <1>0, <3>1, <3>2 DEF SessionMade
  <2>3. CASE Edited(p)
    <3>1. PICK e \in Edits, q \in Seq(Turns) : EditForked(e) /\ rec'[p] = Replaced(p, e, q)
        BY <2>3 DEF Edited
    <3>2. rec'[p].at = e
        BY <1>0, <3>1 DEF Replaced, Record
    <3> QED
        BY <1>0, <3>1, <3>2 DEF EditForked
  <2>4. CASE Kept(p) \/ Updated(p) \/ Titled(p) \/ Renamed(p) \/ Dropped(p)
    <3>1. rec'[p].at = rec[p].at
        BY <1>0, <2>4 DEF Kept, Updated, Titled, Renamed, Dropped, Record
    <3> QED
        BY <2>1, <3>1
  <2> QED
      BY <2>2, <2>3, <2>4, RecordChanges DEF Changed
<1>2. ASSUME NEW e \in Edits, edit'[e].at # None
      PROVE  oc'[edit'[e].at] # "none"
  <2>1. CASE edit'[e].at = edit[e].at
    <3>1. edit[e].at \in Ids /\ oc[edit[e].at] # "none"
        BY <1>0, <1>2, <2>1 DEF EditInv, Edit
    <3> QED
        BY <2>1, <3>1, OpenCodeSteps
  <2>2. CASE edit'[e].at # edit[e].at
    <3> DEFINE p == PortalOf[e]
    <3>1. EditStep(e)
        BY <2>2, EditSteps
    <3>2. edit'[e].at = rec[p].at
        BY <1>2, <2>2, <3>1, EditMoves
    <3>3. rec[p].at \in Ids /\ oc[rec[p].at] # "none"
        BY <1>0, <1>2, <3>2 DEF EditInv, Record
    <3> QED
        BY <3>2, <3>3, OpenCodeSteps
  <2> QED
      BY <2>1, <2>2
<1>3. ASSUME NEW e \in Edits, edit'[e].pc \in {"idle", "look", "list", "fork"}
      PROVE  oc'[e] = "none" /\ ~EditForked(e)
  <2>1. CASE edit'[e] = edit[e]
    <3>1. oc[e] = "none" /\ ~EditForked(e)
        BY <1>0, <1>3, <2>1 DEF EditInv, EditForked, NoEdit
    <3> QED
        BY <3>1, OpenCodeSteps, SessionsAssumption
  <2>2. CASE edit'[e] # edit[e]
    <3>1. EditStep(e)
        BY <2>2, EditSteps
    <3>2. ~EditForked(e) /\ oc[e] = "none" /\ oc' = oc
        BY SMTT(30), <1>0, <1>3, <3>1 DEF EditInv, EditStep, EditBegin, EditLooked, EditListed, EditForked,
                                EditArrives, EditAnswered, EditFails, NoEdit, asks
    <3> QED
        BY <3>2
  <2> QED
      BY <2>1, <2>2
<1>4. ASSUME NEW e \in Edits, edit[e].pc = "fork"
      PROVE  edit[e].at \in Ids /\ Once(edit[e].keep)
  <2>1. edit[e].at \in Ids
      BY <1>0, <1>4 DEF TypeOK, Edit
  <2>2. talk[edit[e].at] \in Seq(Turns) /\ Once(talk[edit[e].at])
      BY <1>0, <2>1 DEF EditInv
  <2>3. /\ \E i \in 1..Len(talk[edit[e].at]) : talk[edit[e].at][i] = edit[e].target
        /\ edit[e].keep = Before(talk[edit[e].at], edit[e].target)
      BY <1>4 DEF EditInv, Holds
  <2>4. Once(Before(talk[edit[e].at], edit[e].target))
      BY <2>2, <2>3, BeforeOnce
  <2> QED
      BY <2>1, <2>3, <2>4
<1>5. ASSUME NEW s \in Ids
      PROVE  Once(talk'[s])
  <2>1. CASE talk'[s] = talk[s]
      BY <2>1 DEF EditInv
  <2>2. CASE \E c \in Turns : ~Holds(s, c) /\ talk'[s] = Append(talk[s], c)
      BY <1>0, <2>2, BeforeGrows DEF EditInv, Holds
  <2>3. CASE s \in Edits /\ EditForked(s) /\ talk'[s] = edit[s].keep
      BY <1>4, <2>3 DEF EditForked
  <2> QED
      BY <2>1, <2>2, <2>3, TalkSteps
<1>6. ASSUME NEW e \in Edits, edit'[e].pc = "fork"
      PROVE  /\ (Holds(edit[e].at, edit[e].target))'
             /\ edit'[e].keep = Before(talk'[edit'[e].at], edit'[e].target)
  <2> DEFINE s == edit[e].at
             t == edit[e].target
  <2>1. CASE edit'[e] = edit[e]
    <3>1. s \in Ids /\ Holds(s, t) /\ edit[e].keep = Before(talk[s], t) /\ oc[s] # "none"
        BY <1>4, <1>6, <1>n, <2>1 DEF EditInv
    <3>2. CASE talk'[s] = talk[s]
        BY <2>1, <3>1, <3>2 DEF Holds
    <3>3. CASE \E c \in Turns : ~Holds(s, c) /\ talk'[s] = Append(talk[s], c)
      <4>1. PICK c \in Turns : ~Holds(s, c) /\ talk'[s] = Append(talk[s], c)
          BY <3>3
      <4>2. PICK i \in 1..Len(talk[s]) : talk[s][i] = t
          BY <3>1 DEF Holds
      <4>3. talk[s] \in Seq(Turns) /\ Once(talk[s])
          BY <1>0, <3>1 DEF EditInv
      <4>4. /\ i \in 1..Len(talk'[s]) /\ talk'[s][i] = t
            /\ Before(talk'[s], t) = Before(talk[s], t)
          BY SMTT(30), <4>1, <4>2, <4>3, BeforeGrows DEF Holds
      <4> QED
          BY <2>1, <3>1, <4>4 DEF Holds
    <3>4. ~(s \in Edits /\ EditForked(s))
        BY <3>1 DEF EditInv, EditForked
    <3> QED
        BY <3>1, <3>2, <3>3, <3>4, TalkSteps
  <2>2. CASE edit'[e] # edit[e]
    <3>1. EditStep(e)
        BY <2>2, EditSteps
    <3>2. EditListed(e)
        BY <1>6, <2>2, <3>1, EditMoves
    <3>3. /\ edit'[e].at = s /\ edit'[e].target = t /\ edit'[e].keep = Before(talk[s], t)
          /\ talk' = talk
        BY <1>0, <3>2 DEF EditListed, Edit
    <3> QED
        BY <3>2, <3>3 DEF EditListed, Holds
  <2> QED
      BY <2>1, <2>2
<1> QED
    BY <1>1, <1>2, <1>3, <1>5, <1>6 DEF EditInv

\* A fork that becomes the session's holds what came before the cut turn.
LEMMA EditKeepStep ==
    ASSUME TypeOK, EditInv, [Next]_vars, NEW e \in Edits, edit[e].pc = "fork", rec'[PortalOf[e]].at = e
    PROVE  talk'[e] = Before(talk[edit[e].at], edit[e].target)
<1> USE Owners
<1> DEFINE p == PortalOf[e]
<1>0. rec[p] \in Record
    BY DEF TypeOK
<1>1. rec[p].at # e
    BY SessionsAssumption DEF EditInv
<1>2. ~Kept(p) /\ ~Updated(p) /\ ~Titled(p) /\ ~Renamed(p) /\ ~Dropped(p)
    BY <1>0, <1>1 DEF Kept, Updated, Titled, Renamed, Dropped, Record
<1>3. ~Moved(p)
  <2>1. ASSUME NEW x \in Callers, rec'[p] = [turn[x].snap EXCEPT !.at = x]
        PROVE  rec'[p].at = x
      BY <2>1 DEF TypeOK, Turn, Record
  <2>2. \A x \in Callers : x # e
      BY SessionsAssumption
  <2> QED
      BY <2>1, <2>2 DEF Moved
<1>4. PICK d \in Edits, q \in Seq(Turns) : EditForked(d) /\ rec'[p] = Replaced(p, d, q)
    BY <1>2, <1>3, RecordChanges DEF Changed, Edited
<1>5. d = e
    BY <1>0, <1>4 DEF Replaced, Record
<1>6. talk'[e] = edit[e].keep
    BY <1>4, <1>5, ForkTyped DEF EditForked, TypeOK
<1> QED
    BY <1>6 DEF EditInv

LEMMA EditInvariant == Spec => []EditInv
<1>1. Init => EditInv
    BY Owners DEF Init, EditInv, NoRecord, NoEdit, Once
<1> QED
    BY <1>1, EditInvStep, TypeCorrect, PTL DEF Spec

\* An edit keeps all that was said before the turn it cuts, and nothing else, also
\* when the conversation grows between the listing and the fork.
THEOREM EditsKeepEarlier == Spec => EditKeepsEarlier
<1>1. TypeOK /\ EditInv /\ [Next]_vars =>
        [\A e \in Edits : edit[e].pc = "fork" /\ rec'[PortalOf[e]].at = e =>
           talk'[e] = Before(talk[edit[e].at], edit[e].target)]_vars
    BY EditKeepStep
<1> QED
    BY <1>1, EditInvariant, TypeCorrect, PTL DEF Spec, EditKeepsEarlier
=============================================================================
