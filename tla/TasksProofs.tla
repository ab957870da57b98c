---------------------------- MODULE TasksProofs ----------------------------
(* Proofs about Tasks, for every set of tasks, sessions and requests. *)
EXTENDS Tasks, TLAPS

(***************************************************************************)
(* What the updates of a record and of a collector keep.                   *)
(***************************************************************************)
\* Writing a status, with or without the payload that explains it.
LEMMA WriteStatus ==
    ASSUME NEW r \in [Tasks -> TaskRecord], NEW t \in Tasks,
           NEW s \in Active \cup Terminal, NEW o \in Outputs \cup Execs
    PROVE  /\ [r EXCEPT ![t].status = s] \in [Tasks -> TaskRecord]
           /\ [r EXCEPT ![t].status = s, ![t].out = o] \in [Tasks -> TaskRecord]
BY DEF TaskRecord

\* A collector that is parked without what it read.
LEMMA ParkedCollector ==
    ASSUME NEW pc \in {"none", "start", "listen", "list", "sleep", "done"}
    PROVE  Parked(pc) \in Collector
BY DEF Parked, Collector, Silence, NoExec

\* A collector that holds what it read of a record, or kept of its own.
LEMMA ReadingCollector ==
    ASSUME NEW pc \in {"listen", "list"}, NEW r \in TaskRecord \cup Collector
    PROVE  [pc |-> pc, sess |-> r.sess, mid |-> r.mid, pend |-> r.pend, heard |-> Silence]
              \in Collector
BY DEF TaskRecord, Collector, Silence

\* The store after the pending permissions were written.
LEMMA PendingWritten ==
    ASSUME TypeOK, NEW c \in Execs
    PROVE  StoreWithPending(c) \in [Tasks -> TaskRecord]
<1>1. Pending(c) \subseteq Execs /\ TaskOf[c] \in Tasks /\ rec \in [Tasks -> TaskRecord]
  BY TasksAssumption DEF Pending, TypeOK
<1>2. [rec EXCEPT ![TaskOf[c]].pend = Pending(c)] \in [Tasks -> TaskRecord]
  BY <1>1 DEF TaskRecord
<1>3. QED BY <1>1, <1>2 DEF StoreWithPending

LEMMA SettleTypes ==
    ASSUME TypeOK, NEW c \in Execs, NEW store \in [Tasks -> TaskRecord],
           NEW m \in AnswersTo(coll[c]), Settle(c, m, store)
    PROVE  rec' \in [Tasks -> TaskRecord] /\ coll' \in [Execs -> Collector]
<1>1. /\ TaskOf[c] \in Tasks /\ m \in Execs
      /\ reply[m] = "plain" \/ reply[m] \in Active \cup Terminal
  BY TasksAssumption DEF AnswersTo, TypeOK, Terminal
<1>2. "running" \in Active \cup Terminal
  BY DEF Active
<1>3. rec' \in [Tasks -> TaskRecord]
  <2>1. m \in Outputs \cup Execs /\ "none" \in Outputs
    BY <1>1 DEF Outputs
  <2>2. /\ [store EXCEPT ![TaskOf[c]].status = "running"] \in [Tasks -> TaskRecord]
        /\ reply[m] # "plain" =>
              [store EXCEPT ![TaskOf[c]].status = reply[m], ![TaskOf[c]].out = m] \in [Tasks -> TaskRecord]
    BY <1>1, <1>2, <2>1, WriteStatus
  <2>3. QED BY <2>2 DEF Settle
<1>4. coll' \in [Execs -> Collector]
  BY ParkedCollector DEF Settle, TypeOK
<1>5. QED BY <1>3, <1>4

(***************************************************************************)
(* Type correctness, one step per action.                                  *)
(***************************************************************************)
LEMMA InitTypeOK == Init => TypeOK
<1>1. NoRecord \in TaskRecord
  BY DEF NoRecord, TaskRecord, NoExec, Outputs
<1>2. QED BY <1>1, ParkedCollector, TasksAssumption DEF Init, TypeOK, NoExec

LEMMA AcceptTypes ==
    ASSUME TypeOK, NEW e \in Execs, NEW s \in NoExec, Accept(e, s)
    PROVE  /\ rec' \in [Tasks -> TaskRecord]
           /\ ex' \in [Execs -> [pc : {"idle", "get", "create", "list", "prompt", "done"}, sess : NoExec]]
           /\ replaced' \subseteq Tasks
<1>1. /\ [status |-> "accepted", sess |-> s, mid |-> None, pend |-> {}, out |-> "none"] \in TaskRecord
      /\ [status |-> "blocked", sess |-> s, mid |-> None, pend |-> {}, out |-> "skill"] \in TaskRecord
  BY DEF TaskRecord, NoExec, Outputs, Active, Terminal
<1>2. rec' \in [Tasks -> TaskRecord]
  BY <1>1, TasksAssumption DEF Accept, SaveAccepted, SkillBlocks, TypeOK
<1>3. ex' \in [Execs -> [pc : {"idle", "get", "create", "list", "prompt", "done"}, sess : NoExec]]
  BY DEF Accept, SaveAccepted, SkillBlocks, TypeOK, Ended, NoExec
<1>4. replaced' \subseteq Tasks
  BY TasksAssumption DEF Accept, TypeOK
<1>5. QED BY <1>2, <1>3, <1>4

LEMMA NextTypeOK == TypeOK /\ [Next]_vars => TypeOK'
<1> SUFFICES ASSUME TypeOK, [Next]_vars PROVE TypeOK'
  OBVIOUS
<1> USE DEF adapter, agent
<1>a. \A r \in Execs \cup Cancels : TaskOf[r] \in Tasks
  BY TasksAssumption
<1>b. {"running", "error", "blocked", "cancelled"} \subseteq Active \cup Terminal
  BY DEF Active, Terminal
<1>c. {"none", "dispatch", "collector", "permission", "cancelled", "restart"} \subseteq Outputs
  BY DEF Outputs
<1>1. ASSUME NEW e \in Execs, ExecBegin(e) PROVE TypeOK'
  BY <1>1, TasksAssumption DEF ExecBegin, Ended, TypeOK, NoExec
<1>2. ASSUME NEW e \in Execs, SessionFound(e) PROVE TypeOK'
  <2>1. ex[e].sess \in NoExec
    BY DEF TypeOK
  <2>2. QED BY <1>2, <2>1, AcceptTypes DEF SessionFound, TypeOK
<1>3. ASSUME NEW e \in Execs, SessionLost(e) PROVE TypeOK'
  BY <1>3 DEF SessionLost, TypeOK
<1>4. ASSUME NEW e \in Execs, SessionCreated(e) PROVE TypeOK'
  <2>1. e \in NoExec
    BY DEF NoExec
  <2>2. QED BY <1>4, <2>1, AcceptTypes, TasksAssumption DEF SessionCreated, TypeOK
<1>5. ASSUME NEW e \in Execs, MessagesCounted(e) PROVE TypeOK'
  <2>1. rec' \in [Tasks -> TaskRecord]
    <3>1. rec' = [rec EXCEPT ![TaskOf[e]].status = "running", ![TaskOf[e]].mid = e]
      BY <1>5 DEF MessagesCounted
    <3>2. rec \in [Tasks -> TaskRecord] /\ e \in NoExec
      BY DEF TypeOK, NoExec
    <3>3. QED BY <3>1, <3>2, <1>a, <1>b DEF TaskRecord
  <2>2. coll' \in [Execs -> Collector]
    BY <1>5, ParkedCollector DEF MessagesCounted, Schedule, TypeOK
  <2>3. rec[TaskOf[e]].sess \in NoExec
    BY <1>a DEF TypeOK, TaskRecord
  <2>4. QED BY <1>5, <2>1, <2>2, <2>3 DEF MessagesCounted, TypeOK
<1>6. ASSUME NEW e \in Execs, PromptAnswered(e) PROVE TypeOK'
  BY <1>6 DEF PromptAnswered, Ended, TypeOK, NoExec
<1>7. ASSUME NEW e \in Execs, DispatchFails(e) PROVE TypeOK'
  <2>1. rec' \in [Tasks -> TaskRecord]
    BY <1>7, <1>a, <1>b, <1>c, WriteStatus DEF DispatchFails, TypeOK
  <2>2. QED BY <1>7, <2>1 DEF DispatchFails, Ended, TypeOK, NoExec
<1>8. ASSUME NEW c \in Cancels, CancelBegin(c) PROVE TypeOK'
  BY <1>8 DEF CancelBegin, TypeOK
<1>9. ASSUME NEW c \in Cancels, CancelFinish(c) PROVE TypeOK'
  <2>1. rec' \in [Tasks -> TaskRecord]
    BY <1>9, <1>a, <1>b, <1>c, WriteStatus DEF CancelFinish, TypeOK
  <2>2. QED BY <1>9, <2>1 DEF CancelFinish, TypeOK
<1>10. ASSUME NEW c \in Execs, CollectorWakes(c) PROVE TypeOK'
  <2>1. rec[TaskOf[c]] \in TaskRecord
    BY <1>a DEF TypeOK
  <2>2. coll' \in [Execs -> Collector]
    BY <1>10, <2>1, ParkedCollector, ReadingCollector DEF CollectorWakes, TypeOK
  <2>3. QED BY <1>10, <2>2 DEF CollectorWakes, TypeOK
<1>11. ASSUME NEW c \in Execs, EventAnswer(c) PROVE TypeOK'
  <2>1. rec' \in [Tasks -> TaskRecord] /\ coll' \in [Execs -> Collector]
    BY <1>11, PendingWritten, SettleTypes DEF EventAnswer
  <2>2. QED BY <1>11, <2>1 DEF EventAnswer, TypeOK
<1>12. ASSUME NEW c \in Execs, EventWindowEnds(c) PROVE TypeOK'
  <2>1. rec' \in [Tasks -> TaskRecord]
    BY <1>12, PendingWritten DEF EventWindowEnds
  <2>2. coll[c] \in TaskRecord \cup Collector /\ StoreWithPending(c)[TaskOf[c]] \in TaskRecord \cup Collector
    BY <1>a, PendingWritten DEF TypeOK
  <2>3. coll' \in [Execs -> Collector]
    BY <1>12, <2>2, ReadingCollector DEF EventWindowEnds, TypeOK
  <2>4. QED BY <1>12, <2>1, <2>3 DEF EventWindowEnds, TypeOK
<1>13. ASSUME NEW c \in Execs, MessagesListed(c) PROVE TypeOK'
  <2>1. rec' \in [Tasks -> TaskRecord] /\ coll' \in [Execs -> Collector]
    <3>1. CASE AnswersTo(coll[c]) = {}
      BY <1>13, <3>1, ParkedCollector DEF MessagesListed, TypeOK
    <3>2. CASE AnswersTo(coll[c]) # {}
      BY <1>13, <3>2, SettleTypes DEF MessagesListed, TypeOK
    <3>3. QED BY <3>1, <3>2
  <2>2. QED BY <1>13, <2>1 DEF MessagesListed, TypeOK
<1>14. ASSUME NEW c \in Execs, ListingFails(c) PROVE TypeOK'
  <2>1. rec' \in [Tasks -> TaskRecord]
    BY <1>14, <1>a, <1>b, <1>c, WriteStatus DEF ListingFails, TypeOK
  <2>2. QED BY <1>14, <2>1, ParkedCollector DEF ListingFails, TypeOK
<1>15. ASSUME NEW c \in Execs, WindowElapses(c) PROVE TypeOK'
  <2>1. rec' \in [Tasks -> TaskRecord]
    <3> DEFINE t == TaskOf[c]
               o == IF rec[t].out \in Execs THEN rec[t].out ELSE "none"
    <3>1. t \in Tasks /\ o \in Outputs \cup Execs /\ "permission" \in Outputs \cup Execs
      BY <1>a, <1>c DEF TypeOK
    <3>2. /\ [rec EXCEPT ![t].status = "blocked", ![t].out = "permission"] \in [Tasks -> TaskRecord]
          /\ [rec EXCEPT ![t].status = "running", ![t].out = o] \in [Tasks -> TaskRecord]
      BY <1>b, <3>1, WriteStatus DEF TypeOK
    <3>3. rec' \in {rec, [rec EXCEPT ![t].status = "blocked", ![t].out = "permission"],
                    [rec EXCEPT ![t].status = "running", ![t].out = o]}
      BY <1>15, <3>1 DEF WindowElapses, TypeOK, TaskRecord
    <3>4. QED BY <3>2, <3>3 DEF TypeOK
  <2>2. coll' \in [Execs -> Collector]
    BY <1>15, ParkedCollector DEF WindowElapses, TypeOK
  <2>3. QED BY <1>15, <2>1, <2>2 DEF WindowElapses, TypeOK
<1>16. CASE Crash
  <2>1. ex' \in [Execs -> [pc : {"idle", "get", "create", "list", "prompt", "done"}, sess : NoExec]]
    BY <1>16 DEF Crash, Ended, TypeOK, NoExec
  <2>2. coll' \in [Execs -> Collector]
    BY <1>16, ParkedCollector DEF Crash, TypeOK
  <2>3. crashes' \in 0..MaxCrashes
    BY <1>16, TasksAssumption DEF Crash, TypeOK
  <2>4. QED BY <1>16, <2>1, <2>2, <2>3 DEF Crash, TypeOK
<1>17. CASE Recovery
  <2>1. CASE Boot
    BY <2>1 DEF Boot, TypeOK
  <2>2. ASSUME NEW t \in Tasks, RecoverTask(t) PROVE TypeOK'
    <3>1. rec' \in [Tasks -> TaskRecord]
      BY <2>2, <1>b, <1>c, WriteStatus DEF RecoverTask, TypeOK
    <3>2. QED BY <2>2, <3>1 DEF RecoverTask, TypeOK
  <2>3. CASE Serve
    BY <2>3 DEF Serve, TypeOK
  <2>4. QED BY <1>17, <2>1, <2>2, <2>3 DEF Recovery
<1>18. ASSUME NEW m \in Execs, AgentStep(m) PROVE TypeOK'
  <2>1. ASSUME NEW state \in {"open", "resolved"}, PermissionEvent(m, state)
        PROVE  /\ perm' \in [Execs -> {"none", "open", "resolved"}]
               /\ coll' \in [Execs -> Collector]
    <3>1. perm' \in [Execs -> {"none", "open", "resolved"}]
      BY <2>1 DEF PermissionEvent, TypeOK
    <3>2. \A c \in Execs : [coll[c] EXCEPT !.heard[m] = state] \in Collector
      <4> SUFFICES ASSUME NEW c \in Execs PROVE [coll[c] EXCEPT !.heard[m] = state] \in Collector
        OBVIOUS
      <4>1. coll[c] \in Collector
        BY DEF TypeOK
      <4>2. [coll[c].heard EXCEPT ![m] = state] \in [Execs -> {"none", "open", "resolved"}]
        BY <4>1 DEF Collector
      <4>3. [coll[c] EXCEPT !.heard = [coll[c].heard EXCEPT ![m] = state]] \in Collector
        BY <4>1, <4>2 DEF Collector
      <4>4. QED BY <4>3
    <3>3. \A c \in Execs : coll[c] \in Collector
      BY DEF TypeOK
    <3>4. coll' \in [Execs -> Collector]
      BY <2>1, <3>2, <3>3 DEF PermissionEvent
    <3>5. QED BY <3>1, <3>4
  <2>2. CASE PromptArrives(m)
    BY <2>2 DEF PromptArrives, TypeOK
  <2>3. CASE AgentReplies(m)
    BY <2>3 DEF AgentReplies, TypeOK
  <2>4. CASE PermissionAsked(m)
    BY <2>1, <2>4 DEF PermissionAsked, TypeOK
  <2>5. CASE PermissionResolved(m)
    BY <2>1, <2>5 DEF PermissionResolved, TypeOK
  <2>6. QED BY <1>18, <2>2, <2>3, <2>4, <2>5 DEF AgentStep
<1>19. CASE UNCHANGED vars
  BY <1>19 DEF vars, TypeOK
<1>20. QED
  BY <1>1, <1>2, <1>3, <1>4, <1>5, <1>6, <1>7, <1>8, <1>9, <1>10, <1>11, <1>12, <1>13, <1>14,
     <1>15, <1>16, <1>17, <1>18, <1>19 DEF Next, ExecStep, CollectorStep

\* Every variable keeps its type in every reachable state.
THEOREM TypeCorrect == Spec => []TypeOK
BY InitTypeOK, NextTypeOK, PTL DEF Spec
-----------------------------------------------------------------------------
(***************************************************************************)
(* A step of a request or of its collector touches its own task only, and  *)
(* a step of OpenCode touches none.                                        *)
(***************************************************************************)
Untouched(t) ==
    /\ rec'[t] = rec[t]
    /\ \A e \in Execs : TaskOf[e] = t => ex'[e] = ex[e] /\ coll'[e].pc = coll[e].pc
    /\ \A c \in Cancels : TaskOf[c] = t => cn'[c] = cn[c]

LEMMA ExecIsLocal ==
    ASSUME TypeOK, NEW e \in Execs, ExecBegin(e) \/ ExecStep(e),
           NEW t \in Tasks, t # TaskOf[e]
    PROVE  Untouched(t)
<1> USE TasksAssumption DEF TypeOK, Untouched
<1>1. CASE ExecBegin(e)
  BY <1>1 DEF ExecBegin
<1>2. ASSUME NEW s \in NoExec, Accept(e, s), coll' = coll, cn' = cn PROVE Untouched(t)
  BY <1>2 DEF Accept, SaveAccepted, SkillBlocks
<1>3. CASE SessionFound(e)
  BY <1>2, <1>3 DEF SessionFound
<1>4. CASE SessionLost(e)
  BY <1>4 DEF SessionLost
<1>5. CASE SessionCreated(e)
  BY <1>2, <1>5 DEF SessionCreated, NoExec
<1>6. CASE MessagesCounted(e)
  BY <1>6 DEF MessagesCounted, Schedule
<1>7. CASE PromptAnswered(e)
  BY <1>7 DEF PromptAnswered
<1>8. CASE DispatchFails(e)
  BY <1>8 DEF DispatchFails
<1>9. QED BY <1>1, <1>3, <1>4, <1>5, <1>6, <1>7, <1>8 DEF ExecStep

LEMMA CancelIsLocal ==
    ASSUME TypeOK, NEW c \in Cancels, CancelBegin(c) \/ CancelFinish(c),
           NEW t \in Tasks, t # TaskOf[c]
    PROVE  Untouched(t)
BY TasksAssumption DEF TypeOK, Untouched, CancelBegin, CancelFinish

LEMMA CollectorIsLocal ==
    ASSUME TypeOK, NEW c \in Execs, CollectorStep(c), NEW t \in Tasks, t # TaskOf[c]
    PROVE  Untouched(t)
<1> USE TasksAssumption DEF TypeOK
<1>1. ex' = ex /\ cn' = cn
  BY DEF CollectorStep, CollectorWakes, EventAnswer, EventWindowEnds, MessagesListed, ListingFails,
         WindowElapses
<1>2. StoreWithPending(c)[t] = rec[t] /\ StoreWithPending(c) \in [Tasks -> TaskRecord]
  BY PendingWritten DEF StoreWithPending
<1>3. ASSUME NEW m \in Execs, NEW store \in [Tasks -> TaskRecord], Settle(c, m, store), store[t] = rec[t]
      PROVE  rec'[t] = rec[t] /\ \A e \in Execs : e # c => coll'[e] = coll[e]
  BY <1>3 DEF Settle
<1>4. rec'[t] = rec[t] /\ \A e \in Execs : e # c => coll'[e] = coll[e]
  <2>1. CASE CollectorWakes(c)
    BY <2>1 DEF CollectorWakes
  <2>2. CASE EventAnswer(c)
    BY <1>2, <1>3, <2>2 DEF EventAnswer, AnswersTo
  <2>3. CASE EventWindowEnds(c)
    BY <1>2, <2>3 DEF EventWindowEnds
  <2>4. CASE MessagesListed(c)
    BY <1>3, <2>4 DEF MessagesListed, AnswersTo
  <2>5. CASE ListingFails(c)
    BY <2>5 DEF ListingFails
  <2>6. CASE WindowElapses(c)
    BY <2>6 DEF WindowElapses
  <2>7. QED BY <2>1, <2>2, <2>3, <2>4, <2>5, <2>6 DEF CollectorStep
<1>5. QED BY <1>1, <1>4 DEF Untouched

LEMMA AgentTouchesNothing ==
    ASSUME TypeOK, NEW m \in Execs, AgentStep(m), NEW t \in Tasks
    PROVE  Untouched(t) /\ UNCHANGED <<phase, todo>>
<1>1. ASSUME NEW state, PermissionEvent(m, state)
      PROVE  \A e \in Execs : coll'[e].pc = coll[e].pc
  BY <1>1 DEF PermissionEvent, TypeOK, Collector
<1>2. QED
  BY <1>1 DEF AgentStep, PromptArrives, AgentReplies, PermissionAsked, PermissionResolved,
              Untouched, adapter

\* Reading an answer either keeps the collector polling a running task or ends both.
LEMMA SettleEnds ==
    ASSUME TypeOK, NEW c \in Execs, NEW store \in [Tasks -> TaskRecord],
           NEW m \in AnswersTo(coll[c]), Settle(c, m, store)
    PROVE  \/ rec'[TaskOf[c]].status = "running" /\ coll'[c].pc = "sleep"
           \/ rec'[TaskOf[c]].status \in Terminal /\ coll'[c].pc = "done"
BY TasksAssumption DEF Settle, AnswersTo, TypeOK, TaskRecord, Parked, Terminal
-----------------------------------------------------------------------------
(***************************************************************************)
(* No orphaned task.  ActiveIsDriven needs RecoveryIsExact: serving starts *)
(* when nothing is left to mark, so no active task survives a restart.     *)
(***************************************************************************)
Driven(t) == \E e \in Execs : TaskOf[e] = t /\ (Live(e) \/ ex[e].pc = "list")

Inv == TypeOK /\ ActiveIsDriven /\ RecoveryIsExact

LEMMA UntouchedDriven ==
    ASSUME ActiveIsDriven, phase = "up", NEW t \in Tasks, Untouched(t), rec'[t].status \in Active
    PROVE  Driven(t)'
BY DEF ActiveIsDriven, Driven, Untouched, Live

LEMMA ExecDriven ==
    ASSUME TypeOK, ActiveIsDriven, phase = "up", NEW e \in Execs, ExecBegin(e) \/ ExecStep(e),
           rec'[TaskOf[e]].status \in Active
    PROVE  Driven(TaskOf[e])'
<1> USE TasksAssumption DEF TypeOK
<1>1. ASSUME UNCHANGED <<rec, coll>>, ex[e].pc # "list", \A x \in Execs \ {e} : ex'[x] = ex[x]
      PROVE  Driven(TaskOf[e])'
  BY <1>1 DEF ActiveIsDriven, Driven, Live
<1>2. ASSUME NEW s \in NoExec, Accept(e, s) PROVE Driven(TaskOf[e])'
  BY <1>2 DEF Accept, SaveAccepted, SkillBlocks, Driven, Active
<1>3. CASE ExecBegin(e)
  BY <1>1, <1>3 DEF ExecBegin
<1>4. CASE SessionFound(e)
  BY <1>2, <1>4 DEF SessionFound
<1>5. CASE SessionLost(e)
  BY <1>1, <1>5 DEF SessionLost
<1>6. CASE SessionCreated(e)
  BY <1>2, <1>6 DEF SessionCreated, NoExec
<1>7. CASE MessagesCounted(e)
  BY <1>7 DEF MessagesCounted, Schedule, Driven, Live, Parked
<1>8. CASE PromptAnswered(e)
  BY <1>1, <1>8 DEF PromptAnswered
<1>9. CASE DispatchFails(e)
  BY <1>9 DEF DispatchFails, TaskRecord, Active
<1>10. QED BY <1>3, <1>4, <1>5, <1>6, <1>7, <1>8, <1>9 DEF ExecStep

LEMMA CancelDriven ==
    ASSUME TypeOK, ActiveIsDriven, phase = "up", NEW c \in Cancels, CancelBegin(c) \/ CancelFinish(c),
           rec'[TaskOf[c]].status \in Active
    PROVE  Driven(TaskOf[c])'
<1> USE TasksAssumption DEF TypeOK
<1>1. CASE CancelBegin(c)
  BY <1>1 DEF CancelBegin, ActiveIsDriven, Driven, Live
<1>2. CASE CancelFinish(c)
  BY <1>2 DEF CancelFinish, TaskRecord, Active
<1>3. QED BY <1>1, <1>2

LEMMA CollectorDriven ==
    ASSUME TypeOK, NEW c \in Execs, CollectorStep(c), rec'[TaskOf[c]].status \in Active
    PROVE  Driven(TaskOf[c])'
<1> USE TasksAssumption DEF TypeOK
<1>1. ASSUME coll'[c].pc \notin {"none", "done"} PROVE Driven(TaskOf[c])'
  BY <1>1 DEF Driven, Live
<1>2. ASSUME NEW m \in AnswersTo(coll[c]), NEW store \in [Tasks -> TaskRecord], Settle(c, m, store)
      PROVE  coll'[c].pc \notin {"none", "done"}
  BY <1>2, SettleEnds DEF Active, Terminal
<1>3. CASE CollectorWakes(c)
  BY <1>1, <1>3 DEF CollectorWakes
<1>4. CASE EventAnswer(c)
  BY <1>1, <1>2, <1>4, PendingWritten DEF EventAnswer
<1>5. CASE EventWindowEnds(c)
  BY <1>1, <1>5 DEF EventWindowEnds
<1>6. CASE MessagesListed(c)
  <2>1. CASE AnswersTo(coll[c]) = {}
    BY <1>1, <1>6, <2>1 DEF MessagesListed, Parked
  <2>2. CASE AnswersTo(coll[c]) # {}
    BY <1>1, <1>2, <1>6, <2>2 DEF MessagesListed
  <2>3. QED BY <2>1, <2>2
<1>7. CASE ListingFails(c)
  BY <1>7 DEF ListingFails, TaskRecord, Active
<1>8. CASE WindowElapses(c)
  BY <1>1, <1>8 DEF WindowElapses, Parked, TaskRecord, Active
<1>9. QED BY <1>3, <1>4, <1>5, <1>6, <1>7, <1>8 DEF CollectorStep

LEMMA NextDriven == Inv /\ [Next]_vars => ActiveIsDriven'
<1> SUFFICES ASSUME Inv, [Next]_vars, phase' = "up", NEW t \in Tasks, rec'[t].status \in Active
             PROVE  Driven(t)'
  BY DEF ActiveIsDriven, Driven
<1> USE DEF Inv
<1>1. ASSUME NEW e \in Execs, ExecBegin(e) \/ ExecStep(e) PROVE Driven(t)'
  <2>1. phase = "up"
    BY <1>1 DEF ExecBegin, ExecStep, SessionFound, SessionLost, SessionCreated, MessagesCounted,
                PromptAnswered, DispatchFails
  <2>2. QED BY <1>1, <2>1, ExecIsLocal, UntouchedDriven, ExecDriven
<1>2. ASSUME NEW c \in Cancels, CancelBegin(c) \/ CancelFinish(c) PROVE Driven(t)'
  <2>1. phase = "up"
    BY <1>2 DEF CancelBegin, CancelFinish
  <2>2. QED BY <1>2, <2>1, CancelIsLocal, UntouchedDriven, CancelDriven
<1>3. ASSUME NEW c \in Execs, CollectorStep(c) PROVE Driven(t)'
  <2>1. phase = "up"
    BY <1>3 DEF CollectorStep, CollectorWakes, EventAnswer, EventWindowEnds, MessagesListed,
                ListingFails, WindowElapses
  <2>2. QED BY <1>3, <2>1, CollectorIsLocal, UntouchedDriven, CollectorDriven
<1>4. ASSUME NEW m \in Execs, AgentStep(m) PROVE Driven(t)'
  BY <1>4, AgentTouchesNothing, UntouchedDriven
<1>5. CASE Crash
  BY <1>5 DEF Crash
<1>6. CASE Recovery
  BY <1>6 DEF Recovery, Boot, RecoverTask, Serve, RecoveryIsExact
<1>7. CASE UNCHANGED vars
  BY <1>7 DEF vars, ActiveIsDriven, Driven, Live
<1>8. QED BY <1>1, <1>2, <1>3, <1>4, <1>5, <1>6, <1>7 DEF Next

LEMMA NextRecoveryIsExact == Inv /\ [Next]_vars => RecoveryIsExact'
<1> SUFFICES ASSUME Inv, [Next]_vars, phase' = "boot"
             PROVE  todo' = {t \in Tasks : rec'[t].status \in Active}
  BY DEF RecoveryIsExact
<1> USE DEF Inv
<1>1. ASSUME NEW e \in Execs, ExecBegin(e) \/ ExecStep(e) \/ CollectorStep(e) PROVE FALSE
  BY <1>1 DEF ExecBegin, ExecStep, SessionFound, SessionLost, SessionCreated, MessagesCounted,
              PromptAnswered, DispatchFails, CollectorStep, CollectorWakes, EventAnswer,
              EventWindowEnds, MessagesListed, ListingFails, WindowElapses, adapter
<1>2. ASSUME NEW c \in Cancels, CancelBegin(c) \/ CancelFinish(c) PROVE FALSE
  BY <1>2 DEF CancelBegin, CancelFinish, adapter
<1>3. ASSUME NEW m \in Execs, AgentStep(m)
      PROVE  todo' = {t \in Tasks : rec'[t].status \in Active}
  BY <1>3, AgentTouchesNothing DEF AgentStep, PromptArrives, AgentReplies, PermissionAsked,
     PermissionResolved, RecoveryIsExact, adapter
<1>4. CASE Crash
  BY <1>4 DEF Crash
<1>5. CASE Recovery
  <2>1. CASE Boot
    BY <2>1 DEF Boot
  <2>2. ASSUME NEW t \in Tasks, RecoverTask(t)
        PROVE  todo' = {u \in Tasks : rec'[u].status \in Active}
    BY <2>2 DEF RecoverTask, RecoveryIsExact, TypeOK, TaskRecord, Active
  <2>3. CASE Serve
    BY <2>3 DEF Serve
  <2>4. QED BY <1>5, <2>1, <2>2, <2>3 DEF Recovery
<1>6. CASE UNCHANGED vars
  BY <1>6 DEF vars, RecoveryIsExact
<1>7. QED BY <1>1, <1>2, <1>3, <1>4, <1>5, <1>6 DEF Next

LEMMA InvHolds == Spec => []Inv
<1>1. Init => Inv
  BY InitTypeOK DEF Init, Inv, ActiveIsDriven, RecoveryIsExact, NoRecord, Active
<1>2. Inv /\ [Next]_vars => Inv'
  BY NextTypeOK, NextDriven, NextRecoveryIsExact DEF Inv
<1>3. QED BY <1>1, <1>2, PTL DEF Spec

\* While the adapter serves, every unfinished task has someone who will move it.
THEOREM NoOrphanedTask == Spec => []ActiveIsDriven
BY InvHolds, PTL DEF Inv

\* Recovery marks what was left active, no more and no less.
THEOREM RecoveryCorrect == Spec => []RecoveryIsExact
BY InvHolds, PTL DEF Inv
-----------------------------------------------------------------------------
(***************************************************************************)
(* One collector per task: only Schedule brings one to life.               *)
(***************************************************************************)
LEMMA OnlyScheduleStarts ==
    ASSUME TypeOK, [Next]_vars, ~ \E e \in Execs : MessagesCounted(e), NEW x \in Execs, Live(x)'
    PROVE  Live(x)
<1> USE DEF TypeOK, Live
<1>1. ASSUME NEW e \in Execs, ExecBegin(e) \/ ExecStep(e) PROVE Live(x)
  BY <1>1 DEF ExecBegin, ExecStep, SessionFound, SessionLost, SessionCreated, PromptAnswered, DispatchFails
<1>2. ASSUME NEW c \in Cancels, CancelBegin(c) \/ CancelFinish(c) PROVE Live(x)
  BY <1>2 DEF CancelBegin, CancelFinish
<1>3. ASSUME NEW c \in Execs, CollectorStep(c) PROVE Live(x)
  <2>1. Live(c)
    BY <1>3 DEF CollectorStep, CollectorWakes, EventAnswer, EventWindowEnds, MessagesListed,
                ListingFails, WindowElapses
  <2>2. ASSUME x # c PROVE coll'[x] = coll[x]
    BY <1>3, <2>2 DEF CollectorStep, CollectorWakes, EventAnswer, EventWindowEnds, MessagesListed,
                      ListingFails, WindowElapses, Settle
  <2>3. QED BY <2>1, <2>2
<1>4. ASSUME NEW m \in Execs, AgentStep(m) PROVE Live(x)
  <2>1. ASSUME NEW state, PermissionEvent(m, state) PROVE coll'[x].pc = coll[x].pc
    BY <2>1 DEF PermissionEvent, Collector
  <2>2. QED
    BY <1>4, <2>1 DEF AgentStep, PromptArrives, AgentReplies, PermissionAsked, PermissionResolved
<1>5. CASE Crash
  BY <1>5 DEF Crash, Parked
<1>6. CASE Recovery
  BY <1>6 DEF Recovery, Boot, RecoverTask, Serve
<1>7. CASE UNCHANGED vars
  BY <1>7 DEF vars
<1>8. QED BY <1>1, <1>2, <1>3, <1>4, <1>5, <1>6, <1>7 DEF Next

\* No two collectors of one task ever run, however requests interleave.
THEOREM OneCollectorPerTask == Spec => []SingleCollector
<1>1. Init => SingleCollector
  BY DEF Init, SingleCollector, Live, Parked
<1>2. TypeOK /\ SingleCollector /\ [Next]_vars => SingleCollector'
  <2> SUFFICES ASSUME TypeOK, SingleCollector, [Next]_vars,
                      NEW c \in Execs, NEW d \in Execs, Live(c)', Live(d)', TaskOf[c] = TaskOf[d]
               PROVE  c = d
    BY DEF SingleCollector
  <2>1. CASE \E e \in Execs : MessagesCounted(e)
    <3>1. PICK e \in Execs : Schedule(e)
      BY <2>1 DEF MessagesCounted
    <3>2. CASE \E x \in Execs : Live(x) /\ TaskOf[x] = TaskOf[e]
      BY <3>1, <3>2 DEF Schedule, SingleCollector, Live
    <3>3. CASE ~ \E x \in Execs : Live(x) /\ TaskOf[x] = TaskOf[e]
      <4>1. \A x \in Execs : x # e => coll'[x] = coll[x]
        BY <3>1, <3>3 DEF Schedule, TypeOK
      <4>2. QED BY <3>3, <4>1 DEF SingleCollector, Live
    <3>4. QED BY <3>2, <3>3
  <2>2. CASE ~ \E e \in Execs : MessagesCounted(e)
    BY <2>2, OnlyScheduleStarts DEF SingleCollector
  <2>3. QED BY <2>1, <2>2
<1>3. QED BY <1>1, <1>2, TypeCorrect, PTL DEF Spec
-----------------------------------------------------------------------------
(***************************************************************************)
(* A success is of the task's own prompt.  The record tracks the prompt    *)
(* before a collector is scheduled, and every collector reads it from      *)
(* there; only a second execute takes the tracked prompt away again.       *)
(***************************************************************************)
Prompts(t) == {e \in Execs : TaskOf[e] = t}

MidsAreOwn == \A t \in Tasks : rec[t].mid \in {None} \cup Prompts(t)

CollectorsTrack ==
    \A c \in Execs : TaskOf[c] \notin replaced =>
        /\ Live(c) => rec[TaskOf[c]].mid # None
        /\ coll[c].pc \in {"listen", "list"} => coll[c].mid \in Prompts(TaskOf[c])

OwnInv == MidsAreOwn /\ CollectorsTrack /\ SuccessIsOwnAnswer

\* The answer by which collector c makes its task a success.
SucceedsBy(c) ==
    \E m \in AnswersTo(coll[c]) :
        /\ coll[c].pc \in {"listen", "list"}
        /\ reply[m] = "success" /\ rec'[TaskOf[c]].out = m

\* A new prompt is tracked, the record is saved anew, or both stay as they are;
\* and a success is an earlier one or the one a collector of the task brings.
Tracks(t) == \E e \in Prompts(t) : MessagesCounted(e) /\ rec'[t].mid = e

SavedAnew(t) ==
    /\ rec'[t].mid = None /\ rec'[t].status # "success"
    /\ (\E c \in Prompts(t) : Live(c)) => t \in replaced'

RecordMoves(t) ==
    /\ rec'[t].mid = rec[t].mid \/ Tracks(t) \/ SavedAnew(t)
    /\ rec'[t].status = "success" =>
          \/ rec[t].status = "success" /\ rec'[t].out = rec[t].out
          \/ \E c \in Prompts(t) : SucceedsBy(c)

LEMMA ExecMoves ==
    ASSUME TypeOK, NEW e \in Execs, ExecBegin(e) \/ ExecStep(e), NEW t \in Tasks
    PROVE  RecordMoves(t)
<1> USE TasksAssumption DEF TypeOK, RecordMoves
<1>1. CASE t # TaskOf[e]
  BY <1>1, ExecIsLocal DEF Untouched
<1>2. CASE t = TaskOf[e]
  <2>1. e \in Prompts(t)
    BY <1>2 DEF Prompts
  <2>2. ASSUME NEW s \in NoExec, Accept(e, s) PROVE RecordMoves(t)
    <3>1. rec'[t].mid = None /\ rec'[t].status # "success"
      BY <1>2, <2>2 DEF Accept, SaveAccepted, SkillBlocks
    <3>2. (\E c \in Prompts(t) : Live(c)) => t \in replaced'
      BY <1>2, <2>2 DEF Accept, Prompts
    <3>3. QED BY <3>1, <3>2 DEF SavedAnew
  <2>3. CASE ExecBegin(e)
    BY <2>3 DEF ExecBegin
  <2>4. CASE SessionFound(e)
    BY <2>2, <2>4 DEF SessionFound
  <2>5. CASE SessionLost(e)
    BY <2>5 DEF SessionLost
  <2>6. CASE SessionCreated(e)
    BY <2>2, <2>6 DEF SessionCreated, NoExec
  <2>7. CASE MessagesCounted(e)
    <3>1. rec'[t].mid = e /\ rec'[t].status = "running"
      BY <1>2, <2>7 DEF MessagesCounted, TaskRecord
    <3>2. QED BY <2>1, <2>7, <3>1 DEF Tracks
  <2>8. CASE PromptAnswered(e)
    BY <2>8 DEF PromptAnswered
  <2>9. CASE DispatchFails(e)
    BY <1>2, <2>9 DEF DispatchFails, TaskRecord
  <2>10. QED BY <2>3, <2>4, <2>5, <2>6, <2>7, <2>8, <2>9 DEF ExecStep
<1>3. QED BY <1>1, <1>2

LEMMA CollectorMoves ==
    ASSUME TypeOK, NEW c \in Execs, CollectorStep(c), NEW t \in Tasks
    PROVE  RecordMoves(t)
<1> USE TasksAssumption DEF TypeOK, RecordMoves
<1>1. CASE t # TaskOf[c]
  BY <1>1, CollectorIsLocal DEF Untouched
<1>2. CASE t = TaskOf[c]
  <2>1. c \in Prompts(t)
    BY <1>2 DEF Prompts
  <2>2. /\ StoreWithPending(c) \in [Tasks -> TaskRecord]
        /\ StoreWithPending(c)[t].mid = rec[t].mid
        /\ StoreWithPending(c)[t].status = rec[t].status
        /\ StoreWithPending(c)[t].out = rec[t].out
    BY <1>2, PendingWritten DEF StoreWithPending, TaskRecord
  <2>3. ASSUME NEW store \in [Tasks -> TaskRecord], store[t].mid = rec[t].mid,
               NEW m \in AnswersTo(coll[c]), Settle(c, m, store),
               coll[c].pc \in {"listen", "list"}
        PROVE  RecordMoves(t)
    <3>1. rec'[t].mid = rec[t].mid
      BY <1>2, <2>3 DEF Settle, TaskRecord
    <3>2. ASSUME rec'[t].status = "success"
          PROVE  reply[m] = "success" /\ rec'[t].out = m
      <4>1. t \in Tasks /\ store[t] \in TaskRecord
        BY <2>3
      <4>2. CASE reply[m] = "plain"
        <5>1. rec'[t].status = "running"
          BY <1>2, <2>3, <4>1, <4>2 DEF Settle, TaskRecord
        <5>2. QED BY <3>2, <5>1
      <4>3. CASE reply[m] # "plain"
        <5> DEFINE answer == reply[m]
                   ended  == [store EXCEPT ![t].status = answer, ![t].out = m]
        <5>a. rec' = ended
          BY <1>2, <2>3, <4>3 DEF Settle
        <5>b. ended[t].status = answer /\ ended[t].out = m
          <6> HIDE DEF answer
          <6>1. store \in [Tasks -> TaskRecord] /\ t \in Tasks
            BY <4>1
          <6>2. QED BY ONLY <6>1 DEF TaskRecord
        <5>1. rec'[t].status = reply[m] /\ rec'[t].out = m
          BY <5>a, <5>b
        <5>2. QED BY <3>2, <5>1
      <4>4. QED BY <4>2, <4>3
    <3>3. rec'[t].status = "success" => SucceedsBy(c)
      BY <1>2, <2>3, <3>2 DEF SucceedsBy
    <3>4. QED BY <2>1, <3>1, <3>3
  <2>4. CASE CollectorWakes(c)
    BY <2>4 DEF CollectorWakes
  <2>5. CASE EventAnswer(c)
    BY <2>2, <2>3, <2>5 DEF EventAnswer
  <2>6. CASE EventWindowEnds(c)
    BY <2>2, <2>6 DEF EventWindowEnds
  <2>7. CASE MessagesListed(c)
    BY <2>3, <2>7 DEF MessagesListed
  <2>8. CASE ListingFails(c)
    BY <1>2, <2>8 DEF ListingFails, TaskRecord
  <2>9. CASE WindowElapses(c)
    BY <1>2, <2>9 DEF WindowElapses, TaskRecord
  <2>10. QED BY <2>4, <2>5, <2>6, <2>7, <2>8, <2>9 DEF CollectorStep
<1>3. QED BY <1>1, <1>2

LEMMA NextMoves ==
    ASSUME TypeOK, [Next]_vars, NEW t \in Tasks
    PROVE  RecordMoves(t)
<1> USE TasksAssumption DEF TypeOK
<1>1. ASSUME NEW c \in Cancels, CancelBegin(c) \/ CancelFinish(c) PROVE RecordMoves(t)
  <2>1. CASE CancelBegin(c)
    BY <2>1 DEF CancelBegin, RecordMoves
  <2>2. CASE CancelFinish(c)
    BY <2>2 DEF CancelFinish, RecordMoves, TaskRecord
  <2>3. QED BY <1>1, <2>1, <2>2
<1>2. ASSUME NEW m \in Execs, AgentStep(m) PROVE RecordMoves(t)
  BY <1>2, AgentTouchesNothing DEF Untouched, RecordMoves
<1>3. CASE Crash
  BY <1>3 DEF Crash, RecordMoves
<1>4. CASE Recovery
  <2>1. ASSUME NEW u \in Tasks, RecoverTask(u) PROVE RecordMoves(t)
    BY <2>1 DEF RecoverTask, RecordMoves, TaskRecord
  <2>2. QED BY <1>4, <2>1 DEF Recovery, Boot, Serve, RecordMoves
<1>5. CASE UNCHANGED vars
  BY <1>5 DEF vars, RecordMoves
<1>6. QED BY ExecMoves, CollectorMoves, <1>1, <1>2, <1>3, <1>4, <1>5 DEF Next

\* A task that was replaced counts as such for good, and an answer is final.
LEMMA NothingForgotten ==
    ASSUME TypeOK, [Next]_vars
    PROVE  /\ replaced \subseteq replaced'
           /\ \A m \in Execs : reply[m] = "success" => reply'[m] = "success"
<1> USE DEF TypeOK, adapter, agent
<1>1. ASSUME NEW e \in Execs, ExecBegin(e) \/ ExecStep(e)
      PROVE  replaced \subseteq replaced' /\ reply' = reply
  BY <1>1 DEF ExecBegin, ExecStep, SessionFound, SessionLost, SessionCreated, Accept,
              MessagesCounted, PromptAnswered, DispatchFails
<1>2. ASSUME NEW c \in Execs, CollectorStep(c) PROVE replaced' = replaced /\ reply' = reply
  BY <1>2 DEF CollectorStep, CollectorWakes, EventAnswer, EventWindowEnds, MessagesListed,
              ListingFails, WindowElapses
<1>3. ASSUME NEW c \in Cancels, CancelBegin(c) \/ CancelFinish(c)
      PROVE  replaced' = replaced /\ reply' = reply
  BY <1>3 DEF CancelBegin, CancelFinish
<1>4. ASSUME NEW x \in Execs, AgentStep(x)
      PROVE  /\ replaced' = replaced
             /\ \A m \in Execs : reply[m] = "success" => reply'[m] = "success"
  BY <1>4 DEF AgentStep, PromptArrives, AgentReplies, PermissionAsked, PermissionResolved
<1>5. CASE Crash \/ Recovery \/ UNCHANGED vars
  BY <1>5 DEF Crash, Recovery, Boot, RecoverTask, Serve, vars
<1>6. QED BY <1>1, <1>2, <1>3, <1>4, <1>5 DEF Next

\* What a collector that listens or lists reads for comes from the record, now
\* or earlier.
LEMMA ListensFor ==
    ASSUME TypeOK, [Next]_vars, NEW c \in Execs, coll'[c].pc \in {"listen", "list"}
    PROVE  \/ coll[c].pc \in {"listen", "list"} /\ coll'[c].mid = coll[c].mid
           \/ Live(c) /\ coll'[c].mid = rec[TaskOf[c]].mid
<1> USE TasksAssumption DEF TypeOK, Live, adapter, agent
<1>1. ASSUME NEW e \in Execs, ExecBegin(e) \/ ExecStep(e) PROVE coll'[c] = coll[c]
  <2>1. CASE MessagesCounted(e)
    BY <2>1 DEF MessagesCounted, Schedule, Parked
  <2>2. CASE ~ MessagesCounted(e)
    BY <1>1, <2>2 DEF ExecBegin, ExecStep, SessionFound, SessionLost, SessionCreated,
                      PromptAnswered, DispatchFails
  <2>3. QED BY <2>1, <2>2
<1>2. ASSUME NEW x \in Cancels, CancelBegin(x) \/ CancelFinish(x) PROVE coll' = coll
  BY <1>2 DEF CancelBegin, CancelFinish
<1>3. ASSUME NEW x \in Execs, AgentStep(x)
      PROVE  coll'[c].pc = coll[c].pc /\ coll'[c].mid = coll[c].mid
  <2>1. ASSUME NEW state, PermissionEvent(x, state)
        PROVE  coll'[c].pc = coll[c].pc /\ coll'[c].mid = coll[c].mid
    BY <2>1 DEF PermissionEvent, Collector
  <2>2. QED
    BY <1>3, <2>1 DEF AgentStep, PromptArrives, AgentReplies, PermissionAsked, PermissionResolved
<1>4. ASSUME NEW x \in Execs, CollectorStep(x), x # c PROVE coll'[c] = coll[c]
  BY <1>4 DEF CollectorStep, CollectorWakes, EventAnswer, EventWindowEnds, MessagesListed,
              ListingFails, WindowElapses, Settle
<1>5. CASE CollectorWakes(c)
  BY <1>5 DEF CollectorWakes, Parked
<1>6. CASE EventWindowEnds(c)
  <2>1. StoreWithPending(c)[TaskOf[c]].mid = rec[TaskOf[c]].mid
    BY DEF StoreWithPending, TaskRecord
  <2>2. QED BY <1>6, <2>1 DEF EventWindowEnds
<1>7. CASE EventAnswer(c) \/ MessagesListed(c) \/ ListingFails(c) \/ WindowElapses(c)
  <2>1. ASSUME NEW m, NEW store, Settle(c, m, store) PROVE coll'[c].pc \in {"sleep", "done"}
    BY <2>1 DEF Settle, Parked
  <2>2. coll'[c].pc \in {"start", "sleep", "done"}
    <3>1. CASE EventAnswer(c)
      BY <2>1, <3>1 DEF EventAnswer
    <3>2. CASE MessagesListed(c)
      BY <2>1, <3>2 DEF MessagesListed, Parked
    <3>3. CASE ListingFails(c)
      BY <3>3 DEF ListingFails, Parked
    <3>4. CASE WindowElapses(c)
      BY <3>4 DEF WindowElapses, Parked
    <3>5. QED BY <1>7, <3>1, <3>2, <3>3, <3>4
  <2>3. QED BY <2>2
<1>8. CASE Crash
  BY <1>8 DEF Crash, Parked
<1>9. CASE Recovery \/ UNCHANGED vars
  BY <1>9 DEF Recovery, Boot, RecoverTask, Serve, vars
<1>10. QED BY <1>1, <1>2, <1>3, <1>4, <1>5, <1>6, <1>7, <1>8, <1>9 DEF Next, CollectorStep

LEMMA NextOwn == TypeOK /\ OwnInv /\ [Next]_vars => OwnInv'
<1> SUFFICES ASSUME TypeOK, OwnInv, [Next]_vars PROVE OwnInv'
  OBVIOUS
<1> USE TasksAssumption
<1>1. MidsAreOwn'
  BY NextMoves DEF OwnInv, MidsAreOwn, RecordMoves, Tracks, SavedAnew, Prompts
<1>2. CollectorsTrack'
  <2> SUFFICES ASSUME NEW c \in Execs, TaskOf[c] \notin replaced'
               PROVE  /\ Live(c)' => rec'[TaskOf[c]].mid # None
                      /\ coll'[c].pc \in {"listen", "list"} => coll'[c].mid \in Prompts(TaskOf[c])
    BY DEF CollectorsTrack, Prompts
  <2>1. TaskOf[c] \in Tasks /\ c \in Prompts(TaskOf[c]) /\ TaskOf[c] \notin replaced
    BY NothingForgotten DEF Prompts
  <2>2. ASSUME Live(c) PROVE rec'[TaskOf[c]].mid # None
    <3>1. rec[TaskOf[c]].mid # None
      BY <2>1, <2>2 DEF OwnInv, CollectorsTrack
    <3>2. ~ SavedAnew(TaskOf[c])
      BY <2>1, <2>2 DEF SavedAnew
    <3>3. RecordMoves(TaskOf[c])
      BY <2>1, NextMoves
    <3>4. QED BY <3>1, <3>2, <3>3 DEF RecordMoves, Tracks, Prompts
  <2>3. ASSUME ~ Live(c), Live(c)' PROVE rec'[TaskOf[c]].mid # None
    <3>1. PICK e \in Execs : MessagesCounted(e)
      BY <2>3, OnlyScheduleStarts
    <3>2. e = c
      BY <2>3, <3>1 DEF MessagesCounted, Schedule, Live, TypeOK
    <3>3. rec'[TaskOf[c]].mid = c
      BY <2>1, <3>1, <3>2 DEF MessagesCounted, TypeOK, TaskRecord
    <3>4. QED BY <3>3
  <2>4. ASSUME coll'[c].pc \in {"listen", "list"} PROVE coll'[c].mid \in Prompts(TaskOf[c])
    <3>1. CASE coll[c].pc \in {"listen", "list"} /\ coll'[c].mid = coll[c].mid
      BY <2>1, <3>1 DEF OwnInv, CollectorsTrack
    <3>2. CASE Live(c) /\ coll'[c].mid = rec[TaskOf[c]].mid
      BY <2>1, <3>2 DEF OwnInv, CollectorsTrack, MidsAreOwn
    <3>3. QED BY <2>4, <3>1, <3>2, ListensFor
  <2>5. QED BY <2>2, <2>3, <2>4
<1>3. SuccessIsOwnAnswer'
  <2> SUFFICES ASSUME NEW t \in Tasks, t \notin replaced', rec'[t].status = "success"
               PROVE  /\ rec'[t].out \in Execs
                      /\ TaskOf[rec'[t].out] = t
                      /\ reply'[rec'[t].out] = "success"
    BY DEF SuccessIsOwnAnswer, SucceedsOnItsOwn
  <2>1. t \notin replaced /\ RecordMoves(t)
    BY NothingForgotten, NextMoves
  <2>2. CASE rec[t].status = "success" /\ rec'[t].out = rec[t].out
    BY <2>1, <2>2, NothingForgotten DEF OwnInv, SuccessIsOwnAnswer, SucceedsOnItsOwn
  <2>3. CASE \E c \in Prompts(t) : SucceedsBy(c)
    <3>1. PICK c \in Prompts(t) : SucceedsBy(c)
      BY <2>3
    <3>2. PICK m \in AnswersTo(coll[c]) : /\ coll[c].pc \in {"listen", "list"}
                                          /\ reply[m] = "success" /\ rec'[t].out = m
      BY <3>1 DEF SucceedsBy, Prompts
    <3>3. c \in Execs /\ TaskOf[c] = t /\ coll[c].mid \in Prompts(t)
      BY <2>1, <3>2 DEF OwnInv, CollectorsTrack, Prompts
    <3>4. m = coll[c].mid
      BY <3>2, <3>3 DEF AnswersTo, Matches, Prompts
    <3>5. QED BY <3>2, <3>3, <3>4, NothingForgotten DEF Prompts
  <2>4. QED BY <2>1, <2>2, <2>3 DEF RecordMoves
<1>4. QED BY <1>1, <1>2, <1>3 DEF OwnInv

\* A success of a task is an answer to a prompt of that task, although the tasks
\* of a session see each other's answers, unless a second execute took away the
\* prompt its collector waited with.
THEOREM SuccessesAreOwn == Spec => []SuccessIsOwnAnswer
<1>1. Init => OwnInv
  BY DEF Init, OwnInv, MidsAreOwn, CollectorsTrack, SuccessIsOwnAnswer, NoRecord, Live, Parked
<1>2. QED BY <1>1, NextOwn, TypeCorrect, PTL DEF Spec, OwnInv
-----------------------------------------------------------------------------
(***************************************************************************)
(* Finished tasks stay finished: a step of the task's own operations would *)
(* contradict Quiet unless it only looks, recovery marks active tasks only.*)
(***************************************************************************)
LEMMA UntouchedQuiet ==
    ASSUME NEW t \in Tasks, Untouched(t), Quiet(t)
    PROVE  Quiet(t)'
BY DEF Untouched, Quiet

LEMMA ExecLeavesFinished ==
    ASSUME TypeOK, NEW e \in Execs, ExecBegin(e) \/ ExecStep(e),
           Quiet(TaskOf[e]), rec[TaskOf[e]].status \in Terminal
    PROVE  rec'[TaskOf[e]] = rec[TaskOf[e]] /\ Quiet(TaskOf[e])'
<1>1. CASE ExecBegin(e)
  BY <1>1 DEF ExecBegin, Quiet, TypeOK, Ended, Terminal
<1>2. CASE ExecStep(e)
  BY <1>2 DEF ExecStep, SessionFound, SessionLost, SessionCreated, MessagesCounted, PromptAnswered,
              DispatchFails, Quiet
<1>3. QED BY <1>1, <1>2

LEMMA CancelLeavesFinished ==
    ASSUME TypeOK, NEW c \in Cancels, CancelBegin(c) \/ CancelFinish(c),
           Quiet(TaskOf[c]), rec[TaskOf[c]].status \in Terminal
    PROVE  rec'[TaskOf[c]] = rec[TaskOf[c]] /\ Quiet(TaskOf[c])'
BY DEF CancelBegin, CancelFinish, Quiet, TypeOK, Active, Terminal

LEMMA CollectorLeavesFinished ==
    ASSUME TypeOK, NEW c \in Execs, CollectorStep(c),
           Quiet(TaskOf[c]), rec[TaskOf[c]].status \in Terminal
    PROVE  rec'[TaskOf[c]] = rec[TaskOf[c]] /\ Quiet(TaskOf[c])'
<1>1. rec[TaskOf[c]].status \notin Active
  BY DEF Active, Terminal
<1>2. CASE CollectorWakes(c)
  BY <1>1, <1>2 DEF CollectorWakes, Quiet, TypeOK, Parked
<1>3. CASE WindowElapses(c)
  BY <1>1, <1>3 DEF WindowElapses, Quiet, TypeOK, Parked
<1>4. CASE EventAnswer(c) \/ EventWindowEnds(c) \/ MessagesListed(c) \/ ListingFails(c)
  BY <1>4 DEF EventAnswer, EventWindowEnds, MessagesListed, ListingFails, Quiet
<1>5. QED BY <1>2, <1>3, <1>4 DEF CollectorStep

\* Nothing that begins after a task is finished and quiet can alter its record.
THEOREM FinishedForGood == Spec => TerminalIsFinal
<1>1. ASSUME Inv, [Next]_vars, NEW t \in Tasks, rec[t].status \in Terminal, Quiet(t)
      PROVE  rec'[t] = rec[t] /\ Quiet(t)'
  <2> USE DEF Inv
  <2>1. ASSUME NEW e \in Execs, ExecBegin(e) \/ ExecStep(e) PROVE rec'[t] = rec[t] /\ Quiet(t)'
    BY <1>1, <2>1, ExecIsLocal, ExecLeavesFinished, UntouchedQuiet DEF Untouched
  <2>2. ASSUME NEW c \in Cancels, CancelBegin(c) \/ CancelFinish(c) PROVE rec'[t] = rec[t] /\ Quiet(t)'
    BY <1>1, <2>2, CancelIsLocal, CancelLeavesFinished, UntouchedQuiet DEF Untouched
  <2>3. ASSUME NEW c \in Execs, CollectorStep(c) PROVE rec'[t] = rec[t] /\ Quiet(t)'
    BY <1>1, <2>3, CollectorIsLocal, CollectorLeavesFinished, UntouchedQuiet DEF Untouched
  <2>4. ASSUME NEW m \in Execs, AgentStep(m) PROVE rec'[t] = rec[t] /\ Quiet(t)'
    BY <1>1, <2>4, AgentTouchesNothing, UntouchedQuiet DEF Untouched
  <2>5. CASE Crash
    BY <1>1, <2>5 DEF Crash, Quiet, Parked, Ended, TypeOK
  <2>6. CASE Recovery
    BY <1>1, <2>6 DEF Recovery, Boot, RecoverTask, Serve, RecoveryIsExact, Quiet, TypeOK, Active, Terminal
  <2>7. CASE UNCHANGED vars
    BY <1>1, <2>7 DEF vars, Quiet
  <2>8. QED BY <1>1, <2>1, <2>2, <2>3, <2>4, <2>5, <2>6, <2>7 DEF Next
<1>2. Inv /\ [Next]_vars =>
        [\A t \in Tasks : rec[t].status \in Terminal /\ Quiet(t)
                            => rec'[t] = rec[t] /\ Quiet(t)']_vars
  BY <1>1
<1>3. QED BY <1>2, InvHolds, PTL DEF Spec, TerminalIsFinal
-----------------------------------------------------------------------------
(***************************************************************************)
(* The handlers, collectors and recovery implement TaskLifecycle: a step   *)
(* changes the status of one task and the busy operations of that task by  *)
(* at most one, as the abstract actions allow.                             *)
(***************************************************************************)
Ops == ({"execute", "collect"} \X Execs) \cup ({"cancel"} \X Cancels)
StatusOf == [t \in Tasks |-> rec[t].status]
BusyOf   == [t \in Tasks |-> Busy(t)]

\* The next value of the mapped variables when only task t is touched.
LEMMA MappedStep ==
    ASSUME NEW t \in Tasks, \A u \in Tasks \ {t} : Untouched(u)
    PROVE  /\ StatusOf' = [StatusOf EXCEPT ![t] = rec'[t].status]
           /\ BusyOf' = [BusyOf EXCEPT ![t] = Busy(t)']
<1>1. \A u \in Tasks \ {t} : rec'[u].status = rec[u].status /\ Busy(u)' = Busy(u)
  BY DEF Untouched, Busy
<1>2. QED BY <1>1 DEF StatusOf, BusyOf

\* What is busy with a task, operation by operation.
LEMMA BusyMembers ==
    ASSUME NEW t \in Tasks
    PROVE  /\ Busy(t) \subseteq Ops
           /\ \A e \in Execs : <<"execute", e>> \in Busy(t) <=> TaskOf[e] = t /\ ex[e].pc \notin {"idle", "done"}
           /\ \A e \in Execs : <<"collect", e>> \in Busy(t) <=> TaskOf[e] = t /\ coll[e].pc \in {"listen", "list"}
           /\ \A c \in Cancels : <<"cancel", c>> \in Busy(t) <=> TaskOf[c] = t /\ cn[c] = "remote"
BY DEF Busy, Ops
LEMMA BusyIs ==
    ASSUME NEW t \in Tasks, NEW S \in SUBSET Ops,
           \A e \in Execs : <<"execute", e>> \in S <=> TaskOf[e] = t /\ ex'[e].pc \notin {"idle", "done"},
           \A e \in Execs : <<"collect", e>> \in S <=> TaskOf[e] = t /\ coll'[e].pc \in {"listen", "list"},
           \A c \in Cancels : <<"cancel", c>> \in S <=> TaskOf[c] = t /\ cn'[c] = "remote"
    PROVE  Busy(t)' = S
<1>1. Busy(t)' \subseteq S
  BY DEF Busy
<1>2. S \subseteq Busy(t)'
  BY DEF Busy, Ops
<1>3. QED BY <1>1, <1>2

\* A step of one execute handler adds or drops that handler ...
LEMMA ExecBusy ==
    ASSUME NEW e \in Execs, TaskOf[e] \in Tasks,
           \A x \in Execs : x # e => ex'[x] = ex[x],
           \A x \in Execs : coll'[x].pc \in {"listen", "list"} <=> coll[x].pc \in {"listen", "list"},
           cn' = cn
    PROVE  Busy(TaskOf[e])' = IF ex'[e].pc \in {"idle", "done"}
                              THEN Busy(TaskOf[e]) \ {<<"execute", e>>}
                              ELSE Busy(TaskOf[e]) \cup {<<"execute", e>>}
<1> DEFINE B == Busy(TaskOf[e])
           S == IF ex'[e].pc \in {"idle", "done"} THEN B \ {<<"execute", e>>} ELSE B \cup {<<"execute", e>>}
<1>1. S \in SUBSET Ops
  BY BusyMembers DEF Ops
<1>2. ASSUME NEW x \in Execs
      PROVE  <<"execute", x>> \in S <=> TaskOf[x] = TaskOf[e] /\ ex'[x].pc \notin {"idle", "done"}
  <2>1. <<"execute", x>> \in B <=> TaskOf[x] = TaskOf[e] /\ ex[x].pc \notin {"idle", "done"}
    BY BusyMembers
  <2>2. <<"execute", x>> = <<"execute", e>> <=> x = e
    OBVIOUS
  <2>3. QED BY <2>1, <2>2
<1>3. ASSUME NEW x \in Execs
      PROVE  <<"collect", x>> \in S <=> TaskOf[x] = TaskOf[e] /\ coll'[x].pc \in {"listen", "list"}
  <2>1. <<"collect", x>> \in B <=> TaskOf[x] = TaskOf[e] /\ coll[x].pc \in {"listen", "list"}
    BY BusyMembers
  <2>2. <<"collect", x>> # <<"execute", e>>
    OBVIOUS
  <2>3. QED BY <2>1, <2>2
<1>4. ASSUME NEW c \in Cancels
      PROVE  <<"cancel", c>> \in S <=> TaskOf[c] = TaskOf[e] /\ cn'[c] = "remote"
  <2>1. <<"cancel", c>> \in B <=> TaskOf[c] = TaskOf[e] /\ cn[c] = "remote"
    BY BusyMembers
  <2>2. <<"cancel", c>> # <<"execute", e>>
    OBVIOUS
  <2>3. QED BY <2>1, <2>2
<1> HIDE DEF S
<1>5. Busy(TaskOf[e])' = S
  BY <1>1, <1>2, <1>3, <1>4, BusyIs
<1>6. QED BY <1>5 DEF S

\* ... so does a step of one collector ...
LEMMA CollectBusy ==
    ASSUME NEW e \in Execs, TaskOf[e] \in Tasks, ex' = ex, cn' = cn,
           \A x \in Execs : x # e => coll'[x] = coll[x]
    PROVE  Busy(TaskOf[e])' = IF coll'[e].pc \in {"listen", "list"}
                              THEN Busy(TaskOf[e]) \cup {<<"collect", e>>}
                              ELSE Busy(TaskOf[e]) \ {<<"collect", e>>}
<1> DEFINE B == Busy(TaskOf[e])
           S == IF coll'[e].pc \in {"listen", "list"} THEN B \cup {<<"collect", e>>} ELSE B \ {<<"collect", e>>}
<1>1. S \in SUBSET Ops
  BY BusyMembers DEF Ops
<1>2. ASSUME NEW x \in Execs
      PROVE  <<"execute", x>> \in S <=> TaskOf[x] = TaskOf[e] /\ ex'[x].pc \notin {"idle", "done"}
  <2>1. <<"execute", x>> \in B <=> TaskOf[x] = TaskOf[e] /\ ex[x].pc \notin {"idle", "done"}
    BY BusyMembers
  <2>2. <<"execute", x>> # <<"collect", e>>
    OBVIOUS
  <2>3. QED BY <2>1, <2>2
<1>3. ASSUME NEW x \in Execs
      PROVE  <<"collect", x>> \in S <=> TaskOf[x] = TaskOf[e] /\ coll'[x].pc \in {"listen", "list"}
  <2>1. <<"collect", x>> \in B <=> TaskOf[x] = TaskOf[e] /\ coll[x].pc \in {"listen", "list"}
    BY BusyMembers
  <2>2. <<"collect", x>> = <<"collect", e>> <=> x = e
    OBVIOUS
  <2>3. QED BY <2>1, <2>2
<1>4. ASSUME NEW c \in Cancels
      PROVE  <<"cancel", c>> \in S <=> TaskOf[c] = TaskOf[e] /\ cn'[c] = "remote"
  <2>1. <<"cancel", c>> \in B <=> TaskOf[c] = TaskOf[e] /\ cn[c] = "remote"
    BY BusyMembers
  <2>2. <<"cancel", c>> # <<"collect", e>>
    OBVIOUS
  <2>3. QED BY <2>1, <2>2
<1> HIDE DEF S
<1>5. Busy(TaskOf[e])' = S
  BY <1>1, <1>2, <1>3, <1>4, BusyIs
<1>6. QED BY <1>5 DEF S

\* ... and a step of one cancel handler.
LEMMA CancelBusy ==
    ASSUME NEW c \in Cancels, TaskOf[c] \in Tasks, ex' = ex, coll' = coll,
           \A d \in Cancels : d # c => cn'[d] = cn[d]
    PROVE  Busy(TaskOf[c])' = IF cn'[c] = "remote"
                              THEN Busy(TaskOf[c]) \cup {<<"cancel", c>>}
                              ELSE Busy(TaskOf[c]) \ {<<"cancel", c>>}
<1> DEFINE B == Busy(TaskOf[c])
           S == IF cn'[c] = "remote" THEN B \cup {<<"cancel", c>>} ELSE B \ {<<"cancel", c>>}
<1>1. S \in SUBSET Ops
  BY BusyMembers DEF Ops
<1>2. ASSUME NEW x \in Execs
      PROVE  /\ <<"execute", x>> \in S <=> TaskOf[x] = TaskOf[c] /\ ex'[x].pc \notin {"idle", "done"}
             /\ <<"collect", x>> \in S <=> TaskOf[x] = TaskOf[c] /\ coll'[x].pc \in {"listen", "list"}
  <2>1. /\ <<"execute", x>> \in B <=> TaskOf[x] = TaskOf[c] /\ ex[x].pc \notin {"idle", "done"}
        /\ <<"collect", x>> \in B <=> TaskOf[x] = TaskOf[c] /\ coll[x].pc \in {"listen", "list"}
    BY BusyMembers
  <2>2. <<"execute", x>> # <<"cancel", c>> /\ <<"collect", x>> # <<"cancel", c>>
    OBVIOUS
  <2>3. QED BY <2>1, <2>2
<1>3. ASSUME NEW d \in Cancels
      PROVE  <<"cancel", d>> \in S <=> TaskOf[d] = TaskOf[c] /\ cn'[d] = "remote"
  <2>1. <<"cancel", d>> \in B <=> TaskOf[d] = TaskOf[c] /\ cn[d] = "remote"
    BY BusyMembers
  <2>2. <<"cancel", d>> = <<"cancel", c>> <=> d = c
    OBVIOUS
  <2>3. QED BY <2>1, <2>2
<1> HIDE DEF S
<1>4. Busy(TaskOf[c])' = S
  BY <1>1, <1>2, <1>3, BusyIs
<1>5. QED BY <1>4 DEF S
\* When a step that touches only task t is a step of the abstract specification.
LEMMA LifeStep ==
    ASSUME TypeOK, NEW t \in Tasks, \A u \in Tasks \ {t} : Untouched(u),
           \* an operation begins,
           \/ /\ rec'[t].status = rec[t].status /\ rec[t].status \notin Terminal
              /\ \E o \in Ops : Busy(t)' = Busy(t) \cup {o}
           \* a busy one writes,
           \/ /\ rec'[t].status \in Active \cup Terminal
              /\ \E o \in Busy(t) : Busy(t)' \in {Busy(t), Busy(t) \ {o}}
           \* or is released,
           \/ /\ rec'[t].status = rec[t].status
              /\ \E o \in Busy(t) : Busy(t)' = Busy(t) \ {o}
           \* an active task is touched,
           \/ /\ rec[t].status \in Active /\ rec'[t].status \in {"running"} \cup Terminal
              /\ Busy(t)' = Busy(t)
           \* or nothing changes.
           \/ rec'[t].status = rec[t].status /\ Busy(t)' = Busy(t)
    PROVE  [L!Next]_(L!lifeVars)
<1>1. /\ StatusOf' = [StatusOf EXCEPT ![t] = rec'[t].status]
      /\ BusyOf' = [BusyOf EXCEPT ![t] = Busy(t)']
  BY MappedStep
<1>2. /\ StatusOf[t] = rec[t].status /\ BusyOf[t] = Busy(t)
      /\ StatusOf \in [Tasks -> {"absent"} \cup Active \cup Terminal]
      /\ BusyOf = [u \in Tasks |-> BusyOf[u]] /\ StatusOf = [u \in Tasks |-> StatusOf[u]]
  BY DEF StatusOf, BusyOf, TypeOK, TaskRecord
<1>3. CASE /\ rec'[t].status = rec[t].status /\ rec[t].status \notin Terminal
           /\ \E o \in Ops : Busy(t)' = Busy(t) \cup {o}
  <2>1. PICK o \in Ops : Busy(t)' = Busy(t) \cup {o}
    BY <1>3
  <2>2. BusyOf' = [BusyOf EXCEPT ![t] = BusyOf[t] \cup {o}]
    BY <1>1, <1>2, <2>1
  <2>3. StatusOf' = StatusOf /\ StatusOf[t] \in {"absent", "accepted", "running"}
    BY <1>1, <1>2, <1>3 DEF Active, Terminal
  <2>4. L!Begin(t)
    BY <2>2, <2>3 DEF L!Begin, L!Unfinished, StatusOf, BusyOf, Ops
  <2>5. QED BY <2>4 DEF L!Next
<1>4. CASE /\ rec'[t].status \in Active \cup Terminal
           /\ \E o \in Busy(t) : Busy(t)' \in {Busy(t), Busy(t) \ {o}}
  <2>1. PICK o \in Busy(t) : Busy(t)' \in {Busy(t), Busy(t) \ {o}}
    BY <1>4
  <2>2. \/ BusyOf' = BusyOf
        \/ BusyOf' = [BusyOf EXCEPT ![t] = BusyOf[t] \ {o}]
    BY <1>1, <1>2, <2>1 DEF BusyOf
  <2>3. L!Write(t)
    BY <1>1, <1>2, <1>4, <2>2 DEF L!Write, L!Written, L!Finished, Active, Terminal, StatusOf, BusyOf
  <2>4. QED BY <2>3 DEF L!Next
<1>5. CASE /\ rec'[t].status = rec[t].status
           /\ \E o \in Busy(t) : Busy(t)' = Busy(t) \ {o}
  <2>1. L!Release(t)
    BY <1>1, <1>2, <1>5 DEF L!Release, StatusOf, BusyOf
  <2>2. QED BY <2>1 DEF L!Next
<1>6. CASE /\ rec[t].status \in Active /\ rec'[t].status \in {"running"} \cup Terminal
           /\ Busy(t)' = Busy(t)
  <2>0. BusyOf' = BusyOf
    <3>1. BusyOf' = [BusyOf EXCEPT ![t] = BusyOf[t]]
      BY <1>1, <1>2, <1>6
    <3>2. [BusyOf EXCEPT ![t] = BusyOf[t]] = BusyOf
      BY <1>2
    <3>3. QED BY <3>1, <3>2
  <2>1. rec'[t].status \in L!Written \ {"accepted"} /\ StatusOf[t] \in L!Unfinished \ {"absent"}
    BY <1>2, <1>6 DEF L!Unfinished, L!Written, L!Finished, Active, Terminal
  <2>4. \E s \in L!Written \ {"accepted"} : StatusOf' = [StatusOf EXCEPT ![t] = s]
    BY <1>1, <2>1
  <2>3. L!Touch(t)
    BY <2>0, <2>1, <2>4 DEF L!Touch, StatusOf, BusyOf
  <2>2. QED BY <2>3 DEF L!Next
<1>7. CASE rec'[t].status = rec[t].status /\ Busy(t)' = Busy(t)
  BY <1>1, <1>2, <1>7 DEF L!lifeVars, StatusOf, BusyOf
<1>8. QED BY <1>3, <1>4, <1>5, <1>6, <1>7

LEMMA ExecIsLife ==
    ASSUME TypeOK, NEW e \in Execs, ExecBegin(e) \/ ExecStep(e)
    PROVE  [L!Next]_(L!lifeVars)
<1> DEFINE t == TaskOf[e]
           o == <<"execute", e>>
<1>1. t \in Tasks /\ o \in Ops /\ \A u \in Tasks \ {t} : Untouched(u)
  BY ExecIsLocal, TasksAssumption DEF Ops
<1>2. /\ \A x \in Execs : x # e => ex'[x] = ex[x]
      /\ cn' = cn
      /\ \A x \in Execs : coll'[x].pc \in {"listen", "list"} <=> coll[x].pc \in {"listen", "list"}
  <2>1. CASE MessagesCounted(e)
    <3>1. \A c \in Execs : coll'[c] # coll[c] => ~ Live(c) /\ coll'[c].pc = "start"
      BY <2>1 DEF MessagesCounted, Schedule, TypeOK, Parked
    <3>2. QED BY <2>1, <3>1 DEF MessagesCounted, TypeOK, Live
  <2>2. CASE ~ MessagesCounted(e)
    BY <2>2 DEF ExecBegin, ExecStep, SessionFound, SessionLost, SessionCreated, PromptAnswered,
                DispatchFails, Accept, SaveAccepted, SkillBlocks, TypeOK
  <2>3. QED BY <2>1, <2>2
<1>3. Busy(t)' = IF ex'[e].pc \in {"idle", "done"} THEN Busy(t) \ {o} ELSE Busy(t) \cup {o}
  BY <1>1, <1>2, ExecBusy
<1>4. o \in Busy(t) <=> ex[e].pc \notin {"idle", "done"}
  BY <1>1, BusyMembers
<1>5. rec[t].status \in {"absent"} \cup Active \cup Terminal
  BY <1>1 DEF TypeOK, TaskRecord
<1> HIDE DEF o, t
<1>6. CASE ExecBegin(e)
  <2>1. rec' = rec /\ o \notin Busy(t)
    BY <1>4, <1>6 DEF ExecBegin
  <2>2. CASE rec[t].status = "absent"
    <3>1. Busy(t)' = Busy(t) \cup {o} /\ rec[t].status \notin Terminal
      BY <1>3, <1>6, <2>2 DEF ExecBegin, TypeOK, Terminal, t
    <3>2. QED BY <1>1, <2>1, <3>1, LifeStep
  <2>3. CASE rec[t].status # "absent"
    <3>1. Busy(t)' = Busy(t)
      BY <1>3, <1>6, <2>1, <2>3 DEF ExecBegin, TypeOK, Ended, t
    <3>2. QED BY <1>1, <2>1, <3>1, LifeStep
  <2>4. QED BY <2>2, <2>3
<1>7. CASE ExecStep(e)
  <2>1. o \in Busy(t)
    BY <1>4, <1>7 DEF ExecStep, SessionFound, SessionLost, SessionCreated, MessagesCounted,
                      PromptAnswered, DispatchFails
  <2>2. Busy(t)' \in {Busy(t), Busy(t) \ {o}}
    BY <1>3, <2>1
  <2>3. CASE SessionLost(e)
    <3>1. Busy(t)' = Busy(t) /\ rec' = rec
      BY <1>3, <2>1, <2>3 DEF SessionLost, TypeOK
    <3>2. QED BY <1>1, <3>1, LifeStep
  <2>4. CASE PromptAnswered(e)
    <3>1. Busy(t)' = Busy(t) \ {o} /\ rec' = rec
      BY <1>3, <2>4 DEF PromptAnswered, TypeOK, Ended
    <3>2. QED BY <1>1, <2>1, <3>1, LifeStep
  <2>5. CASE SessionFound(e) \/ SessionCreated(e) \/ MessagesCounted(e) \/ DispatchFails(e)
    <3>1. rec'[t].status \in Active \cup Terminal
      BY <1>1, <2>5 DEF SessionFound, SessionCreated, Accept, SaveAccepted, SkillBlocks,
                        MessagesCounted, DispatchFails, TypeOK, TaskRecord, Active, Terminal, t
    <3>2. QED BY <1>1, <2>1, <2>2, <3>1, LifeStep
  <2>6. QED BY <1>7, <2>3, <2>4, <2>5 DEF ExecStep
<1>8. QED BY <1>6, <1>7

LEMMA CancelIsLife ==
    ASSUME TypeOK, NEW c \in Cancels, CancelBegin(c) \/ CancelFinish(c)
    PROVE  [L!Next]_(L!lifeVars)
<1> DEFINE t == TaskOf[c]
           o == <<"cancel", c>>
<1>1. t \in Tasks /\ o \in Ops /\ \A u \in Tasks \ {t} : Untouched(u)
  BY CancelIsLocal, TasksAssumption DEF Ops
<1>2. Busy(t)' = IF cn'[c] = "remote" THEN Busy(t) \cup {o} ELSE Busy(t) \ {o}
  BY <1>1, CancelBusy DEF CancelBegin, CancelFinish, TypeOK
<1>3. o \in Busy(t) <=> cn[c] = "remote"
  BY <1>1, BusyMembers
<1> HIDE DEF o, t
<1>4. CASE CancelBegin(c)
  <2>1. rec' = rec /\ o \notin Busy(t)
    BY <1>3, <1>4 DEF CancelBegin
  <2>2. CASE rec[t].status \in Active
    <3>1. Busy(t)' = Busy(t) \cup {o} /\ rec[t].status \notin Terminal
      BY <1>2, <1>4, <2>2 DEF CancelBegin, TypeOK, Active, Terminal, t
    <3>2. QED BY <1>1, <2>1, <3>1, LifeStep
  <2>3. CASE rec[t].status \notin Active
    <3>1. Busy(t)' = Busy(t)
      BY <1>2, <1>4, <2>1, <2>3 DEF CancelBegin, TypeOK, t
    <3>2. QED BY <1>1, <2>1, <3>1, LifeStep
  <2>4. QED BY <2>2, <2>3
<1>5. CASE CancelFinish(c)
  <2>1. o \in Busy(t) /\ Busy(t)' \in {Busy(t), Busy(t) \ {o}}
    BY <1>2, <1>3, <1>5 DEF CancelFinish
  <2>2. rec'[t].status \in Active \cup Terminal
    BY <1>1, <1>5 DEF CancelFinish, TypeOK, TaskRecord, Terminal, t
  <2>3. QED BY <1>1, <2>1, <2>2, LifeStep
<1>6. QED BY <1>4, <1>5

LEMMA CollectorIsLife ==
    ASSUME TypeOK, NEW c \in Execs, CollectorStep(c)
    PROVE  [L!Next]_(L!lifeVars)
<1> DEFINE t == TaskOf[c]
           o == <<"collect", c>>
<1>1. t \in Tasks /\ o \in Ops /\ \A u \in Tasks \ {t} : Untouched(u)
  BY CollectorIsLocal, TasksAssumption DEF Ops
<1>2. /\ ex' = ex /\ cn' = cn
      /\ \A x \in Execs : x # c => coll'[x] = coll[x]
  BY DEF CollectorStep, CollectorWakes, EventAnswer, EventWindowEnds, MessagesListed, ListingFails,
         WindowElapses, Settle, TypeOK
<1>3. Busy(t)' = IF coll'[c].pc \in {"listen", "list"} THEN Busy(t) \cup {o} ELSE Busy(t) \ {o}
  BY <1>1, <1>2, CollectBusy
<1>4. o \in Busy(t) <=> coll[c].pc \in {"listen", "list"}
  BY <1>1, BusyMembers
<1>5. ASSUME NEW m \in AnswersTo(coll[c]), NEW store \in [Tasks -> TaskRecord], Settle(c, m, store)
      PROVE  rec'[t].status \in Active \cup Terminal
  BY <1>5, SettleEnds DEF Active
<1> HIDE DEF o, t
<1>6. CASE CollectorWakes(c)
  <2>1. rec' = rec /\ o \notin Busy(t)
    BY <1>4, <1>6 DEF CollectorWakes
  <2>2. CASE rec[t].status \in Active
    <3>1. Busy(t)' = Busy(t) \cup {o} /\ rec[t].status \notin Terminal
      BY <1>3, <1>6, <2>2 DEF CollectorWakes, TypeOK, Active, Terminal, t
    <3>2. QED BY <1>1, <2>1, <3>1, LifeStep
  <2>3. CASE rec[t].status \notin Active
    <3>1. Busy(t)' = Busy(t)
      BY <1>3, <1>6, <2>1, <2>3 DEF CollectorWakes, TypeOK, Parked, t
    <3>2. QED BY <1>1, <2>1, <3>1, LifeStep
  <2>4. QED BY <2>2, <2>3
<1>7. CASE EventAnswer(c)
  <2>1. o \in Busy(t) /\ Busy(t)' \in {Busy(t), Busy(t) \ {o}}
    BY <1>3, <1>4, <1>7 DEF EventAnswer
  <2>2. rec'[t].status \in Active \cup Terminal
    BY <1>5, <1>7, PendingWritten DEF EventAnswer
  <2>3. QED BY <1>1, <2>1, <2>2, LifeStep
<1>8. CASE EventWindowEnds(c)
  <2>1. Busy(t)' = Busy(t)
    BY <1>3, <1>4, <1>8 DEF EventWindowEnds, TypeOK
  <2>2. rec'[t].status = rec[t].status
    BY <1>1, <1>8 DEF EventWindowEnds, StoreWithPending, TypeOK, TaskRecord
  <2>3. QED BY <1>1, <2>1, <2>2, LifeStep
<1>9. CASE MessagesListed(c)
  <2>1. o \in Busy(t)
    BY <1>4, <1>9 DEF MessagesListed
  <2>2. CASE AnswersTo(coll[c]) = {}
    <3>1. rec' = rec /\ Busy(t)' = Busy(t) \ {o}
      BY <1>3, <1>9, <2>2 DEF MessagesListed, TypeOK, Parked
    <3>2. QED BY <1>1, <2>1, <3>1, LifeStep
  <2>3. CASE AnswersTo(coll[c]) # {}
    <3>1. rec'[t].status \in Active \cup Terminal
      BY <1>5, <1>9, <2>3 DEF MessagesListed, TypeOK
    <3>2. Busy(t)' \in {Busy(t), Busy(t) \ {o}}
      BY <1>3, <2>1
    <3>3. QED BY <1>1, <2>1, <3>1, <3>2, LifeStep
  <2>4. QED BY <2>2, <2>3
<1>10. CASE ListingFails(c)
  <2>1. o \in Busy(t) /\ Busy(t)' \in {Busy(t), Busy(t) \ {o}}
    BY <1>3, <1>4, <1>10 DEF ListingFails
  <2>2. rec'[t].status \in Active \cup Terminal
    BY <1>1, <1>10 DEF ListingFails, TypeOK, TaskRecord, Terminal, t
  <2>3. QED BY <1>1, <2>1, <2>2, LifeStep
<1>11. CASE WindowElapses(c)
  <2>1. Busy(t)' = Busy(t)
    BY <1>3, <1>4, <1>11 DEF WindowElapses, TypeOK, Parked
  <2>2. CASE rec[t].status \in Active
    <3>1. rec'[t].status \in {"running"} \cup Terminal
      BY <1>1, <1>11, <2>2 DEF WindowElapses, TypeOK, TaskRecord, Terminal, t
    <3>2. QED BY <1>1, <2>1, <2>2, <3>1, LifeStep
  <2>3. CASE rec[t].status \notin Active
    <3>1. rec' = rec
      BY <1>11, <2>3 DEF WindowElapses, t
    <3>2. QED BY <1>1, <2>1, <3>1, LifeStep
  <2>4. QED BY <2>2, <2>3
<1>12. QED BY <1>6, <1>7, <1>8, <1>9, <1>10, <1>11 DEF CollectorStep

\* A step that leaves every status and everything busy as it is.
LEMMA LifeStutter ==
    ASSUME \A t \in Tasks : rec'[t].status = rec[t].status /\ Busy(t)' = Busy(t)
    PROVE  [L!Next]_(L!lifeVars)
<1>1. StatusOf' = StatusOf /\ BusyOf' = BusyOf
  BY DEF StatusOf, BusyOf
<1>2. QED BY <1>1 DEF L!lifeVars, StatusOf, BusyOf

\* The detailed specification implements the abstract life of a task.
THEOREM ImplementsLifecycle == Spec => Lifecycle
<1>1. Init => L!Init
  <2> SUFFICES ASSUME Init PROVE L!Init
    OBVIOUS
  <2>1. \A t \in Tasks : Busy(t) = {}
    BY DEF Init, Busy, Parked
  <2>2. \A t \in Tasks : rec[t].status = "absent"
    BY DEF Init, NoRecord
  <2>3. QED BY <2>1, <2>2 DEF L!Init
<1>2. ASSUME Inv, [Next]_vars PROVE [L!Next]_(L!lifeVars)
  <2> USE DEF Inv
  <2>1. ASSUME NEW e \in Execs, ExecBegin(e) \/ ExecStep(e) PROVE [L!Next]_(L!lifeVars)
    BY <1>2, <2>1, ExecIsLife
  <2>2. ASSUME NEW c \in Cancels, CancelBegin(c) \/ CancelFinish(c) PROVE [L!Next]_(L!lifeVars)
    BY <1>2, <2>2, CancelIsLife
  <2>3. ASSUME NEW c \in Execs, CollectorStep(c) PROVE [L!Next]_(L!lifeVars)
    BY <1>2, <2>3, CollectorIsLife
  <2>4. ASSUME NEW m \in Execs, AgentStep(m) PROVE [L!Next]_(L!lifeVars)
    <3>1. \A t \in Tasks : Untouched(t)
      BY <1>2, <2>4, AgentTouchesNothing
    <3>2. \A t \in Tasks : Busy(t)' = Busy(t)
      BY <3>1 DEF Untouched, Busy
    <3>3. QED BY <3>1, <3>2, LifeStutter DEF Untouched
  <2>5. CASE Crash
    <3>1. \A t \in Tasks : Busy(t)' = {}
      BY <1>2, <2>5 DEF Crash, Busy, Ended, Parked, TypeOK
    <3>2. L!Restart
      BY <2>5, <3>1 DEF Crash, L!Restart
    <3>3. QED BY <3>2 DEF L!Next
  <2>6. CASE Recovery
    <3>1. CASE Boot \/ Serve
      <4>1. \A t \in Tasks : Busy(t)' = Busy(t)
        BY <3>1 DEF Boot, Serve, Busy
      <4>2. QED BY <3>1, <4>1, LifeStutter DEF Boot, Serve
    <3>2. ASSUME NEW t \in Tasks, RecoverTask(t) PROVE [L!Next]_(L!lifeVars)
      <4>1. Busy(t)' = Busy(t)
        BY <3>2 DEF RecoverTask, Busy
      <4>2. \A u \in Tasks \ {t} : Untouched(u)
        BY <1>2, <3>2 DEF RecoverTask, Untouched, TypeOK
      <4>3. rec[t].status \in Active /\ rec'[t].status \in {"running"} \cup Terminal
        BY <1>2, <3>2 DEF RecoverTask, RecoveryIsExact, TypeOK, TaskRecord, Terminal
      <4>4. QED BY <1>2, <4>1, <4>2, <4>3, LifeStep
    <3>3. QED BY <2>6, <3>1, <3>2 DEF Recovery
  <2>7. CASE UNCHANGED vars
    <3>1. \A t \in Tasks : Busy(t)' = Busy(t)
      BY <2>7 DEF vars, Busy
    <3>2. QED BY <2>7, <3>1, LifeStutter DEF vars
  <2>8. QED BY <1>2, <2>1, <2>2, <2>3, <2>4, <2>5, <2>6, <2>7 DEF Next
<1>3. QED BY <1>1, <1>2, InvHolds, PTL DEF Spec, Lifecycle, L!Spec
=============================================================================
