----------------------------- MODULE TaskRecords ----------------------------
(***************************************************************************)
(* The task records of task_store.py as files: what is written of a record *)
(* that is too large, what can be read back, and how recovery ends the     *)
(* tasks of the process before (recovery.py), those too whose file it      *)
(* cannot load.  What the handlers write is in module Tasks.               *)
(*                                                                         *)
(* A record is the sizes of its parts.  Tasks are numbered in the order of *)
(* their file names.                                                       *)
(***************************************************************************)
EXTENDS Integers, FiniteSets, FiniteSetsExt

CONSTANTS
  MaxTasks,      \* tasks 1 .. MaxTasks
  LimitSettings, \* the limits that an environment may set
  Sizes,         \* sizes of a part
  MaxEvents,     \* bound on the events of a record
  NoRecord       \* no file

TaskIds == 1 .. MaxTasks

Parts == [bulk : Nat, events : Nat, details : Nat, error : Nat]

VARIABLES
  disk,    \* the files
  limits,  \* task_store_limits, of this process
  fresh    \* the tasks whose files this process wrote

recordVars == <<disk, limits, fresh>>

ActiveStatuses == {"accepted", "running"}

\* bulk: input, artifacts and most of the output; details: summary, message ids, cursor
\* and the like.  sound: the file is a record of this version.
Record == [status : ActiveStatuses \cup {"ended", "blocked"}, bulk : Nat, events : Nat,
           details : Nat, error : Nat, sound : BOOLEAN]

ASSUME TaskRecordsAssumption ==
  /\ MaxTasks \in Nat
  /\ LimitSettings \subseteq [load : Nat, persist : Nat \ {0}, tail : Nat, list : Nat, scan : Nat]
  /\ Sizes \subseteq Nat /\ 0 \in Sizes
  /\ MaxEvents \in Nat
  /\ NoRecord \notin Record

RecordsInit ==
  /\ disk = [t \in TaskIds |-> NoRecord]
  /\ limits \in LimitSettings
  /\ fresh = {}

\* The fields of every form are 1.
Size(r) == 1 + r.bulk + r.events + r.details + r.error

Files == {t \in TaskIds : disk[t] # NoRecord}

-----------------------------------------------------------------------------
(* Reading one *)

\* get: a file over the load limit, or one that is no record, raises.
Loads(t) == t \in Files /\ disk[t].sound /\ Size(disk[t]) <= limits.load

\* What a reader of the task is answered: get_task_handler and _task_store_error_response.
AnswerCode(t) ==
  CASE t \notin Files -> 404
    [] Loads(t) -> 200
    [] OTHER -> IF Size(disk[t]) > limits.load THEN 413 ELSE 422

-----------------------------------------------------------------------------
(* Writing *)

\* _minimal_record_for_persistence, with the last events or none.
Minimal(r, tail) == [r EXCEPT !.bulk = 0, !.events = Min({@, tail})]

\* _ultra_minimal_record_for_persistence
UltraMinimal(r) == [r EXCEPT !.bulk = 0, !.events = 0, !.details = 0]

\* The forms that fit, or none.
LargestFitting(forms, lim) ==
  LET fits == {f \in forms : Size(f) <= lim.persist}
  IN  IF fits = {} THEN NoRecord ELSE CHOOSE f \in fits : \A g \in fits : Size(g) <= Size(f)

\* Mutant: the smallest form is not measured.
EncodeAnyway(r, lim) ==
  LET form == LargestFitting({r, Minimal(r, lim.tail), Minimal(r, 0)}, lim)
  IN  IF form = NoRecord THEN UltraMinimal(r) ELSE form

\* _encode_record_for_persistence
Encode(r, lim) ==
  LargestFitting({r, Minimal(r, lim.tail), Minimal(r, 0), UltraMinimal(r)}, lim)

\* save: a record that fits in no form is not written, and the one that is there stays.
Save(t, r) ==
  LET encoded == Encode(r, limits)
  IN  /\ disk' = [disk EXCEPT ![t] = IF encoded = NoRecord THEN @ ELSE encoded]
      /\ fresh' = IF encoded = NoRecord THEN fresh ELSE fresh \cup {t}
      /\ UNCHANGED limits

\* create_or_get, of a task that is not there.
CreateOrGet(t) ==
  /\ t \notin Files
  /\ \E bulk, details \in Sizes :
       Save(t, [status |-> "accepted", bulk |-> bulk, events |-> 0, details |-> details,
                error |-> 0, sound |-> TRUE])

\* update: the record that is there, with other values.
Update(t) ==
  /\ Loads(t)
  /\ \E status \in {"running", "ended"}, bulk, details, error \in Sizes :
       Save(t, [disk[t] EXCEPT !.status = status, !.bulk = bulk, !.details = details,
                               !.error = error])

\* append_event
AppendEvent(t) ==
  /\ Loads(t)
  /\ disk[t].events < MaxEvents
  /\ Save(t, [disk[t] EXCEPT !.events = @ + 1])

-----------------------------------------------------------------------------
(* Reading many *)

\* What is scanned: which files those are is up to the file system.
Scans == IF limits.list = 0 THEN {{}} ELSE kSubset(Min({limits.scan, Cardinality(Files)}), Files)

\* list_all, iter_active: the first of them that load.
ListedTasks(scanned) ==
  LET loaded == {t \in scanned : Loads(t)}
  IN  {t \in loaded : Cardinality({u \in loaded : u <= t}) <= limits.list}

\* Mutant: only the list's own limit is looked at.
PossiblyTruncatedList == limits.list > 0 /\ Cardinality(Files) > limits.list

\* possibly_truncated; a limit of 0 does not count.
PossiblyTruncated == \/ limits.list > 0 /\ Cardinality(Files) > limits.list
                     \/ limits.scan > 0 /\ Cardinality(Files) > limits.scan

\* queue_status_handler: the tasks per status.
Counts(scanned) ==
  [s \in ActiveStatuses \cup {"ended", "blocked"} |->
     Cardinality({t \in ListedTasks(scanned) : disk[t].status = s})]

\* find_for_opencode_event, of an event of the session whose tasks are ours: the first task
\* whose message it names or, if it names none, the only one that is active.
FindForEvent(scanned, ours, named) ==
  LET candidates == ListedTasks(scanned) \cap ours
      matches == {t \in candidates : t \in named /\ disk[t].details > 0}
      running == {t \in candidates : disk[t].status \in ActiveStatuses}
  IN  IF matches # {} THEN {Min(matches)}
      ELSE IF named = {} /\ Cardinality(running) = 1 THEN running ELSE {}

-----------------------------------------------------------------------------
(* Restart and recovery *)

\* _blocked_after_restart_record: with an event and an error.
Blocked(r) ==
  [r EXCEPT !.status = "blocked", !.events = @ + 1, !.error = 1, !.sound = TRUE]

\* _active_record_from_task_file_prefix: what the first bytes of a file say.
FromPrefix(r) == [r EXCEPT !.bulk = 0, !.events = 0, !.details = 0, !.error = 0]

\* Mutant: only what can be loaded is ended.
RecoveredLoaded(r, lim) ==
  IF r.sound /\ Size(r) <= lim.load THEN Encode(Blocked(r), lim) ELSE NoRecord

\* What recovery writes for an active task: from its record or, when that does not load,
\* from what is in front.
Recovered(r, lim) ==
  Encode(Blocked(IF r.sound /\ Size(r) <= lim.load THEN r ELSE FromPrefix(r)), lim)

\* The process ends.  Meanwhile another version may have written some of the files.  The
\* next process may have other limits; it ends the tasks that it finds active.  A task
\* that it can neither write nor load raises, and those behind are left.
RecordsRestart ==
  \E lim \in LimitSettings, odd \in SUBSET Files :
     LET found == [t \in TaskIds |-> IF t \in odd THEN [disk[t] EXCEPT !.sound = FALSE] ELSE disk[t]]
         active == {t \in Files : found[t].status \in ActiveStatuses}
         loaded == {t \in active : found[t].sound /\ Size(found[t]) <= lim.load}
         refused == {t \in active : Recovered(found[t], lim) = NoRecord}
         reached == {s \in SUBSET (active \ (loaded \cup refused)) :
                       refused \subseteq loaded => s = active \ (loaded \cup refused)}
     IN  /\ limits' = lim
         /\ \E s \in reached :
              LET ends == (loaded \ refused) \cup s
              IN  /\ disk' = [t \in TaskIds |-> IF t \in ends THEN Recovered(found[t], lim) ELSE found[t]]
                  /\ fresh' = ends

RecordsNext ==
  \/ \E t \in TaskIds : CreateOrGet(t) \/ Update(t) \/ AppendEvent(t)
  \/ RecordsRestart

RecordsSpec == RecordsInit /\ [][RecordsNext]_recordVars

-----------------------------------------------------------------------------
(* Properties *)

\* No task of an earlier process is left running, however large its file is and whichever
\* version wrote it; unless the limit leaves no room for a record at all.
NoneLeftRunning ==
  \A t \in Files \ fresh : disk[t].status \in ActiveStatuses => limits.persist < 2

\* What a process has written it can read, however often the record grew, if it may load as
\* much as it may write.
StaysReadable ==
  limits.persist <= limits.load => \A t \in fresh : AnswerCode(t) = 200

\* When every file loads and the store does not say that it saw only some, an event
\* without a message is bound to the only active task of its session, or to none, and the
\* status of the queue counts every task.
FindIsRight ==
  (\A t \in Files : Loads(t)) /\ ~PossiblyTruncated /\ limits.list * limits.scan > 0
    => \A scanned \in Scans :
         /\ \A ours \in SUBSET TaskIds :
              LET running == {t \in ours \cap Files : disk[t].status \in ActiveStatuses}
              IN  FindForEvent(scanned, ours, {}) =
                    IF Cardinality(running) = 1 THEN running ELSE {}
         /\ \A s \in DOMAIN Counts(scanned) :
              Counts(scanned)[s] = Cardinality({t \in Files : disk[t].status = s})

=============================================================================
