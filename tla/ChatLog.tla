------------------------------- MODULE ChatLog ------------------------------
(***************************************************************************)
(* The chat log of chatlog_store.py as a store: one file per session, a    *)
(* bounded cache before it, the start and the end of an entry written at   *)
(* once and the events between them at most once per interval.  The        *)
(* handlers, the event bridge and recovery write it; what they write is in *)
(* module ChatRuns.                                                        *)
(*                                                                         *)
(* Files are replaced whole, so that none is torn; that one is damaged     *)
(* from outside is left out.  Of an entry's events the number counts.      *)
(***************************************************************************)
EXTENDS Integers, Sequences, FiniteSets

CONSTANTS
  Logs,        \* the sessions, by file name
  RequestIds,  \* the request ids of entries
  NoFile,      \* no file
  CacheSize,   \* max_cached_sessions
  MaxEntries,  \* bound on the entries of a session
  MaxEntryEvents \* bound on the events of an entry

VARIABLES
  stored,   \* the files
  memory,   \* _cache: the payloads
  recency,  \* its order: of each session its place, 1 is the least recently used; 0: not in it
  pending,  \* _pending: what memory has and the disk has not
  recent,   \* the sessions whose _last_write_at is within the interval
  truth,    \* what was written to each session, where no write failed
  unsure    \* the sessions whose last write failed

chatLogVars == <<stored, memory, recency, pending, recent, truth, unsure>>

\* "ended": with an answer or an error.
Statuses == {"running", "ended"}

Entry == [id : RequestIds, status : Statuses, events : Nat]

ASSUME ChatLogAssumption ==
  /\ CacheSize \in Nat \ {0} /\ MaxEntries \in Nat /\ MaxEntryEvents \in Nat
  /\ NoFile \notin Seq(Entry)

ChatLogInit ==
  /\ stored = [s \in Logs |-> NoFile]
  /\ memory = [s \in Logs |-> <<>>]
  /\ recency = [s \in Logs |-> 0]
  /\ pending = {} /\ recent = {}
  /\ truth = stored /\ unsure = {}

Cached(s) == recency[s] # 0

\* What get returns.
View(s) == IF Cached(s) THEN memory[s] ELSE stored[s]

-----------------------------------------------------------------------------
(* The cache *)

Others(s) == {t \in Logs \ {s} : Cached(t)}

\* The place of one among some that are in the cache.
Rank(t, among) == Cardinality({u \in among : recency[u] <= recency[t]})

\* Mutant: what is not yet on disk goes like the rest.
EvictedAny(s) == {t \in Others(s) : Rank(t, Others(s)) <= Cardinality(Others(s)) + 1 - CacheSize}

\* What goes when s is used: of the others the least recently used, as many as are over
\* the cap, but none that is not yet on disk.
Evicted(s) ==
  LET free == Others(s) \ pending
  IN  {t \in free : Rank(t, free) <= Cardinality(Others(s)) + 1 - CacheSize}

\* Those stay, in their order.
Keep(kept) == [t \in Logs |-> IF t \in kept THEN Rank(t, kept) ELSE 0]

\* move_to_end
MovesToEnd(s, kept) == recency' = [Keep(kept) EXCEPT ![s] = Cardinality(kept) + 1]

\* _remember: s is the last used.
Remember(s, payload) ==
  /\ MovesToEnd(s, Others(s) \ Evicted(s))
  /\ memory' = [t \in Logs |-> IF t = s THEN payload
                               ELSE IF t \in Evicted(s) THEN <<>> ELSE memory[t]]

\* get: a file that is not cached is read, and cached.
Get(s) ==
  /\ View(s) # NoFile
  /\ IF Cached(s)
     THEN MovesToEnd(s, Others(s)) /\ UNCHANGED <<memory, recent>>
     ELSE Remember(s, stored[s]) /\ recent' = recent \ Evicted(s)
  /\ UNCHANGED <<stored, pending, truth, unsure>>

-----------------------------------------------------------------------------
(* Writing *)

\* _write: the file has the payload, and with it all that was pending; or the disk fails,
\* only the memory has it, and the caller is told.
Write(s, payload, intended) ==
  /\ Remember(s, payload)
  /\ \/ /\ stored' = [stored EXCEPT ![s] = payload]
        /\ pending' = pending \ {s}
        /\ recent' = (recent \ Evicted(s)) \cup {s}
        /\ truth' = [truth EXCEPT ![s] = IF s \in unsure THEN payload ELSE intended]
        /\ unsure' = unsure \ {s}
     \/ /\ recent' = recent \ Evicted(s)
        /\ unsure' = unsure \cup {s}
        /\ truth' = [truth EXCEPT ![s] = NoFile]
        /\ UNCHANGED <<stored, pending>>

\* _write_coalesced: within the interval only the memory has it.
WriteCoalesced(s, payload, intended) ==
  IF s \in recent
  THEN /\ Remember(s, payload)
       /\ pending' = pending \cup {s}
       /\ recent' = recent \ Evicted(s)
       /\ truth' = [truth EXCEPT ![s] = IF s \in unsure THEN NoFile ELSE intended]
       /\ UNCHANGED <<stored, unsure>>
  ELSE Write(s, payload, intended)

\* The entries as a payload that may be missing has them.
Entries(payload) == IF payload = NoFile THEN <<>> ELSE payload

WithNew(payload, id) == Append(Entries(payload), [id |-> id, status |-> "running", events |-> 0])

\* _find_entry: the last of its id.  An entry that is not there is created, running.
WithEntry(payload, id) ==
  IF \E i \in DOMAIN Entries(payload) : payload[i].id = id THEN payload ELSE WithNew(payload, id)

Place(payload, id) ==
  CHOOSE i \in DOMAIN payload : payload[i].id = id /\ \A j \in i + 1 .. Len(payload) : payload[j].id # id

Finished(payload, id, events) ==
  LET p == WithEntry(payload, id)
  IN  [p EXCEPT ![Place(p, id)].status = "ended", ![Place(p, id)].events = events]

Extended(payload, id) ==
  LET p == WithEntry(payload, id)
  IN  [p EXCEPT ![Place(p, id)].events = @ + 1]

StartEntry(s, id) ==
  /\ Len(Entries(View(s))) < MaxEntries
  /\ Write(s, WithNew(View(s), id), WithNew(truth[s], id))

\* Mutant: the end of an entry may wait like an event.
FinishCoalesced(s, id) ==
  /\ Len(WithEntry(View(s), id)) <= MaxEntries
  /\ \E events \in 0 .. 1 :
       WriteCoalesced(s, Finished(View(s), id, events), Finished(truth[s], id, events))

\* finish_entry, fail_entry: with the events the caller has, in the place of those that
\* the bridge appended.
FinishEntry(s, id) ==
  /\ Len(WithEntry(View(s), id)) <= MaxEntries
  /\ \E events \in 0 .. 1 :
       Write(s, Finished(View(s), id, events), Finished(truth[s], id, events))

AppendToEntry(s, id) ==
  /\ Len(WithEntry(View(s), id)) <= MaxEntries
  /\ LET p == Extended(View(s), id)
     IN  /\ \A i \in DOMAIN p : p[i].events <= MaxEntryEvents
         /\ WriteCoalesced(s, p, Extended(truth[s], id))

\* delete: file and memory.
Delete(s) ==
  /\ View(s) # NoFile
  /\ recency' = Keep(Others(s))
  /\ memory' = [memory EXCEPT ![s] = <<>>]
  /\ pending' = pending \ {s} /\ recent' = recent \ {s}
  /\ stored' = [stored EXCEPT ![s] = NoFile]
  /\ truth' = [truth EXCEPT ![s] = NoFile] /\ unsure' = unsure \ {s}

-----------------------------------------------------------------------------
(* Time and restarts *)

IntervalPasses ==
  /\ \E s \in recent : recent' = recent \ {s}
  /\ UNCHANGED <<stored, memory, recency, pending, truth, unsure>>

\* flush_chatlog_store, at a shutdown: flush_all writes what is pending, one by one.
Flush ==
  /\ \E s \in pending : Cached(s) /\ Write(s, memory[s], truth[s])

\* The process ends, flushed or not, and another has the files.
LogRestart ==
  /\ recency' = [s \in Logs |-> 0]
  /\ memory' = [s \in Logs |-> <<>>]
  /\ pending' = {} /\ recent' = {} /\ unsure' = {}
  /\ truth' = stored
  /\ UNCHANGED stored

ChatLogNext ==
  \/ \E s \in Logs : Get(s) \/ Delete(s)
  \/ \E s \in Logs, id \in RequestIds :
       StartEntry(s, id) \/ FinishEntry(s, id) \/ AppendToEntry(s, id)
  \/ IntervalPasses \/ Flush \/ LogRestart

ChatLogSpec == ChatLogInit /\ [][ChatLogNext]_chatLogVars

-----------------------------------------------------------------------------
(* Properties *)

\* What a reader is given is what was written, whatever was evicted in between and
\* however much of it is not yet on disk; short of a write that failed.
ReadsExact == \A s \in Logs \ unsure : View(s) = truth[s]

\* An entry that readers see ended has ended on disk as well, so that a crash cannot
\* make it run again.
OutcomeOnDisk ==
  \A s \in Logs \ unsure : \A i \in DOMAIN Entries(View(s)) :
     View(s)[i].status # "running"
       => i \in DOMAIN Entries(stored[s]) /\ stored[s][i].status = View(s)[i].status

=============================================================================
