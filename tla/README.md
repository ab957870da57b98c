# Verification of the EFP OpenCode runtime adapter

The repository is an adapter (`efp_opencode_adapter`, Python, aiohttp) between a
web portal and an OpenCode server it runs as a child process. The portal starts
chat runs and background tasks in sessions, answers OpenCode's permission
requests, and reconnects when connections break; the adapter keeps its own
records of all that, in memory and in JSON files, and recovers them at a restart.

The whole adapter runs in one asyncio loop. A coroutine is interrupted only at an
`await` that really suspends. So the hard part is never a data race; it is a record
read before an await and written after it, two coroutines parked in the same
window, a call to OpenCode that timed out although it took effect, and a process
that stops between two writes. The modules below are about exactly that: an action
is the code between two suspending awaits, and a program counter names the await.

## Inventory

| Component | State it keeps | Operations | Hard behaviour | What makes it correct |
|---|---|---|---|---|
| Background tasks (`tasks_api.py`, `task_store.py`) | a record per task; the set of collector coroutines | execute, cancel, collect, read | duplicate executes, cancel against collect, shared sessions, time-outs, permissions | no active task is orphaned, one collector, own answers only, a finished task is final |
| Restart recovery (`recovery.py`) | - | mark tasks blocked, chat entries interrupted | what a crash left behind | marks exactly what was interrupted |
| Permission cards (`pending_input.py`, `permissions_api.py`) | one card per session, a claim on it, an LRU order | observe events, claim, release, clear, answer | two clicks, failing calls, repeated or lost events | one answer, no inert card, cards of waiting permissions survive |
| Chat runs (`chat_api.py`, `chat_run_registry.py`) | a record per request, its task, its viewers | stream, chat, cancel, status, reconnect | disconnects, duplicates, pruning, three writers of one end | one live stream run per request, every run and viewer ends, no phantom run |
| Chat log (`chatlog_store.py`) | entries per session, a write-back cache | start, finish, append, flush | entries of one request, lost appends | the log does not contradict the registry |
| Sessions (`session_store.py`, `sessions_api.py`) | portal session to OpenCode session | create, delete, clear, edit, fork, rename | delete or edit against a running chat | a deleted session stays deleted |
| Session titles (`session_title.py`) | the title and who gave it | generate, rename | rename during the model call | a rename is never overwritten |
| Event bus (`event_bus.py`) | subscriber queues, a replay ring | publish, subscribe, replay | full queues, replay against live events | order, no duplicate, loss only at the limit |
| Event bridge (`event_bridge.py`, `request_bindings.py`) | connection, caches, request of a session | read, normalise, publish, reconnect | reconnects, attribution of events | events go to the request that caused them |
| Process supervisor (`opencode_process.py`) | the child, counters, back-off | start, stop, restart, watch | watchdog against stop | one child and one open log, patience, no child after a stop, OpenCode comes back |
| Chat send (`chat_api.py`, `opencode_message_adapter.py`, `opencode_client.py`) | the messages noted before a prompt | post, probe after a broken call, poll, pick the answer | posts that time out while OpenCode works, answers of earlier chats, steps that are not final | the chat ends with its own answer, a broken post is not the end |
| Copilot and AI platform credentials (`copilot_plugin_auth.py`, `ai_platform_proxy.py`, `copilot_quota.py`) | a cached answer and a lock each | get, renew, forward | calls that queue while the account changes or the question fails | one question for all who wait, no answer of another account or about to end |
| Copilot automatic routing (`copilot_auto_session.py`, `copilot_auto_catalog.py`) | decisions by turn, a catalog, the last routing | route, list, judge, report | requests of a turn together, decisions that age or are pushed out | one model for a turn, the report names the model used |
| Task record files (`task_store.py`) | a file per task, limits | save in a form that fits, load, list, find | records over the limits, listings cut short | what is written can be read, nothing stays running, a partial listing is known as such |
| Usage (`usage_tracker.py`, `copilot_pricing.py`) | an append-only file | append, sum, price | a row torn by a crash, a threshold on sums | every whole row counted once, steps priced as requests |
| Context (`context_api.py`) | - (OpenCode's messages) | measure, compact | marks, failed summaries, reverts, rounding | what counts is what the model sees, categories add up |
| User display store (`user_display_store.py`) | the user's words and the answering model per message | put, find, delete | sessions moved by edits, failed writes, restarts | each message shown with its user's words, nothing left of a deleted session |
| Files, skills, configuration | files | per-request or boot-time I/O | - | not a protocol; see "Not modelled" |

How they interact: the chat and task handlers call OpenCode through one client and
write their store directly; every event, from OpenCode by way of the bridge or from
a handler, is published on the bus, which calls its observers (the card store among
them) in the publishing step; sessions are shared by chats and tasks, and OpenCode's
stream shows all of a session to everyone who listens. The complete list of
components, the ones not modelled and the hazards at their lines are in
`PROJECT.json`.

## Plan

The modules are written in the order of what a user of the portal loses when the
part is wrong.

| Step | Module | Composes or refines | State |
|---|---|---|---|
| 1 | `Tasks` | implements `TaskLifecycle`; contains the session map and restart recovery as far as tasks use them | modelled, checked, proved |
| 2 | `Permissions` | card store, both answering routes, event stream | modelled, checked, proved |
| 3 | `ChatRuns` | chat routes, registry, chat log status, recovery | modelled, checked, proved |
| 4 | `Sessions` | sessions, titles, and the chats, edits and tasks that use them | modelled, checked, proved |
| 5 | `EventBus`, `EventBridge` | bus queues and replay; the bridge's connection and the attribution of events to requests, composed with the bus | modelled, checked, proved |
| 6 | `Supervisor` | the child process, its log pump, the watchdog, start and cleanup | modelled, checked, proved |
| 7 | `Credentials` | the three credential caches, which are one algorithm | modelled, checked, proved |
| 8 | `Transcript` | user display store, with the chats, edits and deletions that write it | modelled, checked, proved |
| 9 | `ChatSend` | what a chat run does with OpenCode between its session and its outcome | modelled, checked, proved |
| 10 | `ChatLog`, `TaskRecords`, `Usage` | the stores as files: caches, limits, torn rows, restarts | modelled, checked, proved |
| 11 | `AutoRouting`, `ContextWindow` | the model of a turn; the context meter and manual compaction | modelled, checked, proved |

The abstract specification is `TaskLifecycle`, which `Tasks` is shown to implement. What
would add most next: the six-hour rules of
registry and event buckets, and one composition of `ChatRuns` with `ChatSend`, so that a
cancel meets a probe.

## The modules and the code

Conventions. A variable that holds a function from requests to records with a `pc`
is the set of coroutines of one handler; `pc` names the await a coroutine is parked
at. An action is the whole code from one suspending await to the next. Actions and
operators whose comment begins with "Mutant" are not part of `Next`: they are
plausible wrong versions of the definition after them, and a property that does not
fail when one replaces the right version would not be worth its run.

### `Tasks` and `TaskLifecycle`

| In the model | In the code |
|---|---|
| `rec[t]` | the JSON record of `task_store.py`: `status`, `opencode_session_id`, `opencode_message_id`, pending permissions, origin of `output_payload` |
| `sess[p]` | the portal session's OpenCode session in `session_store.py` |
| `ex[e]`, `ExecBegin` ... `DispatchFails` | `execute_task_handler`: look-up and `_ensure_session` (`get`, `create`), save, `list_messages` (`list`), `prompt_async` (`prompt`), `_mark_dispatch_error` |
| `cn[c]` | `cancel_task_handler`; `remote` is the abort call |
| `coll[c]` | `collect_task_completion` as scheduled by `background_tasks.py`: event window (`listen`), poll (`list`), end of the window (`sleep`) |
| `where`, `reply`, `perm` | OpenCode: in which session a prompt arrived, what was answered, what permission its run asked for |
| `replaced` | bookkeeping of the model: tasks whose record an execute saved anew while a collector waited with it |
| `Crash`, `Boot`, `RecoverTask`, `Serve` | stop of the process; `recovery.py` before the first request is served |

`TaskLifecycle` is what a caller is promised: a task changes only through an
operation that became busy with it while it was unfinished. `Tasks!L` is the
refinement mapping; `Lifecycle` is checked as a property and proved.

### `Permissions`

`card` and `order` are `PendingInputStore._items`, an ordered dictionary with a claim
on each value. `Record`, `Clear` and `ClearAny` are `observe`, `record` and `clear`;
`Claim`, `RespondSucceeds` and `RespondFails` are the session route, `DirectCalls`,
`DirectSucceeds` and `DirectFails` the direct route. `line` is what OpenCode has sent
and the bridge has not read; `StreamBreaks` loses it. `landed` separates the effect of
a call in OpenCode from the answer the handler gets: a call may land after its
handler gave up.

### `ChatRuns`

`reg` and `task` are `ChatRunRegistry`; `log` the status of the latest chat log entry
of a request, `left` whether an older entry of it still says running; `run` the
coroutine `handle_chat_payload_for_app` (parked before its session is ready, while
OpenCode works, or while the end is reported); `view` the handlers of
`/api/chat/stream`, following their own run or watching a recorded one; `cn` the cancel
route. `Status` is `_chat_run_status_payload`. `RecordDone` is the task's done callback,
which runs later than the end of the task, in any order with `StreamSees`. `WriteFails`
is a write to the client that fails once the run is over, also after its answer was
recorded: the record is failed then. `struck` is a history variable: it decides nothing and
remembers the requests of which another run's end was recorded on the record of a live run.

### `Sessions`

| In the model | In the code |
|---|---|
| `rec[p]` | the `SessionRecord` of a portal session: OpenCode session, `deleted`, manual and generated title, and (as `used`) whether last message and count tell of a turn. Every write of `session_store.py` stores a changed copy, so a record that a handler holds is the one it read |
| `turn[x]` | `_ensure_record_for_chat` (`get`, `create`), the chat's wait for OpenCode (`send`) and for the portal (`told`); an execute only as far as `_ensure_session` |
| `title[x]` | a background title call (`start`, `call`, `publish`) or the call of the title route |
| `edit[e]` | delete-from-here, edit and asynchronous edit: first listing (`look`), the listing of `_delete_from_here` (`list`), forking (`fork`), resending (`send`); the asynchronous edit starts chat `ResendOf[e]` |
| `gone[k]` | a delete or a clear: what was listed and is still to be deleted, and the call under way |
| `ren[r]` | a rename, parked while it reads the body |
| `oc`, `talk` | OpenCode: which of its sessions exist, and the turns they hold |
| `log[p]` | whether the session has a chat log |

A restart needs no action: the store is written through, and a request that the stop of
the process ends is in the model one that takes no further step.

### `Supervisor`

| In the model | In the code |
|---|---|
| `process`, `output`, `stopping` | `OpenCodeProcessManager.process`, `_output_task`, `_stopping` |
| `failures`, `backoff` | the local variables of `run_watchdog`; `backoff` says that `restart_backoff_until` is ahead |
| `at[a]` | the await at which the main coroutine (start and cleanup hooks of `server.py`) or the watchdog is parked: `spawn`, `ready` in `start`; `term`, `drain` in `stop`; `sleep`, `probe` in `run_watchdog` |
| `kid`, `pumps` | the operating system: the condition of each child ever spawned, and which log pumps still have the file open |
| `faults`, `missed` | bookkeeping of the model: how much has gone wrong, and what the watchdog has seen of a child |

`Start` is `start` up to the spawn, also as the second half of `restart`; `GiveUp` is what
its caller does when it raises. `Cleanup` cancels the watchdog wherever it is parked and
begins the last `stop`.

### `EventBus` and `EventBridge`

`EventBus` has the bus, its clients and the action operator `Publish`; `EventBridge` has
those who publish, the bindings and the specification.

| In the model | In the code |
|---|---|
| `log` | all events in the order of `publish`; a bucket of `_recent_by_session` or `_recent_by_request` is its last `ReplayLimit` events of that key (`InBucket`, `Forgotten`) |
| `client[c]` | a websocket of `events_ws_handler`: greeting under way (`joining`), what `recent_events` gave and is still to be sent (`replaying`), the sender (`live`), the subscriber's queue, what was sent; over its visits, the newest event it has (`last_event_at`) |
| `at[r]` | a chat run or an execute, as far as it touches bindings or publishes |
| `active`, `byMessage` | `_active`, `_by_message`; `Bound` reads `_by_task` off the prompts, which are bound in the same step |
| `before[c]` | `before_messages` of a chat |
| `line`, `hand`, `up` | what OpenCode has sent and the bridge not read, the delta for which it waits on `get_message`, the connection |
| `landed`, `replied` | OpenCode: prompts that arrived, maybe after their sender gave up, and begun answers |
| `mixed` | bookkeeping of the model: requests that attribution cannot tell apart |

`TaskNamed` and `Resolved` are the two look-ups of an event: the task store's by message
ids, and the bindings by message, by task, by session.

### `Credentials`

One module for three caches that are the same algorithm: look at the cache, queue at a
lock, look again, ask, store. `kind` says which of them an instance is.

| In the model | In the code |
|---|---|
| `cached`, `lock` | `_cached` with its fingerprint, `_lock` of `copilot_plugin_auth.py`, `ai_platform_proxy.py`, `copilot_quota.py` |
| `file` | the credential file, which another boot on the same volume may replace (`Rewritten`) |
| `call[c]` | a call to a proxy or the quota route: at the lock (`waiting`), in front of the provider (`asking`, `told`), with an answer (`served`) |
| `Unconfigured`, `Hits`, `Misses` | the look at file and cache before the lock |
| `FindsNone`, `FindsAnswer`, `Mints`, `Lacks`, `AsksProvider` | the second look, behind the lock |
| `Receives`, `Fails` | the answer; a failure, which the quota caches for a shorter time |
| `previous` | bookkeeping of the model: the answer before the cached one |

### `AutoRouting`

| In the model | In the code |
|---|---|
| `decisions`, `last`, `catalog`, `failed` | `_decisions`, `last_routing`, `_catalogs`, `_catalog_failed_at` of the session manager |
| `routing` | who waits at its `_lock`; the head holds it through the route call and the catalog call |
| `Reuses`, `AsksRoute`, `RouteFails`, `Picks`, `JudgesPick`, `ListsCatalog`, `ListingFails` | `resolve` from one await to the next |
| `ModelLimits`, `Preferred`, `Refuses`, `Clamp` | `copilot_auto_catalog.py`: limits of a row, which row to believe, picks the proxy cannot drive, the effort ladder |
| `Reports` | `_model_attribution` of the chat, which reads `last_routing` |
| `dropped`, `overtaken` | bookkeeping of the model: decisions that were forgotten, requests after which another was routed |

### `ChatLog` and `TaskRecords`

`ChatLog` is `chatlog_store.py` as a store: `stored` are the files, `memory` and `recency`
the bounded `_cache`, `pending` and `recent` what is coalesced. `Evicted` is the eviction in
`_remember`, `Write` and `WriteCoalesced` the two ways to the disk, of which the first may
fail. `truth` is what a store without cache would hold. `TaskRecords` is `task_store.py` as
files: a record is the sizes of its parts, `Encode` the ladder of forms in
`_encode_record_for_persistence`, `Loads` and `AnswerCode` what reading yields under the
limits, `ListedTasks`, `Counts` and `FindForEvent` the listings, and `RecordsRestart` a new
process, maybe with other limits or with files of another version, with the recovery of
`recovery.py` over it.

### `ChatSend`

| In the model | In the code |
|---|---|
| `history`, `work` | OpenCode's messages and whether it has, works on or has ended with a prompt |
| `chat[c].before` | `before_messages`, empty and `blind` if the listing failed |
| `ListsBefore`, `Posts`, `PostRefused`, `Disconnects` | `handle_chat_payload_for_app` up to the reply of `_send_message` or `execute_command`; `HasProbe` tells the two apart |
| `Probes`, `ProbeEnds` | `_probe_recoverable_send_acceptance` |
| `Completion` | `find_latest_assistant_completion` |
| `Polls`, `TimesOut`, `PollFails` | `_wait_for_visible_assistant_response` and its last probe |
| `TakesReply`, `AccountsFor`, `DetectedUser` | the listing at the end, and which messages the chat reports and books |
| `overlapped` | bookkeeping of the model: chats that were not alone |

### `ContextWindow`, `Usage`

`ActiveFrom` is the walk of `_active_context_messages`; `Scaled`, `Budget` and `Snapshot` the
meter; `ListsHistory` ... `RepliesWithBoth` the compaction handler; `Says`, `Responds`,
`Marks`, `Summarizes`, `Reverts` are OpenCode. In `Usage`, `lines` is the file, `open` whether
its last line lacks an end; `RecordChat`, `RecordReply`, `RecordSessionTitle` append a row,
whole or in part; `Summed`, `LargestPrompt`, `Tier`, `Usd` are the price of a run, `Summarize`
the summary. `Tally` has what both modules use: sums, and the elements of a sequence that are
kept.

### `Transcript`

| In the model | In the code |
|---|---|
| `session[p]` | the session record, as far as the transcript needs it; `leaving` while a deletion waits for OpenCode |
| `opened`, `gone`, `said` | OpenCode's sessions and their messages |
| `records`, `kept` | the payload of the display store in memory and on disk (`Saved` may fail) |
| `LooksUp` ... `PutsAttribution` | a chat: session, words put, prompt sent, attribution put |
| `EditMoves`, `PutsEdited`, `DeletesFromHere` | the edits, which move the session to a fork |
| `Found`, `Shown` | `get_user_message` and what the transcript shows |
| `lost`, `excused`, `mistaken` | bookkeeping of the model: what a process ended without, sessions deleted under a chat, prompts an edit took for its own |

### Compositions

Modules whose components share state are composed as such: `EventBridge` extends `EventBus`,
`Sessions` holds chats, tasks, edits and titles around one store, `Tasks` its restart recovery.
`MCServices` and `MCUpkeep` put components that share nothing into one run: `part` says which
of them is at work, the others rest in one of their initial states, so that their state
spaces add up. No property of one reads a variable of another.

## Runs

A run explores the union of a few small instances: its initial states are `Init` with
some of the requests already over without effect, so that each instance has only the
actors its hazard needs, and `Next` is the module's own. The `MC` modules define these
sets. `CHECK_DEADLOCK FALSE` everywhere: the requests of an instance are finitely
many, and when all are served the system stops.

| Run | Instance | Shows | States |
|---|---|---|---|
| `TasksShared` | t1 executed twice and cancelled, or t1 and t2 once each in one OpenCode session, or t1 executed and cancelled and the adapter restarted | `ActiveIsDriven`, `SuccessIsOwnAnswer` | 1.5 million |
| `TasksTwice` | t1 executed twice and t2 once in one OpenCode session | violated: a task succeeds with another task's answer | |
| `TasksCancelSticks` | one task executed and cancelled | violated: a cancelled task runs again | |
| `Permissions` | a cap of one card; one repeated permission with three handlers, or two sessions with one handler, or two permissions of one session with two handlers | `OneAnswer`, `CardSurvives`, and under fairness `ClaimEnds` | 108 thousand |
| `PermissionsRepeated` | one repeated permission, two handlers | violated: two handlers answer one permission | |
| `ChatRuns` | room for one record; streams of two requests and a chat call; two streams of one request, a cancel, a restart; streams of two requests, a cancel, a restart; a stream and a chat call of one request and a restart; three streams of one request, of which the first has a late handler, and two of another | `NoPhantomRun`, `OneLiveRun`, `OutcomesAgree`, `CancelStands`, and under fairness `RunSettles` | 220 thousand |
| `ChatRunsPhantom` | two streams, a cancel, room for one record | violated: a cancelled request is reported as running for ever | |
| `Sessions` | six instances: a session's first chats, an execute and a delete; a session that OpenCode may lose with a chat, an execute, a rename and a delete; two chats, a rename and a forced title; a chat, an edit, a rename and a delete; a chat and two edits; a clear over two sessions with chats and a delete | `DeletedIsFinal`, `NameKept`, `TitleYields`, `EditKeepsEarlier` | 1.5 million |
| `SessionsMove` | a chat, a rename and a delete in a session OpenCode may lose | violated: what happens while a session is moved is undone | |
| `Upkeep` | the supervisor with a threshold of two and three faults; or one of the three caches with three calls, four files and a clock of three; or one task, executed, cancelled, two restarts, every final status | `OneChild`, `KilledForCause`, `Served`; `ExchangeShared`, `SharedIsGood`, `EachCallEnds`; `Lifecycle`, and under fairness `AnsweredTaskEnds`, `PendingPermissionEnds` | 216 thousand |
| `Services` | one part of eight, see below | seventeen invariants, see below | 1.0 million |
| `ChatSendFails` | a chat and a skill's | violated: a skill's chat fails while OpenCode works on its prompt | |

The parts of `Services`:

| Part | Instance | Shows | States |
|---|---|---|---|
| events | two chats, or a chat and a task, in one session, three events of OpenCode; a chat and a task that publish to a client with two visits, a queue and a bucket of two | `NothingMissed`, `FirstSeenInOrder`, `ToItsRequest` | 315 thousand |
| routing | two requests of one turn, of which the later has outgrown one model, and one without words; two tokens; room for one decision; catalog rows that say everything, little and nonsense | `TurnRoutedOnce`, `ReportsOwn` | 95 thousand |
| chat log | two logs, a cache for one, two entries of one event each | `ReadsExact`, `OutcomeOnDisk` | 200 thousand |
| task records | two tasks, four settings of the limits | `NoneLeftRunning`, `StaysReadable`, `FindIsRight` | 28 thousand |
| sends | a chat and a skill's of the same words, three messages | `AnswerIsOwn` | 137 thousand |
| context | four messages, a compaction, three windows | `ActiveIsVisible`, `CategoriesAddUp` | 40 thousand |
| usage | three kinds of run, a model with a price and one without, two days, three lines | `PricedByItsSteps`, `EachRowCounted` | 49 thousand |
| transcript | a chat and an edit after an earlier chat, three OpenCode sessions, two troubles | `OwnWordsShown`, `DeletedLeavesNothing` | 154 thousand |

Type invariants, `SingleCollector`, `RecoveryIsExact`, `TerminalIsFinal`, `ClaimHasOwner`,
`ClaimHeld` and `OneTitleTask` are proved for all constants (below) and need no run.

Why the bounds are enough. Each hazard is about two actors at one record: two
executes, an execute and a cancel, two clicks, a run and its cancel, a client and its
reconnect. Two of each give every order of the steps of a pair; a third actor is there
where a hazard needs it (a request whose record makes the registry prune another, a
second session for the cap). A cap of one makes every second record meet it. Two
restarts show a restart during recovery. `Answers` is the full set of final statuses
where the outcome matters and one status where only whose answer it is matters.
`MaxBreaks` and `MaxCrashes` bound what would only repeat. In `Upkeep` three faults
are a child that fails and a restart of it that fails twice; `MaxFaults` is also what
makes `Served` true, since faults that never end keep OpenCode down. Three
calls to a cache are one that asks, one that waits behind it and one that comes when the
answer is there; with a life of two or three and a margin of one an answer ends while a
call waits. In `Services` a queue and a bucket of two overflow at the third event, two
visits are a connection and a reconnection, and three events of OpenCode are two prompts
and an answer, or one of each and a later part; attribution and delivery do not act on
each other, so the instances take one at a time. A cache of one log makes every use of the
other evict; two entries are an older unfinished one and its successor. The four settings
of the limits are those under which a process can read all it writes, less than that, sees
fewer files than there are, or has no room for a record. Three messages are an earlier
chat's prompt and step and the next prompt, or two prompts and an answer. Four messages of
a history are two turns, or a turn, a mark and its summary. Three lines are a whole row, a
torn one and what is appended behind it. Three OpenCode sessions are the first, its fork
and the fork of that or the one made after a loss. The transcript's instance begins after a
first chat that was answered or failed; the states it begins in are reachable from
`TranscriptInit`.

### Fairness

Weak fairness of a coroutine's steps: the asyncio loop runs what is ready, and every
await ends, since every call to OpenCode and to the portal has a timeout, windows are
bounded and sleeps end. Strong fairness of `WindowElapses`: a collector goes through
poll and sleep for ever and time passes, so the completion window is over at some
sleep. Weak fairness of `Recovery` and `Recover`: the adapter is started again. Nothing
is assumed of OpenCode (it may never answer, ask or resolve), of clients or of users.
For a cache, weak fairness of the step of the call at the lock and of the end of a
question, which its timeout bounds; whether the provider answers is open. `Services`
checks invariants only and assumes nothing. In `Supervisor` a child that starts comes up
unless a fault befalls it, and the two coroutines and their timers go on; no fault need
happen, no hung child need recover and nobody need stop the adapter.

## What the violated runs show

- `TasksCancelSticks`. The cancel route answers `cancelled` and the tests want that
  status to be read back, but `execute_task_handler` stores `running` over it when
  `list_messages` answers, and the collector and the dispatch error write over it too.
- `TasksTwice`. A test wants an answer to another prompt of the session to be no answer
  (`tests/test_tasks_api.py:633`). Two executes of one task may both pass the look-up; the
  second saves the record over the running one (`tasks_api.py:695`), which then tracks no
  prompt until its messages are counted. A collector that reads it meanwhile takes any
  assistant message of the session, and the task succeeds with the answer of another.
  `SuccessIsOwnAnswer` leaves the tasks in `replaced` out, and holds of all others. The
  run reaches this only with three executes; `TasksShared` has two at a time, since three
  with permissions and a cancel are beyond what TLC can explore, and the theorem
  `SuccessesAreOwn` covers any number.
- `PermissionsRepeated`. `pending_input.py` keeps a claim when a permission is announced
  again so that it is not answered twice. The end of the session's run takes the claimed
  card down; announced after that, the permission gets an unclaimed card.
- `ChatRunsPhantom`. A cancelled run leaves its chat log entry running. While the record
  is kept the status is `cancelled`; once pruned it is `running` until the next restart.
- `SessionsMove`. `chat_api.py:276` wants every other field of a record to survive the
  move to a new OpenCode session. The record copied is the one read before two awaits: a
  rename in between is lost and a deletion in between is undone.
- `ChatSendFails`. `opencode_client.py:52-56` marks a timed-out post as recoverable so that a
  probe hands off to polling "instead of failing the chat". The prompt of a skill
  (`chat_api.py:855`) and a native command (`chat_api.py:758`) are posted without the probe:
  the chat fails while OpenCode works on.

Seen in the state graphs while modelling and not given runs of their own:

- Two executes of one task that both pass the look-up both prompt OpenCode
  (`tasks_api.py:682`, `:695`), though `tests/test_tasks_api.py:251` wants one prompt.
- A permission resolved after the event window closed still blocks its task at the end
  of the completion window (`tasks_api.py:946`).
- After a chat timeout the card of a permission that still waits is taken down, against
  the comment at `pending_input.py:33-35` (`chat_api.py:596-601`).
- `/api/chat` looks a request up but registers nothing, so a stream may run beside it,
  against the comment at `chat_api.py:1378-1380` ("Never execute the same request twice").
- Two streams of a request may execute it side by side as well, against the same comment. A
  handler held up by a slow client records the end of its run (`chat_api.py:1745`) when the
  record was pruned and a later stream of the request has one: the later run's record is
  completed, can be pruned while that run works, and a third stream finds none. The instance
  `Late` of `MCChatRuns` reaches this in four steps. `OneLiveRun` leaves the requests of which
  that happened (`struck`) out, and holds of all others, pruned or not.
- A write to the client that fails after the answer was recorded turns the completed record
  into a failed one (`chat_api.py:1746`, `:1775`), while the chat log says success: a client that
  reconnects is told `failed` until the record is pruned, and `completed` after that.
- The sweep of `recovery.py:168` marks by request id, and `chatlog_store.py:165-170` writes
  the latest entry: an older unfinished entry costs a younger successful one its outcome.
- A chat that fails or answers late, or an asynchronous edit whose resend is refused with
  410, creates the chat log of a deleted session again. `DeletedIsFinal` therefore speaks
  of deleted sessions that are `Quiet`: no chat is at work in them, no rename waits for
  its body and no execute holds a record from before the deletion.
- A rename whose body arrives after the deletion names the deleted record
  (`sessions_api.py:731-739` does not look again).
- A task executed in a deleted session gives its record a new OpenCode session and leaves
  it deleted (`tasks_api.py:612-630` does not look at the tombstone).
- Two edits of one session: the last to end wins, the other's branch is lost.
- A restart that fails does not reset the watchdog's counter (`opencode_process.py:571-583`),
  so the child that the next attempt finds may be ended after one failed probe if it never
  answered one. `KilledForCause` is therefore about children found healthy before.
- A delete that overtakes an edit leaves the edit's new OpenCode session alive.
- `RequestBindingStore.complete` is never called and bindings last an hour, so an answer
  nobody bound goes to whoever is active in the session. `ToItsRequest` names who that
  can happen to in `Mixes`.
- A first listing that fails (`chat_api.py:983-986`) makes a chat bind every earlier
  answer of its session to itself.
- A websocket that breaks during the greeting or the replay is never unsubscribed
  (`event_bus.py:218-245` has no `finally`); the bus fills its queue for ever after.
- Replay knows the filters `session_id` and `request_id` only (`event_bus.py:228-234`),
  so a client that filters by both session and task is replayed other tasks' events,
  which `docs/OBSERVABILITY.md:12-13` does not say.
- The back-off of the bridge grows with every lost connection and is never reset
  (`event_bridge.py:1033`, `:1045`).
- A chat whose first listing fails (`chat_api.py:983-986`) may end with an answer that an
  earlier chat left behind; one beside another in its session, or after one of the same
  words (`chat_api.py:390`, `:1087`), cannot tell their messages apart. `AnswerIsOwn` leaves
  these out.
- A chat reports the model of the proxy's last routing (`chat_api.py:152`), which another
  request may have overtaken; `ReportsOwn` leaves those chats out.
- An edit takes the last new user message of its fork for its own (`sessions_api.py:1265`); a
  chat that sent its prompt meanwhile is shown with the edit's words.
- A row appended behind a torn line is lost with it (`usage_tracker.py:244`).
- A chat that runs when its session is deleted puts its words and attributions again
  (`chat_api.py:1106`), and nothing removes them.
- A response may start between the busy check and the compaction (`context_api.py:514`).
- The categories of the context meter may add up to one more than what was used when there
  is no conversation to take the rounding from (`context_api.py:331`).

## Proofs

All theorems hold for every value of the constants under the `ASSUME`s of their module
(which give the constants their types, keep values such as `None` and `Cut` apart and state
what the table below names), and under no other assumption unless stated.

| Theorem | Statement | Argument |
|---|---|---|
| `TasksProofs!TypeCorrect` | `[]TypeOK` | step by step |
| `NoOrphanedTask`, `RecoveryCorrect` | `[]ActiveIsDriven`, `[]RecoveryIsExact` | the conjunction `Inv` with `TypeOK` is inductive: `ActiveIsDriven` in state "up" needs what recovery leaves, and that is exactly `RecoveryIsExact`; the lemmas say which parts a handler, collector or cancel leaves alone |
| `OneCollectorPerTask` | `[]SingleCollector` | only `Schedule` makes a collector live, and only if no other of its task is |
| `SuccessesAreOwn` | `[]SuccessIsOwnAnswer` | inductive with two facts about prompts: a record tracks only prompts of its own task (`MidsAreOwn`), and unless it was replaced it tracks one while a collector of it lives, and so does what the collector listens for (`CollectorsTrack`). `RecordMoves` names what a step may do to a record; an answer that matches a tracked prompt is that prompt's, and an answer is final |
| `FinishedForGood` | `TerminalIsFinal` | follows from which operations can write a quiet task |
| `ImplementsLifecycle` | `Spec => Lifecycle` | initial states map to initial states; each action to `Begin`, `Write`, `Release`, `Touch`, `Restart` or a stutter |
| `PermissionsProofs!TypeCorrect`, `ClaimsOwned`, `ClaimsHeld` | `[]TypeOK`, `[]ClaimHasOwner`, `ClaimHeld` | inductive with `TypeOK` |
| `AnsweredOnce` | `[]OneAnswer` | `OneAnswer` alone is not inductive: a permission announced once must not reach a card again. `AnswerInv` says in addition that an announcement of it is unread at most once, is unread only before its first card, and that a card seen by a handler in flight is claimed |
| `CardsSurvive` | `CardSurvives` | `SurvivalInv` adds that an announced resolution (`RepliedIsOver`) and a response that landed (`LandedIsOver`) are of permissions that wait no more, so what `Clear` takes waits for nothing; and that the store is within its cap (`OrderBounded`), so a new card pushes out at most one, the oldest of a full store |
| `ChatRunsProofs!TypeCorrect`, `CancelHolds` | `[]TypeOK`, `CancelStands` | the second needs that a killed run never ends with an answer (`KilledEndsCancelled`) |
| `OneRunAtATime` | `[]OneLiveRun` | inductive with `OwnsRecord`: unless its request was struck, the record of a live run is running and has that run's task attached. Such a record is not pruned and turns the next stream away; a cancel that takes it kills the run it belongs to; only a run that is over is recorded as ended, so who ends the record of another strikes the request (`EndStrikes`) |
| `AloneWithRoom` | `NeverPrunes => (Spec => []Alone)` | the same without leaving struck requests out, from a registry with room for all requests: no record is forgotten before a restart, so a request has one stream run in all (`LiveIsRecorded`) |
| `NoPhantoms` | `[]NoPhantomRun` | inductive with `RunningIsWorkedOn`: a running record waits for the end or the callback of a stream of its request, a running log entry for a call at work or one that was cancelled, also over a restart |
| `LogConfirms` | `[]OutcomesAgree` | not inductive: it needs that a record is completed or failed only by a run of its request that is over, with that outcome (`EndedByItsRun`), and that the sole run of a request writes its entry once, so that recovery finds nothing older to mark (`SoleWritesOnce`); with `RunningIsWorkedOn` the log then cannot still say running. It does not say that the two agree: a failed record may be of a success, where the last writes to the client failed |
| `SessionsProofs!TypeCorrect` | `[]TypeOK` | step by step |
| `NamesKept`, `TitlesYield` | `NameKept`, `TitleYields` | `RecordChanges` names the seven things a step may do to a record; each is compared with what the property allows |
| `TitleTasksAlone` | `[]OneTitleTask` | inductive: only a closing chat starts a call, and only when its session has none |
| `DeletionFinal` | `DeletedIsFinal` | from `RecordChanges`, and from who writes the chat log (`LogWrites`) and moves a chat on (`TurnWrites`) |
| `EditsKeepEarlier` | `EditKeepsEarlier` | `EditInv` is inductive: a conversation holds a turn once, so what came before a turn does not change while it grows (`BeforeGrows`), and an edit at its fork kept just that; its own session does not exist yet |
| `TurnProofs!SupervisorTypeCorrect`, `OneChildHolds` | `[]SupervisorTypeOK`, `[]OneChild` | the invariant adds where a coroutine is parked to what lives: between `drain` and `spawn` no child and at most the known pump, so a spawn makes the only child |
| `PatienceHolds` | `KilledForCause` | inductive: for a child found healthy before, the watchdog's counter never exceeds the failed probes of this child |
| `EventBridgeProofs!TypeCorrect` | `[]TypeOK` | step by step |
| `EventsFindTheirRequest` | `[]ToItsRequest` | an event may be read long after it was emitted, so the invariant speaks of requests: what OpenCode has of one was sent and its prompt bound (`SentBefore`, `PromptBound`); nobody works beside one that can be told apart (`Alone`), so the session is still its own (`ActiveIsOpen`) until its answer is bound to it (`ReplyBound`), and a later chat knows that answer (`SeenBefore`) |
| `EventsInOrder`, `NothingFallsBetween` | `[]FirstSeenInOrder`, `[]NothingMissed` | `BusInv` says of each connection what it has (`Served`): the queue is the newest of what its filter matches (`QueueWhole`), and with what was sent, replayed or lost that is everything (`Covered`). During a replay whatever waits and is older than something replayed is replayed itself (`ReplayFirst`), so the sender later sends it again, not late (`SeenFirst`). That needs `Capacity <= ReplayLimit`: with a queue longer than a bucket the bucket may have forgotten what still waits. A filter may name session and request, so events are of their request's session (`WellMade`), for which bindings must stay within a session (`BoundInSession`) |
| `TurnProofs!QuestionShared`, `CachedIsGood` | `[]ExchangeShared`, `[]SharedIsGood` | neither is inductive alone. A call at the provider holds the lock (`AskerHoldsLock`), so the cache is still as it found it when it asked (`AskedForCause`), and what it stores replaces an answer that was about to end. No cached answer ends later for the adapter than for the provider (`HonestLife`), which for the AI Platform needs that a life is counted from the question |
| `TurnProofs!SendTypeCorrect`, `AnswersAreOwn` | `[]SendTypeOK`, `[]AnswerIsOwn` | `AnswerIsOwn` speaks of ended chats. `SendInv` says what holds before: a chat alone in its session is the only one at work, or was told what was there when it came (`AloneOrKnown`); what came since is its own (`SinceIsOwn`), and so is what it takes (`TakenIsOwn`) |
| `RoutingTypeCorrect`, `TurnsRoutedOnce`, `OwnModelReported` | `[]RoutingTypeOK`, `[]TurnRoutedOnce`, `[]ReportsOwn` | `RoutingInv`: a request that asks Copilot holds the lock (`LockHeld`), a remembered decision has a key of its own (`KeysApart`) and is found by it until it is dropped (`AllFindable`), and a request that nobody overtook still has the proxy's last decision (`LastIsOwn`) |
| `StoresProofs!NothingIsLeft` | `[]DeletedLeavesNothing` | inductive with `DeletedIsQuiet`: in a deleted session that is not excused no chat runs, so what is put later is of other sessions; only a look-up begins a chat, and a deleted session refuses it |
| `OwnWords` | `[]OwnWordsShown` | `WordsInv`: an OpenCode session belongs to one portal session, with its messages, writers and records (`EnginesApart`), so the look-up by portal session finds no stranger; the store never has two records of one user message (`OneOfEach`), and one is there from before the prompt is sent until its session is deleted or a restart loses it (`WordsStored`) |
| `RecordsTypeCorrect`, `NoTaskLeftRunning`, `WrittenIsReadable` | `[]RecordsTypeOK`, `[]NoneLeftRunning`, `[]StaysReadable` | `FreshFits`: what this process wrote is a sound record within its limit; `EncodeFits` says which form of a record `Encode` chooses, and that none fits only where the limit has no room for the ultra minimal one |
| `FindsTheTask` | `[]FindIsRight` | when no limit was exceeded a scan is all the files (a subset of the same size), and so is the listing |
| `ChatLogTypeCorrect`, `ReadersSeeWritten`, `OutcomesAreOnDisk` | `[]ChatLogTypeOK`, `[]ReadsExact`, `[]OutcomeOnDisk` | `WaitsInMemory`: what waits for the disk is in the cache, and what is in the cache and does not wait is as on disk. So an eviction, which leaves what waits, loses nothing; an append changes no status (`EndedIn`), and it alone is not written at once |

| `MeterProofs!UsageTypeCorrect`, `StepsPriceTheRun` | `[]UsageInv`, `[]PricedByItsSteps` | `UsageInv`: every row is priced as a run (`PricedAsRun`), which is what the three calls that write one make of their steps. Where the cached and the written part fit into a prompt, as in all that `FromTokens` makes and in their sums, a price is linear (`CostOfSum`), so a run costs at one tier what its steps cost there; the largest step decides the tier. That no price is lower over the threshold is an assumption; `COPILOT_MODEL_PRICING` has none that is |
| `LinesKept`, `RowsAreCounted` | `[]LineInv`, `[]EachRowCounted` | `LineInv`: the readable lines are the booked rows, and a line without its end is the last. One more row changes what is kept of rows by that row or not at all (`KeptAppend`), and its worth is added to its model's (`ModelsAddUp`, by induction on the rows) |
| `ContextTypeCorrect`, `MeterSeesTheContext` | `[]ContextInv`, `[]ActiveIsVisible` | `WalkedTo` says what the walk has found when it is back at a message: nothing and the summaries met so far, or the latest completed compaction, and then the way to what this one keeps. A step back keeps it (`WalkedBack`); it needs that what is kept lies before the mark |
| `MeterAddsUp` | `[]CategoriesAddUp` | rounding adds no more than a half (`RoundIsClose`), so definitions and tools together exceed what was used by one at most (`RoundedParts`), and the text takes the rest |

`Usage` and `ContextWindow` compute with folds, whose value is known only by induction.
The library states its induction for operators, which the installed provers cannot
instantiate, so `MeterProofs` states it for sets: a set of numbers with zero and the
successors of its members has all numbers (`NatSetInduction`), and a set of parts of a
finite set likewise (`SubsetInduction`), both from the library's well-founded orderings.
From these follow that a fold has the values its definition asks for (`FoldExists`), and
what sums and kept elements are.

Every safety invariant that a run checks is proved. Model-checked only are the liveness
properties, since fairness and `ENABLED` are out of the prover's reach.

## Abstractions, and what is not modelled

- `EventBus.publish` and `StreamResponse.prepare` do not suspend and are part of their
  step. A handler is not cancelled when its client goes (aiohttp's default); the stream
  handler notices when it writes.
- Texts are their consequences: which status an answer parses to, whether a skill blocks
  a task. A prompt id learnt from OpenCode never differs from the one sent, since
  `prompt_async` answers without a body. The collector's message cursor is not kept: an
  answer counts by the prompt it names.
- Elapsed time (the six hours after which a silent run is failed), request ids shared
  between sessions and the deletion of a session under a run of `ChatRuns` are not
  modelled; the record store's limits are in `TaskRecords` and not repeated in `Tasks`. Which terminal records the registry prunes is left
  open, which allows more than the code does.
- A call to OpenCode may fail although it took effect, and take effect after it failed.
- Edits that resend run the same coroutine as `/api/chat` and leave no record either; they
  are not separate calls in `ChatRuns`.
- In `Sessions` a turn is one unit: that an edit may name an assistant message, and that
  OpenCode may hold the question without the answer, is not distinguished. A fork may hold
  any first part of the conversation; the candidates are not tried one by one, and that
  a fork may abort a busy session is left out. A delete that lands in OpenCode after its
  handler gave up looks like a session that OpenCode lost. Sessions of tasks, which get no
  title, are not told apart by their ids.
- In `Supervisor` every timeout may elapse at any moment. The registry check is left out,
  since `server.py` installs none, and so are lifecycle events and health payloads, which
  nothing decides on. An adapter whose start fails ends with its container.
- In `EventBus` the place of an event in the order of publication stands for its
  `created_at`: every publisher stamps and publishes without an await between. Events of
  OpenCode that bring a time of their own (`event_bridge.py:431`), filters by type,
  clients that get no replay (they decline it, or name neither session nor request) or a
  smaller `replay_limit`, the six-hour expiry and events
  that name no session are left out, and a queue holds no more than a bucket, as with the
  defaults 100 and 500.
- In `EventBridge` a portal session has one OpenCode session, a request has one answer
  message, the events one step publishes are one, bindings do not expire, and resends of
  edits and cancels that dispatch overwrites (see `Tasks`) are not repeated. A chat that
  gets no session binds nothing and is one that never begins.
- In `Credentials` an account is what a fingerprint is computed from, and the calls of an
  instance use one cache. A provider's answer about Copilot's token may name any end.
- In `AutoRouting` a turn stands for conversation, tier, number and words; ages elapse at any
  moment; tokens are counted, not estimated from texts.
- In `ChatLog` a file is replaced whole, as `os.replace` does, and damage from outside is left
  out. In `TaskRecords` a part is its size; which files a scan meets first is open.
- In `ChatSend` the chats share one OpenCode session, a message is a place and a judgement,
  and polls that see nothing new are left out.
- In `ContextWindow` sizes are small numbers; in `Usage` prices are, a torn line may be any
  part of a row, and a line cut inside a character (which makes the reader fail, since it
  decodes the file as UTF-8) is left out, the rows being ASCII but for their texts.
- In `Transcript` a chat has one prompt and one reply, and the steps of an edit up to its
  fork are one (`EditMoves`); how it finds the fork is in `Sessions`.

### Not modelled

- Files and attachments: each request reads and writes files on its own; the requests share
  nothing but the file system, and no other part decides on what they leave.
- Skills, agents, personalization: copies of files and texts, made at boot before anything is
  served or written whole by one request.
- Configuration projection: functions from a profile to files and variables, once, by one
  coroutine. Their results appear where they matter (the credential file, the limits of the
  task store, the threshold of the watchdog).
- Parsing and wording: completion texts, event texts, prompts. The models choose among the
  outcomes.
- The HTTP of the clients and proxies: calls succeed, fail, or fail after having had their
  effect.
