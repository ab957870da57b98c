----------------------------- MODULE Supervisor -----------------------------
(***************************************************************************)
(* The OpenCode child process and who keeps it running: the manager of     *)
(* opencode_process.py, its watchdog, and the start and the cleanup of the *)
(* adapter in server.py.  Two coroutines run the manager's code: the main  *)
(* one, at startup and at cleanup, and the watchdog in between.            *)
(*                                                                         *)
(* Times are left out: a timeout may elapse at any moment.  A fault is     *)
(* whatever the adapter cannot help: a child that dies, hangs, or starts   *)
(* too slowly, a spawn or a copy of the skills that fails.                 *)
(***************************************************************************)
EXTENDS Naturals, FiniteSets

CONSTANTS Threshold,    \* health_failures_before_restart
          MaxFaults     \* bound on the faults of a behaviour

ASSUME SupervisorAssumption == /\ Threshold \in Nat \ {0}
                               /\ MaxFaults \in Nat

\* Every child but the first replaces one that a fault made useless.
Children == 1 .. MaxFaults + 1

NoChild == 0

Actors == {"main", "watchdog"}

VARIABLES
  process,    \* the manager's process: the child spawned last
  kid,        \* what the operating system has: each child's condition
  output,     \* _output_task: the child whose log pump the manager knows
  pumps,      \* the children whose log pumps have their file open
  stopping,   \* _stopping
  at,         \* the await each coroutine is parked at
  failures,   \* consecutive_health_failures
  backoff,    \* restart_backoff_until lies ahead
  faults,     \* faults so far
  missed      \* per child: failed probes since it was last found healthy

supervisorVars == <<process, kid, output, pumps, stopping, at, failures, backoff, faults, missed>>

Conditions == {"unborn", "starting", "healthy", "hung", "dead"}

\* What missed says of a child that was never found healthy.
Never == Threshold + 1

Running == {"starting", "healthy", "hung"}

Alive(c) == c # NoChild /\ kid[c] \in Running

Fault == faults < MaxFaults /\ faults' = faults + 1

SupervisorTypeOK ==
  /\ process \in {NoChild} \cup Children
  /\ kid \in [Children -> Conditions]
  /\ output \in {NoChild, process}
  /\ pumps \subseteq 1 .. process
  /\ stopping \in BOOLEAN
  /\ at \in [Actors -> {"boot", "spawn", "ready", "unready", "serve", "off",
                        "sleep", "probe", "term", "drain", "down"}]
  /\ at["main"] \notin {"off", "sleep", "probe"}
  /\ at["watchdog"] \in {"off", "sleep", "probe", "term", "drain", "spawn", "ready"}
  /\ at["watchdog"] # "off" => at["main"] = "serve" /\ process # NoChild
  /\ \A a \in Actors : at[a] \in {"term", "ready"} => process # NoChild
  /\ failures \in Nat
  /\ backoff \in BOOLEAN
  /\ faults \in 0 .. MaxFaults
  /\ missed \in [Children -> 0 .. Never]

SupervisorInit ==
  /\ process = NoChild
  /\ kid = [c \in Children |-> "unborn"]
  /\ output = NoChild
  /\ pumps = {}
  /\ stopping = FALSE
  /\ at = [a \in Actors |-> IF a = "main" THEN "boot" ELSE "off"]
  /\ failures = 0
  /\ backoff = FALSE
  /\ faults = 0
  /\ missed = [c \in Children |-> Never]

-----------------------------------------------------------------------------
(* start *)

\* What a coroutine does when its start raises: the startup hook lets the
\* adapter fail, and its container with the child in it; the watchdog reports,
\* backs off and sleeps, and does not reset its counter.
GiveUp(a) ==
  \/ /\ a = "main"
     /\ at' = [at EXCEPT ![a] = "down"]
     /\ kid' = [c \in Children |-> IF Alive(c) THEN "dead" ELSE kid[c]]
     /\ UNCHANGED backoff
  \/ /\ a = "watchdog"
     /\ at' = [at EXCEPT ![a] = "sleep"]
     /\ backoff' = TRUE
     /\ UNCHANGED kid

\* Mutant: _stopping is reset once nothing can fail before the spawn any more.
StartForgets(a) ==
  /\ \/ /\ Fault
        /\ GiveUp(a)
        /\ UNCHANGED stopping
     \/ /\ at' = [at EXCEPT ![a] = "spawn"]
        /\ stopping' = FALSE
        /\ UNCHANGED <<kid, backoff, faults>>
  /\ UNCHANGED <<process, failures, missed>>

\* start up to the spawn: the skills are copied, which may fail.  No child is
\* alive and no pump is known here, so neither the early return nor the drain of
\* the code has anything to do.
Start(a) ==
  /\ stopping' = FALSE
  /\ \/ /\ Fault
        /\ GiveUp(a)
     \/ /\ at' = [at EXCEPT ![a] = "spawn"]
        /\ UNCHANGED <<kid, backoff, faults>>
  /\ UNCHANGED <<process, failures, missed>>

\* The startup hook: the projection of the profile may fail, and then the
\* adapter serves without a child and without a watchdog.
Launch ==
  /\ at["main"] = "boot"
  /\ \/ Start("main")
     \/ /\ at' = [at EXCEPT !["main"] = "unready"]
        /\ UNCHANGED <<process, kid, stopping, failures, backoff, faults, missed>>
  /\ UNCHANGED <<output, pumps>>

\* The child runs; its output gets a pump with a file of its own.
Spawned(a) ==
  /\ at[a] = "spawn"
  /\ process' \in Children
  /\ process' = process + 1
  /\ kid' = [kid EXCEPT ![process'] = "starting"]
  /\ output' = process'
  /\ pumps' = pumps \cup {process'}
  /\ at' = [at EXCEPT ![a] = "ready"]
  /\ UNCHANGED <<stopping, failures, backoff, faults, missed>>

SpawnFails(a) ==
  /\ at[a] = "spawn"
  /\ Fault
  /\ GiveUp(a)
  /\ UNCHANGED <<process, output, pumps, stopping, failures, missed>>

\* After the start at boot the adapter serves and its watchdog begins; after a
\* restart the watchdog leaves the child alone for a while.
Resume(a) ==
  \/ /\ a = "main"
     /\ at' = [main |-> "serve", watchdog |-> "sleep"]
     /\ UNCHANGED backoff
  \/ /\ a = "watchdog"
     /\ at' = [at EXCEPT ![a] = "sleep"]
     /\ backoff' = TRUE

\* Mutant: after a restart the counter still holds the failures before it.
StartedKeepsCount(a) ==
  /\ at[a] = "ready"
  /\ kid[process] = "healthy"
  /\ Resume(a)
  /\ missed' = [missed EXCEPT ![process] = 0]
  /\ UNCHANGED <<process, kid, output, pumps, stopping, failures, faults>>

\* wait_until_ready found the child healthy.  (The watchdog that begins at boot
\* begins with a counter of zero.)
Started(a) ==
  /\ at[a] = "ready"
  /\ kid[process] = "healthy"
  /\ Resume(a)
  /\ failures' = 0
  /\ missed' = [missed EXCEPT ![process] = 0]
  /\ UNCHANGED <<process, kid, output, pumps, stopping, faults>>

\* wait_until_ready gives up, on a child that is slow (a fault), hangs or died.
NotReady(a) ==
  /\ at[a] = "ready"
  /\ kid[process] # "healthy"
  /\ IF kid[process] = "starting" THEN Fault ELSE UNCHANGED faults
  /\ GiveUp(a)
  /\ UNCHANGED <<process, output, pumps, stopping, failures, missed>>

-----------------------------------------------------------------------------
(* stop and restart *)

\* Where a stop waits first: for the child it has told to terminate, or for the
\* pump of a child that is gone.
StopAwait == IF Alive(process) THEN "term" ELSE "drain"

\* The child has ended.
ChildGone(a) ==
  /\ at[a] = "term"
  /\ ~Alive(process)
  /\ at' = [at EXCEPT ![a] = "drain"]
  /\ UNCHANGED <<process, kid, output, pumps, stopping, failures, backoff, faults, missed>>

\* Ten seconds have passed: the child is killed.
Kill(a) ==
  /\ at[a] = "term"
  /\ Alive(process)
  /\ kid' = [kid EXCEPT ![process] = "dead"]
  /\ UNCHANGED <<process, output, pumps, stopping, at, failures, backoff, faults, missed>>

\* Mutant: the drain gives up on a pump without cancelling it.
DrainGivesUp == output' = NoChild /\ pumps' \in {pumps, pumps \ {output}}

\* _drain_output_pump: the pump ends, or is cancelled when a tool that outlived
\* the child keeps the pipe open.
Drain == output' = NoChild /\ pumps' = pumps \ {output}

\* The watchdog's stop is over, and its start follows.
Restart ==
  /\ at["watchdog"] = "drain"
  /\ Drain
  /\ Start("watchdog")

\* The stop of the cleanup is over, and so is the adapter.
Down ==
  /\ at["main"] = "drain"
  /\ Drain
  /\ at' = [at EXCEPT !["main"] = "down"]
  /\ UNCHANGED <<process, kid, stopping, failures, backoff, faults, missed>>

\* The cleanup hooks: the watchdog is cancelled wherever it is parked, then the
\* manager stops.  A cancelled drain forgets its pump; a cancelled spawn leaves no
\* child, asyncio sees to that.
Cleanup ==
  /\ at["main"] \in {"serve", "unready"}
  /\ stopping' = TRUE
  /\ output' = IF at["watchdog"] = "drain" THEN NoChild ELSE output
  /\ at' = [main |-> StopAwait, watchdog |-> "off"]
  /\ UNCHANGED <<process, kid, pumps, failures, backoff, faults, missed>>

-----------------------------------------------------------------------------
(* run_watchdog *)

\* The watchdog finds the child ended and restarts it.
SeesExit ==
  /\ at["watchdog"] = "sleep"
  /\ ~stopping
  /\ ~backoff
  /\ ~Alive(process)
  /\ stopping' = TRUE
  /\ at' = [at EXCEPT !["watchdog"] = StopAwait]
  /\ UNCHANGED <<process, kid, output, pumps, failures, backoff, faults, missed>>

Probe ==
  /\ at["watchdog"] = "sleep"
  /\ ~stopping
  /\ ~backoff
  /\ Alive(process)
  /\ at' = [at EXCEPT !["watchdog"] = "probe"]
  /\ UNCHANGED <<process, kid, output, pumps, stopping, failures, backoff, faults, missed>>

\* Mutant: the failures are counted, not the failures in a row.
ProbedHealthyKeepsCount ==
  /\ at["watchdog"] = "probe"
  /\ kid[process] = "healthy"
  /\ missed' = [missed EXCEPT ![process] = 0]
  /\ at' = [at EXCEPT !["watchdog"] = "sleep"]
  /\ UNCHANGED <<process, kid, output, pumps, stopping, failures, backoff, faults>>

ProbedHealthy ==
  /\ at["watchdog"] = "probe"
  /\ kid[process] = "healthy"
  /\ failures' = 0
  /\ missed' = [missed EXCEPT ![process] = 0]
  /\ at' = [at EXCEPT !["watchdog"] = "sleep"]
  /\ UNCHANGED <<process, kid, output, pumps, stopping, backoff, faults>>

\* A failed probe is counted; the one that reaches the threshold begins a restart.
ProbedUnhealthy ==
  /\ at["watchdog"] = "probe"
  /\ kid[process] # "healthy"
  /\ failures' = failures + 1
  /\ missed' = [missed EXCEPT ![process] = IF @ < Threshold THEN @ + 1 ELSE @]
  /\ \/ /\ failures' < Threshold
        /\ at' = [at EXCEPT !["watchdog"] = "sleep"]
        /\ UNCHANGED stopping
     \/ /\ failures' >= Threshold
        /\ at' = [at EXCEPT !["watchdog"] = StopAwait]
        /\ stopping' = TRUE
  /\ UNCHANGED <<process, kid, output, pumps, backoff, faults>>

BackoffEnds ==
  /\ backoff
  /\ backoff' = FALSE
  /\ UNCHANGED <<process, kid, output, pumps, stopping, at, failures, faults, missed>>

-----------------------------------------------------------------------------
(* The child, and the specification *)

Becomes(c, condition) ==
  /\ kid' = [kid EXCEPT ![c] = condition]
  /\ UNCHANGED <<process, output, pumps, stopping, at, failures, backoff, missed>>

ComesUp(c)  == kid[c] = "starting" /\ Becomes(c, "healthy") /\ UNCHANGED faults

Recovers(c) == kid[c] = "hung" /\ Becomes(c, "healthy") /\ UNCHANGED faults

Hangs(c)    == kid[c] \in {"starting", "healthy"} /\ Fault /\ Becomes(c, "hung")

\* A child ends when it is told to, or by itself.
Told(c) == \E a \in Actors : at[a] = "term" /\ process = c

Dies(c) ==
  /\ Alive(c)
  /\ IF Told(c) THEN UNCHANGED faults ELSE Fault
  /\ Becomes(c, "dead")

\* The log pump of a child reads the end of its output.
PumpEnds(c) ==
  /\ c \in pumps
  /\ ~Alive(c)
  /\ pumps' = pumps \ {c}
  /\ UNCHANGED <<process, kid, output, stopping, at, failures, backoff, faults, missed>>

ManagerStep(a) ==
  \/ Spawned(a) \/ SpawnFails(a) \/ Started(a) \/ NotReady(a)
  \/ ChildGone(a) \/ Kill(a)

WatchdogStep ==
  \/ SeesExit \/ Probe \/ ProbedHealthy \/ ProbedUnhealthy \/ Restart \/ BackoffEnds

ChildStep(c) ==
  \/ ComesUp(c) \/ Recovers(c) \/ Hangs(c) \/ Dies(c) \/ PumpEnds(c)

SupervisorNext ==
  \/ Launch \/ Cleanup \/ Down
  \/ WatchdogStep
  \/ \E a \in Actors : ManagerStep(a)
  \/ \E c \in Children : ChildStep(c)

\* The loop resumes every coroutine whose await is over, every timer elapses, and
\* a child that starts comes up unless a fault befalls it.  No fault need happen,
\* no child that hangs need recover, nobody need stop the adapter.
SupervisorFairness ==
  /\ WF_supervisorVars(Launch)
  /\ WF_supervisorVars(Down)
  /\ WF_supervisorVars(WatchdogStep)
  /\ \A a \in Actors : WF_supervisorVars(ManagerStep(a))
  /\ \A c \in Children : WF_supervisorVars(ComesUp(c))

SupervisorSpec == SupervisorInit /\ [][SupervisorNext]_supervisorVars /\ SupervisorFairness

-----------------------------------------------------------------------------
(* Properties *)

\* At most one child is alive, whoever starts or stops it, and none once the
\* adapter is down; and at most one pump has the log file open, also when the
\* output of an ended child stays open.
OneChild ==
  /\ \A c \in Children : Alive(c) => c = process /\ at["main"] # "down"
  /\ \A c, d \in pumps : c = d

\* The watchdog terminates a living child only after as many failed probes of this
\* child as the threshold says since it was last found healthy; failures from before
\* its start do not count.  (A child that was never found healthy has no such
\* claim: the failed restart that left it did not reset the counter.)
KilledForCause ==
  [][at["watchdog"] # "term" /\ at'["watchdog"] = "term"
       => missed'[process] >= Threshold]_supervisorVars

\* While the adapter serves, OpenCode is healthy again and again, when the faults
\* come to an end: a child that exits, hangs or fails to start is replaced.
Served == []<>(at["main"] # "serve" \/ (process # NoChild /\ kid[process] = "healthy"))

=============================================================================
