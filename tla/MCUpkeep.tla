------------------------------ MODULE MCUpkeep ------------------------------
(***************************************************************************)
(* The parts that run on their own account and must go on: OpenCode's      *)
(* process, the providers' credentials and the tasks over restarts.  A     *)
(* behaviour is one of one of them while the others rest.                  *)
(***************************************************************************)
EXTENDS Supervisor, Credentials, Tasks

VARIABLE part  \* "supervisor", "credentials" or "tasks"

upkeepVars == <<supervisorVars, credentialVars, vars, part>>

-----------------------------------------------------------------------------
(* Supervisor: the watchdog's threshold is two, so that one failure is     *)
(* fewer and two are enough, and three faults let a restart that one fault *)
(* caused meet two more.                                                   *)

MCThreshold == 2
MCMaxFaults == 3

-----------------------------------------------------------------------------
(* Credentials: an account that must ask, one with a token of its own and  *)
(* one that is incomplete; three calls, one for each of asking, waiting    *)
(* and coming late.                                                        *)

CONSTANTS asks, owns, lacks

PerKind(copilot, platform, quota) ==
  [k \in Kinds |-> CASE k = "copilot" -> copilot [] k = "platform" -> platform
                     [] k = "quota" -> quota]

MCAccounts == {asks, owns, lacks}
MCReady == {owns}
MCPartial == {lacks}
MCMargin == PerKind(1, 1, 1)
MCLife == PerKind(3, 2, 2)
MCPatience == PerKind(1, 2, 1)

-----------------------------------------------------------------------------
(* Tasks: one task that is executed, cancelled and interrupted twice.      *)

CONSTANTS t1, p1, e1, c1

OneTask    == [r \in {e1, c1} |-> t1]
OnePortal  == [e \in {e1} |-> p1]
MCAnswers  == {"success", "error", "blocked"}
MCRestarts == 2

-----------------------------------------------------------------------------
(* The parts side by side                                                  *)

\* A supervisor that rests could not start.
CouldNotStart ==
  /\ process = NoChild /\ output = NoChild /\ pumps = {} /\ stopping = FALSE
  /\ kid = [c \in Children |-> "unborn"] /\ missed = [c \in Children |-> Never]
  /\ at = [main |-> "down", watchdog |-> "off"]
  /\ failures = 0 /\ backoff = FALSE /\ faults = 1

\* A cache that rests, in one of its initial states.
NothingCached == kind = "copilot" /\ file = NoAccount

UpkeepInit ==
  /\ CredentialsInit /\ Init
  /\ \/ part = "supervisor" /\ SupervisorInit /\ NothingCached
     \/ part = "credentials" /\ CouldNotStart
     \/ part = "tasks" /\ CouldNotStart /\ NothingCached

UpkeepNext ==
  /\ UNCHANGED part
  /\ \/ part = "supervisor" /\ SupervisorNext /\ UNCHANGED <<credentialVars, vars>>
     \/ part = "credentials" /\ CredentialsNext /\ UNCHANGED <<supervisorVars, vars>>
     \/ part = "tasks" /\ Next /\ UNCHANGED <<supervisorVars, credentialVars>>

UpkeepSpec ==
  UpkeepInit /\ [][UpkeepNext]_upkeepVars
    /\ SupervisorFairness /\ CredentialsFairness /\ Fairness

=============================================================================
