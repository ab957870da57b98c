----------------------------- MODULE Credentials ----------------------------
(***************************************************************************)
(* The credentials with which the adapter calls the model providers, and   *)
(* the three caches that stand before them, which are one algorithm: the   *)
(* Copilot token (copilot_plugin_auth.py), the AI Platform token           *)
(* (ai_platform_proxy.py) and the Copilot quota (copilot_quota.py).  A     *)
(* call takes a good cached answer at once; otherwise it waits for a lock, *)
(* looks again and, if it must, asks the provider and caches the answer.   *)
(*                                                                         *)
(* An instance has one of the caches (kind).  A credential is what it      *)
(* authenticates; texts, addresses and what a proxy forwards are left out. *)
(***************************************************************************)
EXTENDS Integers, Sequences

CONSTANTS
  Calls,       \* calls to the loopback proxies, or to the quota route
  Accounts,    \* what a profile may configure
  Ready,       \* of them, those that carry a token (AI Platform)
  Partial,     \* and those with neither token nor user name (AI Platform)
  NoAccount,   \* no credential file
  Margin,      \* the least life of a cached answer that is handed out, per kind
  Life,        \* the life of an answer, per kind (the longest, for Copilot)
  FailureLife, \* how long a failure is cached (quota only)
  Patience,    \* the limit of a question to the provider, per kind
  MaxClock     \* bound on the clock

Kinds == {"copilot", "platform", "quota"}

ASSUME CredentialsAssumption ==
  /\ NoAccount \notin Accounts
  /\ Ready \subseteq Accounts /\ Partial \subseteq Accounts
  /\ Margin \in [Kinds -> Nat \ {0}]
  /\ Life \in [Kinds -> Nat \ {0}]
  /\ Patience \in [Kinds -> Nat \ {0}]
  /\ FailureLife \in Nat \ {0}
  /\ MaxClock \in Nat

VARIABLES
  kind,      \* the cache of this instance
  clock,     \* the time
  file,      \* the credential file
  cached,    \* _cached, with its fingerprint
  call,      \* the calls
  lock,      \* _lock: its holder, or the next one, and those behind
  previous   \* what was cached before cached, since the cache was last empty

credentialVars == <<kind, clock, file, cached, call, lock, previous>>

\* expires is when the adapter thinks that it ends, dies when it does.
CachedAnswer == [account : Accounts, asked : Nat, expires : Nat, dies : Nat]

NoAnswer == [account |-> NoAccount, asked |-> 0, expires |-> 0, dies |-> 0]

\* "asking" and "told" are in front of the provider, which has answered the latter; the
\* answer is on its way.  "served" has its answer in hand.
Steps == {"idle", "waiting", "asking", "told", "served", "over"}

\* account is the one it read; a call that took an answer of the cache also has whose
\* that is and for how long the provider would honour it.
Call == [pc : Steps, account : Accounts \cup {NoAccount}, since : Nat, dies : Nat,
         taken : Accounts \cup {NoAccount}, left : Int]

\* The cache, the lock and the calls.
CredentialsTypeOK ==
  /\ kind \in Kinds
  /\ clock \in Nat
  /\ file \in Accounts \cup {NoAccount}
  /\ cached \in CachedAnswer \cup {NoAnswer}
  /\ call \in [Calls -> Call]
  /\ lock \in Seq(Calls)
  /\ previous \in CachedAnswer \cup {NoAnswer}

NoCall == [pc |-> "idle", account |-> NoAccount, since |-> 0, dies |-> 0,
         taken |-> NoAccount, left |-> 0]

-----------------------------------------------------------------------------
(* The credential file *)

\* The boot stores the profile's credential or removes the file.
SaveOrClearCopilot == (Accounts \ (Ready \cup Partial)) \cup {NoAccount}

\* For the AI Platform a profile needs no more than the address.
SaveOrClearPlatform == Accounts \cup {NoAccount}

Configured == IF kind = "platform" THEN SaveOrClearPlatform ELSE SaveOrClearCopilot

CredentialsInit ==
  /\ kind \in Kinds
  /\ clock = 0
  /\ file \in Configured
  /\ cached = NoAnswer
  /\ call = [c \in Calls |-> NoCall]
  /\ lock = <<>>
  /\ previous = NoAnswer

\* Another process that boots on the same volume writes the file.
Rewritten ==
  /\ file' \in Configured
  /\ UNCHANGED <<kind, clock, cached, call, lock, previous>>

-----------------------------------------------------------------------------
(* The caches *)

\* _cache_valid, _fresh: it is the account's and not about to end.
Valid(account) ==
  /\ cached # NoAnswer
  /\ cached.account = account
  /\ cached.expires - clock >= Margin[kind]

Ends(c) == call' = [call EXCEPT ![c] = [NoCall EXCEPT !.pc = "over"]]

TakesCached(c, account) ==
  call' = [call EXCEPT ![c] = [NoCall EXCEPT !.pc = "served", !.account = account,
                                           !.taken = cached.account, !.left = cached.dies - clock]]

\* A call reads the file.  There is no credential: it is refused (the quota: unavailable).
Unconfigured(c) ==
  /\ call[c].pc = "idle" /\ file = NoAccount
  /\ Ends(c)
  /\ UNCHANGED <<kind, clock, file, cached, lock, previous>>

\* The cached answer serves it.
Hits(c) ==
  /\ call[c].pc = "idle" /\ file # NoAccount /\ Valid(file)
  /\ TakesCached(c, file)
  /\ UNCHANGED <<kind, clock, file, cached, lock, previous>>

\* It does not: the call goes to the lock.
Misses(c) ==
  /\ call[c].pc = "idle" /\ file # NoAccount /\ ~Valid(file)
  /\ call' = [call EXCEPT ![c] = [NoCall EXCEPT !.pc = "waiting", !.account = file]]
  /\ lock' = Append(lock, c)
  /\ UNCHANGED <<kind, clock, file, cached, previous>>

\* It has the lock.  A token call reads the file again, the quota does not.
HoldsLock(c) == lock # <<>> /\ Head(lock) = c /\ call[c].pc = "waiting"

Current(c) == IF kind = "quota" THEN call[c].account ELSE file

Release == lock' = Tail(lock)

\* The credential is gone, and with it the cached token.
FindsNone(c) ==
  /\ HoldsLock(c) /\ Current(c) = NoAccount
  /\ Ends(c)
  /\ cached' = NoAnswer /\ previous' = NoAnswer
  /\ Release
  /\ UNCHANGED <<kind, clock, file>>

\* Another call has asked meanwhile.
FindsAnswer(c) ==
  /\ HoldsLock(c) /\ Current(c) # NoAccount /\ Valid(Current(c))
  /\ TakesCached(c, Current(c))
  /\ Release
  /\ UNCHANGED <<kind, clock, file, cached, previous>>

\* The answer is cached for the calls behind, and serves this one.
Store(c, answer) ==
  /\ cached' = answer
  /\ previous' = cached
  /\ call' = [call EXCEPT ![c] = [NoCall EXCEPT !.pc = "served", !.account = answer.account]]
  /\ Release

\* An account with a token of its own has nothing to ask for.
Mints(c) ==
  /\ HoldsLock(c) /\ Current(c) \in Ready /\ ~Valid(Current(c))
  /\ Store(c, [account |-> Current(c), asked |-> clock, expires |-> clock + Life[kind],
               dies |-> clock + Life[kind]])
  /\ UNCHANGED <<kind, clock, file>>

\* One that is not complete has nothing to ask with.
Lacks(c) ==
  /\ HoldsLock(c) /\ Current(c) \in Partial \ Ready /\ ~Valid(Current(c))
  /\ Ends(c)
  /\ Release
  /\ UNCHANGED <<kind, clock, file, cached, previous>>

\* Mutant: the call does not look at the cache again.
AsksBlindly(c) ==
  /\ HoldsLock(c) /\ Current(c) \in Accounts \ (Ready \cup Partial)
  /\ call' = [call EXCEPT ![c] = [NoCall EXCEPT
                   !.pc = "asking", !.account = Current(c), !.since = clock]]
  /\ UNCHANGED <<kind, clock, file, cached, lock, previous>>

\* Every other asks the provider, and waits, holding the lock.
AsksProvider(c) ==
  /\ HoldsLock(c) /\ Current(c) \in Accounts \ (Ready \cup Partial) /\ ~Valid(Current(c))
  /\ call' = [call EXCEPT ![c] = [NoCall EXCEPT
                   !.pc = "asking", !.account = Current(c), !.since = clock]]
  /\ UNCHANGED <<kind, clock, file, cached, lock, previous>>

\* The provider answers.  What it says of Copilot's token may be any time; the platform's
\* token lives from now.
ProviderAnswers(c) ==
  /\ call[c].pc = "asking"
  /\ \E dies \in IF kind = "copilot" THEN clock .. clock + Life[kind] ELSE {clock + Life[kind]} :
       call' = [call EXCEPT ![c].pc = "told", ![c].dies = dies]
  /\ UNCHANGED <<kind, clock, file, cached, lock, previous>>

\* What call c asked for, which ends at the given times.
Obtained(c, expires, dies) ==
  [account |-> call[c].account, asked |-> call[c].since, expires |-> expires,
   dies |-> dies]

CopilotToken(c) == Obtained(c, call[c].dies, call[c].dies)

\* Mutant: the life is counted from when the answer arrives.
PlatformTokenLate(c) == Obtained(c, clock + Life[kind], call[c].dies)

\* The platform does not say when its token ends; it is counted from the question.
PlatformToken(c) == Obtained(c, call[c].since + Life[kind], call[c].dies)

QuotaAnswer(c, good) ==
  LET ends == clock + IF good THEN Life[kind] ELSE FailureLife
  IN  Obtained(c, ends, ends)

\* The answer arrives.
Receives(c) ==
  /\ call[c].pc = "told"
  /\ Store(c, CASE kind = "copilot" -> CopilotToken(c)
                [] kind = "platform" -> PlatformToken(c)
                [] kind = "quota" -> QuotaAnswer(c, TRUE))
  /\ UNCHANGED <<kind, clock, file>>

\* Mutant: a failed question leaves the lock taken.
FailsHolding(c) ==
  /\ call[c].pc \in {"asking", "told"}
  /\ IF kind = "quota"
     THEN Store(c, QuotaAnswer(c, FALSE))
     ELSE Ends(c) /\ UNCHANGED <<cached, previous, lock>>
  /\ UNCHANGED <<kind, clock, file>>

\* It does not, in time or in a usable form.  A token call fails; the quota caches the
\* failure and serves it.
Fails(c) ==
  /\ call[c].pc \in {"asking", "told"}
  /\ IF kind = "quota"
     THEN Store(c, QuotaAnswer(c, FALSE))
     ELSE Ends(c) /\ Release /\ UNCHANGED <<cached, previous>>
  /\ UNCHANGED <<kind, clock, file>>

-----------------------------------------------------------------------------
(* What a call does with its answer *)

\* The proxy forwards the request with the token and hands back what it gets, or 502.
CopilotForwards(c) == kind = "copilot" /\ Ends(c)

PlatformForwards(c) == kind = "platform" /\ Ends(c)

\* The route replies, with 200 in any case.
QuotaReplies(c) == kind = "quota" /\ Ends(c)

Forwards(c) ==
  /\ call[c].pc = "served"
  /\ CopilotForwards(c) \/ PlatformForwards(c) \/ QuotaReplies(c)
  /\ UNCHANGED <<kind, clock, file, cached, lock, previous>>

\* Time passes; no question outlasts its limit.
Tick ==
  /\ clock < MaxClock
  /\ \A c \in Calls : call[c].pc \in {"asking", "told"} => clock < call[c].since + Patience[kind]
  /\ clock' = clock + 1
  /\ UNCHANGED <<kind, file, cached, call, lock, previous>>

LockStep(c) == FindsNone(c) \/ FindsAnswer(c) \/ Mints(c) \/ Lacks(c) \/ AsksProvider(c)

CredentialsNext ==
  \/ Rewritten \/ Tick
  \/ \E c \in Calls : Unconfigured(c) \/ Hits(c) \/ Misses(c) \/ LockStep(c)
                      \/ ProviderAnswers(c) \/ Receives(c) \/ Fails(c) \/ Forwards(c)

\* The event loop runs the call at the lock, and a question ends by its limit.
CredentialsFairness ==
  \A c \in Calls : WF_credentialVars(LockStep(c)) /\ WF_credentialVars(Receives(c) \/ Fails(c))

CredentialsSpec == CredentialsInit /\ [][CredentialsNext]_credentialVars /\ CredentialsFairness

-----------------------------------------------------------------------------
(* Properties *)

\* Calls that arrive together cost one question: an answer, or for the quota a failure,
\* is asked for again only when the last one of the account was about to end.
ExchangeShared ==
  previous # NoAnswer /\ previous.account = cached.account
    => previous.expires - cached.asked < Margin[kind]

\* A call that takes an answer another has asked for gets one of the account it read
\* itself, and one that by the provider's own count lives on for the margin.
SharedIsGood ==
  \A c \in Calls :
     call[c].pc = "served" /\ call[c].taken # NoAccount
       => call[c].taken = call[c].account /\ call[c].left >= Margin[kind]

\* Every call that waits for its turn at the provider is served, refused or failed,
\* however the calls before it end.
EachCallEnds ==
  \A c \in Calls : call[c].pc = "waiting" ~> call[c].pc \in {"served", "over"}

=============================================================================
