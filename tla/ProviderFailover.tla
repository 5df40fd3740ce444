-------------------------- MODULE ProviderFailover --------------------------
(***************************************************************************)
(* Calls to the finance providers: the failover loop of the registry, the  *)
(* retry loop and the circuit breaker of each provider                     *)
(* (finsage/providers/finance/registry.py and resilience.py).              *)
(*                                                                         *)
(* The module is about one operation in one market: the breaker's key is   *)
(* operation.market.provider, so two of those share no state.  The calls   *)
(* run in one event loop; an action is what a call does between two        *)
(* awaits.  While a call waits for a provider or for its back-off delay    *)
(* others start, answer and fail, and time passes.                         *)
(***************************************************************************)
EXTENDS Naturals, FiniteSets

CONSTANTS Calls,      \* the invocations that may be under way at once
          Candidates, \* the providers registered for the operation and market
          Priority,   \* Priority[p]: its place, smaller first; the sort is
                      \* stable, so no two candidates share a place
          Threshold,  \* CircuitBreaker.failure_threshold
          Interval,   \* CircuitBreaker.open_interval_seconds, in ticks
          Retries,    \* retries of invoke
          NoProvider  \* no provider at all

ASSUME ConstantsAssumption ==
  /\ Priority \in [Candidates -> Nat]
  /\ \A p, q \in Candidates : Priority[p] = Priority[q] => p = q
  /\ Threshold \in Nat \ {0} /\ Interval \in Nat /\ Retries \in Nat
  /\ NoProvider \notin Candidates

VARIABLES
  failures, \* failures[p]: CircuitBreaker._failures
  age,      \* age[p]: the time since CircuitBreaker._opened_at, if it is set
  phase,    \* phase[c]: "idle", "calling", "sleeping" or an outcome
  at,       \* at[c]: the provider the call is at, or ended at
  attempt,  \* attempt[c]: the retries made at that provider
  dead      \* dead[c]: the candidates that failed or were skipped (history)

breakerVars == <<failures, age>>
vars        == <<failures, age, phase, at, attempt, dead>>

Outcomes == {"answered", "failed", "raised", "cancelled"}
Ended(c) == phase[c] \in Outcomes \cup {"idle"}

\* _opened_at has no entry for the provider.
NotOpened == Interval + 2

-----------------------------------------------------------------------------
(* The circuit breaker *)

\* Mutant: once opened it stays open until a call succeeds.
IsOpenForEver(p) == age[p] # NotOpened

\* is_open(): the interval has not passed since it opened.
IsOpen(p) == age[p] <= Interval

RecordSuccess(p) ==
  /\ failures' = [failures EXCEPT ![p] = 0]
  /\ age'      = [age EXCEPT ![p] = NotOpened]

\* Mutant: every further failure starts the interval anew.
RecordFailureAnew(p) ==
  /\ failures' = [failures EXCEPT ![p] = IF @ < Threshold THEN @ + 1 ELSE @]
  /\ age'      = [age EXCEPT ![p] = IF failures'[p] >= Threshold THEN 0 ELSE @]

\* The count is kept up to Threshold, which is all it is compared with.
\* setdefault: a breaker that was opened before keeps its old time.
RecordFailure(p) ==
  /\ failures' = [failures EXCEPT ![p] = IF @ < Threshold THEN @ + 1 ELSE @]
  /\ age'      = [age EXCEPT ![p] =
                   IF failures'[p] >= Threshold /\ @ = NotOpened THEN 0 ELSE @]

-----------------------------------------------------------------------------
(* The failover loop *)

Ahead(p, q) == Priority[p] < Priority[q]

OpenOnes == {p \in Candidates : IsOpen(p)}

\* Call c enters provider p; gone is what it went past.
Enter(c, p, gone) ==
  /\ phase'   = [phase EXCEPT ![c] = "calling"]
  /\ at'      = [at EXCEPT ![c] = p]
  /\ attempt' = [attempt EXCEPT ![c] = 0]
  /\ dead'    = [dead EXCEPT ![c] = gone]

\* Nothing is left to call.
GiveUp(c, gone) ==
  /\ phase' = [phase EXCEPT ![c] = "failed"]
  /\ dead'  = [dead EXCEPT ![c] = gone]
  /\ UNCHANGED <<at, attempt>>

\* Mutant: an open breaker ends the loop.
MoveOnStopsAtOpen(c, gone, left, open) ==
  \/ /\ \A p \in left : p \in open \/ \E q \in left \cap open : Ahead(q, p)
     /\ GiveUp(c, gone \cup (left \cap open))
  \/ \E p \in left \ open :
       /\ \A q \in left : q = p \/ Ahead(p, q)
       /\ Enter(c, p, gone)

\* Call c goes on with the candidates left: it skips those whose breaker is
\* open and calls the first other one, or fails when there is none.
MoveOn(c, gone, left, open) ==
  \/ left \subseteq open /\ GiveUp(c, gone \cup left)
  \/ \E p \in left \ open :
       /\ \A q \in left \ open : q = p \/ Ahead(p, q)
       /\ Enter(c, p, gone \cup {q \in left : Ahead(q, p)})

\* The loop after the candidate the call is at.
NextCandidate(c) ==
  MoveOn(c, dead[c] \cup {at[c]}, {q \in Candidates : Ahead(at[c], q)}, OpenOnes)

-----------------------------------------------------------------------------
Init ==
  /\ failures = [p \in Candidates |-> 0]
  /\ age      = [p \in Candidates |-> NotOpened]
  /\ phase    = [c \in Calls |-> "idle"]
  /\ at       = [c \in Calls |-> NoProvider]
  /\ attempt  = [c \in Calls |-> 0]
  /\ dead     = [c \in Calls |-> {}]

\* invoke(): the caller may be one that called before.
Invoke(c) ==
  /\ Ended(c)
  /\ MoveOn(c, {}, Candidates, OpenOnes)
  /\ UNCHANGED breakerVars

\* The provider answers: the breaker is closed, whoever opened it and whenever
\* the call began.
Answer(c) ==
  /\ phase[c] = "calling"
  /\ RecordSuccess(at[c])
  /\ phase' = [phase EXCEPT ![c] = "answered"]
  /\ UNCHANGED <<at, attempt, dead>>

\* A retryable ProviderError (a timeout among them) with retries left.
FailSoftly(c) ==
  /\ phase[c] = "calling" /\ attempt[c] < Retries
  /\ phase' = [phase EXCEPT ![c] = "sleeping"]
  /\ UNCHANGED <<breakerVars, at, attempt, dead>>

\* Mutant: the retry is not counted.
TryAgainUncounted(c) ==
  /\ phase[c] = "sleeping"
  /\ phase' = [phase EXCEPT ![c] = "calling"]
  /\ UNCHANGED <<breakerVars, at, attempt, dead>>

\* The back-off delay is over: the provider is called again, without another
\* look at the breaker.
TryAgain(c) ==
  /\ phase[c] = "sleeping"
  /\ phase'   = [phase EXCEPT ![c] = "calling"]
  /\ attempt' = [attempt EXCEPT ![c] = @ + 1]
  /\ UNCHANGED <<breakerVars, at, dead>>

\* A retryable ProviderError on the last attempt: it counts, and the next
\* candidate is tried.
FailAtLast(c) ==
  /\ phase[c] = "calling" /\ attempt[c] = Retries
  /\ RecordFailure(at[c])
  /\ NextCandidate(c)

\* A ProviderError that is not retryable (bad data): it does not count.
FailForGood(c) ==
  /\ phase[c] = "calling"
  /\ NextCandidate(c)
  /\ UNCHANGED breakerVars

\* Any other exception leaves the loop at once.
Raise(c) ==
  /\ phase[c] = "calling"
  /\ phase' = [phase EXCEPT ![c] = "raised"]
  /\ UNCHANGED <<breakerVars, at, attempt, dead>>

\* The caller gives up (a time limit around invoke, an aborted task).
Cancel(c) ==
  /\ phase[c] \in {"calling", "sleeping"}
  /\ phase' = [phase EXCEPT ![c] = "cancelled"]
  /\ UNCHANGED <<breakerVars, at, attempt, dead>>

\* Time passes; what matters of an age is whether it exceeds the interval.
Tick ==
  /\ age' = [p \in Candidates |-> IF age[p] <= Interval THEN age[p] + 1
                                                        ELSE age[p]]
  /\ UNCHANGED <<failures, phase, at, attempt, dead>>

StepCall(c) ==
  \/ Answer(c) \/ FailSoftly(c) \/ TryAgain(c)
  \/ FailAtLast(c) \/ FailForGood(c) \/ Raise(c)

Next ==
  \/ \E c \in Calls : Invoke(c) \/ StepCall(c) \/ Cancel(c)
  \/ Tick

Spec == Init /\ [][Next]_vars

\* Each provider call has a time limit (BaseProvider._call), so it answers or
\* fails; delays end; time passes.  Nobody has to call.
Fairness ==
  /\ \A c \in Calls : WF_vars(StepCall(c))
  /\ WF_vars(Tick)

FairSpec == Spec /\ Fairness

-----------------------------------------------------------------------------
(* Properties *)

\* Types of the state.
TypeOK ==
  /\ failures \in [Candidates -> 0..Threshold]
  /\ age      \in [Candidates -> 0..NotOpened]
  /\ phase    \in [Calls -> {"idle", "calling", "sleeping"} \cup Outcomes]
  /\ at       \in [Calls -> Candidates \cup {NoProvider}]
  /\ attempt  \in [Calls -> 0..Retries]
  /\ dead     \in [Calls -> SUBSET Candidates]

Inside(c) == phase[c] \in {"calling", "sleeping"}

\* The two tables of the breaker tell the same story, whatever calls overlap:
\* a time is recorded exactly while the last Threshold calls that counted
\* were failures.
CountAndTimeAgree ==
  \A p \in Candidates : failures[p] = Threshold <=> age[p] # NotOpened

\* Failover is in priority order and complete: the calls that are at a
\* provider, or got its answer, went past exactly the ones ahead of it, and a
\* call fails only when all candidates failed it or were open.
PriorityFailover ==
  \A c \in Calls :
    /\ Inside(c) \/ phase[c] = "answered" =>
         dead[c] = {q \in Candidates : Ahead(q, at[c])}
    /\ phase[c] = "failed" => dead[c] = Candidates

\* Calls that entered a provider before its breaker opened report while it is
\* open, in any order.  Their failures do not prolong the interval; nobody else
\* enters meanwhile; and only the answer of one of them ends it early.
OpenRunsItsCourse ==
  [][\A p \in Candidates : IsOpen(p) =>
       /\ \A c \in Calls :
            (Inside(c) /\ at[c] = p)' => Inside(c) /\ at[c] = p
       /\ \/ age'[p] \in {age[p], age[p] + 1}
          \/ \E c \in Calls : /\ phase[c] = "calling" /\ at[c] = p
                             /\ phase'[c] = "answered"]_vars

\* No call hangs: each one returns.
EveryCallReturns == \A c \in Calls : Inside(c) ~> ~Inside(c)

\* A provider is never given up for good: its breaker lets calls pass again.
ProviderIsProbedAgain == \A p \in Candidates : []<>~IsOpen(p)

-----------------------------------------------------------------------------
(* What the source says and the code does not do *)

\* test_breaker_opens_after_threshold: when as many calls as the threshold
\* have failed in a row the breaker is open.
ThresholdOpens ==
  [][\A c \in Calls : FailAtLast(c) /\ failures'[at[c]] = Threshold =>
       IsOpen(at[c])']_vars
=============================================================================
