----------------------- MODULE ProviderFailoverProofs -----------------------
(***************************************************************************)
(* Theorems about ProviderFailover, for any number of calls and            *)
(* candidates, any priorities, threshold, interval and number of retries.  *)
(***************************************************************************)
EXTENDS ProviderFailover, TLAPS

-----------------------------------------------------------------------------
(* Facts about the operators of the module *)

\* The sentinel age is an age, and more than the interval.
LEMMA NotOpenedType == NotOpened \in Nat /\ NotOpened > Interval + 1
BY ConstantsAssumption DEF ConstantsAssumption, NotOpened

\* What the loop does next leaves the types alone.
LEMMA MoveOnType ==
  ASSUME TypeOK, NEW c \in Calls, NEW gone \in SUBSET Candidates,
         NEW left \in SUBSET Candidates, MoveOn(c, gone, left, OpenOnes)
  PROVE  /\ phase' \in [Calls -> {"idle", "calling", "sleeping"} \cup Outcomes]
         /\ at' \in [Calls -> Candidates \cup {NoProvider}]
         /\ attempt' \in [Calls -> 0..Retries]
         /\ dead' \in [Calls -> SUBSET Candidates]
<1>1. 0 \in 0..Retries
  BY ConstantsAssumption DEF ConstantsAssumption
<1>2. CASE GiveUp(c, gone \cup left)
  BY <1>2 DEF GiveUp, TypeOK, Outcomes
<1>3. ASSUME NEW p \in left,
             Enter(c, p, gone \cup {q \in left : Ahead(q, p)})
      PROVE  /\ phase' \in [Calls -> {"idle", "calling", "sleeping"}
                                       \cup Outcomes]
             /\ at' \in [Calls -> Candidates \cup {NoProvider}]
             /\ attempt' \in [Calls -> 0..Retries]
             /\ dead' \in [Calls -> SUBSET Candidates]
  BY <1>1, <1>3 DEF Enter, TypeOK
<1> QED BY <1>2, <1>3 DEF MoveOn

\* Counting a failure keeps the types of the breakers and their two tables in
\* agreement.
LEMMA RecordFailureKeeps ==
  ASSUME TypeOK, CountAndTimeAgree, NEW p \in Candidates, RecordFailure(p)
  PROVE  /\ failures' \in [Candidates -> 0..Threshold]
         /\ age' \in [Candidates -> 0..NotOpened]
         /\ CountAndTimeAgree'
<1>1. failures' \in [Candidates -> 0..Threshold]
  BY ConstantsAssumption DEF ConstantsAssumption, RecordFailure, TypeOK
<1>2. age' \in [Candidates -> 0..NotOpened]
  BY NotOpenedType DEF RecordFailure, TypeOK
<1>3. ASSUME NEW q \in Candidates
      PROVE  (failures'[q] = Threshold) <=> (age'[q] # NotOpened)
  <2>1. CASE q # p
    BY <2>1 DEF RecordFailure, TypeOK, CountAndTimeAgree
  <2>2. CASE q = p
    <3>1. failures'[p] \in 0..Threshold /\ failures[p] \in 0..Threshold
      BY <1>1 DEF TypeOK
    <3>2. age'[p] = IF failures'[p] >= Threshold /\ age[p] = NotOpened
                    THEN 0 ELSE age[p]
      BY DEF RecordFailure, TypeOK
    <3>3. failures'[p] = IF failures[p] < Threshold THEN failures[p] + 1
                                                    ELSE failures[p]
      BY DEF RecordFailure, TypeOK
    <3>4. failures[p] = Threshold <=> age[p] # NotOpened
      BY DEF CountAndTimeAgree
    <3> QED
      BY <2>2, <3>1, <3>2, <3>3, <3>4, NotOpenedType, ConstantsAssumption
      DEF ConstantsAssumption
  <2> QED BY <2>1, <2>2
<1> QED BY <1>1, <1>2, <1>3 DEF CountAndTimeAgree

\* A success keeps them in agreement too.
LEMMA RecordSuccessKeeps ==
  ASSUME TypeOK, CountAndTimeAgree, NEW p \in Candidates, RecordSuccess(p)
  PROVE  /\ failures' \in [Candidates -> 0..Threshold]
         /\ age' \in [Candidates -> 0..NotOpened]
         /\ CountAndTimeAgree'
BY NotOpenedType, ConstantsAssumption
DEF ConstantsAssumption, RecordSuccess, TypeOK, CountAndTimeAgree

\* Time does not set or clear a recorded time.
LEMMA TickKeeps ==
  ASSUME TypeOK, CountAndTimeAgree, Tick
  PROVE  TypeOK' /\ CountAndTimeAgree'
<1>1. age' \in [Candidates -> 0..NotOpened]
  BY NotOpenedType, ConstantsAssumption DEF Tick, TypeOK, ConstantsAssumption
<1>2. \A p \in Candidates : (age'[p] = NotOpened) <=> (age[p] = NotOpened)
  BY NotOpenedType, ConstantsAssumption DEF Tick, TypeOK, ConstantsAssumption
<1> QED BY <1>1, <1>2 DEF Tick, TypeOK, CountAndTimeAgree

-----------------------------------------------------------------------------
(* The inductive invariant *)

\* A call that is inside a provider names it, and one that waits to try again
\* has a retry left.
Placed ==
  \A c \in Calls : /\ Inside(c) => at[c] \in Candidates
                   /\ phase[c] = "sleeping" => attempt[c] < Retries

Inv == TypeOK /\ Placed /\ CountAndTimeAgree /\ PriorityFailover

\* A call that moves on from the candidates it went past enters a provider, or
\* fails, with exactly the right ones behind it.
LEMMA MoveOnKeeps ==
  ASSUME Inv, NEW c \in Calls, NEW gone \in SUBSET Candidates,
         NEW left \in SUBSET Candidates, gone \cup left = Candidates,
         \A p \in gone, q \in left : Ahead(p, q),
         MoveOn(c, gone, left, OpenOnes)
  PROVE  Placed' /\ PriorityFailover'
<1> USE DEF Inv
<1>1. ASSUME NEW d \in Calls \ {c}
      PROVE  /\ phase'[d] = phase[d] /\ at'[d] = at[d] /\ dead'[d] = dead[d]
             /\ attempt'[d] = attempt[d]
  BY DEF MoveOn, GiveUp, Enter, TypeOK
<1>2. CASE GiveUp(c, gone \cup left)
  <2>1. phase'[c] = "failed" /\ dead'[c] = Candidates
    BY <1>2 DEF GiveUp, TypeOK
  <2> QED
    BY <1>1, <2>1 DEF Placed, PriorityFailover, Inside
<1>3. ASSUME NEW p \in left,
             Enter(c, p, gone \cup {q \in left : Ahead(q, p)})
      PROVE  Placed' /\ PriorityFailover'
  <2>1. /\ phase'[c] = "calling" /\ at'[c] = p
        /\ dead'[c] = gone \cup {q \in left : Ahead(q, p)}
    BY <1>3 DEF Enter, TypeOK
  <2>2. dead'[c] = {q \in Candidates : Ahead(q, p)}
    BY <2>1
  <2> QED
    BY <1>1, <2>1, <2>2 DEF Placed, PriorityFailover, Inside
<1> QED BY <1>2, <1>3 DEF MoveOn

\* While a call stays at its provider, or leaves it with an outcome, what it
\* went past stays right.
LEMMA StayKeeps ==
  ASSUME Inv, NEW c \in Calls, Inside(c), NEW s,
         s \in {"calling", "sleeping", "answered", "raised", "cancelled"},
         phase' = [phase EXCEPT ![c] = s], UNCHANGED <<at, dead>>,
         \A d \in Calls \ {c} : attempt'[d] = attempt[d],
         s = "sleeping" => attempt'[c] < Retries
  PROVE  Placed' /\ PriorityFailover'
BY DEF Inv, TypeOK, Placed, PriorityFailover, Inside

\* Initially nobody calls and no breaker is open.
LEMMA InvInit == Init => Inv
BY NotOpenedType, ConstantsAssumption
DEF Init, Inv, TypeOK, Placed, CountAndTimeAgree, PriorityFailover, Inside,
    Outcomes, ConstantsAssumption

\* Every step keeps the invariant.
LEMMA InvStep == Inv /\ [Next]_vars => Inv'
<1> SUFFICES ASSUME Inv, [Next]_vars PROVE Inv'
  OBVIOUS
<1>0. TypeOK /\ CountAndTimeAgree
  BY DEF Inv
<1>1. ASSUME NEW c \in Calls, Invoke(c) PROVE Inv'
  <2>1. TypeOK'
    BY <1>0, <1>1, MoveOnType DEF Invoke, breakerVars, TypeOK
  <2>2. Placed' /\ PriorityFailover'
    BY <1>1, MoveOnKeeps DEF Invoke
  <2> QED BY <1>0, <1>1, <2>1, <2>2 DEF Inv, Invoke, breakerVars,
             CountAndTimeAgree
<1>2. ASSUME NEW c \in Calls, Answer(c) PROVE Inv'
  <2>1. at[c] \in Candidates
    BY <1>2 DEF Inv, Placed, Inside, Answer
  <2>2. TypeOK' /\ CountAndTimeAgree'
    BY <1>0, <1>2, <2>1, RecordSuccessKeeps DEF Answer, TypeOK, Outcomes
  <2>3. Placed' /\ PriorityFailover'
    BY <1>2, StayKeeps DEF Answer, Inside
  <2> QED BY <2>2, <2>3 DEF Inv
<1>3. ASSUME NEW c \in Calls, FailSoftly(c) PROVE Inv'
  <2>1. TypeOK' /\ CountAndTimeAgree'
    BY <1>0, <1>3 DEF TypeOK, CountAndTimeAgree, FailSoftly, breakerVars
  <2>2. Placed' /\ PriorityFailover'
    BY <1>3, StayKeeps DEF FailSoftly, Inside
  <2> QED BY <2>1, <2>2 DEF Inv
<1>4. ASSUME NEW c \in Calls, TryAgain(c) PROVE Inv'
  <2>1. attempt[c] < Retries
    BY <1>4 DEF Inv, Placed, TryAgain
  <2>2. attempt[c] + 1 \in 0..Retries
    BY <1>0, <2>1, ConstantsAssumption DEF ConstantsAssumption, TypeOK
  <2>3. TypeOK' /\ CountAndTimeAgree'
    BY <1>0, <1>4, <2>2 DEF TypeOK, CountAndTimeAgree, TryAgain, breakerVars
  <2>4. Placed' /\ PriorityFailover'
    BY <1>0, <1>4, StayKeeps DEF TryAgain, Inside, TypeOK
  <2> QED BY <2>3, <2>4 DEF Inv
<1>5. ASSUME NEW c \in Calls, FailAtLast(c) \/ FailForGood(c) PROVE Inv'
  <2> DEFINE gone == dead[c] \cup {at[c]}
             left == {q \in Candidates : Ahead(at[c], q)}
  <2>1. at[c] \in Candidates /\ dead[c] = {q \in Candidates : Ahead(q, at[c])}
    BY <1>5
    DEF Inv, Placed, PriorityFailover, Inside, FailAtLast, FailForGood
  <2>2. /\ gone \in SUBSET Candidates /\ left \in SUBSET Candidates
        /\ gone \cup left = Candidates
        /\ \A p \in gone, q \in left : Ahead(p, q)
    BY <2>1, ConstantsAssumption DEF ConstantsAssumption, Ahead
  <2>3. MoveOn(c, gone, left, OpenOnes)
    BY <1>5 DEF FailAtLast, FailForGood, NextCandidate
  <2>4. /\ failures' \in [Candidates -> 0..Threshold]
        /\ age' \in [Candidates -> 0..NotOpened]
        /\ CountAndTimeAgree'
    <3>1. CASE FailAtLast(c)
      BY <1>0, <2>1, <3>1, RecordFailureKeeps DEF FailAtLast
    <3>2. CASE FailForGood(c)
      BY <1>0, <3>2 DEF FailForGood, breakerVars, TypeOK, CountAndTimeAgree
    <3> QED BY <1>5, <3>1, <3>2
  <2> HIDE DEF gone, left
  <2>5. TypeOK'
    BY <1>0, <2>2, <2>3, <2>4, MoveOnType DEF TypeOK
  <2>6. Placed' /\ PriorityFailover'
    BY <2>2, <2>3, MoveOnKeeps
  <2> QED BY <2>4, <2>5, <2>6 DEF Inv
<1>6. ASSUME NEW c \in Calls, Raise(c) \/ Cancel(c) PROVE Inv'
  <2>1. TypeOK' /\ CountAndTimeAgree'
    BY <1>0, <1>6
    DEF TypeOK, CountAndTimeAgree, Raise, Cancel, breakerVars, Outcomes
  <2>2. Placed' /\ PriorityFailover'
    BY <1>6, StayKeeps DEF Raise, Cancel, Inside
  <2> QED BY <2>1, <2>2 DEF Inv
<1>7. CASE Tick
  <2>1. TypeOK' /\ CountAndTimeAgree'
    BY <1>0, <1>7, TickKeeps
  <2>2. Placed' /\ PriorityFailover'
    BY <1>7 DEF Tick, Inv, Placed, PriorityFailover, Inside
  <2> QED BY <2>1, <2>2 DEF Inv
<1>8. CASE UNCHANGED vars
  BY <1>8 DEF vars, Inv, TypeOK, Placed, CountAndTimeAgree, PriorityFailover,
     Inside
<1> QED
  BY <1>1, <1>2, <1>3, <1>4, <1>5, <1>6, <1>7, <1>8 DEF Next, StepCall

\* The invariant holds in every state.
LEMMA Invariance == Spec => []Inv
BY InvInit, InvStep, PTL DEF Spec

-----------------------------------------------------------------------------
(* The theorems *)

\* Types, and the agreement of the breaker's count and time.
THEOREM BreakerCorrect == Spec => [](TypeOK /\ CountAndTimeAgree)
<1>1. Inv => TypeOK /\ CountAndTimeAgree
  BY DEF Inv
<1> QED BY <1>1, Invariance, PTL

\* Failover goes through all candidates in the order of their priority.
THEOREM FailoverCorrect == Spec => []PriorityFailover
<1>1. Inv => PriorityFailover
  BY DEF Inv
<1> QED BY <1>1, Invariance, PTL

\* While a breaker is open nobody enters its provider.
LEMMA NewcomersStayOut ==
  ASSUME Inv, [Next]_vars, NEW p \in Candidates, NEW c \in Calls,
         IsOpen(p), (Inside(c) /\ at[c] = p)'
  PROVE  Inside(c) /\ at[c] = p
<1>1. ASSUME NEW d \in Calls, NEW gone, NEW left \in SUBSET Candidates,
             MoveOn(d, gone, left, OpenOnes)
      PROVE  Inside(c) /\ at[c] = p
  <2>1. CASE d = c
    <3>1. phase'[c] = "failed" \/ at'[c] \in left \ OpenOnes
      BY <1>1, <2>1 DEF MoveOn, GiveUp, Enter, Inv, TypeOK
    <3> QED BY <3>1 DEF Inside, OpenOnes
  <2>2. CASE d # c
    <3>1. phase'[c] = phase[c] /\ at'[c] = at[c]
      BY <1>1, <2>2 DEF MoveOn, GiveUp, Enter, Inv, TypeOK
    <3> QED BY <3>1 DEF Inside
  <2> QED BY <2>1, <2>2
<1>2. ASSUME NEW d \in Calls, Invoke(d) \/ FailAtLast(d) \/ FailForGood(d)
      PROVE  Inside(c) /\ at[c] = p
  BY <1>1, <1>2 DEF Invoke, FailAtLast, FailForGood, NextCandidate
<1>3. ASSUME NEW d \in Calls,
             \/ Answer(d) \/ FailSoftly(d) \/ TryAgain(d)
             \/ Raise(d) \/ Cancel(d)
      PROVE  Inside(c) /\ at[c] = p
  BY <1>3 DEF Answer, FailSoftly, TryAgain, Raise, Cancel, Inside, Inv, TypeOK
<1>4. CASE Tick \/ UNCHANGED vars
  BY <1>4 DEF Tick, vars, Inside
<1> QED BY <1>2, <1>3, <1>4 DEF Next, StepCall

\* The time of an open breaker runs on, whoever fails at its provider, unless
\* a call at it is answered.
LEMMA OpenTimeRunsOn ==
  ASSUME Inv, [Next]_vars, NEW p \in Candidates, IsOpen(p)
  PROVE  \/ age'[p] \in {age[p], age[p] + 1}
         \/ \E c \in Calls : /\ phase[c] = "calling" /\ at[c] = p
                             /\ phase'[c] = "answered"
<1>1. /\ age \in [Candidates -> 0..NotOpened] /\ age[p] # NotOpened
      /\ phase \in [Calls -> {"idle", "calling", "sleeping"} \cup Outcomes]
  BY NotOpenedType, ConstantsAssumption
  DEF ConstantsAssumption, IsOpen, Inv, TypeOK
<1>2. ASSUME NEW c \in Calls, Answer(c), at[c] # p PROVE age'[p] = age[p]
  BY <1>1, <1>2 DEF Answer, RecordSuccess
<1>3. ASSUME NEW c \in Calls, Answer(c), at[c] = p
      PROVE  phase[c] = "calling" /\ phase'[c] = "answered"
  BY <1>1, <1>3 DEF Answer
<1>4. ASSUME NEW c \in Calls, FailAtLast(c) PROVE age'[p] = age[p]
  BY <1>1, <1>4 DEF FailAtLast, RecordFailure
<1>5. CASE Tick
  BY <1>1, <1>5 DEF Tick
<1>6. ASSUME NEW c \in Calls,
             \/ Invoke(c) \/ FailSoftly(c) \/ TryAgain(c)
             \/ FailForGood(c) \/ Raise(c) \/ Cancel(c)
      PROVE  age'[p] = age[p]
  BY <1>6
  DEF Invoke, FailSoftly, TryAgain, FailForGood, Raise, Cancel, breakerVars
<1>7. CASE UNCHANGED vars
  BY <1>7 DEF vars
<1> QED BY <1>2, <1>3, <1>4, <1>5, <1>6, <1>7 DEF Next, StepCall

\* Whatever the calls report that entered before it opened, an open breaker
\* keeps to its interval and lets nobody in, unless one of them is answered.
THEOREM OpenBreakerHolds == Spec => OpenRunsItsCourse
<1>1. Inv /\ [Next]_vars =>
        [\A p \in Candidates : IsOpen(p) =>
           /\ \A c \in Calls :
                (Inside(c) /\ at[c] = p)' => Inside(c) /\ at[c] = p
           /\ \/ age'[p] \in {age[p], age[p] + 1}
              \/ \E c \in Calls : /\ phase[c] = "calling" /\ at[c] = p
                                 /\ phase'[c] = "answered"]_vars
  BY NewcomersStayOut, OpenTimeRunsOn
<1> QED BY <1>1, Invariance, PTL DEF Spec, OpenRunsItsCourse

\* The breaker of p was opened once and its interval is over.
Spent(p) == failures[p] = Threshold /\ ~IsOpen(p)

\* A spent breaker never opens again: only an answer of its provider gives the
\* provider a breaker that works.
SpentStaysSpent ==
  [][\A p \in Candidates : Spent(p) =>
       \/ Spent(p)'
       \/ \E c \in Calls : Answer(c) /\ at[c] = p]_vars

\* Until its provider answers, a breaker whose interval has passed lets every
\* call through, however many more of them fail: setdefault keeps the time of
\* the first opening (resilience.py, record_failure).
THEOREM SpentBreakerStaysSpent == Spec => SpentStaysSpent
<1>1. ASSUME Inv, [Next]_vars, NEW p \in Candidates, Spent(p),
             ~\E c \in Calls : Answer(c) /\ at[c] = p
      PROVE  Spent(p)'
  <2>1. /\ failures \in [Candidates -> 0..Threshold]
        /\ age \in [Candidates -> 0..NotOpened]
        /\ age[p] # NotOpened /\ failures[p] = Threshold /\ ~(age[p] <= Interval)
        /\ Threshold \in Nat /\ Interval \in Nat
    BY <1>1, ConstantsAssumption
    DEF ConstantsAssumption, Spent, IsOpen, Inv, TypeOK, CountAndTimeAgree
  <2>2. CASE failures'[p] = failures[p] /\ age'[p] = age[p]
    BY <1>1, <2>2 DEF Spent, IsOpen
  <2>3. ASSUME NEW c \in Calls, Answer(c)
        PROVE  failures'[p] = failures[p] /\ age'[p] = age[p]
    BY <1>1, <2>1, <2>3 DEF Answer, RecordSuccess
  <2>4. ASSUME NEW c \in Calls, FailAtLast(c)
        PROVE  failures'[p] = failures[p] /\ age'[p] = age[p]
    BY <2>1, <2>4 DEF FailAtLast, RecordFailure
  <2>5. CASE Tick
    BY <2>1, <2>5 DEF Tick, Spent, IsOpen
  <2>6. ASSUME NEW c \in Calls,
               \/ Invoke(c) \/ FailSoftly(c) \/ TryAgain(c)
               \/ FailForGood(c) \/ Raise(c) \/ Cancel(c)
        PROVE  failures'[p] = failures[p] /\ age'[p] = age[p]
    BY <2>6
    DEF Invoke, FailSoftly, TryAgain, FailForGood, Raise, Cancel, breakerVars
  <2>7. CASE UNCHANGED vars
    BY <1>1, <2>7 DEF vars, Spent, IsOpen
  <2> QED
    BY <1>1, <2>2, <2>3, <2>4, <2>5, <2>6, <2>7 DEF Next, StepCall
<1>2. Inv /\ [Next]_vars =>
        [\A p \in Candidates : Spent(p) =>
           \/ Spent(p)'
           \/ \E c \in Calls : Answer(c) /\ at[c] = p]_vars
  BY <1>1
<1> QED BY <1>2, Invariance, PTL DEF Spec, SpentStaysSpent
=============================================================================
