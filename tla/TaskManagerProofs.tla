------------------------- MODULE TaskManagerProofs -------------------------
(***************************************************************************)
(* Theorems about TaskManager, for any sets of tasks, connections and      *)
(* abort requests and any semaphore size.                                  *)
(***************************************************************************)
EXTENDS TaskManager, FiniteSetTheorems, SequenceTheorems, TLAPS

-----------------------------------------------------------------------------
(* Facts about the operators of the module *)

\* Emitted events are events, whatever the length of the buffer.
LEMMA NumberedType ==
  ASSUME NEW t \in Tasks, buffer[t] \in Seq(Events),
         NEW types \in Seq(EventTypes)
  PROVE  Numbered(t, types) \in Seq(Events)
BY DEF Numbered, Events

\* The queues of the listeners stay queues of events and sentinels.
LEMMA FanOutType ==
  ASSUME NEW t \in Tasks, queue \in [Conns -> Seq(Events \cup {Sentinel})],
         NEW items \in Seq(Events \cup {Sentinel}), FanOut(t, items)
  PROVE  queue' \in [Conns -> Seq(Events \cup {Sentinel})]
BY DEF FanOut

\* emit keeps the types of the buffers and of the queues.
LEMMA EmitType ==
  ASSUME TypeOK, NEW t \in Tasks, NEW types \in Seq(EventTypes),
         Emit(t, types) \/ EmitAndClose(t, types)
  PROVE  /\ buffer' \in [Tasks -> Seq(Events)]
         /\ queue' \in [Conns -> Seq(Events \cup {Sentinel})]
<1>1. Numbered(t, types) \in Seq(Events)
  BY NumberedType DEF TypeOK
<1>2. /\ Numbered(t, types) \in Seq(Events \cup {Sentinel})
      /\ Numbered(t, types) \o <<Sentinel>> \in Seq(Events \cup {Sentinel})
  BY <1>1
<1>3. buffer' \in [Tasks -> Seq(Events)]
  <2>1. buffer[t] \o Numbered(t, types) \in Seq(Events)
    BY <1>1 DEF TypeOK
  <2> QED BY <2>1 DEF TypeOK, Emit, EmitAndClose
<1>4. queue' \in [Conns -> Seq(Events \cup {Sentinel})]
  BY <1>2, FanOutType DEF TypeOK, Emit, EmitAndClose
<1> QED BY <1>3, <1>4

\* Handing permits on keeps their types.
LEMMA WakeUpType ==
  ASSUME TypeOK, NEW t \in Tasks, NEW p \in Phases, NEW n \in Nat,
         WakeUpNext(t, p, n)
  PROVE  permits' \in Nat /\ phase' \in [Tasks -> Phases]
<1>1. CASE permits' = n /\ phase' = [phase EXCEPT ![t] = p]
  BY <1>1 DEF TypeOK
<1>2. CASE /\ n > 0 /\ permits' = n - 1
           /\ \E i \in 1..Len(waiters) :
                phase' = [phase EXCEPT ![t] = p, ![waiters[i]] = "granted"]
  <2>1. permits' \in Nat
    BY <1>2
  <2>2. PICK i \in 1..Len(waiters) :
          phase' = [phase EXCEPT ![t] = p, ![waiters[i]] = "granted"]
    BY <1>2
  <2>3. "granted" \in Phases
    BY DEF Phases
  <2>4. phase' \in [Tasks -> Phases]
    BY <2>2, <2>3 DEF TypeOK
  <2> QED BY <2>1, <2>4
<1> QED BY <1>1, <1>2 DEF WakeUpNext

\* Leaving the line keeps the line a sequence of tasks.
LEMMA LeaveLineType ==
  ASSUME waiters \in Seq(Tasks), NEW t \in Tasks, LeaveLine(t)
  PROVE  waiters' \in Seq(Tasks)
<1>1. PICK i \in 1..Len(waiters) : waiters' = RemoveAt(waiters, i)
  BY DEF LeaveLine
<1>2. SubSeq(waiters, 1, i - 1) \in Seq(Tasks)
  OBVIOUS
<1>3. SubSeq(waiters, i + 1, Len(waiters)) \in Seq(Tasks)
  OBVIOUS
<1> QED BY <1>1, <1>2, <1>3 DEF RemoveAt

-----------------------------------------------------------------------------
(* Types *)

\* The initial values have the types.
LEMMA TypeInit == Init /\ ConstantsAssumption => TypeOK
BY DEF Init, ConstantsAssumption, TypeOK, Statuses, Phases

\* Every step keeps the types.
LEMMA TypeStep == TypeOK /\ [Next]_vars => TypeOK'
<1> SUFFICES ASSUME TypeOK, [Next]_vars PROVE TypeOK'
  OBVIOUS
<1>l. /\ <<"workflow.started">> \in Seq(EventTypes)
      /\ <<"workflow.stage">> \in Seq(EventTypes)
      /\ <<"task.aborted">> \in Seq(EventTypes)
      /\ \A o \in Outcomes : OutcomeEvents(o) \in Seq(EventTypes)
  BY DEF EventTypes, OutcomeEvents, Outcomes
<1>w. permits \in Nat /\ permits + 1 \in Nat
  BY DEF TypeOK
<1>p. "running" \in Phases /\ "done" \in Phases
  BY DEF Phases
<1>1. ASSUME NEW t \in Tasks, Submit(t) PROVE TypeOK'
  BY <1>1 DEF TypeOK, Submit, Statuses, Phases, connVars, abortVars
<1>2. ASSUME NEW t \in Tasks, StartAtOnce(t) PROVE TypeOK'
  <2>1. permits' \in Nat
    BY <1>2 DEF StartAtOnce, Locked, TypeOK
  <2>2. buffer' \in [Tasks -> Seq(Events)] /\
        queue' \in [Conns -> Seq(Events \cup {Sentinel})]
    BY <1>2, <1>l, EmitType DEF StartAtOnce, EnterExecute
  <2> QED
    BY <1>2, <2>1, <2>2
    DEF TypeOK, StartAtOnce, EnterExecute, Statuses, Phases, abortVars
<1>3. ASSUME NEW t \in Tasks, JoinLine(t) PROVE TypeOK'
  BY <1>3 DEF TypeOK, JoinLine, Phases, handleVars, connVars, abortVars
<1>4. ASSUME NEW t \in Tasks, StartGranted(t) PROVE TypeOK'
  <2>1. permits' \in Nat /\ phase' \in [Tasks -> Phases]
    BY <1>4, <1>w, <1>p, WakeUpType DEF StartGranted
  <2>2. buffer' \in [Tasks -> Seq(Events)] /\
        queue' \in [Conns -> Seq(Events \cup {Sentinel})]
    BY <1>4, <1>l, EmitType DEF StartGranted, EnterExecute
  <2>3. waiters' \in Seq(Tasks)
    BY <1>4, LeaveLineType DEF StartGranted, TypeOK
  <2> QED
    BY <1>4, <2>1, <2>2, <2>3
    DEF TypeOK, StartGranted, EnterExecute, Statuses, abortVars
<1>19. ASSUME NEW t \in Tasks, RunnerSurvivesCancel(t) PROVE TypeOK'
  BY <1>19 DEF TypeOK, RunnerSurvivesCancel, handleVars, connVars, abortVars
<1>5. ASSUME NEW t \in Tasks, RunnerEmits(t) PROVE TypeOK'
  <2>1. buffer' \in [Tasks -> Seq(Events)] /\
        queue' \in [Conns -> Seq(Events \cup {Sentinel})]
    BY <1>5, <1>l, EmitType DEF RunnerEmits
  <2> QED
    BY <1>5, <2>1 DEF TypeOK, RunnerEmits, loopVars, abortVars
<1>6. ASSUME NEW t \in Tasks, NEW o \in Outcomes, RunnerEnds(t, o)
      PROVE TypeOK'
  <2>1. permits' \in Nat /\ phase' \in [Tasks -> Phases]
    BY <1>6, <1>w, <1>p, WakeUpType DEF RunnerEnds, ReturnPermit
  <2>2. buffer' \in [Tasks -> Seq(Events)] /\
        queue' \in [Conns -> Seq(Events \cup {Sentinel})]
    BY <1>6, <1>l, EmitType DEF RunnerEnds
  <2> QED
    BY <1>6, <2>1, <2>2
    DEF TypeOK, RunnerEnds, OutcomeStatus, OutcomeIsDated, Statuses, Terminal,
        abortVars
<1>7. ASSUME NEW t \in Tasks, CancelScheduled(t) PROVE TypeOK'
  BY <1>7 DEF TypeOK, CancelScheduled, Phases, handleVars, connVars, abortVars
<1>8. ASSUME NEW t \in Tasks, CancelWaiting(t) PROVE TypeOK'
  <2>1. waiters' \in Seq(Tasks)
    BY <1>8, LeaveLineType DEF CancelWaiting, TypeOK
  <2> QED
    BY <1>8, <2>1
    DEF TypeOK, CancelWaiting, Phases, handleVars, connVars, abortVars
<1>9. ASSUME NEW t \in Tasks, CancelGranted(t) PROVE TypeOK'
  <2>1. permits' \in Nat /\ phase' \in [Tasks -> Phases]
    BY <1>9, <1>w, <1>p, WakeUpType DEF CancelGranted, ReturnPermit
  <2>2. waiters' \in Seq(Tasks)
    BY <1>9, LeaveLineType DEF CancelGranted, TypeOK
  <2> QED
    BY <1>9, <2>1, <2>2
    DEF TypeOK, CancelGranted, handleVars, connVars, abortVars
<1>10. ASSUME NEW t \in Tasks, CancelRunning(t) PROVE TypeOK'
  <2>1. permits' \in Nat /\ phase' \in [Tasks -> Phases]
    BY <1>10, <1>w, <1>p, WakeUpType DEF CancelRunning, ReturnPermit
  <2>2. buffer' \in [Tasks -> Seq(Events)] /\
        queue' \in [Conns -> Seq(Events \cup {Sentinel})]
    BY <1>10, <1>l, EmitType DEF CancelRunning
  <2> QED
    BY <1>10, <2>1, <2>2
    DEF TypeOK, CancelRunning, Statuses, Terminal, abortVars
<1>11. ASSUME NEW a \in Aborts,
              \/ \E t \in Tasks : AbortEnded(a, t) \/ AbortLive(a, t)
              \/ AbortReturns(a)
       PROVE  TypeOK'
  <2>1. ASSUME NEW t \in Tasks, AbortEnded(a, t) PROVE TypeOK'
    BY <2>1 DEF TypeOK, AbortEnded, handleVars, loopVars, connVars
  <2>2. ASSUME NEW t \in Tasks, AbortLive(a, t) PROVE TypeOK'
    BY <2>2 DEF TypeOK, AbortLive, handleVars, connVars
  <2>3. CASE AbortReturns(a)
    BY <2>3 DEF TypeOK, AbortReturns, handleVars, loopVars, connVars
  <2> QED BY <1>11, <2>1, <2>2, <2>3
<1>12. ASSUME NEW c \in Conns, NEW t \in Tasks, Connect(c, t) PROVE TypeOK'
  BY <1>12 DEF TypeOK, Connect, handleVars, loopVars, abortVars
<1>13. ASSUME NEW c \in Conns, Replay(c) PROVE TypeOK'
  <2>1. /\ Head(ordered[c]) \in Events
        /\ Tail(ordered[c]) \in Seq(Events)
    BY <1>13 DEF Replay, TypeOK
  <2> QED
    BY <1>13, <2>1 DEF TypeOK, Replay, handleVars, loopVars, abortVars
<1>14. ASSUME NEW c \in Conns, EndReplay(c) PROVE TypeOK'
  BY <1>14 DEF TypeOK, EndReplay, Leave, handleVars, loopVars, abortVars
<1>15. ASSUME NEW c \in Conns, Deliver(c) PROVE TypeOK'
  <2>1. /\ Head(queue[c]) \in Events
        /\ Tail(queue[c]) \in Seq(Events \cup {Sentinel})
    BY <1>15 DEF Deliver, TypeOK
  <2> QED
    BY <1>15, <2>1 DEF TypeOK, Deliver, handleVars, loopVars, abortVars
<1>16. ASSUME NEW c \in Conns, EndLive(c) PROVE TypeOK'
  <2>1. Tail(queue[c]) \in Seq(Events \cup {Sentinel})
    BY <1>16 DEF EndLive, TypeOK
  <2> QED
    BY <1>16, <2>1 DEF TypeOK, EndLive, Leave, handleVars, loopVars, abortVars
<1>17. ASSUME NEW c \in Conns, Disconnect(c) \/ Unregister(c) PROVE TypeOK'
  <2>1. CASE Disconnect(c)
    BY <2>1 DEF TypeOK, Disconnect, handleVars, loopVars, abortVars
  <2>2. CASE Unregister(c)
    <3>1. /\ <<>> \in Seq(Events)
          /\ <<>> \in Seq(Events \cup {Sentinel})
      OBVIOUS
    <3> QED
      BY <2>2, <3>1 DEF TypeOK, Unregister, handleVars, loopVars, abortVars
  <2> QED BY <1>17, <2>1, <2>2
<1>18. CASE UNCHANGED vars
  BY <1>18
  DEF TypeOK, vars, handleVars, loopVars, connVars, abortVars
<1> QED
  BY <1>1, <1>2, <1>3, <1>4, <1>5, <1>6, <1>7, <1>8, <1>9, <1>10, <1>11,
     <1>12, <1>13, <1>14, <1>15, <1>16, <1>17, <1>18, <1>19
  DEF Next, StepTask, StepConn

\* The variables keep their types: TaskManager is well formed for any
\* constants that meet the assumption.
THEOREM TypeCorrect == Spec => []TypeOK
<1>1. Init => TypeOK
  BY TypeInit, ConstantsAssumption
<1> QED BY <1>1, TypeStep, PTL DEF Spec

-----------------------------------------------------------------------------
(* The semaphore *)

Holders == {t \in Tasks : Holding(t)}

\* A task whose future is pending is in line, so release() finds it.
PendingInLine ==
  \A t \in Tasks : phase[t] = "waiting" =>
    \E i \in 1..Len(waiters) : waiters[i] = t

SemaphoreInv == PermitsConserved /\ PendingInLine /\ NoLostWakeUp

\* The steps that touch neither a phase nor the semaphore keep its invariant;
\* a cancellation may only take a task out of those that are pending.
LEMMA SemaphoreFrame ==
  ASSUME SemaphoreInv, UNCHANGED <<phase, permits, waiters>>,
         \A t \in Tasks : phase[t] = "waiting" /\ cancelled[t] => cancelled'[t]
  PROVE  SemaphoreInv'
<1>1. PermitsConserved'
  BY DEF SemaphoreInv, PermitsConserved, Holding
<1>2. PendingInLine'
  BY DEF SemaphoreInv, PendingInLine
<1>3. NoLostWakeUp'
  BY DEF SemaphoreInv, NoLostWakeUp, Pending
<1> QED BY <1>1, <1>2, <1>3 DEF SemaphoreInv

\* Handing n permits on, by a task that held one of them, conserves permits.
LEMMA WakeUpConserves ==
  ASSUME TypeOK, SemaphoreInv, NEW t \in Tasks, Holding(t),
         NEW p \in {"running", "done"}, NEW n \in Nat,
         n = IF p = "running" THEN permits ELSE permits + 1,
         WakeUpNext(t, p, n)
  PROVE  PermitsConserved'
<1> DEFINE H == {u \in Tasks : Holding(u)}
           K == IF p = "running" THEN H ELSE H \ {t}
<1>1. IsFiniteSet(H) /\ Cardinality(H) \in Nat /\ t \in H
  BY ConstantsAssumption, FS_Subset, FS_CardinalityType DEF ConstantsAssumption
<1>2. IsFiniteSet(K) /\ n + Cardinality(K) = MaxConcurrent
  <2>1. permits \in Nat /\ permits + Cardinality(H) = MaxConcurrent
    BY DEF SemaphoreInv, PermitsConserved, TypeOK
  <2>2. CASE p = "running"
    BY <2>1, <2>2, <1>1
  <2>3. CASE p = "done"
    <3>1. /\ IsFiniteSet(H \ {t})
          /\ Cardinality(H \ {t}) = Cardinality(H) - 1
      BY <1>1, FS_RemoveElement
    <3>2. K = H \ {t} /\ n = permits + 1
      BY <2>3
    <3> HIDE DEF H, K
    <3> QED BY <2>1, <3>1, <3>2, <1>1
  <2> QED BY <2>2, <2>3
<1>3. CASE permits' = n /\ phase' = [phase EXCEPT ![t] = p]
  <2>1. {u \in Tasks : Holding(u)}' = K
    BY <1>3, <1>1 DEF Holding, TypeOK
  <2> QED BY <2>1, <1>2, <1>3 DEF PermitsConserved
<1>4. ASSUME n > 0, permits' = n - 1, NEW i \in 1..Len(waiters),
             FirstPending(i),
             phase' = [phase EXCEPT ![t] = p, ![waiters[i]] = "granted"]
      PROVE  PermitsConserved'
  <2>1. waiters[i] \in Tasks /\ waiters[i] \notin H /\ waiters[i] # t
    BY <1>4, <1>1 DEF FirstPending, Pending, Holding, TypeOK
  <2>2. {u \in Tasks : Holding(u)}' = K \cup {waiters[i]}
    BY <1>4, <1>1, <2>1 DEF Holding, TypeOK
  <2>3. Cardinality(K \cup {waiters[i]}) = Cardinality(K) + 1
    BY <1>2, <2>1, FS_AddElement
  <2>4. Cardinality(K) \in Nat
    BY <1>2, FS_CardinalityType
  <2>5. permits' + Cardinality(K \cup {waiters[i]}) = MaxConcurrent
    <3> HIDE DEF K
    <3> QED BY <2>3, <2>4, <1>2, <1>4
  <2> QED BY <2>2, <2>5 DEF PermitsConserved
<1> QED BY <1>3, <1>4 DEF WakeUpNext

\* Handing permits on leaves no free permit beside a queue nobody serves.
LEMMA WakeUpServes ==
  ASSUME TypeOK, SemaphoreInv, NEW t \in Tasks, Holding(t),
         NEW p \in {"running", "done"}, NEW n \in Nat,
         WakeUpNext(t, p, n), cancelled' = cancelled
  PROVE  /\ NoLostWakeUp'
         /\ \A u \in Tasks : phase'[u] = "waiting" => phase[u] = "waiting"
<1>1. CASE /\ n = 0 \/ ~\E i \in 1..Len(waiters) : Pending(waiters[i])
           /\ permits' = n
           /\ phase' = [phase EXCEPT ![t] = p]
  <2>1. \A u \in Tasks : phase'[u] = "waiting" => phase[u] = "waiting"
    BY <1>1 DEF TypeOK
  <2>2. CASE n = 0
    BY <1>1, <2>1, <2>2 DEF NoLostWakeUp
  <2>3. CASE ~\E i \in 1..Len(waiters) : Pending(waiters[i])
    <3>1. \A u \in Tasks : ~Pending(u)
      BY <2>3 DEF SemaphoreInv, PendingInLine, Pending
    <3>2. \A u \in Tasks : ~Pending(u)'
      BY <3>1, <2>1 DEF Pending
    <3> QED BY <3>2, <2>1 DEF NoLostWakeUp
  <2> QED BY <1>1, <2>2, <2>3
<1>2. ASSUME n > 0, NEW i \in 1..Len(waiters), FirstPending(i),
             phase' = [phase EXCEPT ![t] = p, ![waiters[i]] = "granted"]
      PROVE  /\ NoLostWakeUp'
             /\ \A u \in Tasks : phase'[u] = "waiting" => phase[u] = "waiting"
  <2>1. waiters[i] \in Tasks
    BY DEF TypeOK
  <2>2. phase'[waiters[i]] = "granted"
    BY <1>2, <2>1 DEF TypeOK
  <2>3. \A u \in Tasks : phase'[u] = "waiting" => phase[u] = "waiting"
    BY <1>2, <2>1 DEF TypeOK
  <2> QED BY <2>1, <2>2, <2>3 DEF NoLostWakeUp
<1> QED BY <1>1, <1>2 DEF WakeUpNext

\* Whoever else is in line stays in line when the future of t leaves it.
LEMMA OthersStayInLine ==
  ASSUME waiters \in Seq(Tasks), NEW t \in Tasks, LeaveLine(t),
         NEW u \in Tasks \ {t}, \E j \in 1..Len(waiters) : waiters[j] = u
  PROVE  \E j \in 1..Len(waiters') : waiters'[j] = u
<1>1. PICK i \in 1..Len(waiters) :
        waiters[i] = t /\ waiters' = RemoveAt(waiters, i)
  BY DEF LeaveLine
<1>2. PICK j \in 1..Len(waiters) : waiters[j] = u
  OBVIOUS
<1> DEFINE L == SubSeq(waiters, 1, i - 1)
           R == SubSeq(waiters, i + 1, Len(waiters))
<1>3. /\ L \in Seq(Tasks) /\ R \in Seq(Tasks)
      /\ Len(L) = i - 1 /\ Len(R) = Len(waiters) - i
      /\ \A k \in 1..(i - 1) : L[k] = waiters[k]
      /\ \A k \in 1..(Len(waiters) - i) : R[k] = waiters[i + k]
  OBVIOUS
<1>4. waiters' = L \o R
  BY <1>1 DEF RemoveAt
<1>8. /\ Len(L \o R) = Len(L) + Len(R)
      /\ \A k \in 1..(Len(L) + Len(R)) :
           (L \o R)[k] = IF k <= Len(L) THEN L[k] ELSE R[k - Len(L)]
  BY <1>3, ConcatProperties
<1> HIDE DEF L, R
<1>5. CASE j < i
  <2>1. j \in 1..Len(L \o R) /\ (L \o R)[j] = u
    BY <1>2, <1>3, <1>5, <1>8
  <2> QED BY <2>1, <1>4
<1>6. CASE j > i
  <2>1. j - 1 \in 1..Len(L \o R) /\ (L \o R)[j - 1] = R[j - i]
    BY <1>2, <1>3, <1>6, <1>8
  <2>2. R[j - i] = u
    BY <1>2, <1>3, <1>6
  <2> QED BY <2>1, <2>2, <1>4
<1>7. j # i
  BY <1>1, <1>2
<1> QED BY <1>5, <1>6, <1>7

\* At first the whole pool is free and nobody queues.
LEMMA SemaphoreInit == Init /\ ConstantsAssumption => SemaphoreInv
<1> SUFFICES ASSUME Init, ConstantsAssumption PROVE SemaphoreInv
  OBVIOUS
<1>1. {t \in Tasks : Holding(t)} = {}
  BY DEF Init, Holding
<1>2. PermitsConserved
  <2>1. permits = MaxConcurrent /\ MaxConcurrent \in Nat
    BY DEF Init, ConstantsAssumption
  <2>2. Cardinality({t \in Tasks : Holding(t)}) = 0
    BY <1>1, FS_EmptySet
  <2> QED BY <2>1, <2>2 DEF PermitsConserved
<1> QED
  BY <1>2 DEF SemaphoreInv, PendingInLine, NoLostWakeUp, Init, Pending

\* Every step keeps the invariant of the semaphore.
LEMMA SemaphoreStep ==
  TypeOK /\ SemaphoreInv /\ [Next]_vars => SemaphoreInv'
<1> SUFFICES ASSUME TypeOK, SemaphoreInv, [Next]_vars PROVE SemaphoreInv'
  OBVIOUS
<1>1. ASSUME NEW t \in Tasks, Submit(t) \/ CancelScheduled(t)
      PROVE  SemaphoreInv'
  <2>1. \E p \in {"scheduled", "done"} :
          /\ phase[t] \in {"none", "scheduled"}
          /\ phase' = [phase EXCEPT ![t] = p]
          /\ UNCHANGED <<cancelled, permits, waiters>>
    BY <1>1 DEF Submit, CancelScheduled
  <2>2. \A u \in Tasks : (Holding(u)' <=> Holding(u)) /\
                         (Pending(u)' <=> Pending(u)) /\
                         (phase'[u] = "granted" <=> phase[u] = "granted") /\
                         (phase'[u] = "waiting" <=> phase[u] = "waiting")
    BY <2>1 DEF Holding, Pending, TypeOK
  <2>3. {u \in Tasks : Holding(u)}' = {u \in Tasks : Holding(u)}
    BY <2>2
  <2>4. PermitsConserved'
    BY <2>1, <2>3 DEF SemaphoreInv, PermitsConserved
  <2>5. PendingInLine'
    BY <2>1, <2>2 DEF SemaphoreInv, PendingInLine
  <2>6. NoLostWakeUp'
    BY <2>1, <2>2 DEF SemaphoreInv, NoLostWakeUp
  <2> QED BY <2>4, <2>5, <2>6 DEF SemaphoreInv
<1>2. ASSUME NEW t \in Tasks, StartAtOnce(t) PROVE SemaphoreInv'
  <2> DEFINE H == {u \in Tasks : Holding(u)}
  <2>1. /\ permits \in Nat \ {0} /\ permits' = permits - 1
        /\ \A u \in Tasks : ~Pending(u)
        /\ phase[t] = "scheduled" /\ phase' = [phase EXCEPT ![t] = "running"]
        /\ UNCHANGED <<cancelled, waiters>>
    <3>1. permits \in Nat \ {0}
      BY <1>2 DEF StartAtOnce, Locked, TypeOK
    <3>2. ~\E i \in 1..Len(waiters) : Pending(waiters[i])
      BY <1>2 DEF StartAtOnce, Locked
    <3>3. \A u \in Tasks : ~Pending(u)
      BY <3>2 DEF SemaphoreInv, PendingInLine, Pending
    <3> QED BY <1>2, <3>1, <3>3 DEF StartAtOnce
  <2>2. IsFiniteSet(H) /\ Cardinality(H) \in Nat /\ t \notin H
    BY <2>1, ConstantsAssumption, FS_Subset, FS_CardinalityType
    DEF ConstantsAssumption, Holding
  <2>3. {u \in Tasks : Holding(u)}' = H \cup {t}
    BY <2>1 DEF Holding, TypeOK
  <2>4. Cardinality(H \cup {t}) = Cardinality(H) + 1
    BY <2>2, FS_AddElement
  <2>5. permits + Cardinality(H) = MaxConcurrent
    BY DEF SemaphoreInv, PermitsConserved
  <2>6. permits' + Cardinality(H \cup {t}) = MaxConcurrent
    <3> HIDE DEF H
    <3> QED BY <2>1, <2>2, <2>4, <2>5
  <2>7. PermitsConserved'
    BY <2>3, <2>6 DEF PermitsConserved
  <2>8. \A u \in Tasks : phase'[u] = "waiting" => phase[u] = "waiting"
    BY <2>1 DEF TypeOK
  <2> QED
    BY <2>1, <2>7, <2>8
    DEF SemaphoreInv, PendingInLine, NoLostWakeUp, Pending
<1>3. ASSUME NEW t \in Tasks, JoinLine(t) PROVE SemaphoreInv'
  <2>1. /\ phase[t] = "scheduled" /\ phase' = [phase EXCEPT ![t] = "waiting"]
        /\ waiters' = Append(waiters, t) /\ UNCHANGED <<cancelled, permits>>
    BY <1>3 DEF JoinLine
  <2>2. {u \in Tasks : Holding(u)}' = {u \in Tasks : Holding(u)}
    BY <2>1 DEF Holding, TypeOK
  <2>3. PendingInLine'
    <3>1. /\ Len(waiters') = Len(waiters) + 1
          /\ waiters'[Len(waiters')] = t
          /\ \A i \in 1..Len(waiters) : waiters'[i] = waiters[i]
      BY <2>1 DEF TypeOK
    <3>2. \A u \in Tasks : phase'[u] = "waiting" => u = t \/ phase[u] = "waiting"
      BY <2>1 DEF TypeOK
    <3>3. Len(waiters) \in Nat
      BY DEF TypeOK
    <3> QED BY <3>1, <3>2, <3>3 DEF SemaphoreInv, PendingInLine
  <2>4. permits = 0 \/ \E u \in Tasks : phase[u] = "granted"
    <3>1. \A i \in 1..Len(waiters) : waiters[i] \in Tasks
      BY DEF TypeOK
    <3>2. permits = 0 \/ \E u \in Tasks : phase[u] = "granted" \/ Pending(u)
      BY <1>3, <3>1 DEF JoinLine, Locked
    <3> QED BY <3>2 DEF SemaphoreInv, NoLostWakeUp, TypeOK
  <2>5. NoLostWakeUp'
    BY <2>1, <2>4 DEF NoLostWakeUp, TypeOK
  <2> QED
    BY <2>1, <2>2, <2>3, <2>5 DEF SemaphoreInv, PermitsConserved
<1>4. ASSUME NEW t \in Tasks, NEW p \in {"running", "done"}, NEW n \in Nat,
             Holding(t), WakeUpNext(t, p, n), cancelled' = cancelled,
             n = IF p = "running" THEN permits ELSE permits + 1,
             phase[t] = "granted" => LeaveLine(t),
             phase[t] = "running" => waiters' = waiters
      PROVE  SemaphoreInv'
  <2>1. PermitsConserved'
    BY <1>4, WakeUpConserves
  <2>2. /\ NoLostWakeUp'
        /\ \A u \in Tasks : phase'[u] = "waiting" => phase[u] = "waiting"
    BY <1>4, WakeUpServes
  <2>3. PendingInLine'
    <3> SUFFICES ASSUME NEW u \in Tasks, phase'[u] = "waiting"
                 PROVE  \E i \in 1..Len(waiters') : waiters'[i] = u
      BY DEF PendingInLine
    <3>1. phase[u] = "waiting" /\ u # t
      BY <1>4, <2>2 DEF Holding
    <3>2. \E i \in 1..Len(waiters) : waiters[i] = u
      BY <3>1 DEF SemaphoreInv, PendingInLine
    <3>3. CASE phase[t] = "granted"
      <4>1. waiters \in Seq(Tasks) /\ u \in Tasks \ {t}
        BY <3>1 DEF TypeOK
      <4>2. LeaveLine(t)
        BY <3>3, <1>4
      <4> QED BY <3>2, <4>1, <4>2, OthersStayInLine
    <3>4. CASE phase[t] = "running"
      BY <3>2, <3>4, <1>4
    <3> QED BY <3>3, <3>4, <1>4 DEF Holding
  <2> QED BY <2>1, <2>2, <2>3 DEF SemaphoreInv
<1>w. permits \in Nat /\ permits + 1 \in Nat
  BY DEF TypeOK
<1>5. ASSUME NEW t \in Tasks, StartGranted(t) PROVE SemaphoreInv'
  BY <1>5, <1>4, <1>w DEF StartGranted, Holding
<1>6. ASSUME NEW t \in Tasks, CancelGranted(t) PROVE SemaphoreInv'
  BY <1>6, <1>4, <1>w DEF CancelGranted, ReturnPermit, Holding
<1>7. ASSUME NEW t \in Tasks,
             CancelRunning(t) \/ \E o \in Outcomes : RunnerEnds(t, o)
      PROVE  SemaphoreInv'
  BY <1>7, <1>4, <1>w DEF CancelRunning, RunnerEnds, ReturnPermit, Holding
<1>8. ASSUME NEW t \in Tasks, CancelWaiting(t) PROVE SemaphoreInv'
  <2>1. /\ phase[t] = "waiting" /\ cancelled[t]
        /\ phase' = [phase EXCEPT ![t] = "done"]
        /\ LeaveLine(t) /\ UNCHANGED <<cancelled, permits>>
    BY <1>8 DEF CancelWaiting
  <2>2. \A u \in Tasks : /\ Holding(u)' <=> Holding(u)
                         /\ Pending(u)' <=> Pending(u)
                         /\ phase'[u] = "granted" <=> phase[u] = "granted"
    BY <2>1 DEF Holding, Pending, TypeOK
  <2>3. {u \in Tasks : Holding(u)}' = {u \in Tasks : Holding(u)}
    BY <2>2
  <2>4. PendingInLine'
    <3> SUFFICES ASSUME NEW u \in Tasks, phase'[u] = "waiting"
                 PROVE  \E i \in 1..Len(waiters') : waiters'[i] = u
      BY DEF PendingInLine
    <3>1. phase[u] = "waiting" /\ u # t
      BY <2>1 DEF TypeOK
    <3>2. \E i \in 1..Len(waiters) : waiters[i] = u
      BY <3>1 DEF SemaphoreInv, PendingInLine
    <3>3. waiters \in Seq(Tasks) /\ u \in Tasks \ {t}
      BY <3>1 DEF TypeOK
    <3>4. LeaveLine(t)
      BY <2>1
    <3> QED BY <3>2, <3>3, <3>4, OthersStayInLine
  <2> QED
    BY <2>1, <2>2, <2>3, <2>4 DEF SemaphoreInv, PermitsConserved, NoLostWakeUp
<1>9. ASSUME NEW t \in Tasks, RunnerEmits(t) \/ RunnerSurvivesCancel(t)
      PROVE  SemaphoreInv'
  <2>1. CASE RunnerEmits(t)
    BY <2>1, SemaphoreFrame DEF RunnerEmits, loopVars
  <2>2. CASE RunnerSurvivesCancel(t)
    BY <2>2, SemaphoreFrame DEF RunnerSurvivesCancel, TypeOK
  <2> QED BY <1>9, <2>1, <2>2
<1>10. ASSUME NEW a \in Aborts,
              \/ \E t \in Tasks : AbortEnded(a, t) \/ AbortLive(a, t)
              \/ AbortReturns(a)
       PROVE  SemaphoreInv'
  BY <1>10, SemaphoreFrame
  DEF AbortEnded, AbortLive, AbortReturns, loopVars, TypeOK
<1>11. ASSUME NEW c \in Conns,
              \/ \E t \in Tasks : Connect(c, t)
              \/ StepConn(c) \/ Disconnect(c) \/ Unregister(c)
       PROVE  SemaphoreInv'
  BY <1>11, SemaphoreFrame
  DEF StepConn, Connect, Replay, EndReplay, Deliver, EndLive, Disconnect,
      Unregister, loopVars
<1>12. CASE UNCHANGED vars
  BY <1>12, SemaphoreFrame DEF vars, loopVars
<1> QED
  BY <1>1, <1>2, <1>3, <1>5, <1>6, <1>7, <1>8, <1>9, <1>10, <1>11, <1>12
  DEF Next, StepTask

\* Backpressure: however submissions, ends and cancellations interleave, the
\* permits that are not in the pool are those of the tasks that run or are
\* about to, and a free permit is never left unused beside a queue.
THEOREM SemaphoreCorrect == Spec => [](PermitsConserved /\ NoLostWakeUp)
<1>1. Init => TypeOK /\ SemaphoreInv
  BY TypeInit, SemaphoreInit, ConstantsAssumption
<1>2. TypeOK /\ SemaphoreInv /\ [Next]_vars => TypeOK' /\ SemaphoreInv'
  BY TypeStep, SemaphoreStep
<1>3. SemaphoreInv => PermitsConserved /\ NoLostWakeUp
  BY DEF SemaphoreInv
<1> QED BY <1>1, <1>2, <1>3, PTL DEF Spec

\* Nobody queues beside a free permit that no one is about to take.
THEOREM WakeUpsReachTheQueue == Spec => []NoLostWakeUp
<1>1. PermitsConserved /\ NoLostWakeUp => NoLostWakeUp
  OBVIOUS
<1> QED BY <1>1, SemaphoreCorrect, PTL

-----------------------------------------------------------------------------
(* Status and phase *)

\* Where the coroutine of a task is parked and what its handle shows.
LifeInv ==
  \A t \in Tasks :
    /\ status[t] = "absent" <=> phase[t] = "none"
    /\ phase[t] \in {"scheduled", "waiting", "granted"} => status[t] = "queued"
    /\ phase[t] = "running" <=> status[t] = "running"
    /\ cancelled[t] => phase[t] # "none"

\* Handing permits on parks t at p and at most resolves futures of others.
LEMMA WakeUpPhases ==
  ASSUME TypeOK, NEW t \in Tasks, Holding(t), NEW p, NEW n,
         WakeUpNext(t, p, n)
  PROVE  /\ phase'[t] = p
         /\ \A u \in Tasks \ {t} :
              \/ phase'[u] = phase[u]
              \/ phase[u] = "waiting" /\ phase'[u] = "granted"
<1>1. CASE phase' = [phase EXCEPT ![t] = p]
  BY <1>1 DEF TypeOK
<1>2. ASSUME NEW i \in 1..Len(waiters), FirstPending(i),
             phase' = [phase EXCEPT ![t] = p, ![waiters[i]] = "granted"]
      PROVE  /\ phase'[t] = p
             /\ \A u \in Tasks \ {t} :
                  \/ phase'[u] = phase[u]
                  \/ phase[u] = "waiting" /\ phase'[u] = "granted"
  <2>1. /\ waiters[i] \in Tasks /\ waiters[i] # t
        /\ phase[waiters[i]] = "waiting"
    BY <1>2 DEF FirstPending, Pending, Holding, TypeOK
  <2> QED BY <1>2, <2>1 DEF TypeOK
<1> QED BY <1>1, <1>2 DEF WakeUpNext

\* No task has been submitted at first.
LEMMA LifeInit == Init => LifeInv
BY DEF Init, LifeInv

\* A step of t that sets its status to s and parks it at p keeps LifeInv when
\* s and p go together.
LEMMA LifeMove ==
  ASSUME TypeOK, LifeInv, NEW t \in Tasks, NEW s, NEW p,
         status' = [status EXCEPT ![t] = s], cancelled' = cancelled,
         phase'[t] = p, phase[t] # "none",
         \/ p = "running" /\ s = "running"
         \/ p = "done" /\ s \in Terminal \cup {"queued"},
         \A u \in Tasks \ {t} :
           \/ phase'[u] = phase[u]
           \/ phase[u] = "waiting" /\ phase'[u] = "granted"
  PROVE  LifeInv'
BY DEF LifeInv, TypeOK, Terminal

\* Every step keeps a task's status in line with where its coroutine is parked.
LEMMA LifeStep == TypeOK /\ LifeInv /\ [Next]_vars => LifeInv'
<1> SUFFICES ASSUME TypeOK, LifeInv, [Next]_vars PROVE LifeInv'
  OBVIOUS
<1>1. ASSUME NEW t \in Tasks, Submit(t) \/ JoinLine(t) PROVE LifeInv'
  <2>1. status \in [Tasks -> Statuses] /\ phase \in [Tasks -> Phases]
    BY DEF TypeOK
  <2>2. CASE Submit(t)
    BY <2>1, <2>2 DEF Submit, LifeInv
  <2>3. CASE JoinLine(t)
    BY <2>1, <2>3 DEF JoinLine, LifeInv, handleVars
  <2> QED BY <1>1, <2>2, <2>3
<1>2. ASSUME NEW t \in Tasks, StartAtOnce(t) PROVE LifeInv'
  BY <1>2, LifeMove DEF StartAtOnce, EnterExecute, TypeOK
<1>3. ASSUME NEW t \in Tasks, StartGranted(t) PROVE LifeInv'
  BY <1>3, LifeMove, WakeUpPhases DEF StartGranted, EnterExecute, Holding
<1>4. ASSUME NEW t \in Tasks, NEW o \in Outcomes, RunnerEnds(t, o)
      PROVE LifeInv'
  BY <1>4, LifeMove, WakeUpPhases
  DEF RunnerEnds, ReturnPermit, Holding, OutcomeStatus, Terminal
<1>5. ASSUME NEW t \in Tasks, CancelRunning(t) PROVE LifeInv'
  BY <1>5, LifeMove, WakeUpPhases
  DEF CancelRunning, ReturnPermit, Holding, Terminal
<1>6. ASSUME NEW t \in Tasks, CancelGranted(t) PROVE LifeInv'
  <2>1. status[t] = "queued" /\ status' = [status EXCEPT ![t] = "queued"]
    BY <1>6 DEF CancelGranted, LifeInv, TypeOK, handleVars
  <2> QED
    BY <1>6, <2>1, LifeMove, WakeUpPhases
    DEF CancelGranted, ReturnPermit, Holding
<1>7. ASSUME NEW t \in Tasks, CancelScheduled(t) \/ CancelWaiting(t)
      PROVE LifeInv'
  <2>1. phase \in [Tasks -> Phases]
    BY DEF TypeOK
  <2>2. CASE CancelScheduled(t)
    BY <2>1, <2>2 DEF CancelScheduled, LifeInv, handleVars
  <2>3. CASE CancelWaiting(t)
    BY <2>1, <2>3 DEF CancelWaiting, LifeInv, handleVars
  <2> QED BY <1>7, <2>2, <2>3
<1>8. ASSUME NEW t \in Tasks, RunnerEmits(t) \/ RunnerSurvivesCancel(t)
      PROVE  LifeInv'
  <2>1. cancelled \in [Tasks -> BOOLEAN]
    BY DEF TypeOK
  <2>2. CASE RunnerEmits(t)
    BY <2>2 DEF RunnerEmits, LifeInv, loopVars
  <2>3. CASE RunnerSurvivesCancel(t)
    BY <2>1, <2>3 DEF RunnerSurvivesCancel, LifeInv, handleVars
  <2> QED BY <1>8, <2>2, <2>3
<1>9. ASSUME NEW a \in Aborts,
             \/ \E t \in Tasks : AbortEnded(a, t) \/ AbortLive(a, t)
             \/ AbortReturns(a)
      PROVE  LifeInv'
  <2>1. cancelled \in [Tasks -> BOOLEAN]
    BY DEF TypeOK
  <2>2. ASSUME NEW t \in Tasks, AbortLive(a, t) PROVE LifeInv'
    BY <2>1, <2>2 DEF AbortLive, LifeInv, handleVars
  <2>3. CASE AbortReturns(a) \/ \E t \in Tasks : AbortEnded(a, t)
    BY <2>3 DEF AbortEnded, AbortReturns, LifeInv, handleVars, loopVars
  <2> QED BY <1>9, <2>2, <2>3
<1>10. ASSUME NEW c \in Conns,
              \/ \E t \in Tasks : Connect(c, t)
              \/ StepConn(c) \/ Disconnect(c) \/ Unregister(c)
       PROVE  LifeInv'
  BY <1>10
  DEF StepConn, Connect, Replay, EndReplay, Deliver, EndLive, Disconnect,
      Unregister, handleVars, loopVars, LifeInv
<1>11. CASE UNCHANGED vars
  BY <1>11 DEF vars, handleVars, loopVars, LifeInv
<1> QED
  BY <1>1, <1>2, <1>3, <1>4, <1>5, <1>6, <1>7, <1>8, <1>9, <1>10, <1>11
  DEF Next, StepTask

\* Every step leaves the status and the log of an ended task alone.
LEMMA EndedStep ==
  ASSUME TypeOK, LifeInv, [Next]_vars, NEW t \in Tasks, status[t] \in Terminal
  PROVE  status'[t] = status[t] /\ buffer'[t] = buffer[t]
<1>1. phase[t] = "done"
  BY DEF LifeInv, Terminal, TypeOK, Phases
<1>2. ASSUME NEW u \in Tasks,
             \/ Submit(u) \/ StepTask(u)
             \/ RunnerEmits(u) \/ RunnerSurvivesCancel(u)
             \/ \E o \in Outcomes : RunnerEnds(u, o)
      PROVE  status'[t] = status[t] /\ buffer'[t] = buffer[t]
  BY <1>1, <1>2
  DEF TypeOK, Submit, StepTask, StartAtOnce, JoinLine, StartGranted,
      CancelScheduled, CancelWaiting, CancelGranted, CancelRunning,
      RunnerEmits, RunnerSurvivesCancel, RunnerEnds, EnterExecute, Emit,
      EmitAndClose, handleVars
<1>3. CASE UNCHANGED handleVars
  BY <1>3 DEF handleVars
<1>4. ASSUME \/ \E a \in Aborts :
                  \/ \E u \in Tasks : AbortEnded(a, u) \/ AbortLive(a, u)
                  \/ AbortReturns(a)
             \/ \E c \in Conns :
                  \/ \E u \in Tasks : Connect(c, u)
                  \/ StepConn(c) \/ Disconnect(c) \/ Unregister(c)
             \/ UNCHANGED vars
      PROVE  UNCHANGED handleVars
  BY <1>4
  DEF AbortEnded, AbortLive, AbortReturns, StepConn, Connect, Replay,
      EndReplay, Deliver, EndLive, Disconnect, Unregister, vars
<1> QED BY <1>2, <1>3, <1>4 DEF Next

\* No late cancellation, event or outcome changes a task that has ended.
THEOREM EndedTasksAreFinal == Spec => EndedIsFinal
<1>1. Init => TypeOK /\ LifeInv
  BY TypeInit, LifeInit, ConstantsAssumption
<1>2. TypeOK /\ LifeInv /\ [Next]_vars => TypeOK' /\ LifeInv'
  BY TypeStep, LifeStep
<1>3. TypeOK /\ LifeInv /\ [Next]_vars =>
        [\A t \in Tasks : status[t] \in Terminal =>
           status'[t] = status[t] /\ buffer'[t] = buffer[t]]_vars
  BY EndedStep
<1> QED BY <1>1, <1>2, <1>3, PTL DEF Spec, EndedIsFinal

-----------------------------------------------------------------------------
(* Moving an event from one sequence to the next *)

\* Taking the head of s to the end of r changes nothing of r \o s.
LEMMA MoveHead ==
  ASSUME NEW S, NEW r \in Seq(S), NEW s \in Seq(S), s # <<>>
  PROVE  Append(r, Head(s)) \o Tail(s) = r \o s
<1>1. /\ Append(r, Head(s)) \in Seq(S) /\ Tail(s) \in Seq(S)
      /\ Len(Append(r, Head(s))) = Len(r) + 1
      /\ Len(Tail(s)) = Len(s) - 1
      /\ \A i \in 1..Len(r) : Append(r, Head(s))[i] = r[i]
      /\ Append(r, Head(s))[Len(r) + 1] = s[1]
      /\ \A i \in 1..(Len(s) - 1) : Tail(s)[i] = s[i + 1]
  BY HeadTailProperties, AppendProperties
<1>2. Len(s) \in Nat \ {0} /\ Len(r) \in Nat
  BY EmptySeq
<1> DEFINE A == Append(r, Head(s))  T == Tail(s)
<1>3. /\ A \o T \in Seq(S) /\ r \o s \in Seq(S)
      /\ Len(A \o T) = Len(A) + Len(T)
      /\ Len(r \o s) = Len(r) + Len(s)
      /\ \A i \in 1..(Len(A) + Len(T)) :
           (A \o T)[i] = IF i <= Len(A) THEN A[i] ELSE T[i - Len(A)]
      /\ \A i \in 1..(Len(r) + Len(s)) :
           (r \o s)[i] = IF i <= Len(r) THEN r[i] ELSE s[i - Len(r)]
  BY <1>1, ConcatProperties
<1>4. Len(A \o T) = Len(r \o s)
  BY <1>1, <1>2, <1>3
<1>5. ASSUME NEW i \in 1..Len(A \o T) PROVE (A \o T)[i] = (r \o s)[i]
  <2> HIDE DEF A, T
  <2>0. /\ Len(A) = Len(r) + 1 /\ Len(T) = Len(s) - 1
        /\ \A j \in 1..Len(r) : A[j] = r[j]
        /\ A[Len(r) + 1] = s[1]
        /\ \A j \in 1..(Len(s) - 1) : T[j] = s[j + 1]
    BY <1>1 DEF A, T
  <2>1. CASE i <= Len(r)
    BY <2>0, <2>1, <1>2, <1>3
  <2>2. CASE i = Len(r) + 1
    BY <2>0, <2>2, <1>2, <1>3
  <2>3. CASE i > Len(r) + 1
    <3>1. (A \o T)[i] = T[i - Len(A)]
      BY <2>0, <2>3, <1>2, <1>3
    <3>2. i - Len(A) \in 1..(Len(s) - 1) /\ (i - Len(A)) + 1 = i - Len(r)
      BY <2>0, <2>3, <1>2, <1>3
    <3>3. (r \o s)[i] = s[i - Len(r)]
      BY <2>0, <2>3, <1>2, <1>3
    <3> QED BY <3>1, <3>2, <3>3, <2>0
  <2>4. i \in Int /\ Len(r) \in Int
    BY <1>2
  <2>5. i <= Len(r) \/ i = Len(r) + 1 \/ i > Len(r) + 1
    BY <2>4
  <2> QED BY <2>1, <2>2, <2>3, <2>5
<1> HIDE DEF A, T
<1>6. A \o T = r \o s
  BY <1>3, <1>4, <1>5, SeqEqual
<1> QED BY <1>6 DEF A, T

\* The head of s is what follows r in r \o s.
LEMMA HeadFollows ==
  ASSUME NEW S, NEW r \in Seq(S), NEW s \in Seq(S), s # <<>>
  PROVE  /\ Len(r \o s) >= Len(r) + 1
         /\ (r \o s)[Len(r) + 1] = Head(s)
<1>1. Len(s) \in Nat \ {0} /\ Len(r) \in Nat /\ Head(s) = s[1]
  BY EmptySeq
<1> QED BY <1>1, ConcatProperties

\* A prefix and what follows it: b is a prefix of b \o n.
LEMMA PrefixOfConcat ==
  ASSUME NEW S, NEW b \in Seq(S), NEW n \in Seq(S)
  PROVE  /\ Len(b \o n) - Len(b) = Len(n)
         /\ SubSeq(b \o n, 1, Len(b)) = b
<1>1. /\ Len(b \o n) = Len(b) + Len(n) /\ Len(b) \in Nat /\ Len(n) \in Nat
      /\ \A i \in 1..Len(b) : (b \o n)[i] = b[i]
      /\ b \o n \in Seq(S)
  BY ConcatProperties
<1>2. /\ SubSeq(b \o n, 1, Len(b)) \in Seq(S)
      /\ Len(SubSeq(b \o n, 1, Len(b))) = Len(b)
      /\ \A i \in 1..Len(b) : SubSeq(b \o n, 1, Len(b))[i] = b[i]
  BY <1>1
<1> QED BY <1>1, <1>2, SeqEqual

-----------------------------------------------------------------------------
(* The streams *)

Items == Events \cup {Sentinel}

\* What a registered connection has received and will receive, and what that
\* must be.
Pipeline(c) == (received[c] \o ordered[c]) \o queue[c]
Expected(c) ==
  buffer[target[c]] \o
    (IF status[target[c]] \in Terminal /\ ~terminal[c]
     THEN <<Sentinel>> ELSE <<>>)

ConnInv(c) ==
  /\ conn[c] = "idle" =>
       ~registered[c] /\ received[c] = <<>> /\ queue[c] = <<>>
  /\ conn[c] = "open" => registered[c]
  /\ registered[c] => conn[c] \in {"open", "dropped"}
  /\ conn[c] # "idle" => target[c] \in Tasks /\ status[target[c]] # "absent"
  /\ terminal[c] => conn[c] # "idle" /\ status[target[c]] \in Terminal
  /\ terminal[c] /\ registered[c] => queue[c] = <<>>
  /\ registered[c] => Pipeline(c) = Expected(c)
  /\ conn[c] = "ended" =>
       status[target[c]] \in Terminal /\ received[c] = buffer[target[c]]

StreamInv == \A c \in Conns : ConnInv(c)

\* No connection is open at first.
LEMMA StreamInit == Init => StreamInv
BY DEF Init, StreamInv, ConnInv

\* The sequences of a connection, as sequences of items.
LEMMA ConnTypes ==
  ASSUME TypeOK, NEW c \in Conns
  PROVE  /\ received[c] \in Seq(Items) /\ ordered[c] \in Seq(Items)
         /\ queue[c] \in Seq(Items) /\ received[c] \o ordered[c] \in Seq(Items)
         /\ \A t \in Tasks : buffer[t] \in Seq(Items)
BY DEF TypeOK, Items

\* Concatenation is associative, as a fact with no operator left to match.
LEMMA Associative ==
  \A r, s, u \in Seq(Items) : (r \o s) \o u = r \o (s \o u)
BY ConcatAssociative

\* Emitting extends the log and every pipeline into it by the same events.
LEMMA EmitKeepsConn ==
  ASSUME TypeOK, NEW c \in Conns, ConnInv(c), NEW t \in Tasks,
         status[t] \notin Terminal, status[t] # "absent",
         NEW N \in Seq(Events), NEW X \in {<<>>, <<Sentinel>>}, NEW s,
         s # "absent", s \in Terminal <=> X = <<Sentinel>>,
         status' = [status EXCEPT ![t] = s],
         buffer' = [buffer EXCEPT ![t] = @ \o N],
         FanOut(t, N \o X),
         UNCHANGED <<conn, target, registered, ordered, terminal, received>>
  PROVE  ConnInv(c)'
<1>1. \A u \in Tasks \ {t} : status'[u] = status[u] /\ buffer'[u] = buffer[u]
  BY DEF TypeOK
<1>2. status'[t] = s /\ buffer'[t] = buffer[t] \o N
  BY DEF TypeOK
<1>3. CASE registered[c] /\ target[c] = t
  <2>1. ~terminal[c] /\ conn[c] \in {"open", "dropped"}
    BY <1>3 DEF ConnInv
  <2>2. queue'[c] = queue[c] \o (N \o X)
    BY <1>3 DEF FanOut, Listeners
  <2>3. N \in Seq(Items) /\ X \in Seq(Items) /\ N \o X \in Seq(Items)
    <3>1. N \in Seq(Items)
      BY SeqMonotonic DEF Items
    <3>2. X \in Seq(Items)
      <4>1. Sentinel \in Items
        BY DEF Items
      <4>2. <<>> \in Seq(Items) /\ <<Sentinel>> \in Seq(Items)
        BY <4>1
      <4> QED BY <4>2
    <3> QED BY <3>1, <3>2, ConcatProperties
  <2>4. (received[c] \o ordered[c]) \o queue[c] = buffer[t]
    <3>1. Expected(c) = buffer[t] \o <<>>
      BY <1>3 DEF Expected
    <3> QED BY <3>1, <1>3, ConnTypes, ConcatEmptySeq DEF ConnInv, Pipeline
  <2>5. Pipeline(c)' = buffer[t] \o (N \o X)
    <3>1. Pipeline(c)' = (received[c] \o ordered[c]) \o (queue[c] \o (N \o X))
      BY <2>2 DEF Pipeline
    <3>2. /\ received[c] \o ordered[c] \in Seq(Items)
          /\ queue[c] \in Seq(Items)
      BY ConnTypes
    <3>3. Pipeline(c)' =
            ((received[c] \o ordered[c]) \o queue[c]) \o (N \o X)
      BY <3>1, <3>2, <2>3, Associative
    <3> QED BY <3>3, <2>4
  <2>6. Expected(c)' = (buffer[t] \o N) \o X
    BY <1>2, <1>3, <2>1 DEF Expected
  <2>7. Pipeline(c)' = Expected(c)'
    <3>1. buffer[t] \in Seq(Items)
      BY ConnTypes
    <3>2. (buffer[t] \o N) \o X = buffer[t] \o (N \o X)
      BY <3>1, <2>3, Associative
    <3> QED BY <3>2, <2>5, <2>6
  <2> QED BY <2>1, <2>7, <1>2, <1>3 DEF ConnInv
<1>4. CASE ~(registered[c] /\ target[c] = t)
  <2>1. queue'[c] = queue[c]
    BY <1>4 DEF FanOut, Listeners
  <2>2. /\ conn[c] # "idle" => status'[target[c]] # "absent"
        /\ target[c] \in Tasks /\ status[target[c]] \in Terminal =>
             /\ status'[target[c]] = status[target[c]]
             /\ buffer'[target[c]] = buffer[target[c]]
    BY <1>1, <1>2 DEF ConnInv
  <2>3. registered[c] => /\ status'[target[c]] = status[target[c]]
                         /\ buffer'[target[c]] = buffer[target[c]]
    BY <1>1, <1>4 DEF ConnInv
  <2>4. registered[c] => Pipeline(c)' = Pipeline(c) /\ Expected(c)' = Expected(c)
    BY <2>1, <2>3 DEF Pipeline, Expected
  <2> QED BY <2>1, <2>2, <2>4 DEF ConnInv
<1> QED BY <1>3, <1>4

\* Steps that leave the connections alone, and the handles of all tasks that
\* have been submitted.
LEMMA ConnFrame ==
  ASSUME TypeOK, NEW c \in Conns, ConnInv(c), UNCHANGED connVars,
         \A t \in Tasks : status[t] # "absent" =>
           status'[t] = status[t] /\ buffer'[t] = buffer[t]
  PROVE  ConnInv(c)'
BY DEF ConnInv, Pipeline, Expected, connVars

\* The steps of the connection itself.
LEMMA ConnOwnStep ==
  ASSUME TypeOK, NEW c \in Conns, ConnInv(c),
         \/ \E t \in Tasks : Connect(c, t)
         \/ StepConn(c) \/ Disconnect(c) \/ Unregister(c)
  PROVE  ConnInv(c)'
<1>t. /\ received[c] \in Seq(Items) /\ ordered[c] \in Seq(Items)
      /\ queue[c] \in Seq(Items) /\ received[c] \o ordered[c] \in Seq(Items)
      /\ \A t \in Tasks : buffer[t] \in Seq(Items)
  BY ConnTypes
<1>1. ASSUME NEW t \in Tasks, Connect(c, t) PROVE ConnInv(c)'
  <2>1. /\ conn[c] = "idle" /\ status[t] # "absent"
        /\ conn'[c] = "open" /\ target'[c] = t /\ registered'[c]
        /\ ordered'[c] = buffer[t]
        /\ terminal'[c] = (status[t] \in Terminal)
        /\ queue'[c] = <<>> /\ received'[c] = <<>>
        /\ status' = status /\ buffer' = buffer
    BY <1>1 DEF Connect, TypeOK, ConnInv, handleVars
  <2>2. Pipeline(c)' = (<<>> \o buffer[t]) \o <<>>
    BY <2>1 DEF Pipeline
  <2>3. Expected(c)' = buffer[t] \o <<>>
    BY <2>1 DEF Expected
  <2>4. Pipeline(c)' = Expected(c)'
    BY <2>2, <2>3, <1>t, ConcatEmptySeq
  <2> QED BY <2>1, <2>4 DEF ConnInv
<1>2. CASE Replay(c)
  <2>1. /\ conn[c] = "open" /\ ordered[c] # <<>>
        /\ received'[c] = Append(received[c], Head(ordered[c]))
        /\ ordered'[c] = Tail(ordered[c])
        /\ UNCHANGED <<conn, target, registered, terminal, queue>>
        /\ UNCHANGED <<status, buffer>>
    BY <1>2 DEF Replay, TypeOK, handleVars
  <2>2. received'[c] \o ordered'[c] = received[c] \o ordered[c]
    BY <2>1, <1>t, MoveHead
  <2>3. Pipeline(c)' = Pipeline(c) /\ Expected(c)' = Expected(c)
    BY <2>1, <2>2 DEF Pipeline, Expected
  <2> QED BY <2>1, <2>3 DEF ConnInv
<1>3. CASE EndReplay(c)
  <2>1. /\ conn[c] = "open" /\ ordered[c] = <<>> /\ terminal[c]
        /\ conn'[c] = "ended" /\ ~registered'[c]
        /\ UNCHANGED <<target, ordered, terminal, queue, received>>
        /\ UNCHANGED <<status, buffer>>
    BY <1>3 DEF EndReplay, Leave, TypeOK, handleVars
  <2>2. /\ target[c] \in Tasks /\ status[target[c]] \in Terminal
        /\ queue[c] = <<>> /\ Pipeline(c) = Expected(c)
    BY <2>1 DEF ConnInv
  <2>3. (received[c] \o <<>>) \o <<>> = buffer[target[c]] \o <<>>
    BY <2>1, <2>2 DEF Pipeline, Expected
  <2>4. received[c] = buffer[target[c]]
    <3>1. received[c] \o <<>> = received[c]
      BY <1>t, ConcatEmptySeq
    <3>2. buffer[target[c]] \o <<>> = buffer[target[c]]
      BY <1>t, <2>2, ConcatEmptySeq
    <3> QED BY <2>3, <3>1, <3>2
  <2> QED BY <2>1, <2>2, <2>4 DEF ConnInv
<1>4. CASE Deliver(c)
  <2>1. /\ conn[c] = "open" /\ ordered[c] = <<>> /\ ~terminal[c]
        /\ queue[c] # <<>>
        /\ received'[c] = Append(received[c], Head(queue[c]))
        /\ queue'[c] = Tail(queue[c])
        /\ UNCHANGED <<conn, target, registered, ordered, terminal>>
        /\ UNCHANGED <<status, buffer>>
    BY <1>4 DEF Deliver, TypeOK, handleVars
  <2>2. Append(received[c], Head(queue[c])) \o Tail(queue[c])
          = received[c] \o queue[c]
    BY <2>1, <1>t, MoveHead
  <2>3. /\ received[c] \o <<>> = received[c]
        /\ Append(received[c], Head(queue[c])) \o <<>>
             = Append(received[c], Head(queue[c]))
    BY <2>1, <1>t, ConcatEmptySeq, HeadTailProperties, AppendProperties
  <2>4. Pipeline(c)' = Pipeline(c) /\ Expected(c)' = Expected(c)
    BY <2>1, <2>2, <2>3 DEF Pipeline, Expected
  <2> QED BY <2>1, <2>4 DEF ConnInv
<1>5. CASE EndLive(c)
  <2>1. /\ conn[c] = "open" /\ ordered[c] = <<>> /\ ~terminal[c]
        /\ queue[c] # <<>> /\ Head(queue[c]) = Sentinel
        /\ conn'[c] = "ended" /\ ~registered'[c]
        /\ UNCHANGED <<target, ordered, terminal, received>>
        /\ UNCHANGED <<status, buffer>>
    BY <1>5 DEF EndLive, Leave, TypeOK, handleVars
  <2> DEFINE r == received[c]  q == queue[c]  b == buffer[target[c]]
  <2>2. target[c] \in Tasks /\ Pipeline(c) = Expected(c)
    BY <2>1 DEF ConnInv
  <2>3. r \o q = Expected(c)
    BY <2>1, <2>2, <1>t, ConcatEmptySeq DEF Pipeline
  <2>4. /\ Len(r \o q) >= Len(r) + 1
        /\ (r \o q)[Len(r) + 1] = Sentinel
    BY <2>1, <1>t, HeadFollows
  <2>5. /\ r \in Seq(Events) /\ b \in Seq(Events) /\ Sentinel \notin Events
    BY <2>2 DEF TypeOK, Events, Sentinel
  <2>6. status[target[c]] \in Terminal
    <3>1. SUFFICES ASSUME status[target[c]] \notin Terminal PROVE FALSE
      OBVIOUS
    <3>2. r \o q = b
      BY <3>1, <2>3, <2>5, ConcatEmptySeq DEF Expected
    <3> HIDE DEF r, q, b
    <3>3. Len(r) + 1 \in 1..Len(b) /\ b[Len(r) + 1] = Sentinel
      BY <2>4, <2>5, <3>2, LenProperties
    <3> QED BY <3>3, <2>5, ElementOfSeq
  <2>7. r \o q = b \o <<Sentinel>>
    BY <2>1, <2>3, <2>6 DEF Expected
  <2>8. r = b
    <3> HIDE DEF r, q, b
    <3>0. /\ Sentinel \in Items
          /\ r \in Seq(Items) /\ b \in Seq(Items) /\ q \in Seq(Items)
          /\ <<Sentinel>> \in Seq(Items) /\ Len(<<Sentinel>>) = 1
      <4>1. Sentinel \in Items
        BY DEF Items
      <4> QED BY <4>1, <1>t, <2>2 DEF r, q, b
    <3>1. /\ Len(r \o q) = Len(b) + 1
          /\ Len(r) \in Nat /\ Len(b) \in Nat
          /\ \A i \in 1..Len(b) : (r \o q)[i] = b[i]
          /\ \A i \in 1..Len(r) : (r \o q)[i] = r[i]
      <4>1. /\ Len(b \o <<Sentinel>>) = Len(b) + 1
            /\ \A i \in 1..Len(b) : (b \o <<Sentinel>>)[i] = b[i]
        BY <3>0, ConcatProperties
      <4>2. /\ Len(r \o q) = Len(r) + Len(q)
            /\ \A i \in 1..Len(r) : (r \o q)[i] = r[i]
        BY <3>0, ConcatProperties
      <4> QED BY <4>1, <4>2, <2>7, <2>5, LenProperties
    <3>2. Len(r) = Len(b)
      <4>1. SUFFICES ASSUME Len(r) # Len(b) PROVE FALSE
        OBVIOUS
      <4>2. Len(r) + 1 \in 1..Len(b)
        BY <4>1, <3>1, <2>4
      <4>3. b[Len(r) + 1] = Sentinel
        BY <4>2, <3>1, <2>4
      <4> QED BY <4>2, <4>3, <2>5, ElementOfSeq
    <3>3. \A i \in 1..Len(r) : r[i] = b[i]
      BY <3>1, <3>2
    <3> QED BY <3>2, <3>3, <2>5, SeqEqual
  <2> QED BY <2>1, <2>2, <2>6, <2>8 DEF ConnInv
<1>6. CASE Disconnect(c)
  <2>1. /\ conn[c] = "open" /\ conn'[c] = "dropped"
        /\ UNCHANGED <<target, registered, ordered, terminal, queue, received>>
        /\ UNCHANGED <<status, buffer>>
    BY <1>6 DEF Disconnect, TypeOK, handleVars
  <2> QED BY <2>1 DEF ConnInv, Pipeline, Expected
<1>7. CASE Unregister(c)
  <2>1. /\ conn[c] = "dropped" /\ ~registered'[c]
        /\ UNCHANGED <<conn, target, terminal, received, status, buffer>>
    BY <1>7 DEF Unregister, TypeOK, handleVars
  <2> QED BY <2>1 DEF ConnInv
<1> QED BY <1>1, <1>2, <1>3, <1>4, <1>5, <1>6, <1>7 DEF StepConn

\* The steps of another connection are no steps of this one.
LEMMA ConnOtherStep ==
  ASSUME TypeOK, NEW c \in Conns, ConnInv(c), NEW d \in Conns, d # c,
         \/ \E t \in Tasks : Connect(d, t)
         \/ StepConn(d) \/ Disconnect(d) \/ Unregister(d)
  PROVE  ConnInv(c)'
<1>1. /\ conn'[c] = conn[c] /\ target'[c] = target[c]
      /\ registered'[c] = registered[c] /\ ordered'[c] = ordered[c]
      /\ terminal'[c] = terminal[c] /\ queue'[c] = queue[c]
      /\ received'[c] = received[c]
      /\ status' = status /\ buffer' = buffer
  BY DEF TypeOK, StepConn, Connect, Replay, EndReplay, Deliver, EndLive,
     Leave, Disconnect, Unregister, handleVars
<1> QED BY <1>1 DEF ConnInv, Pipeline, Expected

\* Every step of a task, an abort or a connection keeps every connection's
\* pipeline equal to the log.
LEMMA StreamStep ==
  TypeOK /\ LifeInv /\ StreamInv /\ [Next]_vars => StreamInv'
<1> SUFFICES ASSUME TypeOK, LifeInv, StreamInv, [Next]_vars, NEW c \in Conns
             PROVE  ConnInv(c)'
  BY DEF StreamInv
<1>0. ConnInv(c)
  BY DEF StreamInv
<1>l. /\ <<"workflow.started">> \in Seq(EventTypes)
      /\ <<"workflow.stage">> \in Seq(EventTypes)
      /\ <<"task.aborted">> \in Seq(EventTypes)
      /\ \A o \in Outcomes : OutcomeEvents(o) \in Seq(EventTypes)
  BY DEF EventTypes, OutcomeEvents, Outcomes
<1>n. \A t \in Tasks : \A types \in Seq(EventTypes) :
        /\ Numbered(t, types) \in Seq(Events)
        /\ Numbered(t, types) \o <<>> = Numbered(t, types)
  BY NumberedType, ConcatEmptySeq DEF TypeOK
<1>1. ASSUME NEW t \in Tasks, status[t] \in {"queued", "running"},
             NEW types \in Seq(EventTypes), Emit(t, types),
             status' = [status EXCEPT ![t] = "running"],
             UNCHANGED <<conn, target, registered, ordered, terminal, received>>
      PROVE  ConnInv(c)'
  <2>1. FanOut(t, Numbered(t, types) \o <<>>)
    BY <1>1, <1>n DEF Emit
  <2>2. buffer' = [buffer EXCEPT ![t] = @ \o Numbered(t, types)]
    BY <1>1 DEF Emit
  <2>3. status[t] \notin Terminal /\ "running" \notin Terminal
    BY <1>1 DEF Terminal
  <2>4. <<>> # <<Sentinel>>
    OBVIOUS
  <2> QED BY <1>0, <1>1, <1>n, <2>1, <2>2, <2>3, <2>4, EmitKeepsConn
<1>2. ASSUME NEW t \in Tasks, status[t] = "running", NEW s \in Terminal,
             NEW types \in Seq(EventTypes), EmitAndClose(t, types),
             status' = [status EXCEPT ![t] = s],
             UNCHANGED <<conn, target, registered, ordered, terminal, received>>
      PROVE  ConnInv(c)'
  <2>1. /\ FanOut(t, Numbered(t, types) \o <<Sentinel>>)
        /\ buffer' = [buffer EXCEPT ![t] = @ \o Numbered(t, types)]
    BY <1>2 DEF EmitAndClose
  <2>2. status[t] \notin Terminal /\ s # "absent"
    BY <1>2 DEF Terminal
  <2> QED BY <1>0, <1>2, <1>n, <2>1, <2>2, EmitKeepsConn
<1>3. ASSUME NEW t \in Tasks, Submit(t) PROVE ConnInv(c)'
  <2>1. /\ status[t] = "absent" /\ buffer' = buffer
        /\ status' = [status EXCEPT ![t] = "queued"] /\ UNCHANGED connVars
    BY <1>3 DEF Submit, LifeInv
  <2>2. \A u \in Tasks : status[u] # "absent" =>
          status'[u] = status[u] /\ buffer'[u] = buffer[u]
    BY <2>1 DEF TypeOK
  <2> QED BY <1>0, <2>1, <2>2, ConnFrame
<1>4. ASSUME NEW t \in Tasks, StartAtOnce(t) \/ StartGranted(t)
      PROVE  ConnInv(c)'
  <2>1. status[t] = "queued"
    BY <1>4 DEF StartAtOnce, StartGranted, LifeInv
  <2> QED
    BY <1>1, <1>4, <1>l, <2>1 DEF StartAtOnce, StartGranted, EnterExecute
<1>5. ASSUME NEW t \in Tasks, RunnerEmits(t) PROVE ConnInv(c)'
  <2>1. status[t] = "running" /\ status' = [status EXCEPT ![t] = "running"]
    BY <1>5 DEF RunnerEmits, LifeInv, TypeOK
  <2> QED BY <1>1, <1>5, <1>l, <2>1 DEF RunnerEmits
<1>6. ASSUME NEW t \in Tasks, NEW o \in Outcomes, RunnerEnds(t, o)
      PROVE ConnInv(c)'
  <2>1. status[t] = "running" /\ OutcomeStatus(o) \in Terminal
    BY <1>6 DEF RunnerEnds, LifeInv, OutcomeStatus, Terminal
  <2> QED BY <1>2, <1>6, <1>l, <2>1 DEF RunnerEnds
<1>7. ASSUME NEW t \in Tasks, CancelRunning(t) PROVE ConnInv(c)'
  <2>1. status[t] = "running" /\ "aborted" \in Terminal
    BY <1>7 DEF CancelRunning, LifeInv, Terminal
  <2> QED BY <1>2, <1>7, <1>l, <2>1 DEF CancelRunning
<1>8. ASSUME UNCHANGED handleVars, UNCHANGED connVars PROVE ConnInv(c)'
  BY <1>0, <1>8, ConnFrame DEF handleVars
<1>9. ASSUME NEW t \in Tasks,
             \/ JoinLine(t) \/ CancelScheduled(t) \/ CancelWaiting(t)
             \/ CancelGranted(t) \/ RunnerSurvivesCancel(t)
      PROVE  ConnInv(c)'
  BY <1>8, <1>9
  DEF JoinLine, CancelScheduled, CancelWaiting, CancelGranted,
      RunnerSurvivesCancel
<1>10. ASSUME NEW a \in Aborts,
              \/ \E t \in Tasks : AbortEnded(a, t) \/ AbortLive(a, t)
              \/ AbortReturns(a)
       PROVE  ConnInv(c)'
  BY <1>8, <1>10 DEF AbortEnded, AbortLive, AbortReturns
<1>11. ASSUME NEW d \in Conns,
              \/ \E t \in Tasks : Connect(d, t)
              \/ StepConn(d) \/ Disconnect(d) \/ Unregister(d)
       PROVE  ConnInv(c)'
  BY <1>0, <1>11, ConnOwnStep, ConnOtherStep
<1>12. CASE UNCHANGED vars
  BY <1>8, <1>12 DEF vars
<1> QED
  BY <1>3, <1>4, <1>5, <1>6, <1>7, <1>9, <1>10, <1>11, <1>12
  DEF Next, StepTask

StreamLemmas == TypeOK /\ LifeInv /\ StreamInv

\* The strengthening that is inductive: types, life cycle and pipelines.
LEMMA StreamInductive ==
  /\ Init => StreamLemmas
  /\ StreamLemmas /\ [Next]_vars => StreamLemmas'
<1>1. Init => StreamLemmas
  BY TypeInit, LifeInit, StreamInit, ConstantsAssumption DEF StreamLemmas
<1>2. StreamLemmas /\ [Next]_vars => StreamLemmas'
  BY TypeStep, LifeStep, StreamStep DEF StreamLemmas
<1> QED BY <1>1, <1>2

\* Replay and live delivery join seamlessly, and a stream that the server ends
\* has delivered the whole log of an ended task.
THEOREM StreamsCorrect == Spec => [](StreamIsLog /\ EndedStreamIsComplete)
<1>1. StreamLemmas => StreamIsLog /\ EndedStreamIsComplete
  BY DEF StreamLemmas, StreamInv, ConnInv, Pipeline, Expected, StreamIsLog,
     EndedStreamIsComplete
<1> QED BY <1>1, StreamInductive, PTL DEF Spec

-----------------------------------------------------------------------------
(* Cancelling and aborting *)

\* A coroutine that is over is never stepped again.
LEMMA DoneStaysDone ==
  ASSUME TypeOK, [Next]_vars, NEW t \in Tasks, phase[t] = "done"
  PROVE  phase'[t] = "done"
<1>1. ASSUME NEW u \in Tasks, NEW p, phase[u] # "done",
             phase' = [phase EXCEPT ![u] = p]
      PROVE  phase'[t] = "done"
  BY <1>1 DEF TypeOK
<1>2. ASSUME NEW u \in Tasks, Holding(u), NEW p, NEW n, WakeUpNext(u, p, n)
      PROVE  phase'[t] = "done"
  <2>1. \A v \in Tasks \ {u} : \/ phase'[v] = phase[v]
                               \/ phase[v] = "waiting" /\ phase'[v] = "granted"
    BY <1>2, WakeUpPhases
  <2>2. t # u
    BY <1>2 DEF Holding
  <2> QED BY <2>1, <2>2
<1>3. ASSUME NEW u \in Tasks,
             \/ Submit(u) \/ StartAtOnce(u) \/ JoinLine(u)
             \/ CancelScheduled(u) \/ CancelWaiting(u)
      PROVE  phase'[t] = "done"
  BY <1>1, <1>3
  DEF Submit, StartAtOnce, JoinLine, CancelScheduled, CancelWaiting
<1>4. ASSUME NEW u \in Tasks,
             \/ StartGranted(u) \/ CancelGranted(u) \/ CancelRunning(u)
             \/ \E o \in Outcomes : RunnerEnds(u, o)
      PROVE  phase'[t] = "done"
  BY <1>2, <1>4
  DEF StartGranted, CancelGranted, CancelRunning, RunnerEnds, ReturnPermit,
      Holding
<1>5. ASSUME NEW u \in Tasks, RunnerEmits(u) \/ RunnerSurvivesCancel(u)
      PROVE  phase'[t] = "done"
  BY <1>5 DEF RunnerEmits, RunnerSurvivesCancel, loopVars
<1>6. ASSUME NEW a \in Aborts,
             \/ \E u \in Tasks : AbortEnded(a, u) \/ AbortLive(a, u)
             \/ AbortReturns(a)
      PROVE  phase'[t] = "done"
  BY <1>6 DEF AbortEnded, AbortLive, AbortReturns, loopVars
<1>7. ASSUME NEW c \in Conns,
             \/ \E u \in Tasks : Connect(c, u)
             \/ StepConn(c) \/ Disconnect(c) \/ Unregister(c)
      PROVE  phase'[t] = "done"
  BY <1>7
  DEF StepConn, Connect, Replay, EndReplay, Deliver, EndLive, Disconnect,
      Unregister, loopVars
<1>8. CASE UNCHANGED vars
  BY <1>8 DEF vars, loopVars
<1> QED BY <1>3, <1>4, <1>5, <1>6, <1>7, <1>8 DEF Next, StepTask

\* A request names the task it aborts, and is answered after the end of the
\* coroutine only.
AbortInv ==
  \A a \in Aborts :
    /\ abort[a] # "idle" => aborting[a] \in Tasks
    /\ abort[a] = "returned" => phase[aborting[a]] = "done"

LEMMA AbortStep == TypeOK /\ LifeInv /\ AbortInv /\ [Next]_vars => AbortInv'
<1> SUFFICES ASSUME TypeOK, LifeInv, AbortInv, [Next]_vars, NEW b \in Aborts
             PROVE  /\ abort'[b] # "idle" => aborting'[b] \in Tasks
                    /\ abort'[b] = "returned" => phase'[aborting'[b]] = "done"
  BY DEF AbortInv
<1>1. CASE abort'[b] = abort[b] /\ aborting'[b] = aborting[b]
  BY <1>1, DoneStaysDone DEF AbortInv
<1>2. ASSUME NEW a \in Aborts, NEW t \in Tasks, AbortEnded(a, t)
      PROVE  /\ abort'[b] # "idle" => aborting'[b] \in Tasks
             /\ abort'[b] = "returned" => phase'[aborting'[b]] = "done"
  <2>1. phase[t] = "done"
    BY <1>2 DEF AbortEnded, LifeInv, TypeOK, Phases, Terminal
  <2>2. phase'[t] = "done"
    BY <2>1, DoneStaysDone
  <2>3. CASE a = b
    BY <1>2, <2>2, <2>3 DEF AbortEnded, TypeOK
  <2>4. CASE a # b
    BY <1>1, <1>2, <2>4 DEF AbortEnded, TypeOK
  <2> QED BY <2>3, <2>4
<1>3. ASSUME NEW a \in Aborts, NEW t \in Tasks, AbortLive(a, t)
      PROVE  /\ abort'[b] # "idle" => aborting'[b] \in Tasks
             /\ abort'[b] = "returned" => phase'[aborting'[b]] = "done"
  <2>1. CASE a = b
    BY <1>3, <2>1 DEF AbortLive, TypeOK
  <2>2. CASE a # b
    BY <1>1, <1>3, <2>2 DEF AbortLive, TypeOK
  <2> QED BY <2>1, <2>2
<1>4. ASSUME NEW a \in Aborts, AbortReturns(a)
      PROVE  /\ abort'[b] # "idle" => aborting'[b] \in Tasks
             /\ abort'[b] = "returned" => phase'[aborting'[b]] = "done"
  <2>1. CASE a = b
    BY <1>4, <2>1 DEF AbortReturns, AbortInv, TypeOK, loopVars
  <2>2. CASE a # b
    BY <1>1, <1>4, <2>2 DEF AbortReturns, TypeOK
  <2> QED BY <2>1, <2>2
<1>5. ASSUME UNCHANGED abortVars
      PROVE  abort'[b] = abort[b] /\ aborting'[b] = aborting[b]
  BY <1>5 DEF abortVars
<1>6. ASSUME NEW t \in Tasks,
             \/ Submit(t) \/ StepTask(t) \/ RunnerEmits(t)
             \/ RunnerSurvivesCancel(t) \/ \E o \in Outcomes : RunnerEnds(t, o)
      PROVE  UNCHANGED abortVars
  BY <1>6
  DEF Submit, StepTask, StartAtOnce, JoinLine, StartGranted, CancelScheduled,
      CancelWaiting, CancelGranted, CancelRunning, RunnerEmits,
      RunnerSurvivesCancel, RunnerEnds
<1>7. ASSUME NEW c \in Conns,
             \/ \E t \in Tasks : Connect(c, t)
             \/ StepConn(c) \/ Disconnect(c) \/ Unregister(c)
      PROVE  UNCHANGED abortVars
  BY <1>7
  DEF StepConn, Connect, Replay, EndReplay, Deliver, EndLive, Disconnect,
      Unregister
<1>8. CASE UNCHANGED vars
  BY <1>1, <1>5, <1>8 DEF vars
<1> QED BY <1>1, <1>2, <1>3, <1>4, <1>5, <1>6, <1>7, <1>8 DEF Next

\* Once abort() has answered, nothing of the task will run any more.
THEOREM AbortStops == Spec => []AnsweredAbortStopped
<1>1. Init => TypeOK /\ LifeInv /\ AbortInv
  <2>1. Init => AbortInv
    BY DEF Init, AbortInv
  <2> QED BY <2>1, TypeInit, LifeInit, ConstantsAssumption
<1>2. TypeOK /\ LifeInv /\ AbortInv /\ [Next]_vars
        => TypeOK' /\ LifeInv' /\ AbortInv'
  BY TypeStep, LifeStep, AbortStep
<1>3. AbortInv => AnsweredAbortStopped
  BY DEF AbortInv, AnsweredAbortStopped
<1> QED BY <1>1, <1>2, <1>3, PTL DEF Spec
-----------------------------------------------------------------------------
(* The order of the line *)

\* A task stands in line once, while its turn has not come or it has not yet
\* seen that it did; the turns that came are those of the front.
LineInv ==
  /\ \A i, j \in 1..Len(waiters) : waiters[i] = waiters[j] => i = j
  /\ \A i \in 1..Len(waiters) : phase[waiters[i]] \in {"waiting", "granted"}
  /\ \A i, j \in 1..Len(waiters) :
       phase[waiters[i]] = "granted" /\ Pending(waiters[j]) => i < j

\* What remains of the line keeps its order when the future of t leaves it.
LEMMA LeaveLineKeepsOrder ==
  ASSUME waiters \in Seq(Tasks), NEW t \in Tasks, LeaveLine(t)
  PROVE  \E k \in 1..Len(waiters) :
           /\ waiters[k] = t /\ Len(waiters') = Len(waiters) - 1
           /\ \A i \in 1..Len(waiters') :
                waiters'[i] = IF i < k THEN waiters[i] ELSE waiters[i + 1]
<1>1. PICK k \in 1..Len(waiters) :
        waiters[k] = t /\ waiters' = RemoveAt(waiters, k)
  BY DEF LeaveLine
<1> DEFINE L == SubSeq(waiters, 1, k - 1)
           R == SubSeq(waiters, k + 1, Len(waiters))
<1>2. /\ L \in Seq(Tasks) /\ R \in Seq(Tasks)
      /\ Len(L) = k - 1 /\ Len(R) = Len(waiters) - k /\ Len(waiters) \in Nat
      /\ \A i \in 1..(k - 1) : L[i] = waiters[i]
      /\ \A i \in 1..(Len(waiters) - k) : R[i] = waiters[k + i]
  OBVIOUS
<1>3. waiters' = L \o R
  BY <1>1 DEF RemoveAt
<1>4. /\ Len(L \o R) = Len(L) + Len(R)
      /\ \A i \in 1..(Len(L) + Len(R)) :
           (L \o R)[i] = IF i <= Len(L) THEN L[i] ELSE R[i - Len(L)]
  BY <1>2, ConcatProperties
<1> HIDE DEF L, R
<1>5. ASSUME NEW i \in 1..Len(waiters')
      PROVE  waiters'[i] = IF i < k THEN waiters[i] ELSE waiters[i + 1]
  <2>1. CASE i < k
    BY <1>2, <1>3, <1>4, <2>1
  <2>2. CASE i >= k
    <3>1. waiters'[i] = R[i - (k - 1)] /\ i - (k - 1) \in 1..(Len(waiters) - k)
      BY <1>2, <1>3, <1>4, <2>2
    <3>2. R[i - (k - 1)] = waiters[k + (i - (k - 1))]
      BY <1>2, <3>1
    <3> QED BY <3>1, <3>2, <2>2
  <2> QED BY <2>1, <2>2
<1>6. Len(waiters') = Len(waiters) - 1
  BY <1>2, <1>3, <1>4
<1> QED BY <1>1, <1>5, <1>6

\* A line whose tasks, t apart, wait in order stays one without t.
LEMMA LineWithout ==
  ASSUME TypeOK, LineInv, NEW t \in Tasks, LeaveLine(t),
         \A i \in 1..Len(waiters) : waiters[i] # t =>
           phase'[waiters[i]] \in {"waiting", "granted"},
         \A i, j \in 1..Len(waiters) :
           /\ waiters[i] # t /\ waiters[j] # t
           /\ phase'[waiters[i]] = "granted"
           /\ phase'[waiters[j]] = "waiting" /\ ~cancelled'[waiters[j]]
           => i < j
  PROVE  LineInv'
<1>1. waiters \in Seq(Tasks) /\ Len(waiters) \in Nat
  BY DEF TypeOK
<1>2. PICK k \in 1..Len(waiters) :
        /\ waiters[k] = t /\ Len(waiters') = Len(waiters) - 1
        /\ \A i \in 1..Len(waiters') :
             waiters'[i] = IF i < k THEN waiters[i] ELSE waiters[i + 1]
  BY <1>1, LeaveLineKeepsOrder
<1> DEFINE old(i) == IF i < k THEN i ELSE i + 1
<1>3. \A i \in 1..Len(waiters') :
        /\ old(i) \in 1..Len(waiters) /\ old(i) # k
        /\ waiters'[i] = waiters[old(i)]
  BY <1>1, <1>2
<1>4. \A i \in 1..Len(waiters') : waiters[old(i)] # t
  BY <1>2, <1>3 DEF LineInv
<1>5. \A i, j \in 1..Len(waiters') : /\ old(i) < old(j) => i < j
                                     /\ old(i) = old(j) => i = j
  BY <1>1, <1>2
<1> HIDE DEF old
<1>6. \A i, j \in 1..Len(waiters') : waiters'[i] = waiters'[j] => i = j
  BY <1>3, <1>5 DEF LineInv
<1>7. \A i \in 1..Len(waiters') : phase'[waiters'[i]] \in {"waiting", "granted"}
  BY <1>3, <1>4
<1>8. \A i, j \in 1..Len(waiters') :
        /\ phase'[waiters'[i]] = "granted"
        /\ phase'[waiters'[j]] = "waiting" /\ ~cancelled'[waiters'[j]]
        => i < j
  BY <1>3, <1>4, <1>5
<1> QED BY <1>6, <1>7, <1>8 DEF LineInv, Pending

\* Handing permits on resolves the first pending future of the line.
LEMMA WakeUpInOrder ==
  ASSUME TypeOK, LineInv, NEW t \in Tasks, Holding(t), NEW p, NEW n,
         WakeUpNext(t, p, n), cancelled' = cancelled
  PROVE  /\ \A i \in 1..Len(waiters) : waiters[i] # t =>
              phase'[waiters[i]] \in {"waiting", "granted"}
         /\ \A i, j \in 1..Len(waiters) :
              /\ waiters[i] # t /\ waiters[j] # t
              /\ phase'[waiters[i]] = "granted"
              /\ phase'[waiters[j]] = "waiting" /\ ~cancelled'[waiters[j]]
              => i < j
<1>1. \A i \in 1..Len(waiters) : waiters[i] \in Tasks
  BY DEF TypeOK
<1>2. CASE phase' = [phase EXCEPT ![t] = p]
  <2>1. \A i \in 1..Len(waiters) : waiters[i] # t =>
          phase'[waiters[i]] = phase[waiters[i]]
    BY <1>1, <1>2 DEF TypeOK
  <2> QED BY <2>1 DEF LineInv, Pending
<1>3. ASSUME NEW k \in 1..Len(waiters), FirstPending(k),
             phase' = [phase EXCEPT ![t] = p, ![waiters[k]] = "granted"]
      PROVE  /\ \A i \in 1..Len(waiters) : waiters[i] # t =>
                  phase'[waiters[i]] \in {"waiting", "granted"}
             /\ \A i, j \in 1..Len(waiters) :
                  /\ waiters[i] # t /\ waiters[j] # t
                  /\ phase'[waiters[i]] = "granted"
                  /\ phase'[waiters[j]] = "waiting" /\ ~cancelled'[waiters[j]]
                  => i < j
  <2>1. \A i \in 1..Len(waiters) : waiters[i] # t =>
          phase'[waiters[i]] = IF i = k THEN "granted" ELSE phase[waiters[i]]
    BY <1>1, <1>3 DEF TypeOK, LineInv
  <2>2. \A i \in 1..Len(waiters) : waiters[i] # t =>
          phase'[waiters[i]] \in {"waiting", "granted"}
    BY <2>1 DEF LineInv
  <2>3. ASSUME NEW i \in 1..Len(waiters), NEW j \in 1..Len(waiters),
               waiters[i] # t, waiters[j] # t,
               phase'[waiters[i]] = "granted",
               phase'[waiters[j]] = "waiting", ~cancelled'[waiters[j]]
        PROVE  i < j
    <3>1. j # k /\ Pending(waiters[j])
      BY <2>1, <2>3 DEF Pending
    <3>2. CASE i = k
      BY <1>3, <3>1, <3>2 DEF FirstPending
    <3>3. CASE i # k
      BY <2>1, <2>3, <3>1, <3>3 DEF LineInv
    <3> QED BY <3>2, <3>3
  <2> QED BY <2>2, <2>3
<1> QED BY <1>2, <1>3 DEF WakeUpNext

\* Steps that leave the line and the phases of those in it as they are.
LEMMA LineFrame ==
  ASSUME TypeOK, LineInv, waiters' = waiters,
         \A u \in Tasks : phase[u] \in {"waiting", "granted"} =>
           phase'[u] = phase[u] /\ (cancelled[u] => cancelled'[u])
  PROVE  LineInv'
<1>1. \A i \in 1..Len(waiters) : waiters[i] \in Tasks
  BY DEF TypeOK
<1> QED BY <1>1 DEF LineInv, Pending

\* Every step keeps the line in order.
LEMMA LineStep == TypeOK /\ LineInv /\ [Next]_vars => LineInv'
<1> SUFFICES ASSUME TypeOK, LineInv, [Next]_vars PROVE LineInv'
  OBVIOUS
<1>1. ASSUME NEW t \in Tasks,
             Submit(t) \/ StartAtOnce(t) \/ CancelScheduled(t)
      PROVE  LineInv'
  <2>1. /\ phase[t] \in {"none", "scheduled"}
        /\ \E p : phase' = [phase EXCEPT ![t] = p]
        /\ waiters' = waiters /\ cancelled' = cancelled
    BY <1>1 DEF Submit, StartAtOnce, CancelScheduled
  <2> QED BY <2>1, LineFrame DEF TypeOK
<1>2. ASSUME NEW t \in Tasks, JoinLine(t) PROVE LineInv'
  <2>1. /\ phase[t] = "scheduled" /\ phase' = [phase EXCEPT ![t] = "waiting"]
        /\ waiters' = Append(waiters, t) /\ cancelled' = cancelled
    BY <1>2 DEF JoinLine
  <2>2. /\ Len(waiters) \in Nat /\ Len(waiters') = Len(waiters) + 1
        /\ waiters'[Len(waiters) + 1] = t
        /\ \A i \in 1..Len(waiters) :
             /\ waiters'[i] = waiters[i] /\ waiters[i] \in Tasks
             /\ waiters[i] # t /\ phase'[waiters[i]] = phase[waiters[i]]
    BY <2>1 DEF TypeOK, LineInv
  <2>3. phase'[t] = "waiting"
    BY <2>1 DEF TypeOK
  <2>4. \A i, j \in 1..Len(waiters') : waiters'[i] = waiters'[j] => i = j
    BY <2>2 DEF LineInv
  <2>5. \A i \in 1..Len(waiters') :
          phase'[waiters'[i]] \in {"waiting", "granted"}
    BY <2>2, <2>3 DEF LineInv
  <2>6. ASSUME NEW i \in 1..Len(waiters'), NEW j \in 1..Len(waiters'),
               phase'[waiters'[i]] = "granted",
               phase'[waiters'[j]] = "waiting", ~cancelled'[waiters'[j]]
        PROVE  i < j
    <3>1. i \in 1..Len(waiters) /\ phase[waiters[i]] = "granted"
      BY <2>2, <2>3, <2>6
    <3>2. CASE j = Len(waiters) + 1
      BY <2>2, <3>1, <3>2
    <3>3. CASE j \in 1..Len(waiters)
      BY <2>1, <2>2, <2>6, <3>1, <3>3 DEF LineInv, Pending
    <3> QED BY <2>2, <3>2, <3>3
  <2> QED BY <2>4, <2>5, <2>6 DEF LineInv, Pending
<1>3. ASSUME NEW t \in Tasks, StartGranted(t) \/ CancelGranted(t)
      PROVE  LineInv'
  <2>1. /\ Holding(t) /\ LeaveLine(t) /\ cancelled' = cancelled
        /\ \E p, n : WakeUpNext(t, p, n)
    BY <1>3 DEF StartGranted, CancelGranted, ReturnPermit, Holding
  <2> QED BY <2>1, WakeUpInOrder, LineWithout
<1>4. ASSUME NEW t \in Tasks,
             CancelRunning(t) \/ \E o \in Outcomes : RunnerEnds(t, o)
      PROVE  LineInv'
  <2>1. /\ phase[t] = "running" /\ waiters' = waiters
        /\ cancelled' = cancelled /\ WakeUpNext(t, "done", permits + 1)
    BY <1>4 DEF CancelRunning, RunnerEnds, ReturnPermit
  <2>2. \A i \in 1..Len(waiters) : waiters[i] # t
    BY <2>1 DEF LineInv
  <2>3. Holding(t)
    BY <2>1 DEF Holding
  <2> QED BY <2>1, <2>2, <2>3, WakeUpInOrder DEF LineInv, Pending
<1>5. ASSUME NEW t \in Tasks, CancelWaiting(t) PROVE LineInv'
  <2>1. /\ LeaveLine(t) /\ cancelled' = cancelled
        /\ phase' = [phase EXCEPT ![t] = "done"]
    BY <1>5 DEF CancelWaiting
  <2>2. \A i \in 1..Len(waiters) :
          waiters[i] # t => phase'[waiters[i]] = phase[waiters[i]]
    BY <2>1 DEF TypeOK
  <2>3. \A i \in 1..Len(waiters) : waiters[i] # t =>
          phase'[waiters[i]] \in {"waiting", "granted"}
    BY <2>2 DEF LineInv
  <2>4. \A i, j \in 1..Len(waiters) :
          /\ waiters[i] # t /\ waiters[j] # t
          /\ phase'[waiters[i]] = "granted"
          /\ phase'[waiters[j]] = "waiting" /\ ~cancelled'[waiters[j]]
          => i < j
    BY <2>1, <2>2 DEF LineInv, Pending
  <2> QED BY <2>1, <2>3, <2>4, LineWithout
<1>6. ASSUME NEW t \in Tasks, RunnerEmits(t) \/ RunnerSurvivesCancel(t)
      PROVE  LineInv'
  <2>1. CASE RunnerEmits(t)
    BY <2>1, LineFrame DEF RunnerEmits, loopVars
  <2>2. CASE RunnerSurvivesCancel(t)
    BY <2>2, LineFrame DEF RunnerSurvivesCancel, TypeOK
  <2> QED BY <1>6, <2>1, <2>2
<1>7. ASSUME NEW a \in Aborts,
             \/ \E t \in Tasks : AbortEnded(a, t) \/ AbortLive(a, t)
             \/ AbortReturns(a)
      PROVE  LineInv'
  BY <1>7, LineFrame DEF AbortEnded, AbortLive, AbortReturns, loopVars, TypeOK
<1>8. ASSUME NEW c \in Conns,
             \/ \E t \in Tasks : Connect(c, t)
             \/ StepConn(c) \/ Disconnect(c) \/ Unregister(c)
      PROVE  LineInv'
  BY <1>8, LineFrame
  DEF StepConn, Connect, Replay, EndReplay, Deliver, EndLive, Disconnect,
      Unregister, loopVars
<1>9. CASE UNCHANGED vars
  BY <1>9, LineFrame DEF vars, loopVars
<1> QED
  BY <1>1, <1>2, <1>3, <1>4, <1>5, <1>6, <1>7, <1>8, <1>9 DEF Next, StepTask

\* A task starts from the first step, when nobody queues, or from the line.
LEMMA StartSteps ==
  ASSUME TypeOK, [Next]_vars, NEW t \in Tasks,
         phase[t] # "running", phase'[t] = "running"
  PROVE  StartAtOnce(t) \/ StartGranted(t)
<1>1. ASSUME NEW u \in Tasks, NEW p \in {"scheduled", "waiting", "done"},
             phase' = [phase EXCEPT ![u] = p]
      PROVE  FALSE
  BY <1>1 DEF TypeOK
<1>2. ASSUME NEW u \in Tasks, Holding(u), NEW p, NEW n, WakeUpNext(u, p, n)
      PROVE  u = t /\ p = "running"
  BY <1>2, WakeUpPhases
<1>3. ASSUME NEW u \in Tasks,
             \/ Submit(u) \/ JoinLine(u) \/ CancelScheduled(u)
             \/ CancelWaiting(u)
      PROVE  FALSE
  BY <1>1, <1>3 DEF Submit, JoinLine, CancelScheduled, CancelWaiting
<1>4. ASSUME NEW u \in Tasks,
             \/ CancelGranted(u) \/ CancelRunning(u)
             \/ \E o \in Outcomes : RunnerEnds(u, o)
      PROVE  FALSE
  BY <1>2, <1>4
  DEF CancelGranted, CancelRunning, RunnerEnds, ReturnPermit, Holding
<1>5. ASSUME NEW u \in Tasks, StartAtOnce(u) PROVE u = t
  BY <1>5 DEF StartAtOnce, TypeOK
<1>6. ASSUME NEW u \in Tasks, StartGranted(u) PROVE u = t
  BY <1>2, <1>6 DEF StartGranted, Holding
<1>7. phase' # phase
  OBVIOUS
<1>8. ASSUME NEW u \in Tasks, RunnerEmits(u) \/ RunnerSurvivesCancel(u)
      PROVE  FALSE
  BY <1>7, <1>8 DEF RunnerEmits, RunnerSurvivesCancel, loopVars
<1>9. ASSUME NEW a \in Aborts,
             \/ \E u \in Tasks : AbortEnded(a, u) \/ AbortLive(a, u)
             \/ AbortReturns(a)
      PROVE  FALSE
  BY <1>7, <1>9 DEF AbortEnded, AbortLive, AbortReturns, loopVars
<1>10. ASSUME NEW c \in Conns,
              \/ \E u \in Tasks : Connect(c, u)
              \/ StepConn(c) \/ Disconnect(c) \/ Unregister(c)
       PROVE  FALSE
  BY <1>7, <1>10
  DEF StepConn, Connect, Replay, EndReplay, Deliver, EndLive, Disconnect,
      Unregister, loopVars
<1>11. CASE UNCHANGED vars
  BY <1>7, <1>11 DEF vars, loopVars
<1> QED
  BY <1>3, <1>4, <1>5, <1>6, <1>8, <1>9, <1>10, <1>11 DEF Next, StepTask

\* Whoever starts while u queues stood in line before u.
LEMMA StartsInOrder ==
  ASSUME TypeOK, SemaphoreInv, LineInv, [Next]_vars,
         NEW t \in Tasks, NEW u \in Tasks,
         phase[t] # "running", phase'[t] = "running", Pending(u)
  PROVE  \E i, j \in 1..Len(waiters) :
           i < j /\ waiters[i] = t /\ waiters[j] = u
<1>1. PICK j \in 1..Len(waiters) : waiters[j] = u
  BY DEF SemaphoreInv, PendingInLine, Pending
<1>2. CASE StartAtOnce(t)
  BY <1>1, <1>2 DEF StartAtOnce, Locked
<1>3. CASE StartGranted(t)
  <2>1. PICK i \in 1..Len(waiters) : waiters[i] = t
    BY <1>3 DEF StartGranted, LeaveLine
  <2>2. phase[waiters[i]] = "granted"
    BY <1>3, <2>1 DEF StartGranted
  <2>3. i < j
    BY <1>1, <2>2 DEF LineInv
  <2> QED BY <1>1, <2>1, <2>3
<1> QED BY <1>2, <1>3, StartSteps

\* The semaphore is fair: submissions, ends and cancellations may interleave
\* in any order, no task starts ahead of one that was in line before it.
THEOREM LineIsFair == Spec => NoOvertaking
<1> DEFINE I == TypeOK /\ SemaphoreInv /\ LineInv
<1>1. Init => I
  <2>1. Init => LineInv
    BY DEF Init, LineInv
  <2> QED BY <2>1, TypeInit, SemaphoreInit, ConstantsAssumption
<1>2. I /\ [Next]_vars => I'
  BY TypeStep, SemaphoreStep, LineStep
<1>3. I /\ [Next]_vars =>
        [\A t, u \in Tasks :
           /\ phase[t] # "running" /\ phase'[t] = "running"
           /\ Pending(u)
           => \E i, j \in 1..Len(waiters) :
                i < j /\ waiters[i] = t /\ waiters[j] = u]_vars
  BY StartsInOrder
<1> HIDE DEF I
<1> QED BY <1>1, <1>2, <1>3, PTL DEF Spec, NoOvertaking

-----------------------------------------------------------------------------
(* The log and the status *)

\* Log l is what a task in status s has published: nothing before it starts,
\* then workflow.started, and one outcome in a terminal status only.
Tells(s, l) ==
  /\ s \in {"absent", "queued"} <=> l = <<>>
  /\ l # <<>> => l[1].type = "workflow.started"
  /\ s \in Terminal <=> \E i \in 1..Len(l) : l[i].type \in OutcomeTypes
  /\ \A i, j \in 1..Len(l) :
       l[i].type \in OutcomeTypes /\ l[j].type \in OutcomeTypes => i = j
  /\ s = "completed" <=> \E i \in 1..Len(l) : l[i].type = "task.completed"

LogInv == \A t \in Tasks : Tells(status[t], buffer[t])

\* What emit does to the log of t, index by index.
LEMMA EmitAppends ==
  ASSUME TypeOK, NEW t \in Tasks, NEW types \in Seq(EventTypes),
         Emit(t, types) \/ EmitAndClose(t, types)
  PROVE  /\ \A u \in Tasks \ {t} : buffer'[u] = buffer[u]
         /\ Len(buffer'[t]) = Len(buffer[t]) + Len(types)
         /\ \A i \in 1..Len(buffer[t]) : buffer'[t][i] = buffer[t][i]
         /\ \A i \in 1..Len(types) :
              buffer'[t][Len(buffer[t]) + i].type = types[i]
         /\ buffer'[t] \in Seq(Events)
<1> DEFINE N == Numbered(t, types)  l == buffer[t]
<1>1. N \in Seq(Events) /\ Len(N) = Len(types) /\ l \in Seq(Events)
  BY NumberedType DEF TypeOK, Numbered
<1>2. \A i \in 1..Len(types) : N[i].type = types[i]
  BY DEF Numbered
<1>3. buffer' = [buffer EXCEPT ![t] = @ \o N]
  BY DEF Emit, EmitAndClose
<1>4. /\ buffer'[t] = l \o N
      /\ \A u \in Tasks \ {t} : buffer'[u] = buffer[u]
  BY <1>3 DEF TypeOK
<1> HIDE DEF N, l
<1>5. /\ Len(l) \in Nat /\ Len(N) \in Nat /\ Len(l \o N) = Len(l) + Len(N)
      /\ \A i \in 1..(Len(l) + Len(N)) :
           (l \o N)[i] = IF i <= Len(l) THEN l[i] ELSE N[i - Len(l)]
      /\ l \o N \in Seq(Events)
  BY <1>1, ConcatProperties, LenProperties
<1>6. \A i \in 1..Len(l) : (l \o N)[i] = l[i]
  BY <1>5
<1>7. \A i \in 1..Len(N) : (l \o N)[Len(l) + i] = N[i]
  BY <1>5
<1> QED BY <1>1, <1>2, <1>4, <1>5, <1>6, <1>7 DEF l

\* The first event of a task is workflow.started.
LEMMA StartTells ==
  ASSUME TypeOK, NEW t \in Tasks, Tells(status[t], buffer[t]),
         status[t] = "queued", Emit(t, <<"workflow.started">>)
  PROVE  Tells("running", buffer'[t])
<1>1. buffer[t] = <<>> /\ Len(buffer[t]) = 0
  BY DEF Tells
<1> DEFINE types == <<"workflow.started">>
<1>2. /\ types \in Seq(EventTypes) /\ Len(types) = 1
      /\ types[1] = "workflow.started" /\ Emit(t, types)
  BY DEF EventTypes
<1> HIDE DEF types
<1>5. /\ Len(buffer'[t]) = Len(buffer[t]) + Len(types)
      /\ \A i \in 1..Len(types) :
           buffer'[t][Len(buffer[t]) + i].type = types[i]
      /\ buffer'[t] \in Seq(Events)
  BY <1>2, EmitAppends
<1>3. /\ Len(buffer'[t]) = 1 /\ buffer'[t] \in Seq(Events)
      /\ buffer'[t][1].type = "workflow.started"
  BY <1>1, <1>2, <1>5
<1>4. \A i \in 1..Len(buffer'[t]) : buffer'[t][i].type = "workflow.started"
  BY <1>3
<1> QED BY <1>3, <1>4 DEF Tells, Terminal, OutcomeTypes

\* What the runner emits is no outcome.
LEMMA ProgressTells ==
  ASSUME TypeOK, NEW t \in Tasks, Tells(status[t], buffer[t]),
         status[t] = "running", Emit(t, <<"workflow.stage">>)
  PROVE  Tells("running", buffer'[t])
<1> DEFINE l == buffer[t]  m == buffer'[t]  types == <<"workflow.stage">>
<1>1. /\ types \in Seq(EventTypes) /\ Len(types) = 1
      /\ types[1] = "workflow.stage" /\ Emit(t, types)
  BY DEF EventTypes
<1> HIDE DEF types
<1>8. /\ Len(m) = Len(l) + Len(types) /\ m \in Seq(Events)
      /\ \A i \in 1..Len(l) : m[i] = l[i]
      /\ \A i \in 1..Len(types) : m[Len(l) + i].type = types[i]
  BY <1>1, EmitAppends
<1>2. /\ Len(m) = Len(l) + 1 /\ m \in Seq(Events)
      /\ \A i \in 1..Len(l) : m[i] = l[i]
      /\ m[Len(l) + 1].type = "workflow.stage"
  BY <1>1, <1>8
<1>3. l # <<>> /\ l \in Seq(Events) /\ l[1].type = "workflow.started"
  BY DEF Tells, TypeOK
<1>4. \A i \in 1..Len(l) : l[i].type \notin OutcomeTypes
  BY DEF Tells, Terminal
<1> HIDE DEF l, m
<1>5. Len(l) \in Nat \ {0}
  BY <1>3, EmptySeq, LenProperties
<1>6. \A i \in 1..Len(m) : m[i].type \notin OutcomeTypes
  BY <1>2, <1>4, <1>5 DEF OutcomeTypes
<1>7. m # <<>> /\ m[1].type = "workflow.started"
  BY <1>2, <1>3, <1>5
<1> SUFFICES Tells("running", m)
  BY DEF m
<1> QED BY <1>6, <1>7 DEF Tells, Terminal, OutcomeTypes

\* What follows a running task's log at its end: one outcome, and possibly an
\* error after it.
OutcomeOf(s) ==
  { types \in Seq(EventTypes) :
      /\ types # <<>> /\ types[1] \in OutcomeTypes
      /\ s = "completed" <=> types[1] = "task.completed"
      /\ \A i \in 2..Len(types) : types[i] \notin OutcomeTypes }

LEMMA EndTells ==
  ASSUME TypeOK, NEW t \in Tasks, Tells(status[t], buffer[t]),
         status[t] = "running", NEW s \in Terminal,
         NEW types \in OutcomeOf(s), EmitAndClose(t, types)
  PROVE  Tells(s, buffer'[t])
<1> DEFINE l == buffer[t]  m == buffer'[t]  o == Len(l) + 1
<1>1. /\ types \in Seq(EventTypes) /\ types # <<>>
      /\ types[1] \in OutcomeTypes
      /\ s = "completed" <=> types[1] = "task.completed"
      /\ \A i \in 2..Len(types) : types[i] \notin OutcomeTypes
  BY DEF OutcomeOf
<1>2. /\ Len(m) = Len(l) + Len(types) /\ m \in Seq(Events)
      /\ \A i \in 1..Len(l) : m[i] = l[i]
      /\ \A i \in 1..Len(types) : m[Len(l) + i].type = types[i]
  BY <1>1, EmitAppends
<1>3. l # <<>> /\ l \in Seq(Events) /\ l[1].type = "workflow.started"
  BY DEF Tells, TypeOK
<1>4. \A i \in 1..Len(l) : l[i].type \notin OutcomeTypes
  BY DEF Tells, Terminal
<1> HIDE DEF l, m
<1>5. Len(l) \in Nat \ {0} /\ Len(types) \in Nat \ {0}
  BY <1>1, <1>3, EmptySeq, LenProperties
<1>6. /\ o \in 1..Len(m) /\ m[o].type = types[1]
      /\ \A i \in 1..Len(m) : i # o => m[i].type \notin OutcomeTypes
  <2>1. o \in 1..Len(m) /\ m[o].type = types[1]
    BY <1>2, <1>5
  <2>2. ASSUME NEW i \in 1..Len(m), i # o PROVE m[i].type \notin OutcomeTypes
    <3>1. CASE i <= Len(l)
      BY <1>2, <1>4, <1>5, <3>1
    <3>2. CASE i > Len(l)
      <4>1. i - Len(l) \in 2..Len(types) /\ i - Len(l) \in 1..Len(types)
        BY <1>2, <1>5, <2>2, <3>2
      <4>2. m[Len(l) + (i - Len(l))].type = types[i - Len(l)]
        BY <1>2, <4>1
      <4>3. Len(l) + (i - Len(l)) = i
        BY <1>2, <1>5
      <4> QED BY <1>1, <4>1, <4>2, <4>3
    <3> QED BY <1>2, <1>5, <3>1, <3>2
  <2> QED BY <2>1, <2>2
<1>7. m # <<>> /\ m[1].type = "workflow.started"
  BY <1>2, <1>3, <1>5
<1>8. \A i \in 1..Len(m) :
        m[i].type = "task.completed" <=> i = o /\ s = "completed"
  BY <1>1, <1>6 DEF OutcomeTypes
<1>9. s \notin {"absent", "queued"}
  BY DEF Terminal
<1> HIDE DEF o
<1> SUFFICES Tells(s, m)
  BY DEF m
<1> QED BY <1>1, <1>6, <1>7, <1>8, <1>9 DEF Tells

\* A step that publishes for task t what goes with its new status.
LEMMA LogMove ==
  ASSUME TypeOK, LogInv, NEW t \in Tasks, NEW s,
         status' = [status EXCEPT ![t] = s], Tells(s, buffer'[t]),
         \A u \in Tasks \ {t} : buffer'[u] = buffer[u]
  PROVE  LogInv'
<1>1. status'[t] = s /\ \A u \in Tasks \ {t} : status'[u] = status[u]
  BY DEF TypeOK
<1>2. ASSUME NEW u \in Tasks PROVE Tells(status'[u], buffer'[u])
  <2>1. CASE u = t
    BY <1>1, <2>1
  <2>2. CASE u # t
    BY <1>1, <2>2 DEF LogInv
  <2> QED BY <2>1, <2>2
<1>3. (\A u \in Tasks : Tells(status'[u], buffer'[u])) => LogInv'
  BY DEF LogInv, Tells
<1> QED BY <1>2, <1>3

\* Every step keeps the log in line with the status.
LEMMA LogStep == TypeOK /\ LifeInv /\ LogInv /\ [Next]_vars => LogInv'
<1> SUFFICES ASSUME TypeOK, LifeInv, LogInv, [Next]_vars PROVE LogInv'
  OBVIOUS
<1>0. ASSUME status' = status, buffer' = buffer PROVE LogInv'
  BY <1>0 DEF LogInv, Tells
<1>1. ASSUME NEW t \in Tasks, Submit(t) PROVE LogInv'
  <2>1. /\ status[t] = "absent" /\ status' = [status EXCEPT ![t] = "queued"]
        /\ buffer' = buffer
    BY <1>1 DEF Submit, LifeInv
  <2>2. Tells("absent", buffer[t])
    BY <2>1 DEF LogInv
  <2>3. Tells("queued", buffer[t])
    BY <2>2 DEF Tells, Terminal
  <2> QED BY <2>1, <2>3, LogMove
<1>2. ASSUME NEW t \in Tasks, StartAtOnce(t) \/ StartGranted(t)
      PROVE  LogInv'
  <2>1. /\ status[t] = "queued" /\ status' = [status EXCEPT ![t] = "running"]
        /\ Emit(t, <<"workflow.started">>)
    BY <1>2 DEF StartAtOnce, StartGranted, EnterExecute, LifeInv
  <2>2. Tells(status[t], buffer[t]) /\ <<"workflow.started">> \in Seq(EventTypes)
    BY DEF LogInv, EventTypes
  <2>3. Tells("running", buffer'[t])
    BY <2>1, <2>2, StartTells
  <2>4. \A u \in Tasks \ {t} : buffer'[u] = buffer[u]
    BY <2>1, <2>2, EmitAppends
  <2> QED BY <2>1, <2>3, <2>4, LogMove
<1>3. ASSUME NEW t \in Tasks, RunnerEmits(t) PROVE LogInv'
  <2>1. /\ status[t] = "running" /\ status' = [status EXCEPT ![t] = "running"]
        /\ Emit(t, <<"workflow.stage">>)
    BY <1>3 DEF RunnerEmits, LifeInv, TypeOK
  <2>2. Tells(status[t], buffer[t]) /\ <<"workflow.stage">> \in Seq(EventTypes)
    BY DEF LogInv, EventTypes
  <2>3. Tells("running", buffer'[t])
    BY <2>1, <2>2, ProgressTells
  <2>4. \A u \in Tasks \ {t} : buffer'[u] = buffer[u]
    BY <2>1, <2>2, EmitAppends
  <2> QED BY <2>1, <2>3, <2>4, LogMove
<1>4. ASSUME NEW t \in Tasks, NEW s \in Terminal, NEW types \in OutcomeOf(s),
             phase[t] = "running", status' = [status EXCEPT ![t] = s],
             EmitAndClose(t, types)
      PROVE  LogInv'
  <2>1. Tells(status[t], buffer[t]) /\ status[t] = "running"
    BY <1>4 DEF LogInv, LifeInv
  <2>2. Tells(s, buffer'[t])
    BY <1>4, <2>1, EndTells
  <2>3. types \in Seq(EventTypes)
    BY DEF OutcomeOf
  <2>4. \A u \in Tasks \ {t} : buffer'[u] = buffer[u]
    BY <1>4, <2>3, EmitAppends
  <2> QED BY <1>4, <2>2, <2>4, LogMove
<1>5. ASSUME NEW t \in Tasks, NEW o \in Outcomes, RunnerEnds(t, o)
      PROVE  LogInv'
  <2>1. OutcomeStatus(o) \in Terminal
    BY DEF OutcomeStatus, Terminal
  <2>2. OutcomeEvents(o) \in OutcomeOf(OutcomeStatus(o))
    <3>1. CASE o = "returns"
      BY <3>1 DEF OutcomeEvents, OutcomeOf, OutcomeStatus, OutcomeTypes,
                  EventTypes
    <3>2. CASE o = "workflow_cancelled"
      BY <3>2 DEF OutcomeEvents, OutcomeOf, OutcomeStatus, OutcomeTypes,
                  EventTypes
    <3>3. CASE o \in {"finsage_error", "exception"}
      BY <3>3 DEF OutcomeEvents, OutcomeOf, OutcomeStatus, OutcomeTypes,
                  EventTypes
    <3> QED BY <3>1, <3>2, <3>3 DEF Outcomes
  <2> QED BY <1>4, <1>5, <2>1, <2>2 DEF RunnerEnds
<1>6. ASSUME NEW t \in Tasks, CancelRunning(t) PROVE LogInv'
  <2>1. "aborted" \in Terminal /\ <<"task.aborted">> \in OutcomeOf("aborted")
    BY DEF Terminal, OutcomeOf, OutcomeTypes, EventTypes
  <2> QED BY <1>4, <1>6, <2>1 DEF CancelRunning
<1>7. ASSUME NEW t \in Tasks,
             \/ JoinLine(t) \/ CancelScheduled(t) \/ CancelWaiting(t)
             \/ CancelGranted(t) \/ RunnerSurvivesCancel(t)
      PROVE  LogInv'
  BY <1>0, <1>7
  DEF JoinLine, CancelScheduled, CancelWaiting, CancelGranted,
      RunnerSurvivesCancel, handleVars
<1>8. ASSUME NEW a \in Aborts,
             \/ \E t \in Tasks : AbortEnded(a, t) \/ AbortLive(a, t)
             \/ AbortReturns(a)
      PROVE  LogInv'
  BY <1>0, <1>8 DEF AbortEnded, AbortLive, AbortReturns, handleVars
<1>9. ASSUME NEW c \in Conns,
             \/ \E t \in Tasks : Connect(c, t)
             \/ StepConn(c) \/ Disconnect(c) \/ Unregister(c)
      PROVE  LogInv'
  BY <1>0, <1>9
  DEF StepConn, Connect, Replay, EndReplay, Deliver, EndLive, Disconnect,
      Unregister, handleVars
<1>10. CASE UNCHANGED vars
  BY <1>0, <1>10 DEF vars, handleVars
<1> QED
  BY <1>1, <1>2, <1>3, <1>5, <1>6, <1>7, <1>8, <1>9, <1>10
  DEF Next, StepTask

\* Whoever reads the log of a task and whoever reads its status agree: nothing
\* before the start, and a single outcome event, in a terminal status only.
THEOREM LogsTellStatus == Spec => []LogTellsStatus
<1> DEFINE I == TypeOK /\ LifeInv /\ LogInv
<1>1. Init => I
  <2>1. Init => LogInv
    BY DEF Init, LogInv, Tells, Terminal
  <2> QED BY <2>1, TypeInit, LifeInit, ConstantsAssumption
<1>2. I /\ [Next]_vars => I'
  BY TypeStep, LifeStep, LogStep
<1>3. I => LogTellsStatus
  BY DEF LogInv, Tells, LogTellsStatus, Terminal, OutcomeTypes
<1> HIDE DEF I
<1> QED BY <1>1, <1>2, <1>3, PTL DEF Spec

-----------------------------------------------------------------------------
(* The abstract task service *)

\* Concatenation of sequences of items, index by index.
LEMMA ItemsConcat ==
  \A s, u \in Seq(Items) :
    /\ s \o u \in Seq(Items)
    /\ Len(s) \in Nat /\ Len(u) \in Nat /\ Len(s \o u) = Len(s) + Len(u)
    /\ \A i \in 1..(Len(s) + Len(u)) :
         (s \o u)[i] = IF i <= Len(s) THEN s[i] ELSE u[i - Len(s)]
BY ConcatProperties, LenProperties

\* What a task step publishes is a publication of the abstract service.
LEMMA EmitPublishes ==
  ASSUME TypeOK, NEW t \in Tasks, NEW types \in Seq(EventTypes),
         Emit(t, types) \/ EmitAndClose(t, types), NEW K, Len(types) \in K
  PROVE  Abstract!Publish(t, K)
<1> DEFINE N == Numbered(t, types)
<1>1. N \in Seq(Events) /\ Len(N) = Len(types)
  BY NumberedType DEF TypeOK, Numbered
<1>2. buffer' = [buffer EXCEPT ![t] = @ \o N]
  BY DEF Emit, EmitAndClose
<1>3. /\ buffer[t] \in Seq(Events) /\ buffer'[t] = buffer[t] \o N
      /\ \A u \in Tasks \ {t} : buffer'[u] = buffer[u]
  BY <1>2 DEF TypeOK
<1> HIDE DEF N
<1>4. /\ Len(buffer[t] \o N) - Len(buffer[t]) = Len(N)
      /\ SubSeq(buffer[t] \o N, 1, Len(buffer[t])) = buffer[t]
  BY <1>1, <1>3, PrefixOfConcat
<1> QED BY <1>1, <1>3, <1>4 DEF Abstract!Publish

\* The next event a connection is handed is the next one of the log.
LEMMA NextIsFromLog ==
  ASSUME TypeOK, NEW c \in Conns, ConnInv(c), registered[c],
         NEW e \in Events,
         \/ ordered[c] # <<>> /\ e = Head(ordered[c])
         \/ ordered[c] = <<>> /\ queue[c] # <<>> /\ e = Head(queue[c])
  PROVE  /\ Len(received[c]) < Len(buffer[target[c]])
         /\ buffer[target[c]][Len(received[c]) + 1] = e
<1> DEFINE r == received[c]  n == Len(r) + 1  b == buffer[target[c]]
           S == IF status[target[c]] \in Terminal /\ ~terminal[c]
                THEN <<Sentinel>> ELSE <<>>
<1>1. /\ r \in Seq(Items) /\ ordered[c] \in Seq(Items)
      /\ queue[c] \in Seq(Items) /\ r \o ordered[c] \in Seq(Items)
      /\ b \in Seq(Items) /\ S \in Seq(Items)
  <2>1. target[c] \in Tasks
    BY DEF ConnInv
  <2>2. Sentinel \in Items
    BY DEF Items
  <2> QED BY <2>1, <2>2, ConnTypes
<1>2. (r \o ordered[c]) \o queue[c] = b \o S
  BY DEF ConnInv, Pipeline, Expected
<1>3. e # Sentinel
  BY DEF Events, Sentinel
<1>6. S = <<>> \/ S = <<Sentinel>>
  OBVIOUS
<1> DEFINE o == ordered[c]  q == queue[c]
<1>7. (o # <<>> /\ e = Head(o)) \/ (o = <<>> /\ q # <<>> /\ e = Head(q))
  OBVIOUS
<1> SUFFICES Len(r) < Len(b) /\ b[n] = e
  OBVIOUS
<1> HIDE DEF S, r, b, o, q
<1>4. n \in 1..Len((r \o o) \o q) /\ ((r \o o) \o q)[n] = e
  <2>0. Len(r) \in Nat /\ Len(o) \in Nat /\ Len(q) \in Nat
    BY <1>1, LenProperties DEF o, q
  <2>1. CASE o # <<>>
    <3>1. Len(r \o o) >= Len(r) + 1 /\ (r \o o)[Len(r) + 1] = e
      BY <1>1, <1>7, <2>1, HeadFollows DEF o
    <3>2. /\ Len((r \o o) \o q) = Len(r \o o) + Len(q)
          /\ Len(r \o o) \in Nat
          /\ \A i \in 1..Len(r \o o) : ((r \o o) \o q)[i] = (r \o o)[i]
      <4> DEFINE p == r \o o
      <4>1. p \in Seq(Items) /\ q \in Seq(Items)
        BY <1>1 DEF o, q
      <4> HIDE DEF p
      <4>2. /\ Len(p \o q) = Len(p) + Len(q) /\ Len(p) \in Nat
            /\ Len(q) \in Nat
            /\ \A i \in 1..(Len(p) + Len(q)) :
                 (p \o q)[i] = IF i <= Len(p) THEN p[i] ELSE q[i - Len(p)]
        BY <4>1, ItemsConcat
      <4>3. \A i \in 1..Len(p) : (p \o q)[i] = p[i]
        BY <4>2
      <4> QED BY <4>2, <4>3 DEF p
    <3> QED BY <2>0, <3>1, <3>2
  <2>2. CASE o = <<>>
    <3>1. r \o o = r
      BY <1>1, <2>2, ConcatEmptySeq
    <3>2. Len(r \o q) >= Len(r) + 1 /\ (r \o q)[Len(r) + 1] = e
      BY <1>1, <1>7, <2>2, HeadFollows DEF q
    <3>3. Len(r \o q) \in Nat
      BY <1>1, ItemsConcat DEF q
    <3> QED BY <2>0, <3>1, <3>2, <3>3
  <2> QED BY <2>1, <2>2
<1>5. n \in 1..Len(b \o S) /\ (b \o S)[n] = e
  BY <1>2, <1>4 DEF o, q
<1>8. CASE S = <<>>
  <2>1. b \o S = b /\ Len(b) \in Nat /\ Len(r) \in Nat
    BY <1>1, <1>8, ConcatEmptySeq, LenProperties
  <2> QED BY <1>5, <2>1
<1>9. CASE S = <<Sentinel>>
  <2>1. /\ Len(b \o S) = Len(b) + 1 /\ Len(b) \in Nat /\ Len(r) \in Nat
        /\ (b \o S)[Len(b) + 1] = Sentinel
        /\ \A i \in 1..Len(b) : (b \o S)[i] = b[i]
    <3>1. Len(S) = 1 /\ S[1] = Sentinel
      BY <1>9
    <3>2. Len(b \o S) = Len(b) + Len(S) /\ Len(b) \in Nat /\ Len(r) \in Nat
      BY <1>1, ItemsConcat
    <3>3. \A i \in 1..(Len(b) + Len(S)) :
            (b \o S)[i] = IF i <= Len(b) THEN b[i] ELSE S[i - Len(b)]
      BY <1>1, ItemsConcat
    <3> QED BY <3>1, <3>2, <3>3
  <2>2. n # Len(b) + 1
    BY <1>3, <1>5, <2>1
  <2>3. n \in 1..Len(b)
    BY <1>5, <2>1, <2>2
  <2>4. b[n] = e
    BY <1>5, <2>1, <2>3
  <2> QED BY <2>1, <2>3, <2>4
<1> QED BY <1>6, <1>8, <1>9

\* The initial state is one of the abstract service.
LEMMA AbstractInit == Init => Abstract!Init
BY DEF Init, Abstract!Init

\* Every step of the task manager is one of the abstract service, or none.
LEMMA AbstractStep ==
  StreamLemmas /\ [Next]_vars => [Abstract!Next]_(Abstract!vars)
<1> SUFFICES ASSUME StreamLemmas, [Next]_vars
             PROVE  Abstract!Next \/ UNCHANGED Abstract!vars
  OBVIOUS
<1> USE DEF Abstract!vars
<1>0. TypeOK /\ LifeInv /\ \A c \in Conns : ConnInv(c)
  BY DEF StreamLemmas, StreamInv
<1>l. /\ <<"workflow.started">> \in Seq(EventTypes)
      /\ <<"workflow.stage">> \in Seq(EventTypes)
      /\ <<"task.aborted">> \in Seq(EventTypes)
      /\ \A o \in Outcomes : /\ OutcomeEvents(o) \in Seq(EventTypes)
                             /\ Len(OutcomeEvents(o)) \in {1, 2}
      /\ Len(<<"workflow.started">>) = 1 /\ Len(<<"workflow.stage">>) = 1
      /\ Len(<<"task.aborted">>) = 1
  BY DEF EventTypes, OutcomeEvents, Outcomes
<1>1. ASSUME NEW t \in Tasks, Submit(t) PROVE Abstract!Submit(t)
  BY <1>0, <1>1 DEF Submit, Abstract!Submit, LifeInv, connVars
<1>2. ASSUME NEW t \in Tasks, StartAtOnce(t) \/ StartGranted(t)
      PROVE  Abstract!Start(t)
  <2>1. Abstract!Publish(t, {1})
    BY <1>0, <1>2, <1>l, EmitPublishes
    DEF StartAtOnce, StartGranted, EnterExecute
  <2> QED
    BY <1>0, <1>2, <2>1
    DEF StartAtOnce, StartGranted, EnterExecute, Abstract!Start, LifeInv
<1>3. ASSUME NEW t \in Tasks, RunnerEmits(t) PROVE Abstract!Progress(t)
  <2>1. Abstract!Publish(t, {1})
    BY <1>0, <1>3, <1>l, EmitPublishes DEF RunnerEmits
  <2> QED BY <1>0, <1>3, <2>1 DEF RunnerEmits, Abstract!Progress, LifeInv
<1>4. ASSUME NEW t \in Tasks, NEW o \in Outcomes, RunnerEnds(t, o)
      PROVE  Abstract!End(t)
  <2>1. Abstract!Publish(t, {1, 2})
    BY <1>0, <1>4, <1>l, EmitPublishes DEF RunnerEnds
  <2>2. OutcomeStatus(o) \in Abstract!Terminal
    BY DEF OutcomeStatus, Abstract!Terminal
  <2> QED BY <1>0, <1>4, <2>1, <2>2 DEF RunnerEnds, Abstract!End, LifeInv
<1>5. ASSUME NEW t \in Tasks, CancelRunning(t) PROVE Abstract!End(t)
  <2>1. Abstract!Publish(t, {1, 2})
    BY <1>0, <1>5, <1>l, EmitPublishes DEF CancelRunning
  <2>2. "aborted" \in Abstract!Terminal
    BY DEF Abstract!Terminal
  <2> QED BY <1>0, <1>5, <2>1, <2>2 DEF CancelRunning, Abstract!End, LifeInv
<1>6. ASSUME NEW c \in Conns, NEW t \in Tasks, Connect(c, t)
      PROVE  Abstract!Open(c, t)
  BY <1>6 DEF Connect, Abstract!Open, handleVars
<1>7. ASSUME NEW c \in Conns, Replay(c) \/ Deliver(c) PROVE Abstract!Read(c)
  <2>1. /\ ConnInv(c) /\ conn[c] = "open" /\ registered[c]
    BY <1>0, <1>7 DEF Replay, Deliver, ConnInv
  <2>2. PICK e \in Events :
          /\ received' = [received EXCEPT ![c] = Append(@, e)]
          /\ \/ ordered[c] # <<>> /\ e = Head(ordered[c])
             \/ ordered[c] = <<>> /\ queue[c] # <<>> /\ e = Head(queue[c])
    <3>1. CASE Replay(c)
      <4>1. Head(ordered[c]) \in Events
        BY <1>0, <3>1, HeadTailProperties DEF TypeOK, Replay
      <4> QED BY <3>1, <4>1 DEF Replay
    <3>2. CASE Deliver(c)
      <4>1. Head(queue[c]) \in Events
        BY <1>0, <3>2, HeadTailProperties DEF TypeOK, Deliver
      <4> QED BY <3>2, <4>1 DEF Deliver
    <3> QED BY <1>7, <3>1, <3>2
  <2>3. /\ Len(received[c]) < Len(buffer[target[c]])
        /\ buffer[target[c]][Len(received[c]) + 1] = e
    BY <1>0, <2>1, <2>2, NextIsFromLog
  <2>4. UNCHANGED <<status, buffer, target, conn>>
    BY <1>7 DEF Replay, Deliver, handleVars
  <2> QED BY <2>1, <2>2, <2>3, <2>4 DEF Abstract!Read
<1>8. ASSUME NEW c \in Conns, EndReplay(c) \/ EndLive(c)
      PROVE  Abstract!Finish(c)
  <2>1. ConnInv(c) /\ ConnInv(c)'
    BY <1>0, <1>8, ConnOwnStep DEF StepConn
  <2>2. /\ conn[c] = "open" /\ conn' = [conn EXCEPT ![c] = "ended"]
        /\ UNCHANGED <<status, buffer, target, received>>
    BY <1>8 DEF EndReplay, EndLive, Leave, handleVars
  <2>3. status[target[c]] \in Terminal /\ received[c] = buffer[target[c]]
    <3>1. conn'[c] = "ended"
      BY <1>0, <2>2 DEF TypeOK
    <3> QED BY <2>1, <2>2, <3>1 DEF ConnInv
  <2> QED BY <2>2, <2>3 DEF Abstract!Finish, Abstract!Terminal, Terminal
<1>9. ASSUME NEW c \in Conns, Disconnect(c) PROVE Abstract!Drop(c)
  BY <1>9 DEF Disconnect, Abstract!Drop, handleVars
<1>10. ASSUME NEW c \in Conns, Unregister(c) PROVE UNCHANGED Abstract!vars
  BY <1>10 DEF Unregister, handleVars
<1>11. ASSUME NEW t \in Tasks,
              \/ JoinLine(t) \/ CancelScheduled(t) \/ CancelWaiting(t)
              \/ CancelGranted(t) \/ RunnerSurvivesCancel(t)
       PROVE  UNCHANGED Abstract!vars
  BY <1>11
  DEF JoinLine, CancelScheduled, CancelWaiting, CancelGranted,
      RunnerSurvivesCancel, handleVars, connVars
<1>12. ASSUME NEW a \in Aborts,
              \/ \E t \in Tasks : AbortEnded(a, t) \/ AbortLive(a, t)
              \/ AbortReturns(a)
       PROVE  UNCHANGED Abstract!vars
  BY <1>12 DEF AbortEnded, AbortLive, AbortReturns, handleVars, connVars
<1>13. CASE UNCHANGED vars
  BY <1>13 DEF vars, handleVars, connVars
<1> QED
  BY <1>1, <1>2, <1>3, <1>4, <1>5, <1>6, <1>7, <1>8, <1>9, <1>10, <1>11,
     <1>12, <1>13
  DEF Next, StepTask, StepConn, Abstract!Next

\* The task manager implements the abstract task service: no client can tell
\* the semaphore, the buffers and the queues from a log read in order.
THEOREM TaskStreamImplemented == Spec => ImplementsTaskStream
<1>1. Init => Abstract!Init
  BY AbstractInit
<1>2. StreamLemmas /\ [Next]_vars => [Abstract!Next]_(Abstract!vars)
  BY AbstractStep
<1> QED
  BY <1>1, <1>2, StreamInductive, PTL
  DEF Spec, ImplementsTaskStream, Abstract!Spec

-----------------------------------------------------------------------------
(* Tasks aborted before they started *)

\* The coroutine of t is over and its handle still shows it as queued: t was
\* aborted before it started.
Abandoned(t) == phase[t] = "done" /\ status[t] = "queued"

\* A coroutine that is over writes its handle's status no more.
LEMMA DoneKeepsStatus ==
  ASSUME TypeOK, [Next]_vars, NEW t \in Tasks, phase[t] = "done"
  PROVE  status'[t] = status[t]
<1>1. ASSUME NEW u \in Tasks, NEW s, phase[u] # "done",
             status' = [status EXCEPT ![u] = s]
      PROVE  status'[t] = status[t]
  BY <1>1 DEF TypeOK
<1>2. ASSUME NEW u \in Tasks, Submit(u) PROVE status'[t] = status[t]
  BY <1>1, <1>2 DEF Submit
<1>3. ASSUME NEW u \in Tasks, StepTask(u) PROVE status'[t] = status[t]
  <2>1. CASE StartAtOnce(u) \/ StartGranted(u)
    BY <1>1, <2>1 DEF StartAtOnce, StartGranted, EnterExecute
  <2>2. CASE CancelRunning(u)
    BY <1>1, <2>2 DEF CancelRunning
  <2>3. CASE \/ JoinLine(u) \/ CancelScheduled(u) \/ CancelWaiting(u)
             \/ CancelGranted(u)
    BY <2>3
    DEF JoinLine, CancelScheduled, CancelWaiting, CancelGranted, handleVars
  <2> QED BY <1>3, <2>1, <2>2, <2>3 DEF StepTask
<1>4. ASSUME NEW u \in Tasks, NEW o \in Outcomes, RunnerEnds(u, o)
      PROVE  status'[t] = status[t]
  BY <1>1, <1>4 DEF RunnerEnds
<1>5. ASSUME NEW u \in Tasks, RunnerEmits(u) \/ RunnerSurvivesCancel(u)
      PROVE  status' = status
  BY <1>5 DEF RunnerEmits, RunnerSurvivesCancel, handleVars
<1>6. ASSUME NEW a \in Aborts,
             \/ \E u \in Tasks : AbortEnded(a, u) \/ AbortLive(a, u)
             \/ AbortReturns(a)
      PROVE  status' = status
  BY <1>6 DEF AbortEnded, AbortLive, AbortReturns, handleVars
<1>7. ASSUME NEW c \in Conns,
             \/ \E u \in Tasks : Connect(c, u)
             \/ StepConn(c) \/ Disconnect(c) \/ Unregister(c)
      PROVE  status' = status
  BY <1>7
  DEF StepConn, Connect, Replay, EndReplay, Deliver, EndLive, Disconnect,
      Unregister, handleVars
<1>8. CASE UNCHANGED vars
  BY <1>8 DEF vars, handleVars
<1> QED BY <1>2, <1>3, <1>4, <1>5, <1>6, <1>7, <1>8 DEF Next

\* An open connection reads the same task until it ends or is dropped.
LEMMA OpenKeepsTarget ==
  ASSUME TypeOK, [Next]_vars, NEW c \in Conns, conn[c] = "open"
  PROVE  target'[c] = target[c] /\ conn'[c] \in {"open", "ended", "dropped"}
<1>1. ASSUME NEW t \in Tasks,
             \/ Submit(t) \/ StepTask(t) \/ RunnerEmits(t)
             \/ RunnerSurvivesCancel(t) \/ \E o \in Outcomes : RunnerEnds(t, o)
      PROVE  target' = target /\ conn' = conn
  BY <1>1
  DEF Submit, StepTask, StartAtOnce, JoinLine, StartGranted, CancelScheduled,
      CancelWaiting, CancelGranted, CancelRunning, RunnerEmits,
      RunnerSurvivesCancel, RunnerEnds, connVars
<1>2. ASSUME NEW a \in Aborts,
             \/ \E t \in Tasks : AbortEnded(a, t) \/ AbortLive(a, t)
             \/ AbortReturns(a)
      PROVE  target' = target /\ conn' = conn
  BY <1>2 DEF AbortEnded, AbortLive, AbortReturns, connVars
<1>3. ASSUME NEW d \in Conns, NEW t \in Tasks, Connect(d, t)
      PROVE  target'[c] = target[c] /\ conn'[c] = "open"
  BY <1>3 DEF Connect, TypeOK
<1>4. ASSUME NEW d \in Conns, StepConn(d) \/ Disconnect(d) \/ Unregister(d)
      PROVE  target' = target /\ conn'[c] \in {"open", "ended", "dropped"}
  BY <1>4
  DEF StepConn, Replay, EndReplay, Deliver, EndLive, Leave, Disconnect,
      Unregister, TypeOK
<1>5. CASE UNCHANGED vars
  BY <1>5 DEF vars, connVars
<1> QED BY <1>1, <1>2, <1>3, <1>4, <1>5 DEF Next

\* The client of an open stream of a task that is still queued got nothing.
LEMMA NothingToRead ==
  ASSUME TypeOK, LogInv, StreamInv, NEW c \in Conns, conn[c] = "open",
         status[target[c]] = "queued"
  PROVE  received[c] = <<>>
<1>1. target[c] \in Tasks /\ registered[c]
  BY DEF StreamInv, ConnInv
<1>2. buffer[target[c]] = <<>>
  BY <1>1 DEF LogInv, Tells
<1>3. Expected(c) = <<>> \o <<>>
  BY <1>2 DEF Expected, Terminal
<1>4. (received[c] \o ordered[c]) \o queue[c] = <<>> \o <<>>
  BY <1>1, <1>3 DEF StreamInv, ConnInv, Pipeline
<1>5. /\ received[c] \in Seq(Items) /\ ordered[c] \in Seq(Items)
      /\ queue[c] \in Seq(Items)
  BY ConnTypes
<1>6. Len((received[c] \o ordered[c]) \o queue[c])
        = Len(received[c]) + Len(ordered[c]) + Len(queue[c])
  BY <1>5
<1>7. Len(<<>> \o <<>>) = 0
  OBVIOUS
<1>8. Len(received[c]) = 0
  BY <1>4, <1>5, <1>6, <1>7
<1> QED BY <1>5, <1>8

\* An abandoned task stays one, and who reads its stream is told nothing and
\* not let go: only the client itself can end the connection.
AbandonedIsForEver ==
  [][\A t \in Tasks : Abandoned(t) =>
       /\ Abandoned(t)'
       /\ \A c \in Conns : conn[c] = "open" /\ target[c] = t =>
            received[c] = <<>> /\ conn'[c] \in {"open", "dropped"}]_vars

\* What abort() does to a task that had not started is never made good: no
\* later step gives it an outcome, and its streams neither say nor end
\* anything (tasks.py, abort: only _execute would have).
THEOREM AbandonedTasksStay == Spec => AbandonedIsForEver
<1> DEFINE I == StreamLemmas /\ LogInv
<1>1. Init => I
  <2>1. Init => LogInv
    BY DEF Init, LogInv, Tells, Terminal
  <2> QED BY <2>1, StreamInductive
<1>2. I /\ [Next]_vars => I'
  BY StreamInductive, LogStep DEF StreamLemmas
<1>3. ASSUME I, [Next]_vars, NEW t \in Tasks, Abandoned(t) PROVE Abandoned(t)'
  BY <1>3, DoneStaysDone, DoneKeepsStatus DEF Abandoned, StreamLemmas
<1>4. ASSUME I, [Next]_vars, NEW t \in Tasks, Abandoned(t),
             NEW c \in Conns, conn[c] = "open", target[c] = t
      PROVE  received[c] = <<>> /\ conn'[c] \in {"open", "dropped"}
  <2>1. received[c] = <<>>
    BY <1>4, NothingToRead DEF Abandoned, StreamLemmas
  <2>2. target'[c] = t /\ conn'[c] \in {"open", "ended", "dropped"}
    BY <1>4, OpenKeepsTarget DEF StreamLemmas
  <2>3. conn'[c] = "ended" => status'[target'[c]] \in Terminal
    BY <1>2, <1>4 DEF StreamLemmas, StreamInv, ConnInv
  <2>4. status'[t] = "queued"
    BY <1>3, <1>4 DEF Abandoned
  <2> QED BY <2>1, <2>2, <2>3, <2>4 DEF Terminal
<1>5. I /\ [Next]_vars =>
        [\A t \in Tasks : Abandoned(t) =>
           /\ Abandoned(t)'
           /\ \A c \in Conns : conn[c] = "open" /\ target[c] = t =>
                received[c] = <<>> /\ conn'[c] \in {"open", "dropped"}]_vars
  BY <1>3, <1>4
<1> HIDE DEF I
<1> QED BY <1>1, <1>2, <1>5, PTL DEF Spec, AbandonedIsForEver
=============================================================================
