---------------------------- MODULE TaskManager ----------------------------
(***************************************************************************)
(* The in-memory task manager and SSE event bus (finsage/api/tasks.py),    *)
(* run by one asyncio event loop: an action is what a coroutine does       *)
(* between two awaits.                                                     *)
(*                                                                         *)
(* A submitted task is an asyncio.Task that takes a permit of a shared     *)
(* semaphore, runs the injected runner and records its outcome.  A stream  *)
(* connection registers a queue with the task's handle, replays the buffer *)
(* it found and then reads its queue up to the sentinel.  An abort request *)
(* cancels the asyncio.Task and waits for it.                              *)
(*                                                                         *)
(* Cancelling does not interrupt: it sets cancelled[t], and the next time  *)
(* the loop steps the task the await it is parked at raises.  So phase     *)
(* says where the coroutine is parked, status what its handle shows.       *)
(***************************************************************************)
EXTENDS Naturals, Sequences, FiniteSets, SequencesExt

CONSTANTS Tasks,          \* the tasks that may be submitted
          Conns,          \* the stream connections that may be opened
          Aborts,         \* the abort requests that may be made
          MaxConcurrent,  \* TaskManager(max_concurrent)
          MaxProgress,    \* bound: events the runner emits per task
          NoTask          \* no task at all

ASSUME ConstantsAssumption ==
  /\ IsFiniteSet(Tasks)
  /\ MaxConcurrent \in Nat \ {0}
  /\ MaxProgress \in Nat
  /\ NoTask \notin Tasks

VARIABLES
  \* the handles
  status,     \* status[t]: TaskHandle.status, "absent" before submit
  finishedAt, \* finishedAt[t]: TaskHandle.finished_at is set
  buffer,     \* buffer[t]: the replay buffer
  \* the asyncio side
  phase,      \* phase[t]: where the asyncio.Task of t is parked
  cancelled,  \* cancelled[t]: Task.cancel() was called while it was not done
  permits,    \* Semaphore._value
  waiters,    \* Semaphore._waiters, the tasks that own the futures
  \* the stream connections
  conn,       \* conn[c]: "idle", "open", "ended" or "dropped"
  target,     \* target[c]: the task whose stream c reads
  registered, \* registered[c]: the queue of c is in handle._subscribers
  ordered,    \* ordered[c]: what is left of the replay snapshot
  terminal,   \* terminal[c]: the snapshot of "the task has ended"
  queue,      \* queue[c]: the subscriber queue of c
  received,   \* received[c]: what the client got (history)
  \* the abort requests
  abort,      \* abort[a]: "idle", "waiting" or "returned"
  aborting    \* aborting[a]: the task the request names

handleVars == <<status, finishedAt, buffer>>
loopVars   == <<phase, cancelled, permits, waiters>>
connVars   == <<conn, target, registered, ordered, terminal, queue, received>>
abortVars  == <<abort, aborting>>
vars       == <<handleVars, loopVars, connVars, abortVars>>

-----------------------------------------------------------------------------
(* Values *)

Terminal == {"completed", "failed", "aborted"}
Statuses == {"absent", "queued", "running"} \cup Terminal

\* Parked before the first step, on the semaphore's future while it is
\* pending, on that future once release() has resolved it, inside the runner,
\* or finished.
Phases == {"none", "scheduled", "waiting", "granted", "running", "done"}

EventTypes == {"workflow.started", "workflow.stage", "task.completed",
               "task.failed", "task.aborted", "error"}

\* An event is its type and its identity within the log of its task.
Events == [id : Nat \ {0}, type : EventTypes]

\* The None that closes a subscriber queue.
Sentinel == [id |-> 0, type |-> "end"]

\* How the runner can return: normally, by a FinSageError (with the code of a
\* cancelled workflow or another one) or by any other exception.
Outcomes == {"returns", "finsage_error", "workflow_cancelled", "exception"}

-----------------------------------------------------------------------------
(* The event bus *)

\* The events of the given types, as emitted next by task t.
Numbered(t, types) ==
  [i \in 1..Len(types) |-> [id |-> Len(buffer[t]) + i, type |-> types[i]]]

Listeners(t) == {c \in Conns : registered[c] /\ target[c] = t}

\* Puts the items on the queue of every listener of t.
FanOut(t, items) ==
  queue' = [c \in Conns |->
             IF c \in Listeners(t) THEN queue[c] \o items ELSE queue[c]]

\* emit: the events go into the replay buffer and to the listeners.
Emit(t, types) ==
  /\ buffer' = [buffer EXCEPT ![t] = @ \o Numbered(t, types)]
  /\ FanOut(t, Numbered(t, types))

\* Mutant: the listeners get the sentinel but not the last events.
EmitAndCloseDropsLast(t, types) ==
  /\ buffer' = [buffer EXCEPT ![t] = @ \o Numbered(t, types)]
  /\ FanOut(t, <<Sentinel>>)

\* emit followed by _close, with no await between them.
EmitAndClose(t, types) ==
  /\ buffer' = [buffer EXCEPT ![t] = @ \o Numbered(t, types)]
  /\ FanOut(t, Numbered(t, types) \o <<Sentinel>>)

-----------------------------------------------------------------------------
(* The semaphore (asyncio.Semaphore) *)

\* The future of a waiter is pending: neither resolved nor cancelled.
Pending(t) == phase[t] = "waiting" /\ ~cancelled[t]

\* locked(): no permit, or somebody whose future is not cancelled queues.
Locked ==
  \/ permits = 0
  \/ \E i \in 1..Len(waiters) :
       phase[waiters[i]] = "granted" \/ Pending(waiters[i])

\* Mutant: the last one comes first.
LastPending(i) ==
  /\ i \in 1..Len(waiters) /\ Pending(waiters[i])
  /\ \A j \in (i + 1)..Len(waiters) : ~Pending(waiters[j])

\* The first waiter in line whose future is pending.
FirstPending(i) ==
  /\ i \in 1..Len(waiters) /\ Pending(waiters[i])
  /\ \A j \in 1..(i - 1) : ~Pending(waiters[j])

\* Task t parks at p and leaves n permits in the pool; one of them, if there
\* is one, goes to the first pending waiter, if there is one.  Only one waiter
\* is woken even when n > 1: it wakes the next when its own turn comes.
WakeUpNext(t, p, n) ==
  \/ /\ n = 0 \/ ~\E i \in 1..Len(waiters) : Pending(waiters[i])
     /\ permits' = n
     /\ phase'   = [phase EXCEPT ![t] = p]
  \/ /\ n > 0
     /\ permits' = n - 1
     /\ \E i \in 1..Len(waiters) :
          /\ FirstPending(i)
          /\ phase' = [phase EXCEPT ![t] = p, ![waiters[i]] = "granted"]

\* Mutant: the permit goes to the pool and wakes nobody.
ReturnPermitWakesNobody(t) ==
  permits' = permits + 1 /\ phase' = [phase EXCEPT ![t] = "done"]

\* release(), or acquire() cancelled after its turn came: t ends.
ReturnPermit(t) == WakeUpNext(t, "done", permits + 1)

\* The future of t leaves the line.
LeaveLine(t) ==
  \E i \in 1..Len(waiters) :
    waiters[i] = t /\ waiters' = RemoveAt(waiters, i)

-----------------------------------------------------------------------------
Init ==
  /\ status     = [t \in Tasks |-> "absent"]
  /\ finishedAt = [t \in Tasks |-> FALSE]
  /\ buffer     = [t \in Tasks |-> <<>>]
  /\ phase      = [t \in Tasks |-> "none"]
  /\ cancelled  = [t \in Tasks |-> FALSE]
  /\ permits    = MaxConcurrent
  /\ waiters    = <<>>
  /\ conn       = [c \in Conns |-> "idle"]
  /\ target     = [c \in Conns |-> NoTask]
  /\ registered = [c \in Conns |-> FALSE]
  /\ ordered    = [c \in Conns |-> <<>>]
  /\ terminal   = [c \in Conns |-> FALSE]
  /\ queue      = [c \in Conns |-> <<>>]
  /\ received   = [c \in Conns |-> <<>>]
  /\ abort      = [a \in Aborts |-> "idle"]
  /\ aborting   = [a \in Aborts |-> NoTask]

-----------------------------------------------------------------------------
(* Submitting and running a task *)

\* submit(): a queued handle, and an asyncio.Task the loop will step later.
Submit(t) ==
  /\ phase[t] = "none"
  /\ status' = [status EXCEPT ![t] = "queued"]
  /\ phase'  = [phase EXCEPT ![t] = "scheduled"]
  /\ UNCHANGED <<finishedAt, buffer, cancelled, permits, waiters,
                 connVars, abortVars>>

\* What _execute does before it awaits the runner.
EnterExecute(t) ==
  /\ status' = [status EXCEPT ![t] = "running"]
  /\ Emit(t, <<"workflow.started">>)

\* First step of the task, a permit is free: acquire() does not suspend.
StartAtOnce(t) ==
  /\ phase[t] = "scheduled" /\ ~cancelled[t]
  /\ ~Locked
  /\ permits' = permits - 1
  /\ phase'   = [phase EXCEPT ![t] = "running"]
  /\ EnterExecute(t)
  /\ UNCHANGED <<finishedAt, cancelled, waiters, conn, target, registered,
                 ordered, terminal, received, abortVars>>

\* First step of the task, the semaphore is locked: it queues.
JoinLine(t) ==
  /\ phase[t] = "scheduled" /\ ~cancelled[t]
  /\ Locked
  /\ waiters' = Append(waiters, t)
  /\ phase'   = [phase EXCEPT ![t] = "waiting"]
  /\ UNCHANGED <<handleVars, cancelled, permits, connVars, abortVars>>

\* The future of the task was resolved: acquire() returns, the runner starts.
StartGranted(t) ==
  /\ phase[t] = "granted" /\ ~cancelled[t]
  /\ LeaveLine(t)
  /\ WakeUpNext(t, "running", permits)
  /\ EnterExecute(t)
  /\ UNCHANGED <<finishedAt, cancelled, conn, target, registered,
                 ordered, terminal, received, abortVars>>

\* The runner emits one of its events (stage, retrieval, answer, ...).
RunnerEmits(t) ==
  /\ phase[t] = "running" /\ ~cancelled[t]
  /\ Len(buffer[t]) < 1 + MaxProgress
  /\ Emit(t, <<"workflow.stage">>)
  /\ UNCHANGED <<status, finishedAt, loopVars, conn, target, registered,
                 ordered, terminal, received, abortVars>>

\* The branches of _execute after the runner: the status, the events and
\* whether finished_at is set.
OutcomeStatus(o) == IF o = "returns" THEN "completed" ELSE "failed"

\* Mutant: a failure is reported as an error only.
OutcomeEventsWithoutFailure(o) ==
  IF o = "returns" THEN <<"task.completed">> ELSE <<"error">>

OutcomeEvents(o) ==
  CASE o = "returns"            -> <<"task.completed">>
    [] o = "workflow_cancelled" -> <<"task.aborted", "error">>
    [] OTHER                    -> <<"task.failed", "error">>

OutcomeIsDated(o) == o # "exception"

\* Mutant: the outcome is recorded and one more await follows.
RunnerEndsThenAwaits(t, o) ==
  /\ phase[t] = "running" /\ ~cancelled[t]
  /\ status'     = [status EXCEPT ![t] = OutcomeStatus(o)]
  /\ finishedAt' = [finishedAt EXCEPT ![t] = OutcomeIsDated(o)]
  /\ EmitAndClose(t, OutcomeEvents(o))
  /\ UNCHANGED <<loopVars, conn, target, registered, ordered, terminal,
                 received, abortVars>>

\* The runner is over: outcome, sentinels and permit in one step.
RunnerEnds(t, o) ==
  /\ phase[t] = "running" /\ ~cancelled[t]
  /\ status'     = [status EXCEPT ![t] = OutcomeStatus(o)]
  /\ finishedAt' = [finishedAt EXCEPT ![t] = OutcomeIsDated(o)]
  /\ EmitAndClose(t, OutcomeEvents(o))
  /\ ReturnPermit(t)
  /\ UNCHANGED <<cancelled, waiters, conn, target, registered, ordered,
                 terminal, received, abortVars>>

-----------------------------------------------------------------------------
(* Stepping a cancelled task: the await it is parked at raises *)

\* It never took its first step: the coroutine raises before its body.
CancelScheduled(t) ==
  /\ phase[t] = "scheduled" /\ cancelled[t]
  /\ phase' = [phase EXCEPT ![t] = "done"]
  /\ UNCHANGED <<handleVars, cancelled, permits, waiters, connVars, abortVars>>

\* Mutant: it leaves the line but its coroutine never ends.
CancelWaitingSwallowed(t) ==
  /\ phase[t] = "waiting" /\ cancelled[t]
  /\ LeaveLine(t)
  /\ UNCHANGED <<handleVars, phase, cancelled, permits, connVars, abortVars>>

\* Its future was cancelled while pending.
CancelWaiting(t) ==
  /\ phase[t] = "waiting" /\ cancelled[t]
  /\ LeaveLine(t)
  /\ phase' = [phase EXCEPT ![t] = "done"]
  /\ UNCHANGED <<handleVars, cancelled, permits, connVars, abortVars>>

\* Mutant: the permit it had been handed is lost.
CancelGrantedLosesPermit(t) ==
  /\ phase[t] = "granted" /\ cancelled[t]
  /\ LeaveLine(t)
  /\ phase' = [phase EXCEPT ![t] = "done"]
  /\ UNCHANGED <<handleVars, cancelled, permits, connVars, abortVars>>

\* Mutant: the permit goes back to the pool, past the next in line.
CancelGrantedWakesNobody(t) ==
  /\ phase[t] = "granted" /\ cancelled[t]
  /\ LeaveLine(t)
  /\ ReturnPermitWakesNobody(t)
  /\ UNCHANGED <<handleVars, cancelled, connVars, abortVars>>

\* Its future had been resolved already: acquire() gives the permit back.
CancelGranted(t) ==
  /\ phase[t] = "granted" /\ cancelled[t]
  /\ LeaveLine(t)
  /\ ReturnPermit(t)
  /\ UNCHANGED <<handleVars, cancelled, connVars, abortVars>>

\* The runner was in an asyncio.wait_for (the provider calls) that already had
\* its result: Python 3.11 returns it and the cancellation is lost.
RunnerSurvivesCancel(t) ==
  /\ phase[t] = "running" /\ cancelled[t]
  /\ cancelled' = [cancelled EXCEPT ![t] = FALSE]
  /\ UNCHANGED <<handleVars, phase, permits, waiters, connVars, abortVars>>

\* It was in the runner: _execute records the abort and closes the streams.
CancelRunning(t) ==
  /\ phase[t] = "running" /\ cancelled[t]
  /\ status'     = [status EXCEPT ![t] = "aborted"]
  /\ finishedAt' = [finishedAt EXCEPT ![t] = TRUE]
  /\ EmitAndClose(t, <<"task.aborted">>)
  /\ ReturnPermit(t)
  /\ UNCHANGED <<cancelled, waiters, conn, target, registered, ordered,
                 terminal, received, abortVars>>

-----------------------------------------------------------------------------
(* Abort requests *)

\* abort() on a task that has ended, or whose asyncio.Task is done: nothing.
AbortEnded(a, t) ==
  /\ abort[a] = "idle" /\ status[t] # "absent"
  /\ status[t] \in Terminal \/ phase[t] = "done"
  /\ abort'    = [abort EXCEPT ![a] = "returned"]
  /\ aborting' = [aborting EXCEPT ![a] = t]
  /\ UNCHANGED <<handleVars, loopVars, connVars>>

\* Mutant: Task.cancel() and no wait.
AbortLiveNoWait(a, t) ==
  /\ abort[a] = "idle" /\ status[t] # "absent"
  /\ status[t] \notin Terminal /\ phase[t] # "done"
  /\ abort'     = [abort EXCEPT ![a] = "returned"]
  /\ aborting'  = [aborting EXCEPT ![a] = t]
  /\ cancelled' = [cancelled EXCEPT ![t] = TRUE]
  /\ UNCHANGED <<handleVars, phase, permits, waiters, connVars>>

\* abort() on a live task: Task.cancel(), then wait for the task.
AbortLive(a, t) ==
  /\ abort[a] = "idle" /\ status[t] # "absent"
  /\ status[t] \notin Terminal /\ phase[t] # "done"
  /\ abort'     = [abort EXCEPT ![a] = "waiting"]
  /\ aborting'  = [aborting EXCEPT ![a] = t]
  /\ cancelled' = [cancelled EXCEPT ![t] = TRUE]
  /\ UNCHANGED <<handleVars, phase, permits, waiters, connVars>>

\* The awaited task is done: abort() returns its handle.
AbortReturns(a) ==
  /\ abort[a] = "waiting"
  /\ phase[aborting[a]] = "done"
  /\ abort' = [abort EXCEPT ![a] = "returned"]
  /\ UNCHANGED <<handleVars, loopVars, connVars, aborting>>

-----------------------------------------------------------------------------
(* Stream connections *)

\* Mutant: no replay of what happened before.
ConnectWithoutReplay(c, t) ==
  /\ conn[c] = "idle" /\ status[t] # "absent"
  /\ conn'       = [conn EXCEPT ![c] = "open"]
  /\ target'     = [target EXCEPT ![c] = t]
  /\ registered' = [registered EXCEPT ![c] = TRUE]
  /\ terminal'   = [terminal EXCEPT ![c] = status[t] \in Terminal]
  /\ UNCHANGED <<handleVars, loopVars, ordered, queue, received, abortVars>>

\* Mutant: no snapshot of "the task has ended".
ConnectIgnoringEnd(c, t) ==
  /\ conn[c] = "idle" /\ status[t] # "absent"
  /\ conn'       = [conn EXCEPT ![c] = "open"]
  /\ target'     = [target EXCEPT ![c] = t]
  /\ registered' = [registered EXCEPT ![c] = TRUE]
  /\ ordered'    = [ordered EXCEPT ![c] = buffer[t]]
  /\ UNCHANGED <<handleVars, loopVars, terminal, queue, received, abortVars>>

\* subscribe(): registers the queue and takes both snapshots, then the
\* generator runs up to its first suspension.
Connect(c, t) ==
  /\ conn[c] = "idle" /\ status[t] # "absent"
  /\ conn'       = [conn EXCEPT ![c] = "open"]
  /\ target'     = [target EXCEPT ![c] = t]
  /\ registered' = [registered EXCEPT ![c] = TRUE]
  /\ ordered'    = [ordered EXCEPT ![c] = buffer[t]]
  /\ terminal'   = [terminal EXCEPT ![c] = status[t] \in Terminal]
  /\ UNCHANGED <<handleVars, loopVars, queue, received, abortVars>>

\* One event of the snapshot is yielded to the client.
Replay(c) ==
  /\ conn[c] = "open" /\ ordered[c] # <<>>
  /\ received' = [received EXCEPT ![c] = Append(@, Head(ordered[c]))]
  /\ ordered'  = [ordered EXCEPT ![c] = Tail(@)]
  /\ UNCHANGED <<handleVars, loopVars, conn, target, registered, terminal,
                 queue, abortVars>>

\* The generator returns: its finally removes the queue.
Leave(c) ==
  /\ conn'       = [conn EXCEPT ![c] = "ended"]
  /\ registered' = [registered EXCEPT ![c] = FALSE]

\* The snapshot is exhausted and the task had ended when it was taken.
EndReplay(c) ==
  /\ conn[c] = "open" /\ ordered[c] = <<>> /\ terminal[c]
  /\ Leave(c)
  /\ UNCHANGED <<handleVars, loopVars, target, ordered, terminal, queue,
                 received, abortVars>>

\* An event of the queue is yielded to the client.
Deliver(c) ==
  /\ conn[c] = "open" /\ ordered[c] = <<>> /\ ~terminal[c]
  /\ queue[c] # <<>> /\ Head(queue[c]) # Sentinel
  /\ received' = [received EXCEPT ![c] = Append(@, Head(queue[c]))]
  /\ queue'    = [queue EXCEPT ![c] = Tail(@)]
  /\ UNCHANGED <<handleVars, loopVars, conn, target, registered, ordered,
                 terminal, abortVars>>

\* The sentinel is taken from the queue.
EndLive(c) ==
  /\ conn[c] = "open" /\ ordered[c] = <<>> /\ ~terminal[c]
  /\ queue[c] # <<>> /\ Head(queue[c]) = Sentinel
  /\ Leave(c)
  /\ queue' = [queue EXCEPT ![c] = Tail(@)]
  /\ UNCHANGED <<handleVars, loopVars, target, ordered, terminal, received,
                 abortVars>>

\* The client goes away; nobody reads the generator any more.
Disconnect(c) ==
  /\ conn[c] = "open"
  /\ conn' = [conn EXCEPT ![c] = "dropped"]
  /\ UNCHANGED <<handleVars, loopVars, target, registered, ordered, terminal,
                 queue, received, abortVars>>

\* The abandoned generator is closed: its finally removes the queue, and with
\* it goes what the client did not read.
Unregister(c) ==
  /\ conn[c] = "dropped" /\ registered[c]
  /\ registered' = [registered EXCEPT ![c] = FALSE]
  /\ ordered'    = [ordered EXCEPT ![c] = <<>>]
  /\ queue'      = [queue EXCEPT ![c] = <<>>]
  /\ UNCHANGED <<handleVars, loopVars, conn, target, terminal, received,
                 abortVars>>

-----------------------------------------------------------------------------
(* The specification *)

\* What the event loop does with task t, the runner apart.
StepTask(t) ==
  \/ StartAtOnce(t) \/ JoinLine(t) \/ StartGranted(t)
  \/ CancelScheduled(t) \/ CancelWaiting(t)
  \/ CancelGranted(t) \/ CancelRunning(t)

\* What the server does with connection c while the client keeps reading.
StepConn(c) ==
  \/ Replay(c) \/ EndReplay(c) \/ Deliver(c) \/ EndLive(c)

Next ==
  \/ \E t \in Tasks : \/ Submit(t)
                      \/ StepTask(t)
                      \/ RunnerEmits(t) \/ RunnerSurvivesCancel(t)
                      \/ \E o \in Outcomes : RunnerEnds(t, o)
  \/ \E a \in Aborts : \/ \E t \in Tasks : AbortEnded(a, t) \/ AbortLive(a, t)
                       \/ AbortReturns(a)
  \/ \E c \in Conns : \/ \E t \in Tasks : Connect(c, t)
                      \/ StepConn(c)
                      \/ Disconnect(c) \/ Unregister(c)

Spec == Init /\ [][Next]_vars

\* asyncio steps what is ready in FIFO order, so every coroutine that can be
\* stepped is; a client that stays connected reads.  A runner may hang: it awaits
\* threads (memory, audit) and graph nodes that have no time limit.  An abandoned
\* generator is closed when the server and the garbage collector get to it.
\* Nothing makes a client submit, connect, abort or leave.
Fairness ==
  /\ \A t \in Tasks : WF_vars(StepTask(t))
  /\ \A a \in Aborts : WF_vars(AbortReturns(a))
  /\ \A c \in Conns : WF_vars(StepConn(c))

FairSpec == Spec /\ Fairness
-----------------------------------------------------------------------------
(* Safety *)

\* Types of the state.
TypeOK ==
  /\ status     \in [Tasks -> Statuses]
  /\ finishedAt \in [Tasks -> BOOLEAN]
  /\ buffer     \in [Tasks -> Seq(Events)]
  /\ phase      \in [Tasks -> Phases]
  /\ cancelled  \in [Tasks -> BOOLEAN]
  /\ permits    \in Nat
  /\ waiters    \in Seq(Tasks)
  /\ conn       \in [Conns -> {"idle", "open", "ended", "dropped"}]
  /\ target     \in [Conns -> Tasks \cup {NoTask}]
  /\ registered \in [Conns -> BOOLEAN]
  /\ ordered    \in [Conns -> Seq(Events)]
  /\ terminal   \in [Conns -> BOOLEAN]
  /\ queue      \in [Conns -> Seq(Events \cup {Sentinel})]
  /\ received   \in [Conns -> Seq(Events)]
  /\ abort      \in [Aborts -> {"idle", "waiting", "returned"}]
  /\ aborting   \in [Aborts -> Tasks \cup {NoTask}]

Holding(t) == phase[t] \in {"granted", "running"}

\* No cancellation, at whatever point it lands, loses or mints a permit of the
\* semaphore: what is not in the pool is held by a task that runs or is about
\* to.  In particular at most MaxConcurrent runners are ever active.
PermitsConserved ==
  permits + Cardinality({t \in Tasks : Holding(t)}) = MaxConcurrent

\* No lost wake-up: if a permit is free while tasks queue, somebody's turn has
\* come and will pass it on, in spite of the tasks that are cancelled in the
\* queue or just after their turn came.
NoLostWakeUp ==
  permits > 0 /\ (\E t \in Tasks : Pending(t)) =>
    \E t \in Tasks : phase[t] = "granted"

\* The replay snapshot and the live queue join without a gap, a repetition or
\* a swap, wherever the task was when the client connected: what the client
\* got, what is left of the snapshot and what is queued make up the log of the
\* task, closed by one sentinel exactly when the task ended after the snapshot.
StreamIsLog ==
  \A c \in Conns : registered[c] =>
    received[c] \o ordered[c] \o queue[c] =
      buffer[target[c]] \o
        (IF status[target[c]] \in Terminal /\ ~terminal[c]
         THEN <<Sentinel>> ELSE <<>>)

\* A stream that the server ends has delivered the whole log of an ended task:
\* a late subscriber gets the terminal event too.
EndedStreamIsComplete ==
  \A c \in Conns : conn[c] = "ended" =>
    /\ status[target[c]] \in Terminal
    /\ received[c] = buffer[target[c]]

OutcomeTypes == {"task.completed", "task.failed", "task.aborted"}

\* The log and the status tell the same story: nothing before the task starts,
\* then workflow.started, and one outcome event, in a terminal status only.
LogTellsStatus ==
  \A t \in Tasks :
    LET log      == buffer[t]
        outcomes == {i \in 1..Len(log) : log[i].type \in OutcomeTypes}
    IN  /\ status[t] \in {"absent", "queued"} => log = <<>>
        /\ log # <<>> => log[1].type = "workflow.started"
        /\ status[t] \in Terminal <=> outcomes # {}
        /\ \A i, j \in outcomes : i = j
        /\ status[t] = "completed" <=>
             \E i \in outcomes : log[i].type = "task.completed"

\* Once an abort request was answered the task's coroutine is over: nothing of
\* it will run later.
AnsweredAbortStopped ==
  \A a \in Aborts : abort[a] = "returned" => phase[aborting[a]] = "done"

-----------------------------------------------------------------------------
(* Action properties *)

\* An ended task stays as it is: no late cancellation, event or outcome
\* changes its status or its log.
EndedIsFinal ==
  [][\A t \in Tasks : status[t] \in Terminal =>
       status'[t] = status[t] /\ buffer'[t] = buffer[t]]_vars

\* The semaphore is fair: no task starts ahead of one that is queueing and
\* came before it.
NoOvertaking ==
  [][\A t, u \in Tasks :
       /\ phase[t] # "running" /\ phase'[t] = "running"
       /\ Pending(u)
       => \E i, j \in 1..Len(waiters) :
            i < j /\ waiters[i] = t /\ waiters[j] = u]_vars

-----------------------------------------------------------------------------
(* Liveness *)

\* A task in line for the semaphore is waited for by nothing but runners: it
\* starts or is cancelled, unless from some time on every permit is held by a
\* runner that does not end.
QueueIsServed ==
  \A t \in Tasks :
    status[t] = "queued" /\ ~cancelled[t] ~>
      \/ status[t] # "queued" \/ cancelled[t]
      \/ [](Cardinality({u \in Tasks : phase[u] = "running"}) = MaxConcurrent)

\* The stream of a task that has started does not stay open for ever, whether
\* the client came before or after the end, unless its runner does not end.
StartedStreamEnds ==
  \A c \in Conns, t \in Tasks :
    conn[c] = "open" /\ target[c] = t /\ status[t] # "queued" ~>
      conn[c] # "open" \/ [](phase[t] = "running")

\* Every abort request is answered, wherever its cancellation lands, unless the
\* runner swallows it and does not end by itself.
AbortIsAnswered ==
  \A a \in Aborts, t \in Tasks :
    abort[a] = "waiting" /\ aborting[a] = t ~>
      abort[a] = "returned" \/ [](phase[t] = "running" /\ ~cancelled[t])

-----------------------------------------------------------------------------
(* What the source says and the code does not do *)

\* abort(): "waits for its end (_execute ... sets aborted and emits
\* task.aborted)": an answered abort leaves the task in a terminal status.
AnsweredAbortEnded ==
  \A a \in Aborts :
    abort[a] = "returned" => status[aborting[a]] \in Terminal

-----------------------------------------------------------------------------
(* The abstract specification it implements *)

Abstract == INSTANCE TaskStream WITH log <- buffer, seen <- received

\* Every behaviour of the task manager is one of the abstract task service:
\* clients cannot tell the queues from a log read from its beginning.
ImplementsTaskStream == Abstract!Spec
=============================================================================
