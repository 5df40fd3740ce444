--------------------------- MODULE BlockingCalls ---------------------------
(***************************************************************************)
(* Calls of synchronous libraries from the event loop: asyncio.to_thread   *)
(* under a time limit (providers/finance/base.py) on the loop's bounded    *)
(* pool (_executor.py), and among them those of Baostock (baostock.py),    *)
(* whose login is one for the whole process.                               *)
(*                                                                         *)
(* The time limit frees the caller, not the thread: what has begun goes on *)
(* unheard, in the session it may have.                                    *)
(***************************************************************************)
EXTENDS Settings, Sequences, FiniteSets

VARIABLES
  waiting, \* waiting[c]: the coroutine of call c awaits its thread
  work,    \* work[c]: where its function is
  queue,   \* the pool's queue, cancelled calls among it
  lock,    \* who holds _BS_SESSION_LOCK
  login    \* who logged in to Baostock last, None once logged out

vars == <<waiting, work, queue, lock, login>>

\* In a worker: at the lock, in one of the library's calls, or in any other
\* library.
InSession == {"login", "query", "logout"}
Running   == {"lock", "running"} \cup InSession

Busy == Cardinality({c \in PoolCalls : work[c] \in Running})

Init ==
  /\ waiting = [c \in PoolCalls |-> FALSE]
  /\ work    = [c \in PoolCalls |-> "none"]
  /\ queue   = <<>>
  /\ lock    = None
  /\ login   = None

-----------------------------------------------------------------------------
(* The event loop *)

\* _call(): the function is queued and awaited.
Call(c) ==
  /\ ~waiting[c] /\ work[c] = "none"
  /\ waiting' = [waiting EXCEPT ![c] = TRUE]
  /\ work'    = [work EXCEPT ![c] = "queued"]
  /\ queue'   = Append(queue, c)
  /\ UNCHANGED <<lock, login>>

\* The function's result, or its exception, is there.
Return(c) ==
  /\ waiting[c] /\ work[c] = "done"
  /\ waiting' = [waiting EXCEPT ![c] = FALSE]
  /\ work'    = [work EXCEPT ![c] = "none"]
  /\ UNCHANGED <<queue, lock, login>>

\* The time is up, or the task is aborted: the future is cancelled, which the
\* function does not notice once a worker has it.
GiveUp(c) ==
  /\ waiting[c]
  /\ waiting' = [waiting EXCEPT ![c] = FALSE]
  /\ work'    = [work EXCEPT ![c] = IF @ = "done" THEN "none" ELSE @]
  /\ UNCHANGED <<queue, lock, login>>

-----------------------------------------------------------------------------
(* The workers *)

Goes(c, to) == work' = [work EXCEPT ![c] = to]

\* The function is over, and so is the call if nobody waits.
Ends(c) == Goes(c, IF waiting[c] THEN "done" ELSE "none")

\* A free worker takes the next one, and passes over it if it was given up.
Take(c) ==
  /\ queue # <<>> /\ c = Head(queue) /\ work[c] = "queued" /\ Busy < Workers
  /\ queue' = Tail(queue)
  /\ Goes(c, IF ~waiting[c] THEN "none"
             ELSE IF c \in SessionCalls THEN "lock" ELSE "running")
  /\ UNCHANGED <<waiting, lock, login>>

\* Any other library's function is over.
Finish(c) ==
  /\ work[c] = "running" /\ Ends(c)
  /\ UNCHANGED <<waiting, queue, lock, login>>

\* _query() enters the lock.
Acquire(c) ==
  /\ work[c] = "lock" /\ lock = None
  /\ lock' = c
  /\ Goes(c, "login")
  /\ UNCHANGED <<waiting, queue, login>>

\* Mutant: a login that fails does not leave the lock.
LogInStays(c) ==
  /\ work[c] = "login"
  /\ \/ login' = c /\ Goes(c, "query")
     \/ UNCHANGED login /\ Ends(c)
  /\ UNCHANGED <<waiting, queue, lock>>

\* The login succeeds, or fails and leaves the lock without logging out.
LogIn(c) ==
  /\ work[c] = "login"
  /\ \/ login' = c /\ Goes(c, "query") /\ UNCHANGED lock
     \/ lock' = None /\ Ends(c) /\ UNCHANGED login
  /\ UNCHANGED <<waiting, queue>>

\* The query, which may fail, is over: logging out comes in any case.
Query(c) ==
  /\ work[c] = "query" /\ Goes(c, "logout")
  /\ UNCHANGED <<waiting, queue, lock, login>>

\* Logging out, which may fail, and leaving the lock.
LogOut(c) ==
  /\ work[c] = "logout"
  /\ login' \in {None, login}
  /\ lock' = None
  /\ Ends(c)
  /\ UNCHANGED <<waiting, queue>>

Next ==
  \E c \in PoolCalls :
    \/ Call(c) \/ Return(c) \/ GiveUp(c)
    \/ Take(c) \/ Finish(c) \/ Acquire(c) \/ LogIn(c) \/ Query(c) \/ LogOut(c)

Spec == Init /\ [][Next]_vars

-----------------------------------------------------------------------------
(* Properties *)

\* Types of the state.
TypeOK ==
  /\ waiting \in [PoolCalls -> BOOLEAN]
  /\ work \in [PoolCalls -> {"none", "queued", "done"} \cup Running]
  /\ queue \in Seq(PoolCalls)
  /\ lock \in PoolCalls \cup {None} /\ login \in PoolCalls \cup {None}

\* Threads that outlive their calls never break each other's login: a query runs
\* in the login of its own thread, with nobody else in the session; and no thread
\* leaves the lock behind, which would keep all others, and their workers, for
\* ever.
SessionIsOwn ==
  /\ \A c \in PoolCalls : work[c] = "query" => login = c
  /\ \A c \in PoolCalls : work[c] \in InSession <=> lock = c

=============================================================================
