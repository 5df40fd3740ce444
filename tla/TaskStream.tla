----------------------------- MODULE TaskStream -----------------------------
(***************************************************************************)
(* What the task service promises its clients, without the event loop, the *)
(* semaphore, the replay buffers or the subscriber queues.                 *)
(*                                                                         *)
(* A task has a status and a log of events.  It is submitted, it may       *)
(* start, it publishes events while it runs and it ends once, in one       *)
(* terminal status, publishing its last events in the same instant.  A     *)
(* connection reads the log of one task from its beginning, in order, and  *)
(* is told that the stream is over only when it has read the complete log  *)
(* of a task that has ended.                                               *)
(***************************************************************************)
EXTENDS Naturals, Sequences

CONSTANTS Tasks,    \* the tasks that may be submitted
          Conns,    \* the stream connections that may be opened
          NoTask    \* the task of a connection that is not open

Terminal == {"completed", "failed", "aborted"}

VARIABLES status,   \* status[t]: "absent", "queued", "running" or terminal
          log,      \* log[t]: the events published so far
          target,   \* target[c]: the task connection c reads
          seen,     \* seen[c]: the events handed to connection c
          conn      \* conn[c]: "idle", "open", "ended" or "dropped"

vars == <<status, log, target, seen, conn>>

Init ==
  /\ status = [t \in Tasks |-> "absent"]
  /\ log    = [t \in Tasks |-> <<>>]
  /\ target = [c \in Conns |-> NoTask]
  /\ seen   = [c \in Conns |-> <<>>]
  /\ conn   = [c \in Conns |-> "idle"]

-----------------------------------------------------------------------------
(* Tasks *)

Submit(t) ==
  /\ status[t] = "absent"
  /\ status' = [status EXCEPT ![t] = "queued"]
  /\ UNCHANGED <<log, target, seen, conn>>

\* The log of a task grows by n events, n \in N; no other log changes.
Publish(t, N) ==
  /\ Len(log'[t]) - Len(log[t]) \in N
  /\ SubSeq(log'[t], 1, Len(log[t])) = log[t]
  /\ \A u \in Tasks \ {t} : log'[u] = log[u]

Start(t) ==
  /\ status[t] = "queued"
  /\ status' = [status EXCEPT ![t] = "running"]
  /\ Publish(t, {1})
  /\ UNCHANGED <<target, seen, conn>>

Progress(t) ==
  /\ status[t] = "running"
  /\ Publish(t, {1})
  /\ UNCHANGED <<status, target, seen, conn>>

\* The only step that makes a status terminal also publishes the outcome: one
\* event, or two when the outcome is an error.
End(t) ==
  /\ status[t] = "running"
  /\ \E s \in Terminal : status' = [status EXCEPT ![t] = s]
  /\ Publish(t, {1, 2})
  /\ UNCHANGED <<target, seen, conn>>

-----------------------------------------------------------------------------
(* Connections *)

Open(c, t) ==
  /\ conn[c] = "idle"
  /\ status[t] # "absent"
  /\ conn'   = [conn EXCEPT ![c] = "open"]
  /\ target' = [target EXCEPT ![c] = t]
  /\ UNCHANGED <<status, log, seen>>

Read(c) ==
  /\ conn[c] = "open"
  /\ LET t == target[c]
         n == Len(seen[c])
     IN  /\ n < Len(log[t])
         /\ seen' = [seen EXCEPT ![c] = Append(@, log[t][n + 1])]
  /\ UNCHANGED <<status, log, target, conn>>

\* The stream ends by itself: nothing is left to read and nothing will come.
Finish(c) ==
  /\ conn[c] = "open"
  /\ status[target[c]] \in Terminal
  /\ Len(seen[c]) = Len(log[target[c]])
  /\ conn' = [conn EXCEPT ![c] = "ended"]
  /\ UNCHANGED <<status, log, target, seen>>

Drop(c) ==
  /\ conn[c] = "open"
  /\ conn' = [conn EXCEPT ![c] = "dropped"]
  /\ UNCHANGED <<status, log, target, seen>>

Next ==
  \/ \E t \in Tasks : Submit(t) \/ Start(t) \/ Progress(t) \/ End(t)
  \/ \E c \in Conns : \E t \in Tasks : Open(c, t)
  \/ \E c \in Conns : Read(c) \/ Finish(c) \/ Drop(c)

Spec == Init /\ [][Next]_vars
=============================================================================
