------------------------------ MODULE Progress ------------------------------
(***************************************************************************)
(* What the service promises to bring to an end: the tasks, streams and    *)
(* abort requests of the task manager, and the calls of the finance        *)
(* providers.  The runner is all that the two have in common, and to the   *)
(* task manager it is any coroutine, one that hangs too: so a behaviour is *)
(* one of one part, while the other stays where it begins.                 *)
(***************************************************************************)
EXTENDS ProviderFailover

CONSTANTS
  Tasks,         \* see TaskManager
  Conns,
  Aborts,
  MaxConcurrent,
  MaxProgress,
  NoTask

VARIABLES
  part,    \* the part that takes steps
  status, finishedAt, buffer, parked, cancelled, permits, waiters,
  conn, target, registered, ordered, terminal, queue, received,
  abort, aborting

managerVars ==
  <<status, finishedAt, buffer, parked, cancelled, permits, waiters, conn, target,
    registered, ordered, terminal, queue, received, abort, aborting>>

Manager == INSTANCE TaskManager WITH phase <- parked

EitherInit ==
  /\ part \in {"tasks", "providers"}
  /\ Manager!Init
  /\ Init

EitherNext ==
  \/ part = "tasks"     /\ Manager!Next /\ UNCHANGED <<part, vars>>
  \/ part = "providers" /\ Next /\ UNCHANGED <<part, managerVars>>

\* What is fair is not enabled where a part begins, so the one that does not take
\* steps owes none.
EitherSpec ==
  /\ EitherInit /\ [][EitherNext]_<<part, managerVars, vars>>
  /\ Manager!Fairness /\ Fairness

-----------------------------------------------------------------------------
(* Properties of the task manager, stated in TaskManager *)

\* A task in line starts or is cancelled, unless runners that hang have all permits.
QueueIsServed == Manager!QueueIsServed

\* The stream of a task that has a permit ends, unless its runner hangs.
StartedStreamEnds == Manager!StartedStreamEnds

\* An abort request is answered, unless a runner swallows it and hangs.
AbortIsAnswered == Manager!AbortIsAnswered
=============================================================================
