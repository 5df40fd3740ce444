--------------------------- MODULE MCTaskManager ---------------------------
(***************************************************************************)
(* TaskManager for TLC.  Tasks, connections and abort requests are model   *)
(* values; the safety run takes states up to their permutation, which no   *)
(* definition can tell apart.                                              *)
(***************************************************************************)
EXTENDS TaskManager, TLC

CONSTANTS
  StreamedTasks, \* bound: the tasks there may be beside a client
  StreamedAborts \* and the abort requests; a second client takes the place of one each

Symmetry == Permutations(Tasks) \cup Permutations(Conns) \cup
            Permutations(Aborts)

Used == {c \in Conns : conn[c] # "idle"}

\* Nobody listens, and no runner emits events of its own.
Silent ==
  /\ Used = {}
  /\ \A t \in Tasks : \A i \in 1..Len(buffer[t]) : buffer[t][i].type # "workflow.stage"

\* A behaviour with streams has fewer tasks and aborts than one without.
Bounded ==
  Silent \/ LET more == IF Used = {} THEN 0 ELSE Cardinality(Used) - 1
            IN  /\ Cardinality({t \in Tasks : status[t] # "absent"}) + more <= StreamedTasks
                /\ Cardinality({a \in Aborts : abort[a] # "idle"}) + more <= StreamedAborts

BoundedSpec == Init /\ [][Next /\ Bounded']_vars
=============================================================================
