---------------------------- MODULE GovernedRun ----------------------------
(***************************************************************************)
(* What every workflow graph of finsage/agents promises, whatever nodes it *)
(* has: a run ends once, with an answer or an abstention; an error that    *)
(* was recorded is never forgotten; an answer is given only by a run       *)
(* without error whose verification has an acceptable result; and then,    *)
(* and only then, the run is audited, as an error exactly when it had one. *)
(***************************************************************************)
CONSTANTS Codes,      \* the error codes
          Verdicts,   \* the results of a verification
          Acceptable, \* those an answer may be given on
          None        \* no code, result, outcome or entry

VARIABLES error,   \* the error recorded last
          verdict, \* the result of the verification
          outcome, \* "answer" or "abstention", once it is decided
          entry    \* the status of the audit entry, or "lost"

vars == <<error, verdict, outcome, entry>>

Init == error = None /\ verdict = None /\ outcome = None /\ entry = None

\* A node records an error, or replaces the one there is by another.
Fail(c) ==
  /\ outcome = None
  /\ error' = c
  /\ UNCHANGED <<verdict, outcome, entry>>

\* The verification; with a result that is FAIL goes an error, at once or
\* later.  A result is never revised.
Check(v) ==
  /\ outcome = None
  /\ verdict \in {None, v}
  /\ verdict' = v
  /\ error' \in {error} \cup (IF v = "FAIL" THEN Codes ELSE {})
  /\ UNCHANGED <<outcome, entry>>

Answer ==
  /\ outcome = None /\ error = None /\ verdict \in Acceptable
  /\ outcome' = "answer"
  /\ UNCHANGED <<error, verdict, entry>>

Abstain ==
  /\ outcome = None
  /\ error # None \/ verdict \notin {"PASS", "FAIL"}
  /\ outcome' = "abstention"
  /\ UNCHANGED <<error, verdict, entry>>

\* The entry may be lost: a failing sink does not fail the run.
Audit ==
  /\ outcome # None /\ entry = None
  /\ entry' \in {IF error = None THEN "success" ELSE "error", "lost"}
  /\ UNCHANGED <<error, verdict, outcome>>

Next ==
  \/ \E c \in Codes : Fail(c)
  \/ \E v \in Verdicts : Check(v)
  \/ Answer \/ Abstain \/ Audit

Spec == Init /\ [][Next]_vars
=============================================================================
