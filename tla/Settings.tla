------------------------------ MODULE Settings -------------------------------
(***************************************************************************)
(* The settings the parts of the service read (settings.py and the         *)
(* defaults beside it), and the bounds that the model adds.                *)
(***************************************************************************)
EXTENDS Integers

CONSTANTS
  HistoryLimit, \* _DEFAULT_HISTORY_LIMIT: messages a chat is given
  Budget,       \* memory_token_budget: and tokens
  Summarises,   \* memory_summary_enabled, with a language model
  Persistent,   \* persistence_enabled: messages go to MySQL
  Sizes,        \* bound: the tokens of a message
  Limit,        \* rate_limit_routes: requests of a window
  Window,       \* and its length, in ticks
  FailClosed,   \* rate_limit_fail_closed
  Workers,      \* _MAX_WORKERS of the pool of threads
  PoolCalls,    \* bound: the calls of libraries there may be at once
  SessionCalls, \* those of them that go to Baostock
  MaxCount,     \* bound: increments of a counter before it expires
  Tenants,      \* the tenants there may be
  Ttl,          \* identity_token_ttl: how long a token is good, in ticks
  MaxClock,     \* bound: ticks of the clock that tokens are checked by
  MaxCases,     \* bound: the cases of an evaluation
  MaxFaults,    \* bound: failures of Redis, or of the audit store
  None          \* nothing

ASSUME SettingsAssumption ==
  /\ HistoryLimit \in Nat \ {0} /\ Budget \in Nat
  /\ Summarises \in BOOLEAN /\ Persistent \in BOOLEAN
  /\ Sizes \subseteq Nat \ {0}
  /\ Limit \in Nat /\ Window \in Nat \ {0} /\ FailClosed \in BOOLEAN
  /\ Workers \in Nat \ {0}
  /\ SessionCalls \subseteq PoolCalls /\ None \notin PoolCalls
  /\ None \notin Tenants /\ None \notin Nat /\ Ttl \in Nat
  /\ MaxCount \in Nat /\ MaxCases \in Nat /\ MaxClock \in Nat /\ MaxFaults \in Nat
=============================================================================
