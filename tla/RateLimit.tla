------------------------------ MODULE RateLimit ------------------------------
(***************************************************************************)
(* The fixed-window rate limit of one scope and route (api/ratelimit.py)   *)
(* on a Redis counter (persistence/redis.py).  Its dependency is a plain   *)
(* function that FastAPI runs in threads, so requests interleave at every  *)
(* command; INCR and EXPIRE are two commands, and either may fail, with or *)
(* without having been carried out.                                        *)
(*                                                                         *)
(* Time is counted in ticks and relative: what is left of the window, and  *)
(* how long ago requests were admitted.                                    *)
(***************************************************************************)
EXTENDS Settings

CONSTANT Requests  \* the requests that may be under way at once

VARIABLES
  count,  \* the counter; 0 when the key is not there
  ttl,    \* ticks until it expires, or NoExpiry
  at,     \* at[r]: the command request r is at
  got,    \* got[r]: what INCR told it
  recent, \* recent[a]: the requests the counter let through a ticks ago
  faults  \* how often Redis failed

redis == <<count, ttl>>
vars  == <<redis, at, got, recent, faults>>

NoExpiry == -1

Init ==
  /\ count  = 0
  /\ ttl    = NoExpiry
  /\ at     = [r \in Requests |-> "out"]
  /\ got    = [r \in Requests |-> 0]
  /\ recent = [a \in 0..(Window - 1) |-> 0]
  /\ faults = 0

Move(r, to) == at' = [at EXCEPT ![r] = to]

Fault == faults < MaxFaults /\ faults' = faults + 1

\* _on_unavailable(): the configuration decides.
Unavailable(r) == Move(r, IF FailClosed THEN "refused" ELSE "admitted")

\* Mutant: one more than the limit is let through.
ExceedsByOne(n) == n > Limit + 1

\* count > lim.
Exceeds(n) == n > Limit

\* rate_limit_add(), first half: INCR.  A request that the counter lets through
\* is dated by it, whatever happens to the request afterwards.
Incr(r) ==
  /\ at[r] = "out" /\ count < MaxCount
  /\ count'  = count + 1
  /\ got'    = [got EXCEPT ![r] = count + 1]
  /\ recent' = IF Exceeds(count + 1) THEN recent ELSE [recent EXCEPT ![0] = @ + 1]
  /\ Move(r, IF count = 0 THEN "expire" ELSE "decide")
  /\ UNCHANGED <<ttl, faults>>

\* INCR fails: perhaps it was carried out.
IncrFails(r) ==
  /\ at[r] = "out" /\ count < MaxCount /\ Fault
  /\ count' \in {count, count + 1}
  /\ Unavailable(r)
  /\ UNCHANGED <<ttl, got, recent>>

\* Mutant: EXPIRE with XX, only where there is an expiry.
ExpireXX(r) ==
  /\ at[r] = "expire"
  /\ ttl' = IF ttl = NoExpiry THEN ttl ELSE Window
  /\ Move(r, "decide")
  /\ UNCHANGED <<count, got, recent, faults>>

\* Second half, for the first of a window: EXPIRE.
Expire(r) ==
  /\ at[r] = "expire"
  /\ ttl' = Window
  /\ Move(r, "decide")
  /\ UNCHANGED <<count, got, recent, faults>>

ExpireFails(r) ==
  /\ at[r] = "expire" /\ Fault
  /\ ttl' \in {ttl, Window}
  /\ Unavailable(r)
  /\ UNCHANGED <<count, got, recent>>

\* The rest of the dependency; TTL only words the refusal.
Decide(r) ==
  /\ at[r] = "decide"
  /\ Move(r, IF Exceeds(got[r]) THEN "refused" ELSE "admitted")
  /\ UNCHANGED <<redis, got, recent, faults>>

\* The route takes over, or the 429 is sent; the client may ask again.
Leave(r) ==
  /\ at[r] \in {"admitted", "refused"}
  /\ Move(r, "out")
  /\ got' = [got EXCEPT ![r] = 0]
  /\ UNCHANGED <<redis, recent, faults>>

\* A tick passes, and the key may expire with it.
Tick ==
  /\ ttl'   = IF ttl = 1 THEN NoExpiry ELSE IF ttl > 1 THEN ttl - 1 ELSE ttl
  /\ count' = IF ttl = 1 THEN 0 ELSE count
  /\ recent' = [a \in 0..(Window - 1) |-> IF a = 0 THEN 0 ELSE recent[a - 1]]
  /\ UNCHANGED <<at, got, faults>>

Next ==
  \/ Tick
  \/ \E r \in Requests :
       \/ Incr(r) \/ IncrFails(r) \/ Expire(r) \/ ExpireFails(r)
       \/ Decide(r) \/ Leave(r)

Spec == Init /\ [][Next]_vars

-----------------------------------------------------------------------------
(* Properties *)

\* Types of the state.
TypeOK ==
  /\ count \in Nat
  /\ ttl \in {NoExpiry} \cup 1..Window
  /\ at \in [Requests -> {"out", "expire", "decide", "admitted", "refused"}]
  /\ got \in [Requests -> Nat]
  /\ recent \in [0..(Window - 1) -> Nat]
  /\ faults \in Nat

\* The requests of the last so many ticks, by when they were let through.
LetThrough(dated) ==
  LET sum[a \in 0..Window] == IF a = 0 THEN 0 ELSE sum[a - 1] + dated[a - 1]
  IN  sum

\* The requests let through within the last Window ticks.
Burst == LetThrough(recent)[Window]

\* "At the border of two windows, twice the limit" (api/ratelimit.py:15): however
\* the commands of requests interleave, and whatever of them fails, the counter
\* lets through no more than that in any Window ticks.
BurstIsBounded == Burst <= 2 * Limit

\* A counter that will never expire, with nobody on the way to set that, is one
\* that Redis failed: interleavings alone never cost a window its end.
StuckOnlyByFault ==
  count > 0 /\ ttl = NoExpiry /\ faults = 0 =>
    \E r \in Requests : at[r] = "expire"
=============================================================================
