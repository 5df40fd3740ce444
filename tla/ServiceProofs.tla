---------------------------- MODULE ServiceProofs ----------------------------
(***************************************************************************)
(* Proofs about the parts of Service: the rate limit, for any number of    *)
(* requests, any limit and any window; the calls of synchronous libraries, *)
(* for any calls and any number of workers; evaluations, for any cases and *)
(* executors; the pages of companies, for any companies, rows and size of  *)
(* the caches; the chats of sessions, for any chats, sessions, sizes,      *)
(* budget and limit of the history.  A part is an instance of its module,  *)
(* so each section begins with what a step of the service is to its part.  *)
(***************************************************************************)
EXTENDS Service, SequenceTheorems, FiniteSetTheorems, Recursion

-----------------------------------------------------------------------------
(* The rate limit *)

\* This part of the service is an instance of its module.
LEMMA LimitSteps ==
  /\ Init => Gate!Init
  /\ [Next]_vars => [Gate!Next]_(Gate!vars)
  /\ Gate!StuckOnlyByFault => StuckOnlyByFault
BY DEF StuckOnlyByFault, Init, Next, vars, limitVars, Gate!vars, Gate!redis

\* The counter, its expiry and the requests keep their types.
THEOREM LimitTypes == Spec => []Gate!TypeOK
<1>1. Gate!Init => Gate!TypeOK
  BY SettingsAssumption DEF Gate!Init, Gate!TypeOK, Gate!NoExpiry
<1>2. Gate!TypeOK /\ [Gate!Next]_(Gate!vars) => Gate!TypeOK'
  <2> SUFFICES ASSUME Gate!TypeOK, [Gate!Next]_(Gate!vars) PROVE Gate!TypeOK'
    OBVIOUS
  <2> USE SettingsAssumption DEF Gate!TypeOK, Gate!NoExpiry
  <2>1. CASE Gate!Tick
    <3>1. count' \in Nat /\ ttl' \in {Gate!NoExpiry} \cup 1..Window
      BY <2>1 DEF Gate!Tick
    <3>2. recent' \in [0..(Window - 1) -> Nat]
      BY <2>1 DEF Gate!Tick
    <3> QED BY <2>1, <3>1, <3>2 DEF Gate!Tick
  <2>2. ASSUME NEW r \in Requests, Gate!Incr(r) PROVE Gate!TypeOK'
    <3>1. recent' \in [0..(Window - 1) -> Nat]
      BY <2>2 DEF Gate!Incr
    <3>2. gate' \in [Requests -> {"out", "expire", "decide", "admitted", "refused"}]
      BY <2>2 DEF Gate!Incr, Gate!Move
    <3>3. got' \in [Requests -> Nat] /\ count' \in Nat
      BY <2>2 DEF Gate!Incr
    <3> QED BY <2>2, <3>1, <3>2, <3>3 DEF Gate!Incr
  <2>3. ASSUME NEW r \in Requests, Gate!IncrFails(r) PROVE Gate!TypeOK'
    BY <2>3 DEF Gate!IncrFails, Gate!Unavailable, Gate!Move, Gate!Fault
  <2>4. ASSUME NEW r \in Requests, Gate!Expire(r) PROVE Gate!TypeOK'
    BY <2>4 DEF Gate!Expire, Gate!Move
  <2>5. ASSUME NEW r \in Requests, Gate!ExpireFails(r) PROVE Gate!TypeOK'
    BY <2>5 DEF Gate!ExpireFails, Gate!Unavailable, Gate!Move, Gate!Fault
  <2>6. ASSUME NEW r \in Requests, Gate!Decide(r) PROVE Gate!TypeOK'
    BY <2>6 DEF Gate!Decide, Gate!Move, Gate!redis
  <2>7. ASSUME NEW r \in Requests, Gate!Leave(r) PROVE Gate!TypeOK'
    BY <2>7 DEF Gate!Leave, Gate!Move, Gate!redis
  <2>8. CASE UNCHANGED Gate!vars
    BY <2>8 DEF Gate!vars, Gate!redis
  <2> QED BY <2>1, <2>2, <2>3, <2>4, <2>5, <2>6, <2>7, <2>8 DEF Gate!Next
<1> QED BY <1>1, <1>2, LimitSteps, PTL DEF Spec

\* However many requests interleave between INCR and EXPIRE, the counter has an
\* expiry, or somebody is about to set it, unless Redis failed: no window lasts
\* for ever by an interleaving alone.
THEOREM NeverStuck == Spec => []StuckOnlyByFault
<1>1. Gate!Init => Gate!StuckOnlyByFault
  BY DEF Gate!Init, Gate!StuckOnlyByFault
<1>2. Gate!TypeOK /\ Gate!StuckOnlyByFault /\ [Gate!Next]_(Gate!vars) => Gate!StuckOnlyByFault'
  <2> SUFFICES ASSUME Gate!TypeOK, Gate!StuckOnlyByFault, [Gate!Next]_(Gate!vars),
                      count' > 0, ttl' = Gate!NoExpiry, outages' = 0
               PROVE  \E r \in Requests : gate'[r] = "expire"
    BY DEF Gate!StuckOnlyByFault
  <2> USE SettingsAssumption DEF Gate!TypeOK, Gate!StuckOnlyByFault, Gate!NoExpiry
  <2>1. CASE Gate!Tick
    BY <2>1 DEF Gate!Tick
  <2>2. ASSUME NEW r \in Requests, Gate!Incr(r)
        PROVE  \E q \in Requests : gate'[q] = "expire"
    <3>1. CASE count = 0
      BY <2>2, <3>1 DEF Gate!Incr, Gate!Move
    <3>2. CASE count # 0
      <4>1. PICK q \in Requests : gate[q] = "expire"
        BY <2>2, <3>2 DEF Gate!Incr
      <4> QED BY <2>2, <4>1 DEF Gate!Incr, Gate!Move
    <3> QED BY <3>1, <3>2
  <2>3. ASSUME NEW r \in Requests, Gate!IncrFails(r) \/ Gate!ExpireFails(r) PROVE FALSE
    BY <2>3 DEF Gate!IncrFails, Gate!ExpireFails, Gate!Fault
  <2>4. ASSUME NEW r \in Requests, Gate!Expire(r) PROVE FALSE
    BY <2>4 DEF Gate!Expire
  <2>5. ASSUME NEW r \in Requests, Gate!Decide(r) \/ Gate!Leave(r)
        PROVE  \E q \in Requests : gate'[q] = "expire"
    <3>1. PICK q \in Requests : gate[q] = "expire"
      BY <2>5 DEF Gate!Decide, Gate!Leave, Gate!redis
    <3> QED BY <2>5, <3>1 DEF Gate!Decide, Gate!Leave, Gate!Move
  <2>6. CASE UNCHANGED Gate!vars
    BY <2>6 DEF Gate!vars, Gate!redis
  <2> QED BY <2>1, <2>2, <2>3, <2>4, <2>5, <2>6 DEF Gate!Next
<1> QED BY <1>1, <1>2, LimitTypes, LimitSteps, PTL DEF Spec
\* What the sums of the last ticks are.
Sums(dated, sum) ==
  /\ sum \in [0..Window -> Nat]
  /\ sum[0] = 0
  /\ \A a \in 1..Window : sum[a] = sum[a - 1] + dated[a - 1]

\* How many were let through, by ticks ago.
Dates == [0..(Window - 1) -> Nat]

\* Gate!LetThrough is the function that its recursion describes.
LEMMA LetThroughSums ==
  ASSUME NEW dated \in Dates
  PROVE  Sums(dated, Gate!LetThrough(dated))
<1> USE SettingsAssumption DEF Dates
<1> DEFINE Def(f) == [a \in 0..Window |-> IF a = 0 THEN 0 ELSE f[a - 1] + dated[a - 1]]
           step == [p \in (0..(Window - 1)) \X Nat |-> p[2] + dated[p[1]]]
<1>1. \A n \in 0..(Window - 1), x \in Nat : step[<<n, x>>] = x + dated[n]
  OBVIOUS
<1>2. ASSUME NEW n \in 0..(Window - 1), NEW x \in Nat PROVE step[<<n, x>>] \in Nat
  <2>1. dated[n] \in Nat
    OBVIOUS
  <2> QED BY <1>1, <2>1
<1>3. PICK f \in [0..Window -> Nat] : Follows(f, 0, step, Window)
  <2> HIDE DEF step
  <2>1. Window \in Nat /\ 0 \in Nat
    OBVIOUS
  <2>2. \E f \in [0..Window -> Nat] : Follows(f, 0, step, Window)
    BY ONLY <1>2, <2>1, FunctionUpTo
  <2> QED BY <2>2
<1>4. f = Def(f)
  <2>1. ASSUME NEW a \in 0..Window PROVE f[a] = Def(f)[a]
    <3>1. CASE a = 0
      BY <1>3, <3>1 DEF Follows
    <3>2. CASE a # 0
      <4>1. a - 1 \in 0..(Window - 1) /\ f[a - 1] \in Nat /\ (a - 1) + 1 = a
        BY <3>2
      <4>2. f[(a - 1) + 1] = step[<<a - 1, f[a - 1]>>]
        BY <1>3, <4>1 DEF Follows
      <4> QED BY <1>1, <3>2, <4>1, <4>2
    <3> QED BY <3>1, <3>2
  <2> QED BY <2>1
<1>5. LET sum == CHOOSE g : g = Def(g) IN sum = Def(sum)
  BY <1>4
<1> DEFINE sum == Gate!LetThrough(dated)
<1>6. sum = Def(sum)
  BY <1>5 DEF Gate!LetThrough
<1>7. /\ sum[0] = 0 /\ sum = [a \in 0..Window |-> sum[a]]
      /\ \A a \in 1..Window : sum[a] = sum[a - 1] + dated[a - 1]
  <2>1. \A g : g = Def(g) => /\ g[0] = 0 /\ g = [a \in 0..Window |-> g[a]]
                            /\ \A a \in 1..Window : g[a] = g[a - 1] + dated[a - 1]
    <3> SUFFICES ASSUME NEW g, g = Def(g)
                 PROVE  /\ g[0] = 0 /\ g = [a \in 0..Window |-> g[a]]
                        /\ \A a \in 1..Window : g[a] = g[a - 1] + dated[a - 1]
      OBVIOUS
    <3>1. \A a \in 0..Window : Def(g)[a] = IF a = 0 THEN 0 ELSE g[a - 1] + dated[a - 1]
      OBVIOUS
    <3>2. Def(g) = [a \in 0..Window |-> Def(g)[a]]
      OBVIOUS
    <3> HIDE DEF Def
    <3>3. \A a \in 0..Window : g[a] = Def(g)[a]
      OBVIOUS
    <3>4. g = [a \in 0..Window |-> g[a]]
      BY <3>2, Zenon
    <3>5. \A a \in 0..Window : g[a] = IF a = 0 THEN 0 ELSE g[a - 1] + dated[a - 1]
      BY <3>1, <3>3
    <3>6. g[0] = 0
      BY ONLY <3>5, SettingsAssumption
    <3>7. \A a \in 1..Window : g[a] = g[a - 1] + dated[a - 1]
      BY ONLY <3>5, SettingsAssumption
    <3> QED BY <3>4, <3>6, <3>7, Zenon
  <2> HIDE DEF Def, sum
  <2> QED BY <1>6, <2>1
<1> HIDE DEF Def, sum
<1> DEFINE P == {a \in 0..Window : sum[a] \in Nat}
<1>8. ASSUME NEW n \in 0..(Window - 1), n \in P PROVE n + 1 \in P
  <2>1. n + 1 \in 1..Window /\ (n + 1) - 1 = n /\ sum[n] \in Nat /\ dated[n] \in Nat
    BY <1>8
  <2>2. sum[n + 1] = sum[n] + dated[n]
    BY <1>7, <2>1
  <2> QED BY <2>1, <2>2
<1>9. \A n \in 0..Window : n \in P
  <2>1. 0 \in P /\ Window \in Nat
    BY <1>7
  <2> HIDE DEF P
  <2> QED BY ONLY <1>8, <2>1, UpTo
<1> QED BY <1>7, <1>9 DEF Sums, sum

\* The requests of the last c ticks were let through by the counter that there is,
\* the others by one before it, and that one's first is at least a window old when
\* its successor ends.
Room(sum, c, counted, left) ==
  /\ sum[c] <= counted /\ sum[c] <= Limit
  /\ sum[Window] - sum[c] <= Limit
  /\ left # -1 => c = Window \/ left + c > Window

BurstInv == \E c \in 1..Window : Room(Gate!LetThrough(recent), c, count, ttl)

\* The sums grow with the ticks they cover.
LEMMA SumsGrow ==
  ASSUME NEW dated \in Dates
  PROVE  LET sum == Gate!LetThrough(dated)
         IN  /\ sum \in [0..Window -> Nat] /\ sum[0] = 0
             /\ sum[1] = dated[0]
             /\ sum[Window - 1] <= sum[Window]
<1> DEFINE sum == Gate!LetThrough(dated)
<1>1. Sums(dated, sum)
  BY LetThroughSums
<1> HIDE DEF sum
<1>2. 1 \in 1..Window /\ Window \in 1..Window /\ Window - 1 \in 0..Window
  BY SettingsAssumption
<1>3. sum[Window] = sum[Window - 1] + dated[Window - 1] /\ sum[1] = sum[1 - 1] + dated[1 - 1]
  BY <1>1, <1>2 DEF Sums
<1>4. dated[0] \in Nat /\ dated[Window - 1] \in Nat /\ sum[Window - 1] \in Nat
  BY <1>1, <1>2 DEF Sums, Dates
<1>5. sum[0] = 0 /\ sum \in [0..Window -> Nat]
  BY <1>1 DEF Sums
<1> QED BY <1>3, <1>4, <1>5 DEF sum

\* A request more of this tick is one more in every sum.
LEMMA OneMore ==
  ASSUME NEW dated \in Dates, NEW n \in Nat, n = dated[0] + 1
  PROVE  \A a \in 1..Window :
           Gate!LetThrough([dated EXCEPT ![0] = n])[a] = Gate!LetThrough(dated)[a] + 1
<1> DEFINE then == [dated EXCEPT ![0] = n]
           old  == Gate!LetThrough(dated)
           new  == Gate!LetThrough(then)
           P    == {a \in 0..Window : a = 0 \/ new[a] = old[a] + 1}
<1>1. /\ then \in Dates /\ then[0] = dated[0] + 1
      /\ \A a \in 1..(Window - 1) : then[a] = dated[a]
  BY SettingsAssumption DEF Dates
<1> HIDE DEF then
<1>2. Sums(dated, old) /\ Sums(then, new)
  BY <1>1, LetThroughSums
<1> HIDE DEF old, new
<1>3. ASSUME NEW a \in 0..(Window - 1), a \in P PROVE a + 1 \in P
  <2>1. a + 1 \in 1..Window /\ (a + 1) - 1 = a /\ old[a] \in Nat /\ new[a] \in Nat /\ dated[a] \in Nat
    BY <1>2, SettingsAssumption DEF Sums, Dates
  <2>2. new[a + 1] = new[a] + then[a] /\ old[a + 1] = old[a] + dated[a]
    BY <1>2, <2>1 DEF Sums
  <2>3. CASE a = 0
    BY <1>1, <1>2, <2>1, <2>2, <2>3 DEF Sums
  <2>4. CASE a # 0
    BY <1>1, <1>3, <2>1, <2>2, <2>4
  <2> QED BY <2>3, <2>4
<1>4. \A a \in 0..Window : a \in P
  <2>1. 0 \in P /\ Window \in Nat
    BY SettingsAssumption
  <2> HIDE DEF P
  <2> QED BY ONLY <1>3, <2>1, UpTo
<1>5. \A a \in 1..Window : new[a] = old[a] + 1
  BY <1>4
<1> QED BY <1>5, Zenon DEF old, new, then

\* When a tick passes, the sums are those of one tick less.
LEMMA OneLater ==
  ASSUME NEW dated \in Dates, NEW then \in Dates, then[0] = 0,
         \A a \in 1..(Window - 1) : then[a] = dated[a - 1]
  PROVE  \A a \in 1..Window :
           Gate!LetThrough(then)[a] = Gate!LetThrough(dated)[a - 1]
<1> DEFINE old  == Gate!LetThrough(dated)
           new  == Gate!LetThrough(then)
           P    == {a \in 0..Window : a = 0 \/ new[a] = old[a - 1]}
<1>2. Sums(dated, old) /\ Sums(then, new)
  BY LetThroughSums
<1> HIDE DEF old, new
<1>3. ASSUME NEW a \in 0..(Window - 1), a \in P PROVE a + 1 \in P
  <2>1. /\ a + 1 \in 1..Window /\ (a + 1) - 1 = a /\ old[a] \in Nat /\ new[a] \in Nat
        /\ dated[a] \in Nat
    BY <1>2, SettingsAssumption DEF Sums, Dates
  <2>2. new[a + 1] = new[a] + then[a]
    BY <1>2, <2>1 DEF Sums
  <2>3. CASE a = 0
    BY <1>2, <2>1, <2>2, <2>3 DEF Sums
  <2>4. CASE a # 0
    <3>1. a \in 1..Window /\ old[a] = old[a - 1] + dated[a - 1]
      BY <1>2, <2>4, SettingsAssumption DEF Sums
    <3>2. then[a] = dated[a - 1]
      BY <2>4
    <3> QED BY <1>3, <2>1, <2>2, <2>4, <3>1, <3>2
  <2> QED BY <2>3, <2>4
<1>4. \A a \in 0..Window : a \in P
  <2>1. 0 \in P /\ Window \in Nat
    BY SettingsAssumption
  <2> HIDE DEF P
  <2> QED BY ONLY <1>3, <2>1, UpTo
<1>5. \A a \in 1..Window : new[a] = old[a - 1]
  BY <1>4
<1> QED BY <1>5, Zenon DEF old, new

\* When a counter expires, all that its predecessor let through is at least a
\* window old: the sums of its successor begin with those of one counter only.
LEMMA BurstSteps == Gate!TypeOK /\ BurstInv /\ [Gate!Next]_(Gate!vars) => BurstInv'
<1> SUFFICES ASSUME Gate!TypeOK, BurstInv, [Gate!Next]_(Gate!vars) PROVE BurstInv'
  OBVIOUS
<1> USE SettingsAssumption
<1> DEFINE sum == Gate!LetThrough(recent)
           new == Gate!LetThrough(recent')
<1>1. PICK c \in 1..Window : Room(sum, c, count, ttl)
  BY DEF BurstInv
<1>2. recent \in Dates /\ count \in Nat /\ ttl \in {-1} \cup 1..Window
  BY DEF Gate!TypeOK, Gate!NoExpiry, Dates
<1>3. /\ sum \in [0..Window -> Nat] /\ sum[0] = 0
      /\ sum[1] = recent[0] /\ sum[Window - 1] <= sum[Window]
  BY <1>2, SumsGrow
<1>4. ASSUME NEW b \in 1..Window, Room(new, b, count', ttl') PROVE BurstInv'
  BY <1>4, Zenon DEF BurstInv
<1> USE DEF Gate!NoExpiry
<1>5. CASE Gate!Tick
  <2>1. recent' \in Dates /\ recent'[0] = 0
        /\ \A a \in 1..(Window - 1) : recent'[a] = recent[a - 1]
    <3>1. recent' = [a \in 0..(Window - 1) |-> IF a = 0 THEN 0 ELSE recent[a - 1]]
      BY <1>5 DEF Gate!Tick
    <3> QED BY <1>2, <3>1 DEF Dates
  <2>2. \A a \in 1..Window : new[a] = sum[a - 1]
    BY <1>2, <2>1, OneLater
  <2> HIDE DEF sum, new
  <2>3. new[1] = 0 /\ new[Window] = sum[Window - 1]
    BY <1>3, <2>2
  <2>4. CASE ttl = 1
    <3>1. count' = 0 /\ ttl' = -1 /\ c = Window
      BY <1>1, <1>5, <2>4 DEF Gate!Tick, Room
    <3>2. sum[Window] <= Limit /\ sum[Window - 1] \in Nat /\ sum[Window] \in Nat
      BY <1>1, <1>3, <3>1 DEF Room
    <3>3. Room(new, 1, count', ttl')
      BY <1>3, <2>3, <3>1, <3>2 DEF Room
    <3> QED BY <1>4, <3>3
  <2>5. CASE ttl # 1
    <3>1. count' = count /\ ttl' = IF ttl > 1 THEN ttl - 1 ELSE ttl
      BY <1>5, <2>5 DEF Gate!Tick
    <3>2. CASE c = Window
      <4>1. sum[Window] <= count /\ sum[Window] <= Limit /\ sum[Window - 1] \in Nat /\ sum[Window] \in Nat
        BY <1>1, <1>3, <3>2 DEF Room
      <4>2. Room(new, Window, count', ttl')
        BY <1>2, <1>3, <2>3, <3>1, <4>1 DEF Room
      <4> QED BY <1>4, <4>2
    <3>3. CASE c # Window
      <4>1. c + 1 \in 1..Window /\ sum[c] \in Nat /\ sum[Window] \in Nat /\ sum[Window - 1] \in Nat
        BY <1>3, <3>3
      <4>2. new[c + 1] = sum[c]
        BY <2>2, <4>1
      <4>3. Room(new, c + 1, count', ttl')
        BY <1>1, <1>2, <1>3, <2>3, <3>1, <3>3, <4>1, <4>2 DEF Room
      <4> QED BY <1>4, <4>1, <4>3
    <3> QED BY <3>2, <3>3
  <2> QED BY <2>4, <2>5
<1>6. ASSUME NEW r \in Requests, Gate!Incr(r) PROVE BurstInv'
  <2>1. count' = count + 1 /\ ttl' = ttl
    BY <1>6 DEF Gate!Incr
  <2>2. sum[c] \in Nat /\ sum[Window] \in Nat
    BY <1>3
  <2>3. CASE Gate!Exceeds(count + 1)
    <3>1. recent' = recent
      BY <1>6, <2>3 DEF Gate!Incr
    <3> HIDE DEF sum
    <3>2. Room(sum, c, count', ttl')
      BY <1>1, <1>2, <2>1, <2>2 DEF Room
    <3> QED BY <1>4, <3>1, <3>2 DEF sum
  <2>4. CASE ~Gate!Exceeds(count + 1)
    <3>1. count + 1 <= Limit
      BY <1>2, <2>4 DEF Gate!Exceeds
    <3>2. recent' = [recent EXCEPT ![0] = recent[0] + 1] /\ recent[0] \in Nat
      BY <1>2, <1>6, <2>4 DEF Gate!Incr, Dates
    <3>3. \A a \in 1..Window : new[a] = sum[a] + 1
      <4>1. recent[0] + 1 \in Nat
        BY <3>2
      <4>2. \A a \in 1..Window :
              Gate!LetThrough([recent EXCEPT ![0] = recent[0] + 1])[a] = sum[a] + 1
        BY <1>2, <4>1, OneMore
      <4> QED BY <3>2, <4>2, Zenon
    <3>4. new[c] = sum[c] + 1 /\ new[Window] = sum[Window] + 1
      BY <3>3
    <3> HIDE DEF sum, new
    <3>5. Room(new, c, count', ttl')
      BY <1>1, <1>2, <2>1, <2>2, <3>1, <3>4 DEF Room
    <3> QED BY <1>4, <3>5
  <2> QED BY <2>3, <2>4
<1>7. ASSUME count' \in {count, count + 1}, recent' = recent, ttl' \in {ttl, Window}
      PROVE  BurstInv'
  <2>1. sum[c] \in Nat /\ sum[Window] \in Nat
    BY <1>3
  <2> HIDE DEF sum
  <2>2. sum[c] <= count' /\ sum[c] <= Limit /\ sum[Window] - sum[c] <= Limit
    BY <1>1, <1>2, <1>7, <2>1 DEF Room
  <2>3. ttl' # -1 => c = Window \/ ttl' + c > Window
    <3>1. CASE ttl' = ttl
      BY <1>1, <3>1 DEF Room
    <3>2. CASE ttl' = Window
      BY <3>2
    <3> QED BY <1>7, <3>1, <3>2
  <2>4. Room(sum, c, count', ttl')
    BY <2>2, <2>3 DEF Room
  <2> QED BY <1>4, <1>7, <2>4 DEF sum
<1>8. ASSUME NEW r \in Requests,
             \/ Gate!IncrFails(r) \/ Gate!Expire(r) \/ Gate!ExpireFails(r)
             \/ Gate!Decide(r) \/ Gate!Leave(r)
      PROVE  BurstInv'
  BY <1>7, <1>8 DEF Gate!IncrFails, Gate!Expire, Gate!ExpireFails, Gate!Decide,
    Gate!Leave, Gate!redis
<1>9. CASE UNCHANGED Gate!vars
  BY <1>7, <1>9 DEF Gate!vars, Gate!redis
<1> QED BY <1>5, <1>6, <1>8, <1>9 DEF Gate!Next

\* Nothing was let through at first.
LEMMA BurstInit == Gate!Init => BurstInv
<1> SUFFICES ASSUME Gate!Init PROVE BurstInv
  OBVIOUS
<1> DEFINE sum == Gate!LetThrough(recent)
           P   == {a \in 0..Window : sum[a] = 0}
<1>1. recent \in Dates /\ \A a \in 0..(Window - 1) : recent[a] = 0
  BY SettingsAssumption DEF Gate!Init, Dates
<1>2. Sums(recent, sum)
  BY <1>1, LetThroughSums
<1> HIDE DEF sum
<1>3. ASSUME NEW a \in 0..(Window - 1), a \in P PROVE a + 1 \in P
  <2>1. a + 1 \in 1..Window /\ (a + 1) - 1 = a /\ recent[a] = 0
    BY <1>1, SettingsAssumption
  <2> QED BY <1>2, <1>3, <2>1 DEF Sums
<1>4. \A a \in 0..Window : a \in P
  <2>1. 0 \in P /\ Window \in Nat
    BY <1>2, SettingsAssumption DEF Sums
  <2> HIDE DEF P
  <2> QED BY ONLY <1>3, <2>1, UpTo
<1>5. Window \in 1..Window /\ sum[Window] = 0
  BY <1>4, SettingsAssumption
<1>6. Room(sum, Window, count, ttl)
  BY <1>5, SettingsAssumption DEF Room, Gate!Init
<1> QED BY <1>5, <1>6, Zenon DEF BurstInv, sum

\* At the border of two windows twice the limit, and never more in any window's
\* length: however the two commands of requests interleave and fail.
THEOREM BurstsAreBounded == Spec => []BurstIsBounded
<1>1. Gate!TypeOK /\ BurstInv => BurstIsBounded
  <2> SUFFICES ASSUME Gate!TypeOK, BurstInv PROVE Gate!Burst <= 2 * Limit
    BY DEF BurstIsBounded, Gate!BurstIsBounded
  <2> DEFINE sum == Gate!LetThrough(recent)
  <2>1. PICK c \in 1..Window : Room(sum, c, count, ttl)
    BY DEF BurstInv
  <2>2. sum[c] \in Nat /\ sum[Window] \in Nat /\ Limit \in Nat
    BY SumsGrow, SettingsAssumption DEF Gate!TypeOK, Dates
  <2>3. sum[Window] = Gate!Burst
    BY DEF Gate!Burst
  <2> HIDE DEF sum
  <2> QED BY <2>1, <2>2, <2>3 DEF Room
<1> QED BY <1>1, BurstInit, BurstSteps, LimitTypes, LimitSteps, PTL DEF Spec

-----------------------------------------------------------------------------
(* The calls of synchronous libraries *)

\* This part of the service is an instance of its module.
LEMMA CallSteps ==
  /\ Init => Pool!Init
  /\ [Next]_vars => [Pool!Next]_(Pool!vars)
  /\ Pool!SessionIsOwn => SessionIsOwn
BY DEF SessionIsOwn, Init, Next, vars, callVars, Pool!vars

\* The pool, the lock and the login keep their types.
THEOREM CallTypes == Spec => []Pool!TypeOK
<1> USE DEF Pool!TypeOK, Pool!Running, Pool!InSession
<1>1. Pool!Init => Pool!TypeOK
  BY DEF Pool!Init
<1>2. Pool!TypeOK /\ [Pool!Next]_(Pool!vars) => Pool!TypeOK'
  <2> SUFFICES ASSUME Pool!TypeOK, [Pool!Next]_(Pool!vars) PROVE Pool!TypeOK'
    OBVIOUS
  <2>1. ASSUME NEW c \in PoolCalls, Pool!Call(c) PROVE Pool!TypeOK'
    BY <2>1 DEF Pool!Call
  <2>2. ASSUME NEW c \in PoolCalls, Pool!Return(c) PROVE Pool!TypeOK'
    BY <2>2 DEF Pool!Return
  <2>3. ASSUME NEW c \in PoolCalls, Pool!GiveUp(c) PROVE Pool!TypeOK'
    BY <2>3 DEF Pool!GiveUp
  <2>4. ASSUME NEW c \in PoolCalls, Pool!Take(c) PROVE Pool!TypeOK'
    <3>1. work' \in [PoolCalls -> {"none", "queued", "done"} \cup Pool!Running]
      BY <2>4 DEF Pool!Take, Pool!Goes
    <3>2. queue' \in Seq(PoolCalls)
      BY <2>4 DEF Pool!Take
    <3> QED BY <2>4, <3>1, <3>2 DEF Pool!Take
  <2>5. ASSUME NEW c \in PoolCalls, Pool!Finish(c) \/ Pool!Acquire(c) \/ Pool!Query(c)
        PROVE  Pool!TypeOK'
    BY <2>5 DEF Pool!Finish, Pool!Acquire, Pool!Query, Pool!Ends, Pool!Goes
  <2>6. ASSUME NEW c \in PoolCalls, Pool!LogIn(c) \/ Pool!LogOut(c) PROVE Pool!TypeOK'
    BY <2>6 DEF Pool!LogIn, Pool!LogOut, Pool!Ends, Pool!Goes
  <2>7. CASE UNCHANGED Pool!vars
    BY <2>7 DEF Pool!vars
  <2> QED BY <2>1, <2>2, <2>3, <2>4, <2>5, <2>6, <2>7 DEF Pool!Next
<1> QED BY <1>1, <1>2, CallSteps, PTL DEF Spec

\* Whatever calls time out while their threads go on: a query runs in the login
\* of its own thread, alone, and no thread ends without leaving the lock.
THEOREM SessionCorrect == Spec => []SessionIsOwn
<1> USE DEF Pool!TypeOK, Pool!SessionIsOwn, Pool!Running, Pool!InSession
<1>1. Pool!Init => Pool!SessionIsOwn
  BY SettingsAssumption DEF Pool!Init
<1>2. Pool!TypeOK /\ Pool!SessionIsOwn /\ [Pool!Next]_(Pool!vars) => Pool!SessionIsOwn'
  <2> SUFFICES ASSUME Pool!TypeOK, Pool!SessionIsOwn, [Pool!Next]_(Pool!vars) PROVE Pool!SessionIsOwn'
    OBVIOUS
  <2>0. None \notin PoolCalls
    BY SettingsAssumption
  <2>1. ASSUME NEW c \in PoolCalls, Pool!Call(c) \/ Pool!Return(c) \/ Pool!GiveUp(c)
        PROVE  Pool!SessionIsOwn'
    BY <2>1 DEF Pool!Call, Pool!Return, Pool!GiveUp
  <2>2. ASSUME NEW c \in PoolCalls, Pool!Take(c) PROVE Pool!SessionIsOwn'
    BY <2>2 DEF Pool!Take, Pool!Goes
  <2>3. ASSUME NEW c \in PoolCalls, Pool!Finish(c) \/ Pool!Query(c) PROVE Pool!SessionIsOwn'
    BY <2>3 DEF Pool!Finish, Pool!Query, Pool!Ends, Pool!Goes
  <2>4. ASSUME NEW c \in PoolCalls, Pool!Acquire(c) PROVE Pool!SessionIsOwn'
    BY <2>0, <2>4 DEF Pool!Acquire, Pool!Goes
  <2>5. ASSUME NEW c \in PoolCalls, Pool!LogIn(c) PROVE Pool!SessionIsOwn'
    BY <2>0, <2>5 DEF Pool!LogIn, Pool!Ends, Pool!Goes
  <2>6. ASSUME NEW c \in PoolCalls, Pool!LogOut(c) PROVE Pool!SessionIsOwn'
    BY <2>0, <2>6 DEF Pool!LogOut, Pool!Ends, Pool!Goes
  <2>7. CASE UNCHANGED Pool!vars
    BY <2>7 DEF Pool!vars
  <2> QED BY <2>1, <2>2, <2>3, <2>4, <2>5, <2>6, <2>7 DEF Pool!Next
<1> QED BY <1>1, <1>2, CallTypes, CallSteps, PTL DEF Spec
-----------------------------------------------------------------------------
(* Evaluations *)

\* This part of the service is an instance of its module.
LEMMA EvaluationSteps ==
  /\ Init => Eval!Init
  /\ [Next]_vars => [Eval!Next]_(Eval!vars)
  /\ Eval!EvaluationIsWhole => EvaluationIsWhole
BY DEF EvaluationIsWhole, Init, Next, vars, evalVars, Eval!vars

\* Where the thread is says what its session has, and what the database has.
WriterInv ==
  /\ writer \in {"none", "queued", "cases", "run", "done", "failed"}
  /\ pending = IF writer = "cases" THEN {"dataset"}
               ELSE IF writer = "run" THEN {"dataset", "cases"} ELSE {}
  /\ rows = IF writer = "done" THEN Eval!Tables ELSE {}

\* The thread begins when all cases are through, and the task waits for it unless
\* it is aborted.
StageInv ==
  /\ stage \in {"submitted", "running"} => writer = "none"
  /\ writer # "none" => Len(outcomes) = Len(spec)
  /\ stage = "completed" => /\ writer \in {"none", "done"}
                            /\ result.persisted = (writer = "done")

EvalInv == WriterInv /\ StageInv

\* The rows come with the thread's end.
LEMMA WriterVouches == EvalInv => Eval!EvaluationIsWhole
<1>1. SUFFICES ASSUME EvalInv PROVE Eval!EvaluationIsWhole
  OBVIOUS
<1>2. Eval!Tables # {} /\ ({} = Eval!Tables <=> FALSE)
  BY DEF Eval!Tables
<1>3. rows = Eval!Tables <=> writer = "done"
  BY <1>1, <1>2 DEF EvalInv, WriterInv
<1> QED BY <1>1, <1>3 DEF EvalInv, WriterInv, StageInv, Eval!EvaluationIsWhole

LEMMA WriterInit == Eval!Init => EvalInv
BY DEF Eval!Init, EvalInv, WriterInv, StageInv

LEMMA WriterSteps == EvalInv /\ [Eval!Next]_(Eval!vars) => EvalInv'
<1> SUFFICES ASSUME EvalInv, [Eval!Next]_(Eval!vars) PROVE EvalInv'
  OBVIOUS
<1> USE DEF EvalInv, WriterInv, StageInv
<1>1. CASE Eval!Start
  BY <1>1 DEF Eval!Start
<1>2. CASE Eval!RunCase
  <2>1. writer = "none" /\ UNCHANGED <<writer, pending, rows, result>> /\ stage' \in {stage, "failed"}
    BY <1>2 DEF Eval!RunCase
  <2>2. stage = "running"
    BY <1>2 DEF Eval!RunCase
  <2> QED BY <2>1, <2>2
<1>3. CASE Eval!Finish
  <2>1. Eval!Report(FALSE).persisted = FALSE
    BY DEF Eval!Report
  <2> QED BY <1>3, <2>1 DEF Eval!Finish
<1>4. CASE Eval!AddDataset
  BY <1>4 DEF Eval!AddDataset
<1>5. CASE Eval!AddCases
  BY <1>5 DEF Eval!AddCases
<1>6. CASE Eval!Commit
  <2>1. writer = "run" => rows \cup pending \cup {"run"} = Eval!Tables
    BY DEF Eval!Tables
  <2> QED BY <1>6, <2>1 DEF Eval!Commit
<1>7. CASE Eval!Flushed
  <2>1. Eval!Report(TRUE).persisted = TRUE
    BY DEF Eval!Report
  <2> QED BY <1>7, <2>1 DEF Eval!Flushed
<1>8. CASE Eval!Abort
  BY <1>8 DEF Eval!Abort
<1>9. CASE UNCHANGED Eval!vars
  BY <1>9 DEF Eval!vars
<1> QED
  BY <1>1, <1>2, <1>3, <1>4, <1>5, <1>6, <1>7, <1>8, <1>9 DEF Eval!Next, Eval!Replay

\* An evaluation is kept with all of its tables or with none, and its task says so
\* truly (_BufferedStore, persist_run, session_scope).
THEOREM WholeOrNothing == Spec => []EvaluationIsWhole
BY WriterInit, WriterSteps, WriterVouches, EvaluationSteps, PTL DEF Spec

-----------------------------------------------------------------------------
(* Verdicts *)

\* What _ratio() gives of a share of something.
LEMMA RatioIs ==
  ASSUME NEW h \in Nat, NEW t \in Nat \ {0}
  PROVE  /\ Eval!Ratio(h, t) = (20000 * h + t) \div (2 * t)
         /\ Eval!Ratio(h, t) \in Nat
         /\ Eval!Ratio(h, t) * (2 * t) <= 20000 * h + t
<1>1. /\ 2 * h * 10000 = 20000 * h /\ 20000 * h + t \in Nat
      /\ 2 * t \in Nat \ {0} /\ ~(t <= 0)
  OBVIOUS
<1>2. Eval!Ratio(h, t) = (20000 * h + t) \div (2 * t)
  BY <1>1 DEF Eval!Ratio, Eval!Full
<1> DEFINE a == 20000 * h + t
           s == 2 * t
<1>3. a \in Nat /\ s \in Nat \ {0}
  BY <1>1
<1>4. Eval!Ratio(h, t) = a \div s
  BY <1>2
<1>5. a \div s \in Nat /\ (a \div s) * s <= a
  <2> HIDE DEF a, s
  <2> QED BY <1>3, Quotient
<1>6. Eval!Ratio(h, t) \in Nat /\ Eval!Ratio(h, t) * s <= a
  <2> HIDE DEF a, s
  <2> QED BY ONLY <1>4, <1>5
<1> QED BY ONLY <1>2, <1>6

\* A larger share has no smaller ratio: that of hits and totals, compared by
\* their cross products.
LEMMA RatioGrows ==
  ASSUME NEW h \in Nat, NEW t \in Nat \ {0}, NEW i \in Nat, NEW u \in Nat \ {0},
         h * u <= i * t
  PROVE  Eval!Ratio(h, t) <= Eval!Ratio(i, u)
<1> DEFINE q == Eval!Ratio(h, t)
<1>1. q \in Nat /\ q * (2 * t) <= 20000 * h + t
  BY RatioIs
<1> HIDE DEF q
<1>2. (q * (2 * t)) * u <= (20000 * h + t) * u
  <2>1. (20000 * h + t) - q * (2 * t) \in Nat
    BY <1>1
  <2>2. ((20000 * h + t) - q * (2 * t)) * u \in Nat
    BY <2>1
  <2>3. ((20000 * h + t) - q * (2 * t)) * u
          = (20000 * h + t) * u - (q * (2 * t)) * u
    BY <1>1
  <2>4. (20000 * h + t) * u \in Nat /\ (q * (2 * t)) * u \in Nat
    BY <1>1
  <2> QED BY <2>2, <2>3, <2>4
<1>3. (20000 * h + t) * u = 20000 * (h * u) + t * u
  OBVIOUS
<1>4. (q * (2 * t)) * u = (q * (2 * u)) * t
  BY <1>1
<1>5. 20000 * (h * u) + t * u <= (20000 * i + u) * t
  <2>1. (20000 * i + u) * t = 20000 * (i * t) + t * u
    OBVIOUS
  <2>2. h * u \in Nat /\ i * t \in Nat /\ t * u \in Nat
    OBVIOUS
  <2> QED BY <2>1, <2>2
<1>6. (q * (2 * u)) * t <= (20000 * i + u) * t
  <2>1. /\ (q * (2 * u)) * t \in Nat /\ (20000 * i + u) * t \in Nat
        /\ 20000 * (h * u) + t * u \in Nat
    BY <1>1
  <2> QED BY <1>2, <1>3, <1>4, <1>5, <2>1
<1>7. q * (2 * u) <= 20000 * i + u
  <2>1. SUFFICES ASSUME q * (2 * u) > 20000 * i + u PROVE FALSE
    BY <1>1
  <2>2. q * (2 * u) - (20000 * i + u) \in Nat \ {0}
    BY <1>1, <2>1
  <2>3. (q * (2 * u) - (20000 * i + u)) * t \in Nat \ {0}
    BY <2>2
  <2>4. (q * (2 * u) - (20000 * i + u)) * t
          = (q * (2 * u)) * t - (20000 * i + u) * t
    BY <1>1
  <2>5. (q * (2 * u)) * t \in Nat /\ (20000 * i + u) * t \in Nat
    BY <1>1
  <2> QED BY <1>6, <2>3, <2>4, <2>5
<1>8. 20000 * i + u \in Nat /\ 2 * u \in Nat \ {0}
  OBVIOUS
<1>9. q <= (20000 * i + u) \div (2 * u)
  BY <1>1, <1>7, <1>8, AtLeastQuotient
<1> QED BY <1>9, RatioIs DEF q

\* Nothing of anything, and anything of nothing, is rated zero.
LEMMA RatioOfNone ==
  ASSUME NEW t \in Nat
  PROVE  Eval!Ratio(0, t) = 0 /\ \A h : Eval!Ratio(h, 0) = 0
<1>1. \A h : Eval!Ratio(h, 0) = 0
  BY DEF Eval!Ratio
<1>2. CASE t # 0
  <2> DEFINE q == Eval!Ratio(0, t)
  <2>1. q \in Nat /\ q * (2 * t) <= 20000 * 0 + t
    BY <1>2, RatioIs
  <2> HIDE DEF q
  <2>2. q >= 1 => q * (2 * t) >= 2 * t
    <3>1. SUFFICES ASSUME q >= 1 PROVE q * (2 * t) >= 2 * t
      OBVIOUS
    <3>2. (q - 1) * (2 * t) \in Nat
      BY <2>1, <3>1
    <3>3. (q - 1) * (2 * t) = q * (2 * t) - 2 * t /\ q * (2 * t) \in Nat
      BY <2>1
    <3> QED BY <3>2, <3>3
  <2>3. q = 0
    BY <1>2, <2>1, <2>2
  <2> QED BY <1>1, <2>3 DEF q
<1> QED BY <1>1, <1>2

\* A ratio is a number of ten-thousandths.
LEMMA RatioType ==
  ASSUME NEW h \in Nat, NEW t \in Nat
  PROVE  Eval!Ratio(h, t) \in Nat
BY RatioIs, RatioOfNone

\* The cases an evaluator may be given, of any size and number.
IsCase(c) ==
  \/ c.type = "retrieval" /\ IsFiniteSet(c.sources)
  \/ c.type = "numeric" /\ c.value \in Int /\ c.tolerance \in Int
  \/ c.type = "citation" /\ c.minimum \in Int
  \/ c.type = "abstention" /\ c.expect \in BOOLEAN
  \/ c.type = "provider" /\ c.rate \in Int /\ c.minimum \in Int

\* Calls of a provider: no more successes than attempts where those are
\* counted, and perhaps a rate.
IsCount(r) ==
  /\ r.successes \in Nat /\ r.attempts \in Nat
  /\ r.attempts > 0 => r.successes <= r.attempts
  /\ r.rate = None \/ r.rate \in Nat

\* The results it may be given for such a case.
IsResult(c, r) ==
  /\ c.type = "numeric" => r.answer = None \/ r.answer \in Int
  /\ c.type = "citation" => /\ r.valid \in Nat /\ r.cited \in Nat
                            /\ r.valid <= r.cited
  /\ c.type = "abstention" => /\ r.abstained = None \/ r.abstained \in BOOLEAN
                              /\ r.score = None \/ r.score \in Int
  /\ c.type = "provider" => IsCount(r)

\* Verdict v is no worse than w.
NoWorse(v, w) == v.score >= w.score /\ (w.passed => v.passed)

\* The sizes of the instance are those of the library.
LEMMA SizeIs == \A S : Eval!Cardinality(S) = Cardinality(S)
BY Zenon DEF Eval!Cardinality, Cardinality, Eval!IsFiniteSet, IsFiniteSet

\* Of h and what was missed, m: more of the first and fewer of the second are a
\* larger share.
LEMMA LargerShare ==
  ASSUME NEW h \in Nat, NEW t \in Nat, NEW i \in Nat, NEW u \in Nat,
         h <= t, i <= u, h <= i, u - i <= t - h
  PROVE  Eval!Ratio(h, t) <= Eval!Ratio(i, u)
<1>1. Eval!Ratio(i, u) \in Nat
  BY RatioType
<1>2. CASE h = 0
  <2>1. Eval!Ratio(h, t) = 0
    BY <1>2, RatioOfNone
  <2> QED BY <1>1, <2>1
<1>3. CASE h # 0
  <2>1. t \in Nat \ {0} /\ u \in Nat \ {0}
    BY <1>3
  <2>2. (u - i) \in Nat /\ (t - h) \in Nat
    OBVIOUS
  <2>3. h * (u - i) <= h * (t - h)
    <3>1. h * ((t - h) - (u - i)) \in Nat
      BY <2>2
    <3>2. h * ((t - h) - (u - i)) = h * (t - h) - h * (u - i)
      OBVIOUS
    <3>3. h * (t - h) \in Nat /\ h * (u - i) \in Nat
      BY <2>2
    <3> QED BY <3>1, <3>2, <3>3
  <2>4. h * (t - h) <= i * (t - h)
    <3>1. (i - h) * (t - h) \in Nat
      BY <2>2
    <3>2. (i - h) * (t - h) = i * (t - h) - h * (t - h)
      OBVIOUS
    <3>3. h * (t - h) \in Nat /\ i * (t - h) \in Nat
      BY <2>2
    <3> QED BY <3>1, <3>2, <3>3
  <2>5. /\ h * u = h * i + h * (u - i)
        /\ i * t = h * i + i * (t - h)
    OBVIOUS
  <2>6. /\ h * u \in Nat /\ i * t \in Nat /\ h * i \in Nat
        /\ h * (u - i) \in Nat /\ h * (t - h) \in Nat /\ i * (t - h) \in Nat
    BY <2>2
  <2>7. h * u <= i * t
    BY <2>3, <2>4, <2>5, <2>6
  <2> QED BY <2>1, <2>7, RatioGrows
<1> QED BY <1>2, <1>3

\* More hits are no worse.
LEMMA RetrievalIsFair ==
  ASSUME NEW c, IsFiniteSet(c.sources), NEW a, NEW b, a # None, b # None,
         a \subseteq b
  PROVE  NoWorse(Eval!Retrieval(c, b), Eval!Retrieval(c, a))
<1> DEFINE found(r) == c.sources \cap Eval!HitIds(r)
           recall(r) == Eval!Ratio(Cardinality(found(r)), Cardinality(c.sources))
<1>1. found(a) \in SUBSET found(b) /\ found(b) \in SUBSET c.sources
  <2>1. Eval!HitIds(a) \subseteq Eval!HitIds(b)
    BY DEF Eval!HitIds
  <2> QED BY <2>1
<1>2. /\ IsFiniteSet(found(b))
      /\ Cardinality(found(b)) <= Cardinality(c.sources)
  <2> HIDE DEF found
  <2> QED BY <1>1, FS_Subset
<1>3. IsFiniteSet(found(a)) /\ Cardinality(found(a)) <= Cardinality(found(b))
  <2> HIDE DEF found
  <2> QED BY <1>1, <1>2, FS_Subset
<1>4. /\ Cardinality(found(a)) \in Nat /\ Cardinality(found(b)) \in Nat
      /\ Cardinality(c.sources) \in Nat
  <2> HIDE DEF found
  <2> QED BY <1>2, <1>3, FS_CardinalityType
<1>5. recall(a) <= recall(b) /\ recall(a) \in Nat /\ recall(b) \in Nat
  <2>1. ASSUME NEW x \in Nat, NEW y \in Nat, NEW n \in Nat, x <= y, y <= n
        PROVE  /\ Eval!Ratio(x, n) <= Eval!Ratio(y, n)
               /\ Eval!Ratio(x, n) \in Nat /\ Eval!Ratio(y, n) \in Nat
    <3>1. x <= n /\ n - y <= n - x
      BY <2>1
    <3> QED BY <2>1, <3>1, LargerShare, RatioType
  <2> HIDE DEF found
  <2> QED BY <1>2, <1>3, <1>4, <2>1
<1>6. /\ Eval!Retrieval(c, a).score = recall(a)
      /\ Eval!Retrieval(c, a).passed = (recall(a) >= Eval!Full)
  BY SizeIs DEF Eval!Retrieval, Eval!Verdict
<1>7. /\ Eval!Retrieval(c, b).score = recall(b)
      /\ Eval!Retrieval(c, b).passed = (recall(b) >= Eval!Full)
  BY SizeIs DEF Eval!Retrieval, Eval!Verdict
<1> HIDE DEF recall
<1>8. Eval!Retrieval(c, b).score >= Eval!Retrieval(c, a).score
  BY <1>5, <1>6, <1>7
<1>9. Eval!Retrieval(c, a).passed => Eval!Retrieval(c, b).passed
  <2>1. recall(a) >= Eval!Full => recall(b) >= Eval!Full
    BY <1>5 DEF Eval!Full
  <2> QED BY <2>1, <1>6, <1>7, Zenon
<1> QED BY <1>8, <1>9, Zenon DEF NoWorse

\* More valid citations and no more that do not resolve are no worse.
LEMMA CitationIsFair ==
  ASSUME NEW c, c.minimum \in Int, NEW a, NEW b, a # None, b # None,
         a.valid \in Nat, a.cited \in Nat, a.valid <= a.cited,
         b.valid \in Nat, b.cited \in Nat, b.valid <= b.cited,
         b.valid >= a.valid, b.cited - b.valid <= a.cited - a.valid
  PROVE  NoWorse(Eval!Citation(c, b), Eval!Citation(c, a))
<1> DEFINE ratio(r) == Eval!Ratio(r.valid, r.cited)
<1>1. ratio(a) <= ratio(b) /\ ratio(a) \in Nat /\ ratio(b) \in Nat
  BY LargerShare, RatioType
<1>2. b.cited = 0 => ratio(b) = 0
  BY RatioOfNone
<1>3. /\ Eval!Citation(c, a).score = ratio(a)
      /\ Eval!Citation(c, a).passed
           = (ratio(a) >= Eval!Full /\ a.valid >= c.minimum /\ a.cited > 0)
  BY DEF Eval!Citation, Eval!Verdict
<1>4. /\ Eval!Citation(c, b).score = ratio(b)
      /\ Eval!Citation(c, b).passed
           = (ratio(b) >= Eval!Full /\ b.valid >= c.minimum /\ b.cited > 0)
  BY DEF Eval!Citation, Eval!Verdict
<1> HIDE DEF ratio
<1>8. Eval!Citation(c, b).score >= Eval!Citation(c, a).score
  BY <1>1, <1>2, <1>3, <1>4
<1>9. Eval!Citation(c, a).passed => Eval!Citation(c, b).passed
  <2>1. (ratio(a) >= Eval!Full /\ a.valid >= c.minimum /\ a.cited > 0)
          => (ratio(b) >= Eval!Full /\ b.valid >= c.minimum /\ b.cited > 0)
    BY <1>1, <1>2 DEF Eval!Full
  <2> QED BY <2>1, <1>3, <1>4, Zenon
<1> QED BY <1>8, <1>9, Zenon DEF NoWorse

\* A rate is a number of ten-thousandths, computed where there are attempts.
LEMMA RateIs ==
  ASSUME NEW r, IsCount(r)
  PROVE  /\ Eval!Rate(r) \in Nat
         /\ r.attempts > 0 => Eval!Rate(r) = Eval!Ratio(r.successes, r.attempts)
         /\ r.attempts = 0 => Eval!Rate(r) = IF r.rate = None THEN 0 ELSE r.rate
<1>1. r.attempts = 0 => Eval!Ratio(r.successes, r.attempts) = 0
  BY RatioOfNone
<1>2. Eval!Ratio(r.successes, r.attempts) \in Nat
  BY RatioType DEF IsCount
<1> QED BY <1>1, <1>2 DEF IsCount, Eval!Rate

\* More successes and no more failures are no worse; nor is a better rate where
\* there are no attempts to compute it from.
LEMMA ProviderIsFair ==
  ASSUME NEW c, c.minimum \in Int, c.rate \in Int, NEW a, NEW b,
         a # None, b # None, IsCount(a), IsCount(b),
         b.successes >= a.successes,
         \/ /\ a.attempts > 0 /\ b.attempts > 0
            /\ b.attempts - b.successes <= a.attempts - a.successes
         \/ /\ a.attempts = 0 /\ b.attempts = 0
            /\ b.rate = a.rate \/ (a.rate # None /\ b.rate # None /\ b.rate >= a.rate)
  PROVE  NoWorse(Eval!Provider(c, b), Eval!Provider(c, a))
<1> DEFINE rate(r) == Eval!Rate(r)
<1>1. rate(a) <= rate(b) /\ rate(a) \in Nat /\ rate(b) \in Nat
  <2>1. CASE a.attempts > 0 /\ b.attempts > 0
    <3>1. /\ a.successes \in Nat /\ a.attempts \in Nat /\ a.successes <= a.attempts
          /\ b.successes \in Nat /\ b.attempts \in Nat /\ b.successes <= b.attempts
      BY <2>1 DEF IsCount
    <3>2. b.attempts - b.successes <= a.attempts - a.successes
      BY <2>1
    <3>3. Eval!Ratio(a.successes, a.attempts) <= Eval!Ratio(b.successes, b.attempts)
      BY <3>1, <3>2, LargerShare
    <3> QED BY <2>1, <3>3, RateIs
  <2>2. CASE a.attempts = 0 /\ b.attempts = 0
    BY <2>2, RateIs DEF IsCount
  <2> QED BY <2>1, <2>2
<1>2. /\ Eval!Provider(c, a).score = rate(a)
      /\ Eval!Provider(c, a).passed
           = (a.successes >= c.minimum /\ rate(a) >= c.rate)
  BY DEF Eval!Provider, Eval!Verdict
<1>3. /\ Eval!Provider(c, b).score = rate(b)
      /\ Eval!Provider(c, b).passed
           = (b.successes >= c.minimum /\ rate(b) >= c.rate)
  BY DEF Eval!Provider, Eval!Verdict
<1> HIDE DEF rate
<1>8. Eval!Provider(c, b).score >= Eval!Provider(c, a).score
  BY <1>1, <1>2, <1>3
<1>9. Eval!Provider(c, a).passed => Eval!Provider(c, b).passed
  <2>1. (a.successes >= c.minimum /\ rate(a) >= c.rate)
          => (b.successes >= c.minimum /\ rate(b) >= c.rate)
    BY <1>1 DEF IsCount
  <2> QED BY <2>1, <1>2, <1>3, Zenon
<1> QED BY <1>8, <1>9, Zenon DEF NoWorse

\* An answer that is closer to the value, in the same unit, is no worse.
LEMMA NumericIsFair ==
  ASSUME NEW c, c.value \in Int, c.tolerance \in Int,
         NEW a, NEW b, a # None, b # None, a.unit = b.unit,
         a.answer # None, b.answer # None, a.answer \in Int, b.answer \in Int,
         (b.answer - c.value) * (b.answer - c.value)
           <= (a.answer - c.value) * (a.answer - c.value)
  PROVE  NoWorse(Eval!Numeric(c, b), Eval!Numeric(c, a))
<1> DEFINE close(r) == /\ r.answer - c.value <= c.tolerance
                       /\ c.value - r.answer <= c.tolerance
<1>1. close(a) => close(b)
  <2>1. ASSUME NEW x \in Int, NEW y \in Int, y * y <= x * x
        PROVE  (y <= x \/ y <= 0 - x) /\ (0 - y <= x \/ 0 - y <= 0 - x)
    <3>1. ASSUME NEW p \in Nat, NEW q \in Nat, p > q PROVE p * p > q * q
      <4>1. (p - q) * (p + q) \in Nat \ {0}
        BY <3>1
      <4>2. (p - q) * (p + q) = p * p - q * q
        BY <3>1
      <4>3. p * p \in Nat /\ q * q \in Nat
        BY <3>1
      <4> QED BY <4>1, <4>2, <4>3
    <3> DEFINE p == IF y >= 0 THEN y ELSE 0 - y
               q == IF x >= 0 THEN x ELSE 0 - x
    <3>2. p \in Nat /\ q \in Nat /\ p * p = y * y /\ q * q = x * x
      OBVIOUS
    <3>3. x * x \in Int /\ y * y \in Int
      OBVIOUS
    <3>4. ~(p > q)
      <4> HIDE DEF p, q
      <4>1. ASSUME p > q PROVE FALSE
        <5>1. p * p > q * q
          BY <3>1, <3>2, <4>1
        <5> QED BY <2>1, <3>2, <3>3, <5>1
      <4> QED BY <4>1
    <3>5. p <= q
      <4> HIDE DEF p, q
      <4> QED BY <3>2, <3>4
    <3> QED BY <3>5
  <2> DEFINE x == a.answer - c.value
             y == b.answer - c.value
  <2>2. x \in Int /\ y \in Int /\ y * y <= x * x
    OBVIOUS
  <2>3. (y <= x \/ y <= 0 - x) /\ (0 - y <= x \/ 0 - y <= 0 - x)
    <3> HIDE DEF x, y
    <3> QED BY <2>1, <2>2
  <2> QED BY <2>3
<1>2. /\ Eval!Numeric(c, a).score = (IF close(a) THEN Eval!Full ELSE 0)
      /\ Eval!Numeric(c, a).passed = (close(a) /\ a.unit = c.unit)
  BY DEF Eval!Numeric, Eval!Verdict
<1>3. /\ Eval!Numeric(c, b).score = (IF close(b) THEN Eval!Full ELSE 0)
      /\ Eval!Numeric(c, b).passed = (close(b) /\ b.unit = c.unit)
  BY DEF Eval!Numeric, Eval!Verdict
<1> HIDE DEF close
<1>4. Eval!Numeric(c, b).score >= Eval!Numeric(c, a).score
  BY <1>1, <1>2, <1>3 DEF Eval!Full
<1>5. Eval!Numeric(c, a).passed => Eval!Numeric(c, b).passed
  BY <1>1, <1>2, <1>3, Zenon
<1> QED BY <1>4, <1>5, Zenon DEF NoWorse

\* What tells whether a result abstained: the flag, else the bucket, else the score.
LEMMA FlagTells ==
  ASSUME NEW r, r # None, r.abstained # None
  PROVE  Eval!Abstained(r) <=> r.abstained
BY DEF Eval!Abstained

LEMMA BucketTells ==
  ASSUME NEW r, r # None, r.abstained = None, r.bucket # None
  PROVE  Eval!Abstained(r) <=> r.bucket = "ABSTAIN"
BY DEF Eval!Abstained

LEMMA ScoreTells ==
  ASSUME NEW r, r # None, r.abstained = None, r.bucket = None
  PROVE  Eval!Abstained(r) <=> r.score # None /\ r.score < 4500
BY DEF Eval!Abstained

LEMMA IsAbstained ==
  ASSUME NEW r, NEW e \in BOOLEAN, Eval!Abstained(r) <=> e
  PROVE  Eval!Abstained(r) = e
<1>1. Eval!Abstained(r) \in BOOLEAN
  BY Zenon DEF Eval!Abstained
<1> QED BY <1>1

\* Whatever tells that the case was answered as expected, the flag, the bucket
\* or the score, tells it of a result that says so more clearly.
LEMMA AbstentionHolds ==
  ASSUME NEW c, c.expect \in BOOLEAN, NEW a, NEW b, a # None, b # None,
         a.abstained = None \/ a.abstained \in BOOLEAN,
         b.abstained = None \/ b.abstained \in BOOLEAN,
         a.score = None \/ a.score \in Int, b.score = None \/ b.score \in Int,
         Eval!SameOr(b.abstained, a.abstained, b.abstained = c.expect),
         Eval!SameOr(b.bucket, a.bucket, (b.bucket = "ABSTAIN") = c.expect),
         Eval!SameOr(b.score, a.score, IF c.expect THEN b.score <= a.score
                                       ELSE b.score >= a.score),
         Eval!Abstained(a) = c.expect
  PROVE  Eval!Abstained(b) = c.expect
<1>1. CASE a.abstained # None
  <2>1. Eval!Abstained(a) <=> a.abstained
    BY <1>1, FlagTells
  <2>2. b.abstained # None
    BY <1>1 DEF Eval!SameOr
  <2>3. Eval!Abstained(b) <=> b.abstained
    BY <2>2, FlagTells
  <2>4. b.abstained = a.abstained \/ b.abstained = c.expect
    BY DEF Eval!SameOr
  <2>5. a.abstained \in BOOLEAN /\ b.abstained \in BOOLEAN
    BY <1>1, <2>2
  <2>6. Eval!Abstained(b) <=> c.expect
    BY <2>1, <2>3, <2>4, <2>5, Zenon
  <2> QED BY <2>6, IsAbstained
<1>2. CASE a.abstained = None /\ a.bucket # None
  <2>1. Eval!Abstained(a) <=> a.bucket = "ABSTAIN"
    BY <1>2, BucketTells
  <2>2. b.abstained = None /\ b.bucket # None
    BY <1>2 DEF Eval!SameOr
  <2>3. Eval!Abstained(b) <=> b.bucket = "ABSTAIN"
    BY <2>2, BucketTells
  <2>4. b.bucket = a.bucket \/ ((b.bucket = "ABSTAIN") <=> c.expect)
    BY DEF Eval!SameOr
  <2>5. Eval!Abstained(a) <=> c.expect
    OBVIOUS
  <2>6. Eval!Abstained(b) <=> c.expect
    BY <2>1, <2>3, <2>4, <2>5, Zenon
  <2> QED BY <2>6, IsAbstained
<1>3. CASE a.abstained = None /\ a.bucket = None
  <2>1. b.abstained = None /\ b.bucket = None
    BY <1>3 DEF Eval!SameOr
  <2> DEFINE low(r) == r.score # None /\ r.score < 4500
  <2>2. (Eval!Abstained(a) <=> low(a)) /\ (Eval!Abstained(b) <=> low(b))
    BY <1>3, <2>1, ScoreTells
  <2>3. Eval!Abstained(a) <=> c.expect
    OBVIOUS
  <2>4. (low(a) <=> c.expect) => (low(b) <=> c.expect)
    <3>1. CASE b.score = a.score
      BY <3>1
    <3>2. CASE /\ a.score # None /\ b.score # None
               /\ IF c.expect THEN b.score <= a.score ELSE b.score >= a.score
      <4>1. a.score \in Int /\ b.score \in Int
        BY <3>2
      <4>2. CASE c.expect
        <5>1. b.score <= a.score
          BY <3>2, <4>2, Zenon
        <5> QED BY <3>2, <4>1, <4>2, <5>1
      <4>3. CASE ~c.expect
        <5>1. b.score >= a.score
          BY <3>2, <4>3, Zenon
        <5> QED BY <3>2, <4>1, <4>3, <5>1
      <4> QED BY <4>2, <4>3
    <3> QED BY <3>1, <3>2 DEF Eval!SameOr
  <2> HIDE DEF low
  <2>5. Eval!Abstained(b) <=> c.expect
    BY <2>2, <2>3, <2>4, Zenon
  <2> QED BY <2>5, IsAbstained
<1> QED BY <1>1, <1>2, <1>3

\* An answer that says more clearly what is expected is no worse.
LEMMA AbstentionIsFair ==
  ASSUME NEW c, c.expect \in BOOLEAN, NEW a, NEW b,
         (Eval!Abstained(a) = c.expect) => (Eval!Abstained(b) = c.expect)
  PROVE  NoWorse(Eval!Abstention(c, b), Eval!Abstention(c, a))
<1> DEFINE right(r) == Eval!Abstained(r) = c.expect
<1>1. \A r : /\ Eval!Abstention(c, r).score = (IF right(r) THEN Eval!Full ELSE 0)
             /\ Eval!Abstention(c, r).passed = right(r)
  BY DEF Eval!Abstention, Eval!Verdict
<1>2. right(a) => right(b)
  OBVIOUS
<1> HIDE DEF right
<1>3. Eval!Abstention(c, b).score >= Eval!Abstention(c, a).score
  BY <1>1, <1>2 DEF Eval!Full
<1>4. Eval!Abstention(c, a).passed => Eval!Abstention(c, b).passed
  BY <1>1, <1>2, Zenon
<1> QED BY <1>3, <1>4, Zenon DEF NoWorse

\* Which evaluator judges a case.
LEMMA EvaluatorIs ==
  ASSUME NEW c, NEW r
  PROVE  /\ c.type = "retrieval" => Eval!Evaluate(c, r) = Eval!Retrieval(c, r)
         /\ c.type = "numeric" => Eval!Evaluate(c, r) = Eval!Numeric(c, r)
         /\ c.type = "citation" => Eval!Evaluate(c, r) = Eval!Citation(c, r)
         /\ c.type = "abstention" => Eval!Evaluate(c, r) = Eval!Abstention(c, r)
         /\ c.type = "provider" => Eval!Evaluate(c, r) = Eval!Provider(c, r)
BY DEF Eval!Evaluate

\* What a result must be at least, by the type of its case.
LEMMA AtLeastIs ==
  ASSUME NEW c, NEW a, NEW b, Eval!AtLeast(c, b, a)
  PROVE  /\ c.type = "retrieval" => a \subseteq b
         /\ c.type = "numeric" =>
              /\ a.unit = b.unit /\ a.answer # None /\ b.answer # None
              /\ \/ b.answer = a.answer
                 \/ (b.answer - c.value) * (b.answer - c.value)
                      <= (a.answer - c.value) * (a.answer - c.value)
         /\ c.type = "citation" =>
              /\ b.valid >= a.valid
              /\ b.cited - b.valid <= a.cited - a.valid
         /\ c.type = "abstention" =>
              /\ Eval!SameOr(b.abstained, a.abstained, b.abstained = c.expect)
              /\ Eval!SameOr(b.bucket, a.bucket, (b.bucket = "ABSTAIN") = c.expect)
              /\ Eval!SameOr(b.score, a.score, IF c.expect THEN b.score <= a.score
                                               ELSE b.score >= a.score)
         /\ c.type = "provider" =>
              /\ b.successes >= a.successes
              /\ \/ /\ a.attempts > 0 /\ b.attempts > 0
                    /\ b.attempts - b.successes <= a.attempts - a.successes
                 \/ /\ a.attempts = 0 /\ b.attempts = 0
                    /\ b.rate = a.rate \/ (a.rate # None /\ b.rate # None /\ b.rate >= a.rate)
<1>1. CASE c.type = "abstention"
  BY <1>1 DEF Eval!AtLeast
<1>2. CASE c.type = "provider"
  BY <1>2 DEF Eval!AtLeast, Eval!SameOr
<1>3. CASE c.type \notin {"abstention", "provider"}
  BY <1>3 DEF Eval!AtLeast
<1> QED BY <1>1, <1>2, <1>3

\* A verdict on a better result is no worse, whatever the case and the results.
LEMMA VerdictsAreFair ==
  ASSUME NEW c, IsCase(c), NEW a, NEW b, a # None, b # None,
         IsResult(c, a), IsResult(c, b), Eval!AtLeast(c, b, a)
  PROVE  NoWorse(Eval!Evaluate(c, b), Eval!Evaluate(c, a))
<1>1. CASE c.type = "retrieval"
  <2>1. IsFiniteSet(c.sources)
    BY <1>1 DEF IsCase
  <2>2. NoWorse(Eval!Retrieval(c, b), Eval!Retrieval(c, a))
    BY <1>1, <2>1, AtLeastIs, RetrievalIsFair
  <2> QED BY <1>1, <2>2, EvaluatorIs
<1>2. CASE c.type = "numeric"
  <2>1. /\ c.value \in Int /\ c.tolerance \in Int
        /\ a.answer = None \/ a.answer \in Int
        /\ b.answer = None \/ b.answer \in Int
    BY <1>2 DEF IsCase, IsResult
  <2>2. /\ a.unit = b.unit /\ a.answer # None /\ b.answer # None
        /\ \/ b.answer = a.answer
           \/ (b.answer - c.value) * (b.answer - c.value)
                <= (a.answer - c.value) * (a.answer - c.value)
    BY <1>2, AtLeastIs
  <2>3. (b.answer - c.value) * (b.answer - c.value)
          <= (a.answer - c.value) * (a.answer - c.value)
    BY <2>1, <2>2
  <2>4. NoWorse(Eval!Numeric(c, b), Eval!Numeric(c, a))
    BY <2>1, <2>2, <2>3, NumericIsFair
  <2> QED BY <1>2, <2>4, EvaluatorIs
<1>3. CASE c.type = "citation"
  <2>1. /\ c.minimum \in Int
        /\ a.valid \in Nat /\ a.cited \in Nat /\ a.valid <= a.cited
        /\ b.valid \in Nat /\ b.cited \in Nat /\ b.valid <= b.cited
    BY <1>3 DEF IsCase, IsResult
  <2>2. NoWorse(Eval!Citation(c, b), Eval!Citation(c, a))
    BY <1>3, <2>1, AtLeastIs, CitationIsFair
  <2> QED BY <1>3, <2>2, EvaluatorIs
<1>4. CASE c.type = "abstention"
  <2>1. c.expect \in BOOLEAN
    BY <1>4 DEF IsCase
  <2>2. NoWorse(Eval!Abstention(c, b), Eval!Abstention(c, a))
    <3>1. /\ a.abstained = None \/ a.abstained \in BOOLEAN
          /\ b.abstained = None \/ b.abstained \in BOOLEAN
          /\ a.score = None \/ a.score \in Int
          /\ b.score = None \/ b.score \in Int
      BY <1>4 DEF IsResult
    <3>2. /\ Eval!SameOr(b.abstained, a.abstained, b.abstained = c.expect)
          /\ Eval!SameOr(b.bucket, a.bucket, (b.bucket = "ABSTAIN") = c.expect)
          /\ Eval!SameOr(b.score, a.score, IF c.expect THEN b.score <= a.score
                                           ELSE b.score >= a.score)
      BY <1>4, AtLeastIs
    <3>3. (Eval!Abstained(a) = c.expect) => (Eval!Abstained(b) = c.expect)
      BY <2>1, <3>1, <3>2, AbstentionHolds
    <3> QED BY <2>1, <3>3, AbstentionIsFair
  <2> QED BY <1>4, <2>2, EvaluatorIs
<1>5. CASE c.type = "provider"
  <2>1. /\ c.minimum \in Int /\ c.rate \in Int
        /\ IsCount(a) /\ IsCount(b)
    BY <1>5 DEF IsCase, IsResult
  <2>2. NoWorse(Eval!Provider(c, b), Eval!Provider(c, a))
    BY <1>5, <2>1, AtLeastIs, ProviderIsFair
  <2> QED BY <1>5, <2>2, EvaluatorIs
<1> QED BY <1>1, <1>2, <1>3, <1>4, <1>5 DEF IsCase

\* A case nobody executed is passed only where an answer is expected.
LEMMA NotExecuted ==
  ASSUME NEW c, IsCase(c), Eval!Evaluate(c, None).passed
  PROVE  c.type = "abstention" /\ ~c.expect
<1>1. ASSUME c.type = "retrieval" PROVE FALSE
  <2>1. Cardinality(c.sources \cap {}) = 0 /\ Cardinality(c.sources) \in Nat
    BY <1>1, FS_EmptySet, FS_CardinalityType, c.sources \cap {} = {} DEF IsCase
  <2>2. Eval!Ratio(Cardinality(c.sources \cap {}), Cardinality(c.sources)) = 0
    BY <2>1, RatioOfNone
  <2>3. Eval!Retrieval(c, None).passed
          = (Eval!Ratio(Cardinality(c.sources \cap {}), Cardinality(c.sources))
               >= Eval!Full)
    BY SizeIs DEF Eval!Retrieval, Eval!Verdict
  <2>4. ~(0 >= Eval!Full)
    BY DEF Eval!Full
  <2>5. ~Eval!Retrieval(c, None).passed
    BY <2>2, <2>3, <2>4, Zenon
  <2> QED BY <1>1, <2>5, EvaluatorIs
<1>2. ASSUME c.type = "numeric" PROVE FALSE
  <2>1. Eval!Numeric(c, None).passed = FALSE
    BY DEF Eval!Numeric, Eval!Verdict
  <2> QED BY <1>2, <2>1, EvaluatorIs
<1>3. ASSUME c.type = "citation" PROVE FALSE
  <2>1. Eval!Citation(c, None).passed
          = (Eval!Ratio(0, 0) >= Eval!Full /\ 0 >= c.minimum /\ 0 > 0)
    BY DEF Eval!Citation, Eval!Verdict
  <2>2. ~(0 > 0)
    OBVIOUS
  <2>3. ~Eval!Citation(c, None).passed
    BY <2>1, <2>2, Zenon
  <2> QED BY <1>3, <2>3, EvaluatorIs
<1>4. ASSUME c.type = "abstention" PROVE ~c.expect
  <2>1. c.expect \in BOOLEAN /\ Eval!Abstained(None) = FALSE
    BY <1>4 DEF IsCase, Eval!Abstained
  <2>2. Eval!Abstention(c, None).passed = (FALSE = c.expect)
    BY <2>1 DEF Eval!Abstention, Eval!Verdict
  <2>3. Eval!Abstention(c, None).passed
    BY <1>4, EvaluatorIs
  <2> QED BY <2>1, <2>2, <2>3
<1>5. ASSUME c.type = "provider" PROVE FALSE
  <2>1. Eval!Provider(c, None).passed = FALSE
    BY DEF Eval!Provider, Eval!Verdict
  <2> QED BY <1>5, <2>1, EvaluatorIs
<1> QED BY <1>1, <1>2, <1>3, <1>4, <1>5 DEF IsCase

\* What is kept of a case: a verdict and a score of ten-thousandths.
Judged == [type : {"retrieval", "numeric", "citation", "abstention", "provider"},
           passed : BOOLEAN, score : Nat]

\* Every evaluator gives a verdict and a score, also without a result.
LEMMA OutcomeType ==
  ASSUME NEW c, IsCase(c), NEW r, r = None \/ IsResult(c, r)
  PROVE  Eval!Outcome(c, r) \in Judged
<1> DEFINE v == Eval!Evaluate(c, r)
<1>1. c.type \in {"retrieval", "numeric", "citation", "abstention", "provider"}
  BY DEF IsCase
<1>2. 10000 \in Nat /\ 0 \in Nat
  OBVIOUS
<1>3. CASE c.type = "retrieval"
  <2> DEFINE hits == IF r = None THEN {} ELSE Eval!HitIds(r)
             recall == Eval!Ratio(Cardinality(c.sources \cap hits), Cardinality(c.sources))
  <2>1. IsFiniteSet(c.sources)
    BY <1>3 DEF IsCase
  <2>2. IsFiniteSet(c.sources \cap hits)
    <3> HIDE DEF hits
    <3> QED BY <2>1, FS_Intersection
  <2>3. Cardinality(c.sources \cap hits) \in Nat /\ Cardinality(c.sources) \in Nat
    <3> HIDE DEF hits
    <3> QED BY <2>1, <2>2, FS_CardinalityType
  <2>4. recall \in Nat
    <3> HIDE DEF hits
    <3> QED BY <2>3, RatioType
  <2>5. /\ Eval!Retrieval(c, r).score = recall
        /\ Eval!Retrieval(c, r).passed = (recall >= Eval!Full)
    BY SizeIs DEF Eval!Retrieval, Eval!Verdict
  <2> HIDE DEF recall
  <2>6. v = Eval!Retrieval(c, r)
    BY <1>3, EvaluatorIs
  <2>7. v.score \in Nat
    BY <2>4, <2>5, <2>6
  <2>8. v.passed = (recall >= Eval!Full)
    BY <2>5, <2>6, Zenon
  <2>9. v.passed \in BOOLEAN
    BY <2>4, <2>8
  <2> QED BY <1>1, <2>7, <2>9 DEF Eval!Outcome, Judged
<1>4. CASE c.type = "numeric"
  <2>1. Eval!Numeric(c, r).score \in Nat /\ Eval!Numeric(c, r).passed \in BOOLEAN
    <3>1. CASE r = None \/ r.answer = None
      <4>1. Eval!Numeric(c, r) = Eval!Verdict(FALSE, 0)
        BY <3>1, Zenon DEF Eval!Numeric
      <4> QED BY <1>2, <4>1 DEF Eval!Verdict
    <3>2. CASE ~(r = None \/ r.answer = None)
      <4> DEFINE correct == /\ r.answer - c.value <= c.tolerance
                            /\ c.value - r.answer <= c.tolerance
      <4>1. /\ Eval!Numeric(c, r).score = (IF correct THEN Eval!Full ELSE 0)
            /\ Eval!Numeric(c, r).passed = (correct /\ r.unit = c.unit)
        BY <3>2 DEF Eval!Numeric, Eval!Verdict
      <4> HIDE DEF correct
      <4>2. Eval!Numeric(c, r).score \in Nat
        BY <1>2, <4>1 DEF Eval!Full
      <4>3. Eval!Numeric(c, r).passed \in BOOLEAN
        BY <4>1, Zenon
      <4> QED BY <4>2, <4>3
    <3> QED BY <3>1, <3>2
  <2>2. v.score \in Nat /\ v.passed \in BOOLEAN
    BY <1>4, <2>1, EvaluatorIs
  <2> QED BY <1>1, <2>2 DEF Eval!Outcome, Judged
<1>5. CASE c.type = "citation"
  <2> DEFINE cited == IF r = None THEN 0 ELSE r.cited
             valid == IF r = None THEN 0 ELSE r.valid
             ratio == Eval!Ratio(valid, cited)
  <2>1. cited \in Nat /\ valid \in Nat
    BY <1>5 DEF IsResult
  <2>2. ratio \in Nat
    <3> HIDE DEF cited, valid
    <3> QED BY <2>1, RatioType
  <2>3. /\ Eval!Citation(c, r).score = ratio
        /\ Eval!Citation(c, r).passed
             = (ratio >= Eval!Full /\ valid >= c.minimum /\ cited > 0)
    BY DEF Eval!Citation, Eval!Verdict
  <2> HIDE DEF ratio, cited, valid
  <2>4. v.score \in Nat /\ v.passed \in BOOLEAN
    BY <1>5, <2>2, <2>3, EvaluatorIs
  <2> QED BY <1>1, <2>4 DEF Eval!Outcome, Judged
<1>6. CASE c.type = "abstention"
  <2>1. /\ Eval!Abstention(c, r).score \in Nat
        /\ Eval!Abstention(c, r).passed \in BOOLEAN
    BY <1>2 DEF Eval!Abstention, Eval!Verdict, Eval!Full
  <2>2. v.score \in Nat /\ v.passed \in BOOLEAN
    BY <1>6, <2>1, EvaluatorIs
  <2> QED BY <1>1, <2>2 DEF Eval!Outcome, Judged
<1>7. CASE c.type = "provider"
  <2>1. /\ Eval!Provider(c, r).score \in Nat
        /\ Eval!Provider(c, r).passed \in BOOLEAN
    <3>1. CASE r = None
      BY <1>2, <3>1 DEF Eval!Provider, Eval!Verdict
    <3>2. CASE r # None
      <4> DEFINE rate == Eval!Rate(r)
      <4>1. rate \in Nat
        BY <1>7, <3>2, RateIs DEF IsResult
      <4>2. /\ Eval!Provider(c, r).score = rate
            /\ Eval!Provider(c, r).passed
                 = (r.successes >= c.minimum /\ rate >= c.rate)
        BY <3>2 DEF Eval!Provider, Eval!Verdict
      <4> HIDE DEF rate
      <4> QED BY <4>1, <4>2
    <3> QED BY <3>1, <3>2
  <2>2. v.score \in Nat /\ v.passed \in BOOLEAN
    BY <1>7, <2>1, EvaluatorIs
  <2> QED BY <1>1, <2>2 DEF Eval!Outcome, Judged
<1> QED BY <1>3, <1>4, <1>5, <1>6, <1>7 DEF IsCase

\* What an executor gives is a result of the case.
LEMMA ResultIs ==
  ASSUME NEW c, IsCase(c), NEW r \in Eval!Results(c.type), r # None
  PROVE  IsResult(c, r)
<1>1. CASE c.type = "numeric"
  <2>1. r \in [answer : {None, 8, 12, 13}, unit : {"ratio", "CNY"}]
    BY <1>1 DEF Eval!Results
  <2> QED BY <1>1, <2>1 DEF IsResult
<1>2. CASE c.type = "citation"
  <2>1. r \in {x \in [cited : 0..2, valid : 0..2] : x.valid <= x.cited}
    BY <1>2 DEF Eval!Results
  <2> QED BY <1>2, <2>1 DEF IsResult
<1>3. CASE c.type = "provider"
  <2>1. r \in {x \in [attempts : {0, 2, 5}, successes : {0, 2, 4},
                      rate : {None, 8000, Eval!Full}] :
                x.attempts > 0 => x.successes <= x.attempts}
    BY <1>3 DEF Eval!Results
  <2>2. IsCount(r)
    BY <2>1 DEF IsCount, Eval!Full
  <2> QED BY <1>3, <2>2 DEF IsResult
<1>4. CASE c.type = "abstention"
  <2>1. r \in [abstained : BOOLEAN \cup {None}, bucket : {None, "ABSTAIN", "HIGH"},
               score : {None, 4400, 4500}]
    BY <1>4 DEF Eval!Results
  <2> QED BY <1>4, <2>1 DEF IsResult
<1> QED BY <1>1, <1>2, <1>3, <1>4 DEF IsResult

\* The elements of a set of numbers can be counted: one of them is the k-th.
LEMMA EachIsCounted ==
  ASSUME NEW N \in Nat, NEW T \in SUBSET (1..N)
  PROVE  \A k \in 1..Cardinality(T) :
           \E i \in T : Cardinality({j \in T : j <= i}) = k
<1> DEFINE upTo(n) == {j \in T : j <= n}
<1>1. \A j \in T : j \in Nat /\ 1 <= j /\ j <= N
  OBVIOUS
<1>2. upTo(0) = {} /\ upTo(N) = T
  <2>1. \A j \in T : ~(j <= 0)
    BY <1>1
  <2>2. upTo(N) = T
    BY <1>1
  <2> QED BY <2>1, <2>2
<1>3. ASSUME NEW n \in 0..(N - 1)
      PROVE  /\ n + 1 \notin T => upTo(n + 1) = upTo(n)
             /\ n + 1 \in T => /\ upTo(n + 1) = upTo(n) \cup {n + 1}
                               /\ n + 1 \notin upTo(n)
  <2>1. \A j \in T : j <= n + 1 <=> j <= n \/ j = n + 1
    BY <1>1
  <2>2. n + 1 \notin upTo(n)
    OBVIOUS
  <2>3. n + 1 \notin T => upTo(n + 1) = upTo(n)
    BY <2>1, Zenon
  <2>4. n + 1 \in T => upTo(n + 1) = upTo(n) \cup {n + 1}
    BY <2>1, Zenon
  <2> QED BY <2>2, <2>3, <2>4
<1>4. \A n : IsFiniteSet(upTo(n)) /\ Cardinality(upTo(n)) \in Nat
  <2>1. IsFiniteSet(1..N)
    BY FS_Interval
  <2>2. IsFiniteSet(T)
    BY <2>1, FS_Subset
  <2>3. \A n : upTo(n) \in SUBSET T
    OBVIOUS
  <2> HIDE DEF upTo
  <2> QED BY <2>2, <2>3, FS_Subset, FS_CardinalityType
<1> HIDE DEF upTo
<1> DEFINE P == {n \in 0..N : \A k \in 1..Cardinality(upTo(n)) :
                                \E i \in T : Cardinality(upTo(i)) = k}
<1>5. 0 \in P
  BY <1>2, FS_EmptySet
<1>6. ASSUME NEW n \in 0..(N - 1), n \in P PROVE n + 1 \in P
  <2>1. CASE n + 1 \notin T
    BY <1>3, <1>6, <2>1
  <2>2. CASE n + 1 \in T
    <3>1. Cardinality(upTo(n + 1)) = Cardinality(upTo(n)) + 1
      BY <1>3, <1>4, <2>2, FS_AddElement
    <3>2. ASSUME NEW k \in 1..Cardinality(upTo(n + 1))
          PROVE  \E i \in T : Cardinality(upTo(i)) = k
      <4>1. CASE k = Cardinality(upTo(n + 1))
        BY <2>2, <4>1
      <4>2. CASE k # Cardinality(upTo(n + 1))
        <5>1. k \in 1..Cardinality(upTo(n))
          BY <1>4, <3>1, <4>2
        <5> QED BY <1>6, <5>1
      <4> QED BY <4>1, <4>2
    <3> QED BY <3>2
  <2> QED BY <2>1, <2>2
<1>7. \A n \in 0..N : n \in P
  <2> HIDE DEF P
  <2> QED BY <1>5, <1>6, UpTo
<1>8. \A k \in 1..Cardinality(T) : \E i \in T : Cardinality(upTo(i)) = k
  BY <1>2, <1>7
<1> QED BY <1>8 DEF upTo

\* The benchmark is eight cases an evaluator may be given.
LEMMA BenchmarkIs ==
  /\ Len(Eval!Benchmark) = 8
  /\ \A i \in 1..8 : IsCase(Eval!Benchmark[i])
<1> DEFINE c1 == [type |-> "retrieval", sources |-> {"d1"}]
           c2 == [type |-> "retrieval", sources |-> {"d1", "d2"}]
           c3 == [type |-> "numeric", value |-> 10, tolerance |-> 2, unit |-> "ratio"]
           c4 == [type |-> "citation", minimum |-> 1]
           c5 == [type |-> "abstention", expect |-> TRUE]
           c6 == [type |-> "abstention", expect |-> FALSE]
           c7 == [type |-> "provider", rate |-> Eval!Full, minimum |-> 1]
           c8 == [type |-> "provider", rate |-> 8000, minimum |-> 2]
<1>1. IsCase(c1) /\ IsCase(c2)
  <2>1. IsFiniteSet({"d1"}) /\ IsFiniteSet({"d1", "d2"})
    <3>1. {"d1", "d2"} = {"d1"} \cup {"d2"}
      OBVIOUS
    <3>2. IsFiniteSet({"d1"})
      BY FS_Singleton
    <3>3. IsFiniteSet({"d1"} \cup {"d2"})
      BY <3>2, FS_AddElement
    <3> QED BY <3>1, <3>2, <3>3
  <2> QED BY <2>1 DEF IsCase
<1>2. IsCase(c3) /\ IsCase(c4)
  BY DEF IsCase
<1>3. IsCase(c5) /\ IsCase(c6)
  BY DEF IsCase
<1>4. IsCase(c7) /\ IsCase(c8)
  BY DEF IsCase, Eval!Full
<1>5. Eval!Benchmark
        = (((<<c1, c2>> \o <<c3>>) \o <<c4>>) \o <<c5, c6>>) \o <<c7, c8>>
  BY DEF Eval!Benchmark, Eval!RetrievalCases, Eval!NumericCases,
     Eval!CitationCases, Eval!AbstentionCases, Eval!ProviderCases
<1> HIDE DEF c1, c2, c3, c4, c5, c6, c7, c8
<1>6. /\ Len(Eval!Benchmark) = 8
      /\ Eval!Benchmark[1] = c1 /\ Eval!Benchmark[2] = c2
      /\ Eval!Benchmark[3] = c3 /\ Eval!Benchmark[4] = c4
      /\ Eval!Benchmark[5] = c5 /\ Eval!Benchmark[6] = c6
      /\ Eval!Benchmark[7] = c7 /\ Eval!Benchmark[8] = c8
  <2> DEFINE S  == {c1, c2, c3, c4, c5, c6, c7, c8}
             b1 == <<c1, c2>> \o <<c3>>
             b2 == b1 \o <<c4>>
             b3 == b2 \o <<c5, c6>>
  <2>1. ASSUME NEW s \in Seq(S), NEW t \in Seq(S)
        PROVE  /\ s \o t \in Seq(S) /\ Len(s \o t) = Len(s) + Len(t)
               /\ \A i \in 1..Len(s) : (s \o t)[i] = s[i]
               /\ \A i \in 1..Len(t) : (s \o t)[Len(s) + i] = t[i]
    <3> HIDE DEF S
    <3> QED OBVIOUS
  <2>2. /\ <<c1, c2>> \in Seq(S) /\ <<c3>> \in Seq(S) /\ <<c4>> \in Seq(S)
        /\ <<c5, c6>> \in Seq(S) /\ <<c7, c8>> \in Seq(S)
    OBVIOUS
  <2> HIDE DEF S
  <2>3. b1 \in Seq(S) /\ Len(b1) = 3 /\ b1[1] = c1 /\ b1[2] = c2 /\ b1[3] = c3
    BY <2>1, <2>2
  <2> HIDE DEF b1
  <2>4. /\ b2 \in Seq(S) /\ Len(b2) = 4
        /\ \A i \in 1..3 : b2[i] = b1[i]
        /\ b2[4] = c4
    BY <2>1, <2>2, <2>3
  <2> HIDE DEF b2
  <2>5. /\ b3 \in Seq(S) /\ Len(b3) = 6
        /\ \A i \in 1..4 : b3[i] = b2[i]
        /\ b3[5] = c5 /\ b3[6] = c6
    BY <2>1, <2>2, <2>4
  <2> HIDE DEF b3
  <2>6. Eval!Benchmark = b3 \o <<c7, c8>>
    BY <1>5 DEF b1, b2, b3
  <2>7. /\ Len(Eval!Benchmark) = 8
        /\ \A i \in 1..6 : Eval!Benchmark[i] = b3[i]
        /\ Eval!Benchmark[7] = c7 /\ Eval!Benchmark[8] = c8
    <3> DEFINE t == <<c7, c8>>
    <3>1. t \in Seq(S) /\ Len(t) = 2 /\ t[1] = c7 /\ t[2] = c8
      BY <2>2
    <3>2. Eval!Benchmark = b3 \o t
      BY <2>6
    <3> HIDE DEF t
    <3>3. /\ Len(b3 \o t) = 8
          /\ \A i \in 1..6 : (b3 \o t)[i] = b3[i]
          /\ (b3 \o t)[6 + 1] = t[1] /\ (b3 \o t)[6 + 2] = t[2]
      <4>1. /\ Len(b3 \o t) = Len(b3) + Len(t)
            /\ \A i \in 1..Len(b3) : (b3 \o t)[i] = b3[i]
            /\ \A i \in 1..Len(t) : (b3 \o t)[Len(b3) + i] = t[i]
        BY <2>1, <2>5, <3>1
      <4>2. \A i \in 1..2 : (b3 \o t)[6 + i] = t[i]
        BY <2>5, <3>1, <4>1
      <4> QED BY <2>5, <3>1, <4>1, <4>2
    <3>4. (b3 \o t)[7] = t[1] /\ (b3 \o t)[8] = t[2]
      BY <3>3
    <3> QED BY <3>1, <3>2, <3>3, <3>4
  <2> QED BY <2>3, <2>4, <2>5, <2>7
<1>7. ASSUME NEW i \in 1..8 PROVE IsCase(Eval!Benchmark[i])
  <2>1. i = 1 \/ i = 2 \/ i = 3 \/ i = 4 \/ i = 5 \/ i = 6 \/ i = 7 \/ i = 8
    OBVIOUS
  <2> QED BY <1>1, <1>2, <1>3, <1>4, <1>6, <2>1
<1> QED BY <1>6, <1>7

\* Every request is given cases of the benchmark.
LEMMA SpecIs ==
  ASSUME NEW wanted, NEW limit
  PROVE  /\ Len(Eval!BuildSpec(wanted, limit)) \in Nat
         /\ \A k \in 1..Len(Eval!BuildSpec(wanted, limit)) :
              IsCase(Eval!BuildSpec(wanted, limit)[k])
<1> DEFINE N == Len(Eval!Benchmark)
           Earlier(i) == {j \in 1..i : Eval!Benchmark[j].type = Eval!Benchmark[i].type}
           chosen == {i \in 1..N :
                        /\ wanted = {} \/ Eval!Benchmark[i].type \in wanted
                        /\ limit = None \/ Eval!Cardinality(Earlier(i)) <= limit}
           Which(k) == CHOOSE i \in chosen :
                         Eval!Cardinality({j \in chosen : j <= i}) = k
           cases == [k \in 1..Eval!Cardinality(chosen) |-> Eval!Benchmark[Which(k)]]
<1>1. Eval!BuildSpec(wanted, limit) = cases
  BY DEF Eval!BuildSpec
<1>2. chosen \in SUBSET (1..N)
  OBVIOUS
<1>3. N \in Nat /\ \A i \in 1..N : IsCase(Eval!Benchmark[i])
  BY BenchmarkIs
<1> HIDE DEF chosen, N
<1>4. Cardinality(chosen) \in Nat /\ Eval!Cardinality(chosen) = Cardinality(chosen)
  <2>1. IsFiniteSet(1..N)
    BY <1>3, FS_Interval
  <2> QED BY <1>2, <2>1, SizeIs, FS_Subset, FS_CardinalityType
<1>5. ASSUME NEW k \in 1..Cardinality(chosen) PROVE IsCase(Eval!Benchmark[Which(k)])
  <2>1. \E i \in chosen : Cardinality({j \in chosen : j <= i}) = k
    BY <1>2, <1>3, EachIsCounted
  <2>2. \E i \in chosen : Eval!Cardinality({j \in chosen : j <= i}) = k
    BY <2>1, SizeIs
  <2>3. Which(k) \in chosen
    BY <2>2
  <2> HIDE DEF Which
  <2> QED BY <1>2, <1>3, <2>3
<1> HIDE DEF Which
<1>6. Len(cases) = Cardinality(chosen)
  BY <1>4
<1> QED BY <1>1, <1>4, <1>5, <1>6

\* What was kept of the last case is the verdict on what was last given.
ScoreInv ==
  /\ Len(spec) \in Nat /\ \A k \in 1..Len(spec) : IsCase(spec[k])
  /\ outcomes \in Seq(Judged) /\ Len(outcomes) <= Len(spec)
  /\ outcomes # <<>> =>
       /\ last \in Eval!Results(spec[Len(outcomes)].type)
       /\ outcomes[Len(outcomes)] = Eval!Outcome(spec[Len(outcomes)], last)

\* The first case is still to come.
LEMMA ScoreInit == Eval!Init => ScoreInv
<1> SUFFICES ASSUME Eval!Init PROVE ScoreInv
  OBVIOUS
<1>1. PICK wanted, limit : spec = Eval!BuildSpec(wanted, limit)
  BY DEF Eval!Init
<1>2. Len(spec) \in Nat /\ \A k \in 1..Len(spec) : IsCase(spec[k])
  BY <1>1, SpecIs
<1>3. outcomes = <<>>
  BY DEF Eval!Init
<1>4. outcomes \in Seq(Judged) /\ Len(outcomes) = 0
  BY <1>3
<1> QED BY <1>2, <1>3, <1>4 DEF ScoreInv

\* Only the next case adds a verdict, and it keeps what the verdict is on.
LEMMA ScoreSteps == ScoreInv /\ [Eval!Next]_(Eval!vars) => ScoreInv'
<1> SUFFICES ASSUME ScoreInv, [Eval!Next]_(Eval!vars) PROVE ScoreInv'
  OBVIOUS
<1>1. CASE UNCHANGED <<spec, outcomes, last>>
  BY <1>1 DEF ScoreInv
<1>2. CASE Eval!RunCase
  <2> DEFINE n == Len(outcomes)
             c == spec[n + 1]
  <2>1. n \in Nat /\ n < Len(spec) /\ Len(spec) \in Nat /\ outcomes \in Seq(Judged)
    BY <1>2 DEF ScoreInv, Eval!RunCase
  <2>2. n + 1 \in 1..Len(spec)
    BY <2>1
  <2>3. IsCase(c)
    <3> HIDE DEF n
    <3> QED BY <2>2 DEF ScoreInv
  <2>4. spec' = spec
    BY <1>2 DEF Eval!RunCase
  <2>5. ASSUME NEW r \in Eval!Results(c.type),
               outcomes' = Append(outcomes, Eval!Outcome(c, r)), last' = r
        PROVE  ScoreInv'
    <3>1. r = None \/ IsResult(c, r)
      BY <2>3, ResultIs
    <3>2. Eval!Outcome(c, r) \in Judged
      BY <2>3, <3>1, OutcomeType
    <3>3. /\ outcomes' \in Seq(Judged) /\ Len(outcomes') = n + 1
          /\ outcomes'[n + 1] = Eval!Outcome(c, r)
      BY <2>1, <2>5, <3>2
    <3>4. /\ last' \in Eval!Results(spec'[Len(outcomes')].type)
          /\ outcomes'[Len(outcomes')] = Eval!Outcome(spec'[Len(outcomes')], last')
      BY <2>4, <2>5, <3>3
    <3>5. Len(outcomes') <= Len(spec')
      BY <2>1, <2>4, <3>3
    <3>6. Len(spec') \in Nat /\ \A k \in 1..Len(spec') : IsCase(spec'[k])
      BY <2>4 DEF ScoreInv
    <3> QED BY <3>3, <3>4, <3>5, <3>6 DEF ScoreInv
  <2>6. ASSUME NEW r, r = None, outcomes' = Append(outcomes, Eval!Outcome(c, r)),
               last' = r
        PROVE  ScoreInv'
    <3>1. r \in Eval!Results(c.type)
      BY <2>6 DEF Eval!Results
    <3> QED BY <2>5, <2>6, <3>1
  <2>7. CASE UNCHANGED <<outcomes, last>>
    BY <1>1, <2>4, <2>7
  <2>8. \/ \E r \in IF executor = "dev" THEN {None} ELSE Eval!Results(c.type) :
             outcomes' = Append(outcomes, Eval!Outcome(c, r)) /\ last' = r
        \/ UNCHANGED <<outcomes, last>>
    BY <1>2 DEF Eval!RunCase
  <2> HIDE DEF c, n
  <2> QED BY <2>5, <2>6, <2>7, <2>8
<1>3. CASE \/ Eval!Start \/ Eval!Finish \/ Eval!AddDataset \/ Eval!AddCases
           \/ Eval!Commit \/ Eval!Flushed \/ Eval!Abort
  <2>1. UNCHANGED <<spec, outcomes, last>>
    BY <1>3 DEF Eval!Start, Eval!Finish, Eval!AddDataset, Eval!AddCases,
       Eval!Commit, Eval!Flushed, Eval!Abort
  <2> QED BY <1>1, <2>1
<1>4. CASE UNCHANGED Eval!vars
  <2>1. UNCHANGED <<spec, outcomes, last>>
    BY <1>4 DEF Eval!vars
  <2> QED BY <1>1, <2>1
<1> QED BY <1>2, <1>3, <1>4 DEF Eval!Next, Eval!Replay

\* The last verdict is one that is fair.
LEMMA ScoresVouch == ScoreInv => Eval!ScoresAreEarned
<1> SUFFICES ASSUME ScoreInv, outcomes # <<>>
             PROVE  Eval!ScoresAreEarned
  BY DEF Eval!ScoresAreEarned
<1> DEFINE c == spec[Len(outcomes)]
           o == outcomes[Len(outcomes)]
<1>1. Len(outcomes) \in 1..Len(spec)
  BY DEF ScoreInv
<1>2. IsCase(c) /\ last \in Eval!Results(c.type) /\ o = Eval!Outcome(c, last)
  BY <1>1 DEF ScoreInv
<1>3. /\ o.score = Eval!Evaluate(c, last).score
      /\ o.passed = Eval!Evaluate(c, last).passed
  BY <1>2 DEF Eval!Outcome
<1>4. last = None /\ o.passed => c.type = "abstention" /\ ~c.expect
  <2> HIDE DEF c, o
  <2> QED BY <1>2, <1>3, NotExecuted
<1>5. ASSUME last # None, NEW b \in Eval!Results(c.type) \ {None},
             Eval!AtLeast(c, b, last)
      PROVE  /\ Eval!Evaluate(c, b).score >= o.score
             /\ o.passed => Eval!Evaluate(c, b).passed
  <2> HIDE DEF c, o
  <2>1. IsResult(c, last) /\ IsResult(c, b)
    BY <1>2, <1>5, ResultIs
  <2>2. NoWorse(Eval!Evaluate(c, b), Eval!Evaluate(c, last))
    BY <1>2, <1>5, <2>1, VerdictsAreFair
  <2> QED BY <1>3, <2>2, Zenon DEF NoWorse
<1> QED BY <1>4, <1>5, Zenon DEF Eval!ScoresAreEarned

\* A verdict is earned: a better result is never scored or judged worse, and a
\* case that was not executed is passed only where an answer is expected.
THEOREM ScoresEarned == Spec => []ScoresAreEarned
<1>1. Eval!ScoresAreEarned => ScoresAreEarned
  BY DEF ScoresAreEarned
<1> QED
  BY <1>1, ScoreInit, ScoreSteps, ScoresVouch, EvaluationSteps, PTL DEF Spec

-----------------------------------------------------------------------------
(* Companies *)

\* This part of the service is an instance of its module.
LEMMA CompanySteps ==
  /\ Init => Market!Init
  /\ [Next]_vars => [Market!Next]_(Market!vars)
  /\ Market!CacheKeepsTheLatest => CacheKeepsTheLatest
BY DEF CacheKeepsTheLatest, Init, Next, vars, companyVars, Market!vars

\* What a company has at most one of.
OfOneCompany(entries) ==
  \A i, j \in 1..Len(entries) : entries[i].company = entries[j].company => i = j

\* rest is entries without the one at k.
LeavesOut(rest, entries, k) ==
  /\ Len(rest) = Len(entries) - 1
  /\ \A i \in 1..(Len(entries) - 1) : rest[i] = IF i < k THEN entries[i] ELSE entries[i + 1]

\* A company's entry is left out, if it has one.
LEMMA WithoutOne ==
  ASSUME NEW S, NEW entries \in Seq(S), NEW c
  PROVE  /\ Market!Without(entries, c) \in Seq(S)
         /\ \/ /\ Market!Without(entries, c) = entries
               /\ \A i \in 1..Len(entries) : entries[i].company # c
            \/ \E k \in 1..Len(entries) :
                 entries[k].company = c /\ LeavesOut(Market!Without(entries, c), entries, k)
<1> DEFINE rest == Market!Without(entries, c)
<1>1. CASE Market!Cached(entries, c) = {}
  BY <1>1 DEF Market!Without, Market!Cached
<1>2. CASE Market!Cached(entries, c) # {}
  <2> DEFINE k == Market!Place(entries, c)
  <2>1. k \in 1..Len(entries) /\ entries[k].company = c
    BY <1>2 DEF Market!Place, Market!Cached
  <2>2. rest = SubSeq(entries, 1, k - 1) \o SubSeq(entries, k + 1, Len(entries))
    BY <1>2 DEF Market!Without, Market!RemoveAt
  <2> HIDE DEF k
  <2> DEFINE a == SubSeq(entries, 1, k - 1)
             b == SubSeq(entries, k + 1, Len(entries))
  <2>3. /\ a \in Seq(S) /\ Len(a) = k - 1
        /\ \A i \in 1..(k - 1) : a[i] = entries[i]
    BY <2>1
  <2>4. /\ b \in Seq(S) /\ Len(b) = Len(entries) - k
        /\ \A i \in 1..(Len(entries) - k) : b[i] = entries[k + i]
    BY <2>1
  <2> HIDE DEF a, b
  <2>5. /\ a \o b \in Seq(S) /\ Len(a \o b) = Len(entries) - 1
        /\ \A i \in 1..(Len(entries) - 1) : (a \o b)[i] = IF i <= k - 1 THEN a[i] ELSE b[i - (k - 1)]
    <3>1. Len(a) + Len(b) = Len(entries) - 1
      BY <2>1, <2>3, <2>4
    <3> QED BY <2>3, <2>4, <3>1, ConcatProperties
  <2>6. ASSUME NEW i \in 1..(Len(entries) - 1)
        PROVE  (a \o b)[i] = IF i < k THEN entries[i] ELSE entries[i + 1]
    <3>1. CASE i < k
      BY <2>1, <2>3, <2>5, <3>1
    <3>2. CASE ~(i < k)
      <4>1. i - (k - 1) \in 1..(Len(entries) - k) /\ k + (i - (k - 1)) = i + 1
        BY <2>1, <3>2
      <4> QED BY <2>1, <2>4, <2>5, <3>2, <4>1
    <3> QED BY <3>1, <3>2
  <2>7. rest = a \o b
    BY <2>2 DEF a, b
  <2> QED BY <2>1, <2>5, <2>6, <2>7 DEF LeavesOut
<1> QED BY <1>1, <1>2
\* all is entries with a company's newest entry: it has its place no more, or had
\* none.
Renewed(all, entries, c) ==
  /\ all[Len(all)].company = c
  /\ \/ /\ \A i \in 1..Len(entries) : entries[i].company # c
        /\ Len(all) = Len(entries) + 1
        /\ \A i \in 1..Len(entries) : all[i] = entries[i]
     \/ \E k \in 1..Len(entries) :
          /\ entries[k].company = c
          /\ Len(all) = Len(entries)
          /\ \A i \in 1..(Len(entries) - 1) :
               all[i] = IF i < k THEN entries[i] ELSE entries[i + 1]

\* An entry that is written or used is the newest of its company's, and no other
\* has changed its place.
LEMMA LatestIsLast ==
  ASSUME NEW S, NEW entries \in Seq(S), NEW c, NEW e \in S, e.company = c
  PROVE  /\ Market!Latest(entries, c, e) \in Seq(S)
         /\ Renewed(Market!Latest(entries, c, e), entries, c)
<1> DEFINE rest == Market!Without(entries, c)
           all == Market!Latest(entries, c, e)
<1>1. all = Append(rest, e)
  BY DEF Market!Latest
<1>2. rest \in Seq(S)
  BY WithoutOne
<1>3. /\ all \in Seq(S) /\ Len(all) = Len(rest) + 1 /\ all[Len(rest) + 1] = e
      /\ \A i \in 1..Len(rest) : all[i] = rest[i]
  <2> HIDE DEF rest, all
  <2> QED BY <1>1, <1>2, AppendProperties
<1>4. ASSUME rest = entries
      PROVE  Len(all) = Len(entries) + 1 /\ \A i \in 1..Len(entries) : all[i] = entries[i]
  <2> HIDE DEF rest, all
  <2> QED BY <1>3, <1>4
<1>5. ASSUME NEW k \in 1..Len(entries), entries[k].company = c, LeavesOut(rest, entries, k)
      PROVE  /\ Len(all) = Len(entries)
             /\ \A i \in 1..(Len(entries) - 1) :
                  all[i] = IF i < k THEN entries[i] ELSE entries[i + 1]
  <2> HIDE DEF rest, all
  <2> QED BY <1>2, <1>3, <1>5 DEF LeavesOut
<1>6. all[Len(all)] = e
  <2> HIDE DEF rest, all
  <2> QED BY <1>3
<1> HIDE DEF rest, all
<1>7. \/ rest = entries /\ \A i \in 1..Len(entries) : entries[i].company # c
      \/ \E k \in 1..Len(entries) : entries[k].company = c /\ LeavesOut(rest, entries, k)
  BY WithoutOne DEF rest
<1>8. \/ /\ \A i \in 1..Len(entries) : entries[i].company # c
         /\ Len(all) = Len(entries) + 1
         /\ \A i \in 1..Len(entries) : all[i] = entries[i]
      \/ \E k \in 1..Len(entries) :
           /\ entries[k].company = c
           /\ Len(all) = Len(entries)
           /\ \A i \in 1..(Len(entries) - 1) :
                all[i] = IF i < k THEN entries[i] ELSE entries[i + 1]
  BY <1>3, <1>4, <1>5, <1>7
<1> QED BY <1>3, <1>6, <1>8 DEF all, Renewed
\* A cache and the order of its use, with what makes Market!KeepsLatest inductive.
Ordered(entries, order) == Market!KeepsLatest(entries, order) /\ OfOneCompany(order)

\* The order keeps one entry of each company.
LEMMA OrderStays ==
  ASSUME NEW T, NEW order \in Seq(T), NEW later \in Seq(T), NEW c,
         OfOneCompany(order), Renewed(later, order, c)
  PROVE  OfOneCompany(later)
<1>1. SUFFICES ASSUME NEW i \in 1..Len(later), NEW j \in 1..Len(later),
                      later[i].company = later[j].company
               PROVE  i = j
  BY DEF OfOneCompany
<1>2. CASE /\ \A x \in 1..Len(order) : order[x].company # c
           /\ Len(later) = Len(order) + 1
           /\ \A x \in 1..Len(order) : later[x] = order[x]
  BY <1>1, <1>2 DEF OfOneCompany, Renewed
<1>3. ASSUME NEW k \in 1..Len(order),
             order[k].company = c, Len(later) = Len(order),
             \A x \in 1..(Len(order) - 1) :
               later[x] = IF x < k THEN order[x] ELSE order[x + 1]
      PROVE  i = j
  <2> DEFINE From(x) == IF x = Len(order) THEN k ELSE IF x < k THEN x ELSE x + 1
  <2>1. ASSUME NEW x \in 1..Len(later)
        PROVE  From(x) \in 1..Len(order) /\ later[x].company = order[From(x)].company
    <3>1. CASE x = Len(order)
      BY <1>3, <3>1 DEF Renewed
    <3>2. CASE x # Len(order)
      BY SMTT(60), <1>3, <3>2
    <3> QED BY <3>1, <3>2
  <2>2. From(i) = From(j)
    <3> HIDE DEF From
    <3> QED BY <1>1, <2>1 DEF OfOneCompany
  <2> QED BY <1>1, <1>3, <2>2
<1> QED BY <1>2, <1>3 DEF Renewed

\* A cache that keeps the latest keeps them when one is used: the newest of the
\* order, the one used among them.
LEMMA LatestAreKept ==
  ASSUME NEW S, NEW entries \in Seq(S), NEW all \in Seq(S), NEW left \in Seq(S),
         NEW T, NEW order \in Seq(T), NEW later \in Seq(T), NEW c,
         Ordered(entries, order), Renewed(all, entries, c), Renewed(later, order, c),
         IF Len(all) > CacheMax
         THEN Len(left) = Len(all) - 1 /\ \A i \in 1..Len(left) : left[i] = all[i + 1]
         ELSE left = all
  PROVE  Market!KeepsLatest(left, later)
<1> DEFINE dropped == Len(order) - Len(entries)
<1>1. CacheMax \in Nat /\ Len(entries) \in Nat /\ Len(order) \in Nat
  BY ServiceAssumption
<1>2. /\ Len(entries) = IF Len(order) < CacheMax THEN Len(order) ELSE CacheMax
      /\ dropped \in Nat
  BY <1>1 DEF Ordered, Market!KeepsLatest
<1>3. \A i \in 1..Len(entries) : entries[i].company = order[dropped + i].company
  BY DEF Ordered, Market!KeepsLatest
<1>4. /\ all[Len(all)].company = c /\ later[Len(later)].company = c
      /\ OfOneCompany(order)
  BY DEF Renewed, Ordered
<1>5. SUFFICES /\ Len(left) = IF Len(later) < CacheMax THEN Len(later) ELSE CacheMax
               /\ \A i \in 1..Len(left) :
                    left[i].company = later[(Len(later) - Len(left)) + i].company
  BY DEF Market!KeepsLatest
<1> HIDE DEF dropped
<1>6. dropped = Len(order) - Len(entries)
  BY DEF dropped
<1>7. ASSUME NEW k \in 1..Len(entries), entries[k].company = c, Len(all) = Len(entries),
             \A i \in 1..(Len(entries) - 1) :
               all[i] = IF i < k THEN entries[i] ELSE entries[i + 1]
      PROVE  /\ Len(left) = IF Len(later) < CacheMax THEN Len(later) ELSE CacheMax
             /\ \A i \in 1..Len(left) :
                  left[i].company = later[(Len(later) - Len(left)) + i].company
  <2>1. dropped + k \in 1..Len(order) /\ order[dropped + k].company = c
    BY <1>1, <1>2, <1>3, <1>6, <1>7
  <2>2. /\ Len(later) = Len(order)
        /\ \A i \in 1..(Len(order) - 1) :
             later[i] = IF i < dropped + k THEN order[i] ELSE order[i + 1]
    BY <2>1, <1>4 DEF Renewed, OfOneCompany
  <2>3. left = all
    BY <1>1, <1>2, <1>7
  <2>4. ASSUME NEW i \in 1..Len(entries) PROVE all[i].company = later[dropped + i].company
    <3>1. CASE i = Len(entries)
      BY <1>1, <1>4, <1>6, <1>7, <2>2, <3>1
    <3>2. CASE i # Len(entries)
      <4>1. i + 1 \in 1..Len(entries) /\ dropped + i \in 1..(Len(order) - 1)
        BY <1>1, <1>2, <1>6, <3>2
      <4>2. (dropped + i) + 1 = dropped + (i + 1) /\ (dropped + i < dropped + k <=> i < k)
        BY <1>2
      <4> QED BY <1>3, <1>7, <2>2, <3>2, <4>1, <4>2
    <3> QED BY <3>1, <3>2
  <2> QED BY <1>2, <1>6, <1>7, <2>2, <2>3, <2>4
<1>8. ASSUME \A i \in 1..Len(entries) : entries[i].company # c,
             Len(all) = Len(entries) + 1,
             \A i \in 1..Len(entries) : all[i] = entries[i],
             \A i \in 1..Len(order) : order[i].company # c,
             Len(later) = Len(order) + 1,
             \A i \in 1..Len(order) : later[i] = order[i]
      PROVE  /\ Len(left) = IF Len(later) < CacheMax THEN Len(later) ELSE CacheMax
             /\ \A i \in 1..Len(left) :
                  left[i].company = later[(Len(later) - Len(left)) + i].company
  <2>1. ASSUME NEW i \in 1..Len(all) PROVE all[i].company = later[dropped + i].company
    <3>1. CASE i = Len(all)
      BY <1>1, <1>4, <1>6, <1>8, <3>1
    <3>2. CASE i # Len(all)
      <4>1. i \in 1..Len(entries) /\ dropped + i \in 1..Len(order)
        BY <1>1, <1>2, <1>6, <1>8, <3>2
      <4> QED BY <1>3, <1>8, <4>1
    <3> QED BY <3>1, <3>2
  <2>2. CASE Len(all) > CacheMax
    <3>1. Len(left) = Len(all) - 1 /\ \A i \in 1..Len(left) : left[i] = all[i + 1]
      BY <2>2
    <3>2. Len(left) = CacheMax /\ Len(later) >= CacheMax
      BY <1>1, <1>2, <1>8, <2>2, <3>1
    <3>3. ASSUME NEW i \in 1..Len(left)
          PROVE  left[i].company = later[(Len(later) - Len(left)) + i].company
      <4>1. i + 1 \in 1..Len(all) /\ dropped + (i + 1) = (Len(later) - Len(left)) + i
        BY <1>1, <1>2, <1>6, <1>8, <3>1
      <4> QED BY <2>1, <3>1, <4>1
    <3> QED BY <3>2, <3>3, <1>1, <1>8
  <2>3. CASE ~(Len(all) > CacheMax)
    <3>1. left = all
      BY <2>3
    <3>2. Len(later) - Len(all) = dropped
      BY <1>1, <1>6, <1>8
    <3>3. Len(all) = IF Len(later) < CacheMax THEN Len(later) ELSE CacheMax
      BY <1>1, <1>2, <1>8, <2>3
    <3> QED BY <2>1, <3>1, <3>2, <3>3
  <2> QED BY <2>2, <2>3
<1>9. ASSUME \A i \in 1..Len(entries) : entries[i].company # c,
             Len(all) = Len(entries) + 1,
             \A i \in 1..Len(entries) : all[i] = entries[i],
             NEW k \in 1..Len(order), order[k].company = c, Len(later) = Len(order),
             \A i \in 1..(Len(order) - 1) :
               later[i] = IF i < k THEN order[i] ELSE order[i + 1]
      PROVE  /\ Len(left) = IF Len(later) < CacheMax THEN Len(later) ELSE CacheMax
             /\ \A i \in 1..Len(left) :
                  left[i].company = later[(Len(later) - Len(left)) + i].company
  <2>1. k <= dropped
    <3>1. SUFFICES ASSUME k > dropped PROVE FALSE
      BY <1>2
    <3>2. k - dropped \in 1..Len(entries)
      BY <1>1, <1>2, <1>6, <3>1
    <3>3. dropped + (k - dropped) = k
      BY <1>2
    <3> QED BY <1>3, <1>9, <3>2, <3>3
  <2>2. Len(entries) = CacheMax /\ Len(all) > CacheMax
    BY <1>1, <1>2, <1>6, <1>9, <2>1
  <2>3. Len(left) = Len(entries) /\ \A i \in 1..Len(left) : left[i] = all[i + 1]
    BY <2>2, <1>1, <1>9
  <2>4. ASSUME NEW i \in 1..Len(left) PROVE left[i].company = later[dropped + i].company
    <3>1. CASE i = Len(entries)
      BY SMTT(60), <1>1, <1>4, <1>6, <1>9, <2>3, <3>1
    <3>2. CASE i # Len(entries)
      <4>1. i + 1 \in 1..Len(entries) /\ i + 1 \in 1..Len(all) /\ dropped + i \in 1..(Len(order) - 1)
        BY <1>1, <1>2, <1>6, <1>9, <2>3, <3>2
      <4>2. ~(dropped + i < k) /\ (dropped + i) + 1 = dropped + (i + 1)
        BY <1>2, <2>1
      <4>3. later[dropped + i] = order[dropped + (i + 1)]
        BY <1>9, <4>1, <4>2
      <4>4. left[i] = entries[i + 1]
        BY <1>9, <2>3, <4>1
      <4> QED BY <1>3, <4>1, <4>3, <4>4
    <3> QED BY <3>1, <3>2
  <2> QED BY <1>1, <1>2, <1>6, <1>9, <2>2, <2>3, <2>4
<1>10. \/ \A i \in 1..Len(entries) : entries[i].company # c
       \/ \E i \in 1..Len(order) : order[i].company = c
  <2>1. ASSUME NEW i \in 1..Len(entries)
        PROVE  dropped + i \in 1..Len(order) /\ entries[i].company = order[dropped + i].company
    <3>1. dropped + i \in 1..Len(order)
      BY <1>1, <1>2, <1>6
    <3> QED BY <1>3, <3>1
  <2> QED BY <2>1
<1> QED BY <1>7, <1>8, <1>9 DEF Renewed

\* What a cache is when c is given or got, and the order of use.
LEMMA TouchKeeps ==
  ASSUME NEW S, NEW entries \in Seq(S), NEW T, NEW order \in Seq(T),
         Ordered(entries, order),
         NEW c, NEW e \in S, e.company = c, NEW u \in T, u.company = c
  PROVE  /\ Market!Touch(entries, c, e) \in Seq(S)
         /\ Market!Latest(order, c, u) \in Seq(T)
         /\ Ordered(Market!Touch(entries, c, e), Market!Latest(order, c, u))
<1> DEFINE all == Market!Latest(entries, c, e)
           later == Market!Latest(order, c, u)
           left == Market!Touch(entries, c, e)
<1>1. all \in Seq(S) /\ Renewed(all, entries, c)
  BY LatestIsLast
<1>2. later \in Seq(T) /\ Renewed(later, order, c)
  BY LatestIsLast
<1>3. left = IF Len(all) > CacheMax THEN Tail(all) ELSE all
  BY DEF Market!Touch
<1> HIDE DEF all, later, left
<1>4. left \in Seq(S) /\ IF Len(all) > CacheMax
                         THEN /\ Len(left) = Len(all) - 1
                              /\ \A i \in 1..Len(left) : left[i] = all[i + 1]
                         ELSE left = all
  <2>1. CASE Len(all) > CacheMax
    <3>1. all # <<>>
      BY <1>1, <2>1, ServiceAssumption
    <3> QED BY <1>1, <1>3, <2>1, <3>1, HeadTailProperties
  <2>2. CASE ~(Len(all) > CacheMax)
    BY <1>1, <1>3, <2>2
  <2> QED BY <2>1, <2>2
<1>5. Market!KeepsLatest(left, later)
  BY <1>1, <1>2, <1>4, LatestAreKept
<1>6. OfOneCompany(later)
  BY <1>2, OrderStays DEF Ordered
<1> QED BY <1>2, <1>4, <1>5, <1>6 DEF Ordered, left, later

\* What the sources may answer, and the currencies in it.
Answers ==
  (UNION {Market!Results(op, c) : op \in {"company_profile", "quote"},
                                  c \in Market!Companies}) \ {None}

Currencies ==
  {None} \cup {out.currency : out \in Answers} \cup {out.label : out \in Answers}

\* What a source answers has such a currency, and such a label if it has one.
LEMMA AnswersHaveCurrencies ==
  ASSUME NEW c \in Market!Companies, NEW op \in {"company_profile", "quote"},
         NEW out \in Market!Results(op, c), out # None
  PROVE  out.currency \in Currencies /\ out.label \in Currencies
<1> DEFINE all == {Market!Results(o, d) : o \in {"company_profile", "quote"},
                                          d \in Market!Companies}
<1>1. Market!Results(op, c) \in all
  OBVIOUS
<1> HIDE DEF all
<1>2. out \in (UNION all) \ {None}
  BY <1>1
<1>3. out \in Answers
  BY <1>2 DEF Answers, all
<1> QED BY <1>3 DEF Currencies

Entries == [company : Market!Companies, currency : Currencies, price : Currencies]

Names == [company : Market!Companies]

\* The caches have entries of companies, of those that were used last.
MarketInv ==
  /\ studies \subseteq Market!Companies
  /\ row \in [Rows -> {Market!Idle}
                      \cup [at : {"profile", "quote"}, entry : Entries]
                      \cup [at : {"shown"}, entry : Entries]]
  /\ cache \in Seq(Entries) /\ finances \in Seq(Names)
  /\ used \in [enriched : Seq(Names), financials : Seq(Names)]
  /\ Ordered(cache, used.enriched) /\ Ordered(finances, used.financials)

LEMMA MarketInit == Market!Init => MarketInv
<1>1. ASSUME Market!Init PROVE Ordered(<<>>, <<>>)
  BY ServiceAssumption DEF Ordered, OfOneCompany, Market!KeepsLatest
<1> QED BY <1>1 DEF Market!Init, MarketInv

LEMMA MarketSteps == MarketInv /\ [Market!Next]_(Market!vars) => MarketInv'
<1> SUFFICES ASSUME MarketInv, [Market!Next]_(Market!vars) PROVE MarketInv'
  OBVIOUS
<1> DEFINE Waiting == [at : {"profile", "quote"}, entry : Entries]
           Shown == [at : {"shown"}, entry : Entries]
<1>1. ASSUME NEW c \in Market!Companies, Market!Research(c) PROVE MarketInv'
  BY <1>1 DEF MarketInv, Market!Research
<1>2. ASSUME NEW p \in Rows, Market!Open(p) PROVE MarketInv'
  <2>1. PICK c \in studies :
          \/ /\ row' = [row EXCEPT ![p] = [at |-> "profile", entry |-> Market!Entry(c)]]
             /\ UNCHANGED <<cache, used>>
          \/ /\ Market!Cached(cache, c) # {}
             /\ row' = [row EXCEPT ![p] = [at |-> "shown", entry |-> cache[Market!Place(cache, c)]]]
             /\ cache' = Market!Touch(cache, c, cache[Market!Place(cache, c)])
             /\ Market!Use("enriched", c)
    BY <1>2 DEF Market!Open
  <2>2. c \in Market!Companies
    BY DEF MarketInv
  <2>3. UNCHANGED <<studies, finances>>
    BY <1>2 DEF Market!Open
  <2>4. CASE /\ row' = [row EXCEPT ![p] = [at |-> "profile", entry |-> Market!Entry(c)]]
             /\ UNCHANGED <<cache, used>>
    <3>1. Market!Entry(c) \in Entries
      BY <2>2 DEF Market!Entry, Entries, Currencies
    <3>2. [at |-> "profile", entry |-> Market!Entry(c)] \in Waiting
      BY <3>1
    <3> HIDE DEF Waiting
    <3>3. row' \in [Rows -> {Market!Idle} \cup Waiting \cup Shown]
      BY <2>4, <3>2 DEF MarketInv, Waiting
    <3> QED BY <2>3, <2>4, <3>3 DEF MarketInv, Waiting
  <2>5. CASE /\ Market!Cached(cache, c) # {}
             /\ row' = [row EXCEPT ![p] = [at |-> "shown", entry |-> cache[Market!Place(cache, c)]]]
             /\ cache' = Market!Touch(cache, c, cache[Market!Place(cache, c)])
             /\ Market!Use("enriched", c)
    <3> DEFINE e == cache[Market!Place(cache, c)]
    <3>1. e \in Entries /\ e.company = c
      BY <2>5 DEF Market!Place, Market!Cached, MarketInv
    <3> HIDE DEF e
    <3>2. row' \in [Rows -> {Market!Idle} \cup Waiting \cup Shown]
      BY <2>5, <3>1 DEF MarketInv, e
    <3> DEFINE u == [company |-> c]
               later == Market!Latest(used.enriched, c, u)
    <3>3. u \in Names /\ u.company = c
      BY <2>2 DEF Names
    <3>4. used' = [used EXCEPT !.enriched = later]
      BY <2>5 DEF Market!Use
    <3> HIDE DEF u
    <3>5. cache' \in Seq(Entries) /\ later \in Seq(Names) /\ Ordered(cache', later)
      BY <2>5, <3>1, <3>3, TouchKeeps DEF MarketInv, e
    <3> HIDE DEF later
    <3>6. /\ used' \in [enriched : Seq(Names), financials : Seq(Names)]
          /\ used'.enriched = later /\ used'.financials = used.financials
      BY <3>4, <3>5 DEF MarketInv
    <3> HIDE DEF Waiting, Shown
    <3> QED BY <2>3, <3>2, <3>5, <3>6 DEF MarketInv, Waiting, Shown
  <2> QED BY <2>1, <2>4, <2>5
<1>3. ASSUME NEW p \in Rows, Market!ReadProfile(p) PROVE MarketInv'
  <2>1. row[p] \in Waiting
    BY <1>3 DEF MarketInv, Market!ReadProfile, Market!Idle
  <2>2. PICK out \in Market!Results("company_profile", row[p].entry.company) :
          row' = [row EXCEPT ![p] = [at |-> "quote", entry |-> Market!Described(row[p].entry, out)]]
    BY <1>3 DEF Market!ReadProfile
  <2>3. row[p].entry \in Entries
    BY <2>1
  <2> DEFINE e == Market!Described(row[p].entry, out)
  <2>4. e \in Entries
    <3>1. CASE out = None
      BY <2>3, <3>1 DEF Market!Described
    <3>2. CASE out # None
      <4>1. out.currency \in Currencies
        BY <2>2, <2>3, <3>2, AnswersHaveCurrencies DEF Entries
      <4>2. e = [row[p].entry EXCEPT !.currency = out.currency]
        BY <3>2 DEF Market!Described
      <4> HIDE DEF e
      <4> QED BY <2>3, <4>1, <4>2 DEF Entries
    <3> QED BY <3>1, <3>2
  <2> HIDE DEF e
  <2>5. [at |-> "quote", entry |-> e] \in Waiting
    BY <2>4
  <2>6. row' = [row EXCEPT ![p] = [at |-> "quote", entry |-> e]]
    BY <2>2 DEF e
  <2>7. row' \in [Rows -> {Market!Idle} \cup Waiting \cup Shown]
    BY <2>5, <2>6 DEF MarketInv
  <2> HIDE DEF Waiting, Shown
  <2> QED BY <1>3, <2>7 DEF MarketInv, Market!ReadProfile, Waiting, Shown
<1>4. ASSUME NEW p \in Rows, Market!ReadQuote(p) PROVE MarketInv'
  <2>1. row[p] \in Waiting
    BY <1>4 DEF MarketInv, Market!ReadQuote, Market!Idle
  <2> DEFINE c == row[p].entry.company
  <2>2. PICK out \in Market!Results("quote", c) :
          /\ row' = [row EXCEPT ![p] = [at |-> "shown", entry |-> Market!Priced(row[p].entry, out)]]
          /\ cache' = Market!Touch(cache, c, Market!Priced(row[p].entry, out))
          /\ Market!Use("enriched", c)
    BY <1>4 DEF Market!ReadQuote
  <2> DEFINE e == Market!Priced(row[p].entry, out)
  <2>3. row[p].entry \in Entries /\ c \in Market!Companies
    BY <2>1 DEF Entries
  <2>4. e \in Entries /\ e.company = c
    <3>1. CASE out = None
      BY <2>3, <3>1 DEF Market!Priced
    <3>2. CASE out # None
      <4>1. out.currency \in Currencies /\ out.label \in Currencies
        BY <2>2, <2>3, <3>2, AnswersHaveCurrencies
      <4>2. e = [row[p].entry EXCEPT !.price = out.currency, !.currency = out.label]
        BY <3>2 DEF Market!Priced
      <4> HIDE DEF e
      <4> QED BY <2>3, <4>1, <4>2 DEF Entries
    <3> QED BY <3>1, <3>2
  <2> HIDE DEF e
  <2>5. row' \in [Rows -> {Market!Idle} \cup Waiting \cup Shown]
    BY <2>2, <2>4 DEF MarketInv, e
  <2> DEFINE u == [company |-> c]
             later == Market!Latest(used.enriched, c, u)
  <2>6. u \in Names /\ u.company = c
    BY <2>3 DEF Names
  <2>7. used' = [used EXCEPT !.enriched = later]
    BY <2>2 DEF Market!Use
  <2> HIDE DEF u
  <2>8. cache' \in Seq(Entries) /\ later \in Seq(Names) /\ Ordered(cache', later)
    <3>1. cache' = Market!Touch(cache, c, e)
      BY <2>2 DEF e
    <3> HIDE DEF c
    <3> QED BY <2>4, <2>6, <3>1, TouchKeeps DEF MarketInv
  <2> HIDE DEF later
  <2>9. /\ used' \in [enriched : Seq(Names), financials : Seq(Names)]
        /\ used'.enriched = later /\ used'.financials = used.financials
    BY <2>7, <2>8 DEF MarketInv
  <2>10. UNCHANGED <<studies, finances>>
    BY <1>4 DEF Market!ReadQuote
  <2> HIDE DEF Waiting, Shown
  <2> QED BY <2>5, <2>8, <2>9, <2>10 DEF MarketInv, Waiting, Shown
<1>5. ASSUME NEW p \in Rows, Market!ReadFinancials(p) PROVE MarketInv'
  <2>1. row[p] \in Shown
    BY <1>5 DEF MarketInv, Market!ReadFinancials, Market!Idle
  <2> DEFINE c == row[p].entry.company
             u == [company |-> c]
             later == Market!Latest(used.financials, c, u)
  <2>2. c \in Market!Companies
    BY <2>1 DEF Entries
  <2>3. /\ row' = [row EXCEPT ![p] = Market!Idle]
        /\ UNCHANGED <<studies, cache>>
        /\ \/ UNCHANGED <<finances, used>>
           \/ /\ finances' = Market!Touch(finances, c, u)
              /\ used' = [used EXCEPT !.financials = later]
    BY <1>5 DEF Market!ReadFinancials, Market!Use
  <2>4. u \in Names /\ u.company = c
    BY <2>2 DEF Names
  <2> HIDE DEF c, u
  <2>5. row' \in [Rows -> {Market!Idle} \cup Waiting \cup Shown]
    BY <2>3 DEF MarketInv
  <2>6. /\ Market!Touch(finances, c, u) \in Seq(Names) /\ later \in Seq(Names)
        /\ Ordered(Market!Touch(finances, c, u), later)
    BY <2>4, TouchKeeps DEF MarketInv
  <2> HIDE DEF later
  <2>7. CASE used' = [used EXCEPT !.financials = later]
    <3>1. /\ used' \in [enriched : Seq(Names), financials : Seq(Names)]
          /\ used'.financials = later /\ used'.enriched = used.enriched
      BY <2>6, <2>7 DEF MarketInv
    <3> HIDE DEF Waiting, Shown
    <3> QED BY <2>3, <2>5, <2>6, <3>1 DEF MarketInv, Waiting, Shown
  <2>8. CASE UNCHANGED <<finances, used>>
    <3> HIDE DEF Waiting, Shown
    <3> QED BY <2>3, <2>5, <2>8 DEF MarketInv, Waiting, Shown
  <2> QED BY <2>3, <2>7, <2>8
<1>6. CASE UNCHANGED Market!vars
  BY <1>6 DEF Market!vars, MarketInv
<1> QED BY <1>1, <1>2, <1>3, <1>4, <1>5, <1>6 DEF Market!Next

\* However the rows of pages overlap, a cache has the companies used last, each
\* once, as many as it may (_enrich, get).
THEOREM CachesKeepTheLatest == Spec => []CacheKeepsTheLatest
<1>1. MarketInv => Market!CacheKeepsTheLatest
  BY DEF MarketInv, Ordered, Market!CacheKeepsTheLatest
<1> QED BY <1>1, MarketInit, MarketSteps, CompanySteps, PTL DEF Spec

-----------------------------------------------------------------------------
(* Chats *)

\* This part of the service is an instance of its module.
LEMMA ChatSteps ==
  /\ Init => Chat!Init
  /\ [Next]_vars => [Chat!Next]_(Chat!vars)
  /\ Chat!TurnIsStored => TurnIsStored
BY DEF TurnIsStored, Init, Next, vars, chatVars, Chat!vars

\* What a session stores, and what a chat is given of it.
Stored == [chat : Chats \cup {None}, role : {"user", "assistant"}, size : Sizes]
Given == [chat : Chats \cup {None}, role : {"user", "assistant", "system"}, size : Sizes]

\* Where a chat is and what its thread does: a call that is awaited has not been
\* given up, and one that was given up has not returned.
Waits(a, t, s, size) ==
  /\ a \in Chat!Calls \cup {"new", "graph", "completed", "failed", "aborted"}
  /\ s \in Sessions \cup {None} /\ size \in Sizes \cup {None}
  /\ \/ t = Chat!NoThread /\ a \notin Chat!Calls
     \/ /\ t.call \in Chat!Calls /\ t.is \in {"called", "done", "raised"}
        /\ a = t.call \/ (a = "aborted" /\ t.is = "called")
        /\ t.call \in {"history", "user", "assistant"} => s # None
        /\ t.call \in {"user", "assistant"} => size # None
  /\ a = "new" => s = None

Threads == [call : Chat!Calls \cup {None}, is : {"over", "called", "done", "raised"}]

ChatTypes ==
  /\ messages \in [Sessions -> Seq(Stored)]
  /\ DOMAIN at = Chats /\ DOMAIN session = Chats /\ DOMAIN answer = Chats
  /\ thread \in [Chats -> Threads]
  /\ \A c \in Chats : Waits(at[c], thread[c], session[c], answer[c])

\* What a step of chat c is: nothing to the coroutine and the thread of another.
StepOf(c) ==
  /\ messages' \in [Sessions -> Seq(Stored)]
  /\ DOMAIN at' = Chats /\ DOMAIN session' = Chats /\ DOMAIN answer' = Chats
  /\ thread' \in [Chats -> Threads]
  /\ \A d \in Chats \ {c} :
       /\ at'[d] = at[d] /\ thread'[d] = thread[d]
       /\ session'[d] = session[d] /\ answer'[d] = answer[d]
  /\ Waits(at'[c], thread'[c], session'[c], answer'[c])

LEMMA ChatInit == Chat!Init => ChatTypes
<1> SUFFICES ASSUME Chat!Init PROVE ChatTypes
  OBVIOUS
<1>1. Chat!EarlierTurns \subseteq Seq(Stored)
  <2>1. ASSUME NEW m \in Sizes, NEW n \in Sizes
        PROVE <<Chat!Message(None, "user", m), Chat!Message(None, "assistant", n)>> \in Seq(Stored)
    BY DEF Chat!Message, Stored
  <2>2. ASSUME NEW x \in Chat!EarlierTurns, x # <<>> PROVE x \in Seq(Stored)
    <3>1. PICK m \in Sizes, n \in Sizes :
            x = <<Chat!Message(None, "user", m), Chat!Message(None, "assistant", n)>>
      BY <2>2 DEF Chat!EarlierTurns
    <3> QED BY <2>1, <3>1
  <2>3. <<>> \in Seq(Stored)
    OBVIOUS
  <2> QED BY <2>2, <2>3
<1>2. messages \in [Sessions -> Seq(Stored)]
  <2>1. Chat!SessionMemory \subseteq Seq(Stored)
    BY <1>1, <<>> \in Seq(Stored) DEF Chat!SessionMemory
  <2> QED BY <2>1 DEF Chat!Init
<1> QED BY <1>2 DEF Chat!Init, ChatTypes, Threads, Waits, Chat!NoThread, Chat!Calls

LEMMA ChatStepOf ==
  ASSUME ChatTypes, NEW c \in Chats, Chat!Step(c)
  PROVE  StepOf(c)
<1> USE DEF ChatTypes, Threads
<1>0. Waits(at[c], thread[c], session[c], answer[c]) /\ thread[c] \in Threads
  OBVIOUS
<1> USE DEF Chat!Calls, Chat!NoThread
<1>1. CASE Chat!Start(c)
  <2>1. PICK s \in Sessions \cup {None} :
          /\ session' = [session EXCEPT ![c] = s]
          /\ IF s = None THEN Chat!Continue(c, "graph") ELSE Chat!Await(c, "history")
    BY <1>1 DEF Chat!Start
  <2>2. UNCHANGED <<messages, answer>>
    BY <1>1 DEF Chat!Start
  <2>3. CASE s = None
    BY <1>0, <2>1, <2>2, <2>3 DEF Chat!Continue, StepOf, Waits
  <2>4. CASE s # None
    BY <1>0, <2>1, <2>2, <2>4 DEF Chat!Await, StepOf, Waits
  <2> QED BY <2>3, <2>4
<1>2. CASE Chat!Think(c)
  <2>1. CASE Chat!Continue(c, "failed") /\ UNCHANGED answer
    BY <1>0, <1>2, <2>1 DEF Chat!Think, Chat!Continue, StepOf, Waits
  <2>2. ASSUME NEW n \in Sizes, answer' = [answer EXCEPT ![c] = n],
               Chat!Await(c, IF session[c] = None THEN "audit" ELSE "user")
        PROVE  StepOf(c)
    <3>1. n # None
      BY SettingsAssumption
    <3> QED BY <1>0, <1>2, <2>2, <3>1 DEF Chat!Think, Chat!Await, StepOf, Waits
  <2> QED BY <1>2, <2>1, <2>2 DEF Chat!Think
<1>3. CASE Chat!Proceed(c)
  <2>0. /\ thread[c].is = "done" /\ at[c] = thread[c].call
        /\ UNCHANGED <<messages, session, answer>>
    BY <1>3 DEF Chat!Proceed
  <2>1. ASSUME NEW next \in {"graph", "completed"}, Chat!Continue(c, next)
        PROVE  StepOf(c)
    BY <1>0, <2>0, <2>1 DEF Chat!Continue, StepOf, Waits
  <2>2. ASSUME NEW call \in {"assistant", "audit", "verify"}, Chat!Await(c, call),
               call = "assistant" => at[c] = "user"
        PROVE  StepOf(c)
    BY <1>0, <2>0, <2>2 DEF Chat!Await, StepOf, Waits
  <2>3. DOMAIN at' = Chats /\ thread' \in [Chats -> Threads]
    BY <1>3 DEF Chat!Proceed, Chat!Await, Chat!Continue
  <2>4. \/ \E next \in {"graph", "completed"} : Chat!Continue(c, next)
        \/ \E call \in {"assistant", "audit", "verify"} :
             Chat!Await(c, call) /\ (call = "assistant" => at[c] = "user")
    BY <1>3 DEF Chat!Proceed
  <2> QED BY <2>0, <2>1, <2>2, <2>3, <2>4
<1>4. CASE Chat!Raise(c)
  BY <1>0, <1>4 DEF Chat!Raise, Chat!Continue, StepOf, Waits
<1>5. CASE Chat!Cancel(c)
  BY <1>0, <1>5 DEF Chat!Cancel, StepOf, Waits
<1>6. CASE Chat!ReadHistory(c)
  BY <1>0, <1>6 DEF Chat!ReadHistory, Chat!Returns, Chat!Finish, StepOf, Waits
<1>7. ASSUME NEW role \in {"user", "assistant"}, NEW n \in Sizes,
             Chat!Returns(c, role), Chat!Store(c, role, n)
      PROVE  StepOf(c)
  <2>1. Chat!Message(c, role, n) \in Stored
    BY DEF Chat!Message, Stored
  <2>2. messages' \in [Sessions -> Seq(Stored)]
    <3>1. session[c] \in Sessions
      BY <1>0, <1>7 DEF Chat!Returns, Waits
    <3>2. messages[session[c]] \in Seq(Stored)
      BY <3>1
    <3>3. Append(messages[session[c]], Chat!Message(c, role, n)) \in Seq(Stored)
      BY <2>1, <3>2
    <3> QED BY <1>7, <3>3 DEF Chat!Store
  <2>3. \E how \in {"done", "raised"} : Chat!Finish(c, how)
    BY <1>7 DEF Chat!Store
  <2>4. UNCHANGED <<at, session, history, answer>>
    BY <1>7 DEF Chat!Store
  <2> QED BY <1>0, <1>7, <2>2, <2>3, <2>4 DEF Chat!Returns, Chat!Finish, StepOf, Waits
<1>8. CASE Chat!StoreUser(c)
  BY <1>7, <1>8 DEF Chat!StoreUser
<1>9. CASE Chat!StoreAssistant(c)
  <2>1. answer[c] \in Sizes
    BY <1>0, <1>9 DEF Chat!StoreAssistant, Chat!Returns, Waits
  <2> QED BY <1>7, <1>9, <2>1 DEF Chat!StoreAssistant
<1>10. ASSUME NEW call \in {"audit", "verify"}, Chat!Record(c, call)
       PROVE  StepOf(c)
  <2>1. \E how \in {"done", "raised"} : Chat!Finish(c, how)
    BY <1>10 DEF Chat!Record
  <2>2. thread[c] = [call |-> call, is |-> "called"]
    BY <1>10 DEF Chat!Record, Chat!Returns
  <2>3. UNCHANGED <<messages, at, session, history, answer>>
    BY <1>10 DEF Chat!Record
  <2> QED BY <1>0, <2>1, <2>2, <2>3 DEF Chat!Finish, StepOf, Waits
<1> QED BY <1>1, <1>2, <1>3, <1>4, <1>5, <1>6, <1>8, <1>9, <1>10 DEF Chat!Step

LEMMA ChatTyped ==
  ASSUME ChatTypes, [Chat!Next]_(Chat!vars)
  PROVE  ChatTypes'
<1>1. CASE UNCHANGED Chat!vars
  BY <1>1 DEF Chat!vars, ChatTypes
<1>2. ASSUME NEW c \in Chats, Chat!Step(c) PROVE ChatTypes'
  BY <1>2, ChatStepOf DEF StepOf, ChatTypes
<1> QED BY <1>1, <1>2 DEF Chat!Next

\* What chat c has among some messages, by their places.
Among(ms, c) == [i \in {j \in 1..Len(ms) : ms[j].chat = c} |-> ms[i]]

\* f is what chat c stored, while it is at a, its thread at t, and its answer has
\* this size: nothing before it asks, the question when it stores the answer, both
\* from then on.
Turn(f, a, t, s, size) ==
  /\ \A i \in DOMAIN f :
       \/ f[i].role = "user"
       \/ f[i].role = "assistant" /\ \E q \in DOMAIN f : q < i /\ f[q].role = "user"
  /\ \A i, j \in DOMAIN f : f[i].role = f[j].role => i = j
  /\ a \in {"new", "history", "graph"} \/ (t.call = "user" /\ t.is = "called") => DOMAIN f = {}
  /\ (t.call = "user" /\ t.is = "done") \/ (t.call = "assistant" /\ t.is = "called") =>
       DOMAIN f # {} /\ \A i \in DOMAIN f : f[i].role = "user"
  /\ s # None /\ ((t.call = "assistant" /\ t.is = "done") \/ a \in {"audit", "verify", "completed"}) =>
       \E i \in DOMAIN f : f[i].role = "assistant" /\ f[i].size = size

\* The messages of the session that chat c names.
SessionOf(c) == IF session[c] = None THEN <<>> ELSE messages[session[c]]

\* A chat stores in the session it names only, and there what its turn is.
TurnInv ==
  /\ \A c \in Chats : Turn(Among(SessionOf(c), c), at[c], thread[c], session[c], answer[c])
  /\ \A s \in Sessions, c \in Chats :
       DOMAIN Among(messages[s], c) # {} => s = session[c]

LEMMA TurnVouches == ChatTypes /\ TurnInv => Chat!TurnIsStored
<1> SUFFICES ASSUME ChatTypes, TurnInv, NEW c \in Chats
             PROVE  /\ \A i \in Chat!StoredOf(c) :
                         \/ Chat!StoredAs(c, i, "user")
                         \/ /\ Chat!StoredAs(c, i, "assistant")
                            /\ \E q \in Chat!StoredOf(c) : q < i /\ Chat!StoredAs(c, q, "user")
                    /\ \A i, j \in Chat!StoredOf(c) :
                         messages[session[c]][i].role = messages[session[c]][j].role => i = j
                    /\ at[c] = "completed" /\ session[c] # None =>
                         \E i \in Chat!StoredOf(c) :
                           /\ Chat!StoredAs(c, i, "assistant")
                           /\ messages[session[c]][i].size = answer[c]
  BY DEF Chat!TurnIsStored
<1> DEFINE f == Among(SessionOf(c), c)
<1>1. Chat!StoredOf(c) = DOMAIN f
  BY DEF Chat!StoredOf, Among, SessionOf, ChatTypes, Waits
<1>2. \A i \in DOMAIN f : f[i] = messages[session[c]][i]
  BY DEF Among, SessionOf
<1>3. Turn(f, at[c], thread[c], session[c], answer[c])
  BY DEF TurnInv
<1> HIDE DEF f
<1> QED BY <1>1, <1>2, <1>3 DEF Turn, Chat!StoredAs

LEMMA TurnInit == Chat!Init => TurnInv
<1> SUFFICES ASSUME Chat!Init PROVE TurnInv
  OBVIOUS
<1>1. ASSUME NEW s \in Sessions, NEW c \in Chats PROVE DOMAIN Among(messages[s], c) = {}
  <2>1. messages[s] \in Chat!SessionMemory
    BY DEF Chat!Init
  <2>2. messages[s] = <<>> \/ \E m, n \in Sizes :
          messages[s] = <<Chat!Message(None, "user", m), Chat!Message(None, "assistant", n)>>
    BY <2>1 DEF Chat!SessionMemory, Chat!EarlierTurns
  <2>3. \A i \in 1..Len(messages[s]) : messages[s][i].chat = None
    <3>1. ASSUME NEW m, NEW n,
                 messages[s] = <<Chat!Message(None, "user", m), Chat!Message(None, "assistant", n)>>
          PROVE  \A i \in 1..Len(messages[s]) : messages[s][i].chat = None
      <4>1. Len(messages[s]) = 2 /\ messages[s][1].chat = None /\ messages[s][2].chat = None
        BY <3>1 DEF Chat!Message
      <4> QED BY <4>1
    <3>2. messages[s] = <<>> => Len(messages[s]) = 0
      OBVIOUS
    <3> QED BY <2>2, <3>1, <3>2
  <2> QED BY <2>3, ServiceAssumption DEF Among
<1>2. ASSUME NEW c \in Chats PROVE DOMAIN Among(SessionOf(c), c) = {}
  BY DEF Among, SessionOf, Chat!Init
<1>3. ASSUME NEW c \in Chats
      PROVE  Turn(Among(SessionOf(c), c), at[c], thread[c], session[c], answer[c])
  <2> DEFINE f == Among(SessionOf(c), c)
  <2>1. DOMAIN f = {}
    BY <1>2
  <2> HIDE DEF f
  <2>2. at[c] = "new" /\ session[c] = None /\ thread[c] = Chat!NoThread
    BY DEF Chat!Init
  <2>3. Turn(f, at[c], thread[c], session[c], answer[c])
    BY <2>1, <2>2 DEF Turn, Chat!NoThread
  <2> QED BY <2>3 DEF f
<1> QED BY <1>1, <1>3 DEF TurnInv

\* A message that is appended is its chat's newest, and no other chat's.
LEMMA OneMoreMessage ==
  ASSUME NEW ms \in Seq(Stored), NEW m \in Stored, NEW c
  PROVE  /\ m.chat # c => Among(Append(ms, m), c) = Among(ms, c)
         /\ m.chat = c =>
              Among(Append(ms, m), c) =
                [i \in DOMAIN Among(ms, c) \cup {Len(ms) + 1} |->
                   IF i = Len(ms) + 1 THEN m ELSE Among(ms, c)[i]]
         /\ \A i \in DOMAIN Among(ms, c) : i < Len(ms) + 1
<1> DEFINE all == Append(ms, m)
<1>1. /\ Len(all) = Len(ms) + 1 /\ all[Len(ms) + 1] = m
      /\ \A i \in 1..Len(ms) : all[i] = ms[i]
  BY AppendProperties
<1>2. Len(ms) \in Nat
  OBVIOUS
<1> HIDE DEF all
<1>3. ASSUME m.chat # c PROVE Among(all, c) = Among(ms, c)
  <2>1. {j \in 1..Len(all) : all[j].chat = c} = {j \in 1..Len(ms) : ms[j].chat = c}
    BY <1>1, <1>2, <1>3
  <2>2. \A i \in {j \in 1..Len(ms) : ms[j].chat = c} : all[i] = ms[i]
    BY <1>1
  <2> QED BY <2>1, <2>2 DEF Among
<1>4. ASSUME m.chat = c
      PROVE  Among(all, c) =
                [i \in DOMAIN Among(ms, c) \cup {Len(ms) + 1} |->
                   IF i = Len(ms) + 1 THEN m ELSE Among(ms, c)[i]]
  <2>1. {j \in 1..Len(all) : all[j].chat = c} = {j \in 1..Len(ms) : ms[j].chat = c} \cup {Len(ms) + 1}
    BY <1>1, <1>2, <1>4
  <2>2. \A i \in {j \in 1..Len(ms) : ms[j].chat = c} : all[i] = ms[i] /\ i # Len(ms) + 1
    BY <1>1, <1>2
  <2> QED BY <1>1, <2>1, <2>2 DEF Among
<1>5. \A i \in DOMAIN Among(ms, c) : i < Len(ms) + 1
  BY <1>2 DEF Among
<1> QED BY <1>3, <1>4, <1>5 DEF all

\* A step that stores nothing and names no session.
LEMMA TurnGoesOn ==
  ASSUME ChatTypes, TurnInv, NEW c \in Chats, StepOf(c), UNCHANGED <<messages, session>>,
         ASSUME NEW f, Turn(f, at[c], thread[c], session[c], answer[c])
         PROVE  Turn(f, at'[c], thread'[c], session[c], answer'[c])
  PROVE  TurnInv'
<1>1. ASSUME NEW d \in Chats PROVE Among(SessionOf(d), d)' = Among(SessionOf(d), d)
  BY DEF Among, SessionOf
<1>2. ASSUME NEW d \in Chats
      PROVE  Turn(Among(SessionOf(d), d)', at'[d], thread'[d], session'[d], answer'[d])
  <2>1. Turn(Among(SessionOf(d), d), at[d], thread[d], session[d], answer[d])
    BY DEF TurnInv
  <2> DEFINE f == Among(SessionOf(d), d)
  <2>2. f' = f
    BY <1>1
  <2> HIDE DEF f
  <2>3. CASE d = c
    <3>1. Turn(f, at'[c], thread'[c], session[c], answer'[c])
      BY <2>1, <2>3 DEF f
    <3> QED BY <2>2, <2>3, <3>1 DEF f
  <2>4. CASE d # c
    BY <2>1, <2>2, <2>4 DEF f, StepOf
  <2> QED BY <2>3, <2>4
<1>3. \A s \in Sessions, d \in Chats : DOMAIN Among(messages[s], d)' # {} => s = session'[d]
  BY DEF TurnInv, Among
<1> QED BY <1>2, <1>3 DEF TurnInv

LEMMA TurnSteps == ChatTypes /\ TurnInv /\ [Chat!Next]_(Chat!vars) => TurnInv'
<1> USE DEF Threads
<1> SUFFICES ASSUME ChatTypes, TurnInv, [Chat!Next]_(Chat!vars) PROVE TurnInv'
  OBVIOUS
<1>1. CASE UNCHANGED Chat!vars
  BY <1>1 DEF Chat!vars, TurnInv, Among, SessionOf
<1>2. ASSUME NEW c \in Chats, Chat!Step(c) PROVE TurnInv'
  <2>0. /\ Waits(at[c], thread[c], session[c], answer[c]) /\ StepOf(c)
        /\ thread[c] \in Threads
        /\ DOMAIN at = Chats /\ DOMAIN thread = Chats /\ DOMAIN session = Chats /\ DOMAIN answer = Chats
    BY <1>2, ChatStepOf DEF ChatTypes
  <2>1. CASE Chat!Start(c)
    <3>1. \A s \in Sessions : DOMAIN Among(messages[s], c) = {}
      <4>1. at[c] = "new"
        BY <2>1 DEF Chat!Start
      <4>2. session[c] \notin Sessions
        BY <2>0, <4>1, ServiceAssumption DEF Waits
      <4> QED BY <4>2 DEF TurnInv
    <3>2. /\ messages' = messages /\ answer' = answer
          /\ at'[c] \in {"graph", "history"} 
          /\ thread'[c] = Chat!NoThread \/ thread'[c].call = "history"
          /\ session'[c] \in Sessions \cup {None}
      BY <2>0, <2>1 DEF Chat!Start, Chat!Continue, Chat!Await, Chat!NoThread
    <3>3. \A d \in Chats \ {c} : Among(SessionOf(d), d)' = Among(SessionOf(d), d)
      BY <2>0, <3>2 DEF StepOf, Among, SessionOf
    <3>4. DOMAIN Among(SessionOf(c), c)' = {}
      <4>1. CASE session'[c] = None
        BY <4>1 DEF Among, SessionOf
      <4>2. CASE session'[c] # None
        <5>1. SessionOf(c)' = messages[session'[c]] /\ session'[c] \in Sessions
          BY <3>2, <4>2 DEF SessionOf
        <5> QED BY <3>1, <5>1 DEF Among
      <4> QED BY <4>1, <4>2
    <3>5. Turn(Among(SessionOf(c), c)', at'[c], thread'[c], session'[c], answer'[c])
      BY <3>2, <3>4 DEF Turn, Chat!NoThread
    <3>6. ASSUME NEW d \in Chats \ {c}
          PROVE  Turn(Among(SessionOf(d), d)', at'[d], thread'[d], session'[d], answer'[d])
      <4>1. Turn(Among(SessionOf(d), d), at[d], thread[d], session[d], answer[d])
        BY DEF TurnInv
      <4>2. at'[d] = at[d] /\ thread'[d] = thread[d] /\ session'[d] = session[d] /\ answer'[d] = answer[d]
        BY <2>0 DEF StepOf
      <4>3. Among(SessionOf(d), d)' = Among(SessionOf(d), d)
        BY <3>3
      <4> QED BY ONLY <4>1, <4>2, <4>3
    <3>7. \A s \in Sessions, d \in Chats : DOMAIN Among(messages[s], d)' # {} => s = session'[d]
      BY <2>0, <3>1, <3>2 DEF StepOf, TurnInv, Among
    <3> QED BY <3>5, <3>6, <3>7 DEF TurnInv
  <2>2. CASE Chat!Think(c)
    <3>1. ASSUME NEW f, Turn(f, at[c], thread[c], session[c], answer[c])
          PROVE  Turn(f, at'[c], thread'[c], session[c], answer'[c])
      <4>1. DOMAIN f = {}
        BY <2>2, <3>1 DEF Turn, Chat!Think
      <4>2. \/ at'[c] = "failed" /\ thread'[c] = Chat!NoThread
            \/ at'[c] = "audit" /\ session[c] = None /\ thread'[c].call = "audit"
            \/ at'[c] = "user" /\ thread'[c] = [call |-> "user", is |-> "called"]
        BY <2>0, <2>2 DEF Chat!Think, Chat!Continue, Chat!Await
      <4> QED BY <4>1, <4>2 DEF Turn, Chat!NoThread
    <3>2. UNCHANGED <<messages, session>>
      BY <2>2 DEF Chat!Think
    <3> QED BY <2>0, <3>1, <3>2, TurnGoesOn
  <2>3. CASE Chat!Proceed(c)
    <3>1. ASSUME NEW f, Turn(f, at[c], thread[c], session[c], answer[c])
          PROVE  Turn(f, at'[c], thread'[c], session[c], answer'[c])
      <4>1. /\ answer'[c] = answer[c] /\ thread[c].is = "done" /\ thread[c].call = at[c]
            /\ \/ at[c] = "history" /\ at'[c] = "graph" /\ thread'[c] = Chat!NoThread
               \/ at[c] = "user" /\ at'[c] = "assistant"
                  /\ thread'[c] = [call |-> "assistant", is |-> "called"]
               \/ at[c] = "assistant" /\ at'[c] = "audit"
                  /\ thread'[c] = [call |-> "audit", is |-> "called"]
               \/ at[c] = "audit" /\ at'[c] = "verify"
                  /\ thread'[c] = [call |-> "verify", is |-> "called"]
               \/ at[c] = "verify" /\ at'[c] = "completed" /\ thread'[c] = Chat!NoThread
        BY <2>0, <2>3 DEF Chat!Proceed, Chat!Continue, Chat!Await
      <4> QED BY <3>1, <4>1 DEF Turn, Chat!NoThread
    <3>2. UNCHANGED <<messages, session>>
      BY <2>3 DEF Chat!Proceed
    <3> QED BY <2>0, <3>1, <3>2, TurnGoesOn
  <2>4. CASE Chat!Raise(c) \/ Chat!Cancel(c)
    <3>1. ASSUME NEW f, Turn(f, at[c], thread[c], session[c], answer[c])
          PROVE  Turn(f, at'[c], thread'[c], session[c], answer'[c])
      <4>1. /\ at'[c] \in {"failed", "aborted"} /\ answer'[c] = answer[c]
            /\ thread'[c] \in {Chat!NoThread, thread[c]}
            /\ thread'[c] = thread[c] => thread[c].is \in {"over", "called"}
        BY <2>0, <2>4 DEF Chat!Raise, Chat!Cancel, Chat!Continue, Chat!NoThread
      <4> QED BY <3>1, <4>1 DEF Turn, Chat!NoThread
    <3>2. UNCHANGED <<messages, session>>
      BY <2>4 DEF Chat!Raise, Chat!Cancel
    <3> QED BY <2>0, <3>1, <3>2, TurnGoesOn
  <2>5. CASE Chat!ReadHistory(c) \/ \E call \in {"audit", "verify"} : Chat!Record(c, call)
    <3>1. ASSUME NEW f, Turn(f, at[c], thread[c], session[c], answer[c])
          PROVE  Turn(f, at'[c], thread'[c], session[c], answer'[c])
      <4>1. /\ at'[c] = at[c] /\ answer'[c] = answer[c]
            /\ thread'[c] = Chat!NoThread \/ thread'[c].call \in {"history", "audit", "verify"}
        BY <2>0, <2>5 DEF Chat!ReadHistory, Chat!Record, Chat!Returns, Chat!Finish, Chat!NoThread
      <4> QED BY <3>1, <4>1 DEF Turn, Chat!NoThread
    <3>2. UNCHANGED <<messages, session>>
      BY <2>5 DEF Chat!ReadHistory, Chat!Record
    <3> QED BY <2>0, <3>1, <3>2, TurnGoesOn
  <2>6. ASSUME NEW role \in {"user", "assistant"}, NEW n \in Sizes,
               Chat!Returns(c, role), Chat!Store(c, role, n), role = "assistant" => n = answer[c]
        PROVE  TurnInv'
    <3>1. CASE ~Chat!CanAppend
      <4>1. ASSUME NEW f, Turn(f, at[c], thread[c], session[c], answer[c])
            PROVE  Turn(f, at'[c], thread'[c], session[c], answer'[c])
        <5>1. /\ at'[c] = at[c] /\ answer'[c] = answer[c]
              /\ thread'[c] = Chat!NoThread \/ thread'[c] = [thread[c] EXCEPT !.is = "raised"]
              /\ thread[c] = [call |-> role, is |-> "called"]
          BY <2>0, <2>6, <3>1 DEF Chat!Store, Chat!Returns, Chat!Finish, Chat!NoThread
        <5>2. at[c] # "new" /\ at[c] # "history" /\ at[c] # "graph"
          BY <2>0, <5>1 DEF Waits, Chat!NoThread
        <5> QED BY <4>1, <5>1, <5>2 DEF Turn, Chat!NoThread
      <4>2. UNCHANGED <<messages, session>>
        BY <2>6, <3>1 DEF Chat!Store
      <4> QED BY <2>0, <4>1, <4>2, TurnGoesOn
    <3>2. CASE Chat!CanAppend
      <4> DEFINE s == session[c]
                 m == Chat!Message(c, role, n)
                 f == Among(messages[s], c)
      <4>1. s \in Sessions /\ s # None
        BY <2>0, <2>6, ServiceAssumption DEF Chat!Returns, Waits, Chat!NoThread
      <4>2. /\ m \in Stored /\ m.chat = c /\ m.role = role /\ m.size = n
            /\ messages[s] \in Seq(Stored)
        BY <4>1 DEF Chat!Message, Stored, ChatTypes
      <4>3. /\ messages' = [messages EXCEPT ![s] = Append(@, m)]
            /\ UNCHANGED <<at, session, answer>>
            /\ thread' = [thread EXCEPT ![c] =
                 IF at[c] = @.call THEN [@ EXCEPT !.is = "done"] ELSE Chat!NoThread]
        BY <2>6, <3>2 DEF Chat!Store, Chat!Finish
      <4>4. /\ messages'[s] = Append(messages[s], m)
            /\ \A t \in Sessions \ {s} : messages'[t] = messages[t]
        BY <4>1, <4>3 DEF ChatTypes
      <4> HIDE DEF s, m, f
      <4>5. /\ \A d \in Chats \ {c} : Among(Append(messages[s], m), d) = Among(messages[s], d)
            /\ Among(Append(messages[s], m), c) =
                 [i \in DOMAIN f \cup {Len(messages[s]) + 1} |->
                    IF i = Len(messages[s]) + 1 THEN m ELSE f[i]]
            /\ \A i \in DOMAIN f : i < Len(messages[s]) + 1
        <5>1. ASSUME NEW d \in Chats \ {c}
              PROVE  Among(Append(messages[s], m), d) = Among(messages[s], d)
          <6>1. m.chat # d
            BY <4>2
          <6> QED BY ONLY <4>2, <6>1, OneMoreMessage
        <5>2. Among(Append(messages[s], m), c) =
                [i \in DOMAIN Among(messages[s], c) \cup {Len(messages[s]) + 1} |->
                   IF i = Len(messages[s]) + 1 THEN m ELSE Among(messages[s], c)[i]]
          BY <4>2 DEF Among
        <5>3. \A i \in DOMAIN Among(messages[s], c) : i < Len(messages[s]) + 1
          BY ONLY <4>2, OneMoreMessage
        <5> QED BY <5>1, <5>2, <5>3 DEF f
      <4>6. ASSUME NEW d \in Chats \ {c}
            PROVE  /\ \A t \in Sessions : Among(messages[t], d)' = Among(messages[t], d)
                   /\ Among(SessionOf(d), d)' = Among(SessionOf(d), d)
        <5>1. \A t \in Sessions : Among(messages'[t], d) = Among(messages[t], d)
          BY <4>4, <4>5
        <5>2. session[d] \in Sessions \cup {None}
          BY DEF ChatTypes, Waits
        <5>3. SessionOf(d)' = IF session[d] = None THEN <<>> ELSE messages'[session[d]]
          BY <4>3 DEF SessionOf
        <5>4. Among(SessionOf(d)', d) = Among(SessionOf(d), d)
          BY <5>1, <5>2, <5>3 DEF SessionOf
        <5> QED BY <5>1, <5>4 DEF Among
      <4> DEFINE k == Len(messages[s]) + 1
                 g == [i \in DOMAIN f \cup {k} |-> IF i = k THEN m ELSE f[i]]
      <4>7. Among(SessionOf(c), c)' = g /\ Among(SessionOf(c), c) = f
        <5>1. SessionOf(c)' = Append(messages[s], m) /\ SessionOf(c) = messages[s]
          BY <4>1, <4>3, <4>4 DEF SessionOf, s
        <5> QED BY <4>5, <5>1 DEF Among, f
      <4>8. k \in Nat /\ \A i \in DOMAIN f : i < k /\ i \in Nat
        <5>1. k \in Nat
          BY <4>2
        <5> QED BY <4>5, <5>1 DEF f, Among
      <4>9. /\ DOMAIN g = DOMAIN f \cup {k} /\ g[k] = m
            /\ \A i \in DOMAIN f : g[i] = f[i] /\ i # k
        BY <4>8
      <4> HIDE DEF g, k
      <4>10. Turn(f, at[c], thread[c], session[c], answer[c])
        BY <4>7 DEF TurnInv
      <4>11. /\ thread[c] = [call |-> role, is |-> "called"]
             /\ at[c] = role \/ at[c] = "aborted"
             /\ thread'[c] \in {Chat!NoThread, [call |-> role, is |-> "done"]}
        BY <2>0, <2>6, <4>3 DEF Chat!Returns, Waits, Chat!NoThread
      <4>12. Turn(g, at[c], thread'[c], session[c], answer[c])
        <5>1. CASE role = "user"
          <6>1. DOMAIN f = {}
            BY <4>10, <4>11, <5>1 DEF Turn
          <6> QED BY <4>2, <4>9, <4>11, <5>1, <6>1 DEF Turn, Chat!NoThread
        <5>2. CASE role = "assistant"
          <6>1. /\ DOMAIN f # {} /\ \A i \in DOMAIN f : f[i].role = "user"
                /\ \A i, j \in DOMAIN f : f[i].role = f[j].role => i = j
            BY <4>10, <4>11, <5>2 DEF Turn
          <6>2. PICK q \in DOMAIN f : f[q].role = "user"
            BY <6>1
          <6>3. \A i, j \in DOMAIN g : g[i].role = g[j].role => i = j
            BY <4>2, <4>9, <5>2, <6>1
          <6>4. \A i \in DOMAIN g :
                  \/ g[i].role = "user"
                  \/ g[i].role = "assistant" /\ \E p \in DOMAIN g : p < i /\ g[p].role = "user"
            BY <4>2, <4>8, <4>9, <5>2, <6>1, <6>2
          <6>5. \E i \in DOMAIN g : g[i].role = "assistant" /\ g[i].size = answer[c]
            BY <2>6, <4>2, <4>9, <5>2
          <6> QED BY <4>11, <5>2, <6>3, <6>4, <6>5 DEF Turn, Chat!NoThread
        <5> QED BY <5>1, <5>2
      <4>13. ASSUME NEW d \in Chats
             PROVE  Turn(Among(SessionOf(d), d)', at'[d], thread'[d], session'[d], answer'[d])
        <5>1. CASE d = c
          BY <4>3, <4>7, <4>12, <5>1
        <5>2. CASE d # c
          <6>1. Turn(Among(SessionOf(d), d), at[d], thread[d], session[d], answer[d])
            BY DEF TurnInv
          <6>2. at'[d] = at[d] /\ thread'[d] = thread[d] /\ session'[d] = session[d] /\ answer'[d] = answer[d]
            BY <2>0, <5>2 DEF StepOf
          <6>3. Among(SessionOf(d), d)' = Among(SessionOf(d), d)
            BY <4>6, <5>2
          <6> QED BY ONLY <6>1, <6>2, <6>3
        <5> QED BY <5>1, <5>2
      <4>14. ASSUME NEW t \in Sessions, NEW d \in Chats, DOMAIN Among(messages[t], d)' # {}
             PROVE  t = session'[d]
        <5>1. CASE d # c
          BY <4>3, <4>6, <4>14, <5>1 DEF TurnInv
        <5>2. CASE d = c /\ t = s
          BY <4>3, <5>2 DEF s
        <5>3. CASE d = c /\ t # s
          <6>1. Among(messages[t], d)' = Among(messages[t], d)
            BY <4>4, <5>3 DEF Among
          <6> QED BY <4>3, <4>14, <5>3, <6>1 DEF TurnInv
        <5> QED BY <5>1, <5>2, <5>3
      <4> QED BY <4>13, <4>14 DEF TurnInv
    <3> QED BY <3>1, <3>2
  <2>7. CASE Chat!StoreUser(c)
    BY <2>6, <2>7 DEF Chat!StoreUser
  <2>8. CASE Chat!StoreAssistant(c)
    <3>1. answer[c] \in Sizes
      BY <2>0, <2>8 DEF Chat!StoreAssistant, Chat!Returns, Waits, Chat!NoThread
    <3> QED BY <2>6, <2>8, <3>1 DEF Chat!StoreAssistant
  <2> QED BY <1>2, <2>1, <2>2, <2>3, <2>4, <2>5, <2>7, <2>8 DEF Chat!Step
<1> QED BY <1>1, <1>2 DEF Chat!Next

\* However the chats of a session interleave, are cancelled and fail, a chat whose
\* answer is out has stored its question and that answer, once and in order.
THEOREM TurnsAreStored == Spec => []TurnIsStored
<1>1. Chat!Init => ChatTypes /\ TurnInv
  BY ChatInit, TurnInit
<1>2. ChatTypes /\ TurnInv /\ [Chat!Next]_(Chat!vars) => (ChatTypes /\ TurnInv)'
  BY ChatTyped, TurnSteps
<1> QED BY <1>1, <1>2, ChatSteps, TurnVouches, PTL DEF Spec

\* sum[n] is the size of the first n messages.
Adds(sum, ms) ==
  sum[0] = 0 /\ \A n \in 1..Len(ms) : sum[n] = sum[n - 1] + ms[n].size

\* Chat!Tokens is what its recursion adds up to.
LEMMA TokensAddUp ==
  ASSUME NEW ms \in Seq(Given)
  PROVE  \E sum : Adds(sum, ms) /\ Chat!Tokens(ms) = sum[Len(ms)]
<1> DEFINE N == Len(ms)
           Def(f) == [n \in 0..N |-> IF n = 0 THEN 0 ELSE f[n - 1] + ms[n].size]
           step == [p \in (0..(N - 1)) \X Nat |-> p[2] + ms[p[1] + 1].size]
<1>1. \A n \in 0..(N - 1), x \in Nat : step[<<n, x>>] = x + ms[n + 1].size
  OBVIOUS
<1>2. ASSUME NEW n \in 0..(N - 1), NEW x \in Nat PROVE step[<<n, x>>] \in Nat
  <2>1. n + 1 \in 1..N /\ ms[n + 1] \in Given
    OBVIOUS
  <2>2. ms[n + 1].size \in Nat
    BY <2>1, SettingsAssumption DEF Given
  <2> QED BY <1>1, <2>2
<1>3. PICK f \in [0..N -> Nat] : Follows(f, 0, step, N)
  <2> HIDE DEF step
  <2>1. N \in Nat /\ 0 \in Nat
    OBVIOUS
  <2>2. \E f \in [0..N -> Nat] : Follows(f, 0, step, N)
    BY ONLY <1>2, <2>1, FunctionUpTo
  <2> QED BY <2>2
<1>4. ASSUME NEW n \in 1..N PROVE f[n] = f[n - 1] + ms[n].size
  <2>1. n - 1 \in 0..(N - 1) /\ f[n - 1] \in Nat /\ (n - 1) + 1 = n
    OBVIOUS
  <2>2. f[(n - 1) + 1] = step[<<n - 1, f[n - 1]>>]
    BY <1>3, <2>1 DEF Follows
  <2> HIDE DEF step
  <2> QED BY <1>1, <2>1, <2>2
<1>5. f[0] = 0
  BY <1>3 DEF Follows
<1>6. f = Def(f)
  BY <1>4, <1>5
<1> DEFINE sum == CHOOSE g : g = Def(g)
<1>7. sum = Def(sum)
  BY <1>6
<1>8. Chat!Tokens(ms) = sum[N]
  BY DEF Chat!Tokens
<1> HIDE DEF sum
<1>9. Adds(sum, ms)
  <2>1. \A n \in 0..N : sum[n] = IF n = 0 THEN 0 ELSE sum[n - 1] + ms[n].size
    <3>1. SUFFICES ASSUME NEW g, g = Def(g)
                   PROVE  \A n \in 0..N : g[n] = IF n = 0 THEN 0 ELSE g[n - 1] + ms[n].size
      BY <1>7
    <3> QED BY <3>1
  <2>2. N \in Nat
    OBVIOUS
  <2>3. sum[0] = 0
    <3> HIDE DEF N
    <3> QED BY ONLY <2>1, <2>2
  <2>4. ASSUME NEW n \in 1..N PROVE sum[n] = sum[n - 1] + ms[n].size
    <3>1. n \in 0..N /\ n # 0
      OBVIOUS
    <3> QED BY <2>1, <3>1, Zenon
  <2> QED BY <2>3, <2>4 DEF Adds
<1> QED BY <1>8, <1>9

\* Sizes are numbers, and so are their sums.
LEMMA SumsAreNat ==
  ASSUME NEW ms \in Seq(Given), NEW sum, Adds(sum, ms)
  PROVE  \A n \in 0..Len(ms) : sum[n] \in Nat
<1> DEFINE N == Len(ms)
           P == {n \in 0..N : sum[n] \in Nat}
<1>1. N \in Nat /\ 0 \in P
  BY DEF Adds
<1>2. ASSUME NEW n \in 0..(N - 1), n \in P PROVE n + 1 \in P
  <2>1. n + 1 \in 1..N /\ ms[n + 1] \in Given /\ (n + 1) - 1 = n
    OBVIOUS
  <2>2. ms[n + 1].size \in Nat
    BY <2>1, SettingsAssumption DEF Given
  <2>3. sum[n + 1] = sum[n] + ms[n + 1].size
    BY <2>1 DEF Adds
  <2> QED BY <1>2, <2>2, <2>3
<1> HIDE DEF P
<1>3. \A n \in 0..N : n \in P
  <2> HIDE DEF N
  <2> QED BY ONLY <1>1, <1>2, UpTo
<1> QED BY <1>3 DEF P

\* One message more has its own tokens more.
LEMMA TokensOfOneMore ==
  ASSUME NEW m \in Given, NEW ms \in Seq(Given)
  PROVE  /\ Chat!Tokens(ms) \in Nat
         /\ <<m>> \o ms \in Seq(Given)
         /\ Chat!Tokens(<<m>> \o ms) = m.size + Chat!Tokens(ms)
<1> DEFINE all == <<m>> \o ms
           N == Len(ms)
<1>1. /\ all \in Seq(Given) /\ Len(all) = N + 1 /\ N \in Nat /\ all[1] = m
      /\ \A i \in 1..N : all[i + 1] = ms[i]
  OBVIOUS
<1>2. PICK few : Adds(few, ms) /\ Chat!Tokens(ms) = few[N]
  BY TokensAddUp
<1> HIDE DEF all
<1>3. PICK more : Adds(more, all) /\ Chat!Tokens(all) = more[N + 1]
  BY <1>1, TokensAddUp
<1>4. m.size \in Nat
  BY SettingsAssumption DEF Given
<1>5. \A n \in 0..N : few[n] \in Nat
  BY <1>2, SumsAreNat
<1> DEFINE P == {n \in 0..N : more[n + 1] = m.size + few[n]}
<1>6. 0 \in P
  <2>1. 1 \in 1..(N + 1) /\ 1 - 1 = 0
    BY <1>1
  <2>2. more[1] = more[0] + all[1].size /\ more[0] = 0 /\ few[0] = 0
    BY <1>1, <1>2, <1>3, <2>1 DEF Adds
  <2> QED BY <1>1, <1>4, <2>2
<1>7. ASSUME NEW n \in 0..(N - 1), n \in P PROVE n + 1 \in P
  <2>1. n + 1 \in 1..N /\ (n + 1) + 1 \in 1..(N + 1) /\ (n + 1) - 1 = n /\ ((n + 1) + 1) - 1 = n + 1
    BY <1>1
  <2>2. few[n + 1] = few[n] + ms[n + 1].size
    BY <1>2, <2>1 DEF Adds
  <2>3. more[(n + 1) + 1] = more[n + 1] + ms[n + 1].size
    BY <1>1, <1>3, <2>1 DEF Adds
  <2>4. ms[n + 1].size \in Nat
    <3>1. ms[n + 1] \in Given
      BY <2>1
    <3> QED BY <3>1, SettingsAssumption DEF Given
  <2> QED BY <1>4, <1>5, <1>7, <2>1, <2>2, <2>3, <2>4
<1> HIDE DEF P
<1>8. \A n \in 0..N : n \in P
  BY <1>1, <1>6, <1>7, UpTo
<1>9. more[N + 1] = m.size + few[N]
  BY <1>1, <1>8 DEF P
<1> QED BY <1>1, <1>2, <1>3, <1>5, <1>9 DEF all

\* The largest of some numbers up to one is one of them, and none is larger.
LEMMA MaxIsOneOf ==
  ASSUME NEW N \in Nat, NEW T, T \subseteq 0..N, T # {}
  PROVE  Chat!Max(T) \in T /\ \A z \in T : Chat!Max(T) >= z
<1> DEFINE below == {N - x : x \in T}
<1>1. below \subseteq Nat /\ below # {}
  <2>1. PICK x \in T : TRUE
    OBVIOUS
  <2>2. N - x \in below
    OBVIOUS
  <2>3. \A z \in T : N - z \in Nat
    OBVIOUS
  <2> QED BY <2>2, <2>3
<1>2. PICK y \in below : \A z \in below : y <= z
  <2> HIDE DEF below
  <2> QED BY <1>1, Least
<1>3. PICK x \in T : y = N - x
  OBVIOUS
<1>4. \A z \in T : x >= z
  <2> TAKE z \in T
  <2>1. N - z \in below
    OBVIOUS
  <2>2. N - x <= N - z
    BY <1>2, <1>3, <2>1
  <2> QED BY <2>2
<1> QED BY <1>3, <1>4 DEF Chat!Max

\* r is a run of messages that ends where ms ends.
Ends(r, ms) ==
  /\ Len(r) <= Len(ms)
  /\ \A i \in 1..Len(r) : r[i] = ms[(Len(ms) - Len(r)) + i]

LEMMA LastOfEnds ==
  ASSUME NEW S, NEW ms \in Seq(S), NEW n \in Nat
  PROVE  /\ Chat!LastOf(ms, n) \in Seq(S) /\ Ends(Chat!LastOf(ms, n), ms)
         /\ Len(Chat!LastOf(ms, n)) = IF n >= Len(ms) THEN Len(ms) ELSE n
<1>1. CASE n >= Len(ms)
  BY <1>1 DEF Chat!LastOf, Ends
<1>2. CASE ~(n >= Len(ms))
  <2> DEFINE r == SubSeq(ms, Len(ms) - n + 1, Len(ms))
  <2>1. Chat!LastOf(ms, n) = r
    BY <1>2 DEF Chat!LastOf
  <2>2. Len(ms) - n + 1 \in 1..(Len(ms) + 1) /\ Len(ms) \in Nat
    BY <1>2
  <2>3. /\ r \in Seq(S) /\ Len(r) = n
        /\ \A i \in 1..n : r[i] = ms[(Len(ms) - n) + i]
    BY <1>2, <2>2
  <2> HIDE DEF r
  <2> QED BY <1>2, <2>1, <2>3 DEF Ends
<1> QED BY <1>1, <1>2

LEMMA EndsOfEnds ==
  ASSUME NEW S, NEW a \in Seq(S), NEW b \in Seq(S), NEW c \in Seq(S), Ends(a, b), Ends(b, c)
  PROVE  Ends(a, c)
<1>1. ASSUME NEW i \in 1..Len(a) PROVE a[i] = c[(Len(c) - Len(a)) + i]
  <2>1. (Len(b) - Len(a)) + i \in 1..Len(b)
    BY DEF Ends
  <2>2. (Len(c) - Len(b)) + ((Len(b) - Len(a)) + i) = (Len(c) - Len(a)) + i
    OBVIOUS
  <2> QED BY <2>1, <2>2 DEF Ends
<1> QED BY <1>1 DEF Ends

\* The messages before the ends of two such runs are the same.
LEMMA EndsAgree ==
  ASSUME NEW S, NEW a \in Seq(S), NEW b \in Seq(S), Ends(a, b), NEW k \in Nat, k < Len(a)
  PROVE  a[Len(a) - k] = b[Len(b) - k]
<1>1. Len(a) - k \in 1..Len(a) /\ (Len(b) - Len(a)) + (Len(a) - k) = Len(b) - k
  OBVIOUS
<1> QED BY <1>1 DEF Ends

\* A run that ends where the messages end is the last part of them.
LEMMA EndsIsPart ==
  ASSUME NEW S, NEW r \in Seq(S), NEW ms \in Seq(S), Ends(r, ms)
  PROVE  r = SubSeq(ms, Len(ms) - Len(r) + 1, Len(ms))
<1> DEFINE piece == SubSeq(ms, Len(ms) - Len(r) + 1, Len(ms))
<1>1. Len(r) \in Nat /\ Len(ms) \in Nat /\ Len(r) <= Len(ms)
  BY DEF Ends
<1>2. /\ piece \in Seq(S) /\ Len(piece) = Len(r)
      /\ \A i \in 1..Len(r) : piece[i] = ms[(Len(ms) - Len(r)) + i]
  BY <1>1
<1>3. \A i \in 1..Len(r) : r[i] = piece[i]
  BY <1>2 DEF Ends
<1> HIDE DEF piece
<1> QED BY <1>2, <1>3, SeqEqual DEF piece

\* Stored messages may be given.
LEMMA StoredIsGiven == Seq(Stored) \subseteq Seq(Given)
<1>1. Stored \subseteq Given
  BY DEF Stored, Given
<1> HIDE DEF Stored, Given
<1> QED BY <1>1

\* Of stored messages, each has its size.
LEMMA StoredSizes ==
  ASSUME NEW ms \in Seq(Stored), NEW i \in 1..Len(ms)
  PROVE  ms[i] \in Stored /\ ms[i] \in Given /\ ms[i].size \in Nat
<1>1. ms[i] \in Stored
  OBVIOUS
<1> QED BY <1>1, SettingsAssumption DEF Stored, Given

\* The newest messages but for one, and that one, have the tokens of both.
LEMMA OneOlder ==
  ASSUME NEW ms \in Seq(Stored), NEW n \in Nat, n < Len(ms)
  PROVE  /\ Chat!Tokens(Chat!LastOf(ms, n)) \in Nat
         /\ Chat!Tokens(Chat!LastOf(ms, n + 1))
              = ms[Len(ms) - n].size + Chat!Tokens(Chat!LastOf(ms, n))
<1> DEFINE few == Chat!LastOf(ms, n)
           more == Chat!LastOf(ms, n + 1)
           m == ms[Len(ms) - n]
<1>1. few \in Seq(Stored) /\ Ends(few, ms) /\ Len(few) = n
  BY LastOfEnds
<1>2. more \in Seq(Stored) /\ Ends(more, ms) /\ Len(more) = n + 1
  BY LastOfEnds
<1>3. Len(ms) - n \in 1..Len(ms)
  OBVIOUS
<1>4. m \in Stored /\ m \in Given
  BY <1>3, StoredSizes
<1>5. more[1] = m /\ \A i \in 1..n : more[i + 1] = few[i]
  <2>1. more[1] = m
    <3>1. 1 \in 1..Len(more) /\ (Len(ms) - (n + 1)) + 1 = Len(ms) - n
      BY <1>2
    <3> QED BY <1>2, <3>1 DEF Ends
  <2>2. ASSUME NEW i \in 1..n PROVE more[i + 1] = few[i]
    <3>1. /\ i + 1 \in 1..Len(more) /\ i \in 1..Len(few)
          /\ (Len(ms) - (n + 1)) + (i + 1) = (Len(ms) - n) + i
      BY <1>1, <1>2
    <3>2. more[i + 1] = ms[(Len(ms) - (n + 1)) + (i + 1)]
      <4>1. more[i + 1] = ms[(Len(ms) - Len(more)) + (i + 1)]
        BY <1>2, <3>1, Zenon DEF Ends
      <4> QED BY <1>2, <4>1
    <3>3. few[i] = ms[(Len(ms) - n) + i]
      <4>1. few[i] = ms[(Len(ms) - Len(few)) + i]
        BY <1>1, <3>1, Zenon DEF Ends
      <4> QED BY <1>1, <4>1
    <3> QED BY <3>1, <3>2, <3>3, Zenon
  <2> QED BY <2>1, <2>2
<1> HIDE DEF few, more, m
<1>6. more = <<m>> \o few
  <2> DEFINE both == <<m>> \o few
  <2>1. /\ both \in Seq(Stored) /\ Len(both) = n + 1 /\ both[1] = m
        /\ \A i \in 1..n : both[i + 1] = few[i]
    BY <1>1, <1>4
  <2> HIDE DEF both
  <2>2. ASSUME NEW i \in 1..(n + 1) PROVE more[i] = both[i]
    <3>1. CASE i = 1
      BY <1>5, <2>1, <3>1
    <3>2. CASE i # 1
      <4>1. i - 1 \in 1..n /\ (i - 1) + 1 = i
        BY <3>2
      <4> QED BY <1>5, <2>1, <4>1
    <3> QED BY <3>1, <3>2
  <2>3. more = both
    BY <1>2, <2>1, <2>2, SeqEqual
  <2> QED BY <2>3 DEF both
<1>7. few \in Seq(Given)
  BY <1>1, StoredIsGiven
<1> QED BY <1>4, <1>6, <1>7, TokensOfOneMore DEF few, more, m

\* What _split_by_budget() keeps: the newest messages, which fit or are one, and
\* the next one would not fit beside them.
LEMMA KeptFits ==
  ASSUME NEW ms \in Seq(Stored)
  PROVE  LET fit == Chat!Kept(ms, Budget)
         IN  /\ fit \in Seq(Stored) /\ Ends(fit, ms)
             /\ Len(fit) <= 1 \/ Chat!Tokens(fit) <= Budget
             /\ Len(fit) < Len(ms) =>
                  Chat!Tokens(fit) + ms[Len(ms) - Len(fit)].size > Budget
<1> DEFINE fits == {n \in 0..Len(ms) : n <= 1 \/ Chat!Tokens(Chat!LastOf(ms, n)) <= Budget}
           n == Chat!Max(fits)
<1>1. Len(ms) \in Nat /\ 0 \in fits /\ fits \subseteq 0..Len(ms)
  OBVIOUS
<1>2. n \in fits /\ \A z \in fits : n >= z
  <2> HIDE DEF fits
  <2> QED BY <1>1, MaxIsOneOf
<1>3. n \in 0..Len(ms) /\ (n <= 1 \/ Chat!Tokens(Chat!LastOf(ms, n)) <= Budget)
  <2> HIDE DEF n
  <2> QED BY <1>2
<1>4. Chat!Kept(ms, Budget) = Chat!LastOf(ms, n)
  BY DEF Chat!Kept
<1>5. n < Len(ms) => ~(Chat!Tokens(Chat!LastOf(ms, n + 1)) <= Budget)
  <2> HIDE DEF n
  <2>1. SUFFICES ASSUME n < Len(ms), Chat!Tokens(Chat!LastOf(ms, n + 1)) <= Budget
                 PROVE  FALSE
    OBVIOUS
  <2>2. n + 1 \in 0..Len(ms)
    BY <1>3, <2>1
  <2>3. n + 1 \in fits
    BY <2>1, <2>2
  <2>4. n >= n + 1
    BY <1>2, <2>3
  <2> QED BY <1>3, <2>4
<1> HIDE DEF n, fits
<1>6. /\ Chat!LastOf(ms, n) \in Seq(Stored) /\ Ends(Chat!LastOf(ms, n), ms)
      /\ Len(Chat!LastOf(ms, n)) = IF n >= Len(ms) THEN Len(ms) ELSE n
  BY <1>3, LastOfEnds
<1>7. Len(Chat!LastOf(ms, n)) = n
  BY <1>1, <1>3, <1>6
<1>8. ASSUME n < Len(ms)
      PROVE  Chat!Tokens(Chat!LastOf(ms, n)) + ms[Len(ms) - n].size > Budget
  <2>1. /\ Chat!Tokens(Chat!LastOf(ms, n)) \in Nat
        /\ Chat!Tokens(Chat!LastOf(ms, n + 1))
             = ms[Len(ms) - n].size + Chat!Tokens(Chat!LastOf(ms, n))
    BY <1>3, <1>8, OneOlder
  <2>2. Len(ms) - n \in 1..Len(ms)
    BY <1>3, <1>8
  <2>3. ms[Len(ms) - n].size \in Nat
    BY <2>2, StoredSizes
  <2> QED BY <1>5, <1>8, <2>1, <2>3, SettingsAssumption
<1> QED BY <1>3, <1>4, <1>6, <1>7, <1>8

\* What _compress() leaves beside a summary: the newest of it, which fit with the
\* summary or are none, and the next one would not fit beside them.
LEMMA RoomFits ==
  ASSUME NEW fit \in Seq(Stored), NEW size \in Sizes
  PROVE  LET left == Chat!MakeRoom(fit, size)
         IN  /\ left \in Seq(Stored) /\ Ends(left, fit)
             /\ left = <<>> \/ size + Chat!Tokens(left) <= Budget
             /\ Len(left) < Len(fit) =>
                  (size + Chat!Tokens(left)) + fit[Len(fit) - Len(left)].size > Budget
             /\ Len(left) = Len(fit) => left = fit
<1> DEFINE fits == {n \in 0..Len(fit) :
                      n = 0 \/ size + Chat!Tokens(Chat!LastOf(fit, n)) <= Budget}
           n == Chat!Max(fits)
<1>1. Len(fit) \in Nat /\ 0 \in fits /\ fits \subseteq 0..Len(fit)
  OBVIOUS
<1>2. n \in fits /\ \A z \in fits : n >= z
  <2> HIDE DEF fits
  <2> QED BY <1>1, MaxIsOneOf
<1>3. n \in 0..Len(fit) /\ (n = 0 \/ size + Chat!Tokens(Chat!LastOf(fit, n)) <= Budget)
  <2> HIDE DEF n
  <2> QED BY <1>2
<1>4. Chat!MakeRoom(fit, size) = Chat!LastOf(fit, n)
  BY DEF Chat!MakeRoom
<1>5. n < Len(fit) => ~(size + Chat!Tokens(Chat!LastOf(fit, n + 1)) <= Budget)
  <2> HIDE DEF n
  <2>1. SUFFICES ASSUME n < Len(fit), size + Chat!Tokens(Chat!LastOf(fit, n + 1)) <= Budget
                 PROVE  FALSE
    OBVIOUS
  <2>2. n + 1 \in 0..Len(fit)
    BY <1>3, <2>1
  <2>3. n + 1 \in fits
    BY <2>1, <2>2
  <2>4. n >= n + 1
    BY <1>2, <2>3
  <2> QED BY <1>3, <2>4
<1> HIDE DEF n, fits
<1>6. /\ Chat!LastOf(fit, n) \in Seq(Stored) /\ Ends(Chat!LastOf(fit, n), fit)
      /\ Len(Chat!LastOf(fit, n)) = IF n >= Len(fit) THEN Len(fit) ELSE n
  BY <1>3, LastOfEnds
<1>7. Len(Chat!LastOf(fit, n)) = n
  BY <1>1, <1>3, <1>6
<1>8. ASSUME n < Len(fit)
      PROVE  (size + Chat!Tokens(Chat!LastOf(fit, n))) + fit[Len(fit) - n].size > Budget
  <2>1. /\ Chat!Tokens(Chat!LastOf(fit, n)) \in Nat
        /\ Chat!Tokens(Chat!LastOf(fit, n + 1))
             = fit[Len(fit) - n].size + Chat!Tokens(Chat!LastOf(fit, n))
    BY <1>3, <1>8, OneOlder
  <2>2. Len(fit) - n \in 1..Len(fit)
    BY <1>3, <1>8
  <2>3. fit[Len(fit) - n].size \in Nat /\ size \in Nat
    BY <2>2, StoredSizes, SettingsAssumption
  <2> QED BY <1>5, <1>8, <2>1, <2>3, SettingsAssumption
<1>9. n = 0 => Chat!LastOf(fit, n) = <<>>
  BY <1>6, <1>7
<1>10. n = Len(fit) => Chat!LastOf(fit, n) = fit
  BY <1>1 DEF Chat!LastOf
<1> QED BY <1>3, <1>4, <1>6, <1>7, <1>8, <1>9, <1>10

\* The newest messages are what a chat may be given, if they fit or are one, and
\* are all there is, or as many as the limit, or one more would not fit.
LEMMA NewestAreGiven ==
  ASSUME NEW stored \in Seq(Stored), NEW q \in Seq(Stored), Ends(q, stored),
         NEW h, h # <<>>, Chat!Quoted(h) = q,
         Chat!Tokens(h) <= Budget \/ Len(h) = 1,
         \/ Len(q) = Len(stored) \/ Len(q) = HistoryLimit
         \/ Chat!Tokens(h) + stored[Len(stored) - Len(q)].size > Budget
  PROVE  Chat!GivenOf(h, stored)
<1>1. Len(q) <= Len(stored)
  BY DEF Ends
<1>2. q = SubSeq(stored, Len(stored) - Len(q) + 1, Len(stored))
  BY EndsIsPart
<1> QED BY <1>1, <1>2 DEF Chat!GivenOf

\* What is not none and at most one is one.
LEMMA OneAtMost ==
  ASSUME NEW n \in Nat, n # 0, n <= 1
  PROVE  n = 1
OBVIOUS

\* _compress() gives the newest of what history() took, as many as fit.
LEMMA CompressGives ==
  ASSUME NEW stored \in Seq(Stored), NEW h \in Chat!Compress(Chat!Recent(stored)),
         h # <<>>
  PROVE  Chat!GivenOf(h, stored)
<1> DEFINE ms == Chat!Recent(stored)
           fit == Chat!Kept(ms, Budget)
<1>1. /\ ms \in Seq(Stored) /\ Ends(ms, stored)
      /\ Len(ms) = Len(stored) \/ Len(ms) = HistoryLimit
  BY LastOfEnds, SettingsAssumption DEF Chat!Recent
<1> HIDE DEF ms
<1>2. /\ fit \in Seq(Stored) /\ Ends(fit, ms)
      /\ Len(fit) <= 1 \/ Chat!Tokens(fit) <= Budget
      /\ Len(fit) < Len(ms) => Chat!Tokens(fit) + ms[Len(ms) - Len(fit)].size > Budget
  BY <1>1, KeptFits
<1>3. \/ h = ms /\ Chat!Tokens(ms) <= Budget
      \/ h = fit
      \/ \E size \in Sizes : h = <<Chat!Message(None, "system", size)>> \o Chat!MakeRoom(fit, size)
  BY DEF Chat!Compress, Chat!Summaries, ms
<1> HIDE DEF fit
<1>4. /\ Ends(fit, stored) /\ Len(fit) <= Len(ms)
      /\ Len(fit) < Len(ms) =>
           Chat!Tokens(fit) + stored[Len(stored) - Len(fit)].size > Budget
  <2>1. Ends(fit, stored) /\ Len(fit) <= Len(ms)
    BY <1>1, <1>2, EndsOfEnds DEF Ends
  <2>2. Len(fit) < Len(ms) => ms[Len(ms) - Len(fit)] = stored[Len(stored) - Len(fit)]
    BY <1>1, <1>2, EndsAgree
  <2> QED BY <1>2, <2>1, <2>2
<1>5. ASSUME NEW q \in Seq(Stored), h = q PROVE Chat!Quoted(h) = q
  <2>1. h[1] \in Stored
    BY <1>5
  <2> QED BY <1>5, <2>1 DEF Chat!Quoted, Stored
<1>6. CASE h = ms /\ Chat!Tokens(ms) <= Budget
  BY <1>1, <1>5, <1>6, NewestAreGiven
<1>7. CASE h = fit
  <2>1. Chat!Quoted(h) = fit
    BY <1>2, <1>5, <1>7
  <2>2. Chat!Tokens(h) <= Budget \/ Len(h) = 1
    <3>1. Len(h) \in Nat /\ Len(h) # 0
      BY <1>2, <1>7
    <3>2. ASSUME Len(h) <= 1 PROVE Len(h) = 1
      BY ONLY <3>1, <3>2, OneAtMost
    <3> QED BY <1>2, <1>7, <3>2
  <2>3. \/ Len(fit) = Len(stored) \/ Len(fit) = HistoryLimit
        \/ Chat!Tokens(h) + stored[Len(stored) - Len(fit)].size > Budget
    <3>1. Len(fit) = Len(ms) \/ Len(fit) < Len(ms)
      BY <1>1, <1>2, <1>4
    <3> QED BY <1>1, <1>4, <1>7, <3>1
  <2> QED BY <1>2, <1>4, <2>1, <2>2, <2>3, NewestAreGiven
<1>8. ASSUME NEW size \in Sizes,
             h = <<Chat!Message(None, "system", size)>> \o Chat!MakeRoom(fit, size)
      PROVE  Chat!GivenOf(h, stored)
  <2> DEFINE m == Chat!Message(None, "system", size)
             left == Chat!MakeRoom(fit, size)
  <2>1. m \in Given /\ m.role = "system" /\ m.size = size
    BY DEF Chat!Message, Given
  <2>2. /\ left \in Seq(Stored) /\ Ends(left, fit)
        /\ left = <<>> \/ size + Chat!Tokens(left) <= Budget
        /\ Len(left) < Len(fit) =>
             (size + Chat!Tokens(left)) + fit[Len(fit) - Len(left)].size > Budget
        /\ Len(left) = Len(fit) => left = fit
    BY <1>2, RoomFits
  <2>3. h = <<m>> \o left
    BY <1>8
  <2> HIDE DEF m, left
  <2>4. left \in Seq(Given)
    BY <2>2, StoredIsGiven
  <2>5. Chat!Tokens(h) = size + Chat!Tokens(left) /\ Chat!Tokens(left) \in Nat
    BY <2>1, <2>3, <2>4, TokensOfOneMore
  <2>6. h[1] = m /\ Tail(h) = left /\ Len(h) = Len(left) + 1
    <3> HIDE DEF Given
    <3> QED BY <2>1, <2>3, <2>4
  <2>7. Chat!Quoted(h) = left
    BY <2>1, <2>6 DEF Chat!Quoted
  <2>8. Ends(left, stored)
    BY <1>2, <1>4, <2>2, EndsOfEnds
  <2>9. Chat!Tokens(h) <= Budget \/ Len(h) = 1
    BY <2>2, <2>5, <2>6
  <2>10. \/ Len(left) = Len(stored) \/ Len(left) = HistoryLimit
         \/ Chat!Tokens(h) + stored[Len(stored) - Len(left)].size > Budget
    <3>1. CASE Len(left) < Len(fit)
      <4>1. fit[Len(fit) - Len(left)] = stored[Len(stored) - Len(left)]
        BY <1>2, <1>4, <2>2, <3>1, EndsAgree
      <4> QED BY <2>2, <2>5, <3>1, <4>1
    <3>2. CASE Len(left) = Len(fit) /\ Len(fit) = Len(ms)
      BY <1>1, <3>2
    <3>3. CASE Len(left) = Len(fit) /\ Len(fit) < Len(ms)
      <4>1. left = fit
        BY <2>2, <3>3
      <4>2. Chat!Tokens(left) + stored[Len(stored) - Len(left)].size > Budget
        BY <1>4, <3>3, <4>1
      <4>3. Len(stored) - Len(left) \in 1..Len(stored)
        <5>1. Len(ms) <= Len(stored) /\ Len(left) \in Nat /\ Len(ms) \in Nat /\ Len(stored) \in Nat
          BY <1>1, <2>2 DEF Ends
        <5> QED BY <3>3, <5>1
      <4>4. stored[Len(stored) - Len(left)].size \in Nat /\ size \in Nat
        BY <4>3, StoredSizes, SettingsAssumption
      <4> QED BY <2>5, <4>2, <4>4, SettingsAssumption
    <3>4. \/ Len(left) < Len(fit) \/ (Len(left) = Len(fit) /\ Len(fit) = Len(ms))
          \/ (Len(left) = Len(fit) /\ Len(fit) < Len(ms))
      <4>1. /\ Len(left) \in Nat /\ Len(fit) \in Nat /\ Len(ms) \in Nat
            /\ Len(left) <= Len(fit) /\ Len(fit) <= Len(ms)
        BY <1>1, <1>2, <1>4, <2>2 DEF Ends
      <4> QED BY <4>1
    <3> QED BY <3>1, <3>2, <3>3, <3>4
  <2> QED BY <2>2, <2>7, <2>8, <2>9, <2>10, NewestAreGiven
<1> QED BY <1>3, <1>6, <1>7, <1>8

\* A chat is given something by the one call that reads its session.
LEMMA HistorySteps ==
  ASSUME ChatTypes, DOMAIN history = Chats, [Chat!Next]_(Chat!vars)
  PROVE  /\ DOMAIN history' = Chats
         /\ \A c \in Chats :
              history'[c] \notin {history[c], <<>>} =>
                Chat!GivenOf(history'[c], messages[session[c]])
<1>1. CASE UNCHANGED Chat!vars
  BY <1>1 DEF Chat!vars
<1>2. ASSUME NEW d \in Chats, history' = [history EXCEPT ![d] = <<>>] \/ history' = history
      PROVE  /\ DOMAIN history' = Chats
             /\ \A c \in Chats : history'[c] \in {history[c], <<>>}
  BY <1>2
<1>3. ASSUME NEW d \in Chats,
             \/ Chat!Start(d) \/ Chat!Think(d) \/ Chat!Proceed(d) \/ Chat!Raise(d)
             \/ Chat!Cancel(d) \/ Chat!StoreUser(d) \/ Chat!StoreAssistant(d)
             \/ Chat!Record(d, "audit") \/ Chat!Record(d, "verify")
      PROVE  history' = [history EXCEPT ![d] = <<>>] \/ history' = history
  BY <1>3 DEF Chat!Start, Chat!Think, Chat!Proceed, Chat!Raise, Chat!Cancel,
     Chat!StoreUser, Chat!StoreAssistant, Chat!Store, Chat!Record
<1>4. ASSUME NEW d \in Chats, Chat!ReadHistory(d)
      PROVE  /\ DOMAIN history' = Chats
             /\ \A c \in Chats :
                  history'[c] \notin {history[c], <<>>} =>
                    Chat!GivenOf(history'[c], messages[session[c]])
  <2>1. PICK h \in Chat!Compress(Chat!Recent(messages[session[d]])) :
          history' = [history EXCEPT ![d] = h]
    BY <1>4 DEF Chat!ReadHistory
  <2>2. thread[d].call = "history" /\ thread[d].is = "called"
    BY <1>4 DEF Chat!ReadHistory, Chat!Returns
  <2>3. session[d] \in Sessions
    BY <2>2 DEF ChatTypes, Waits, Chat!NoThread
  <2>4. messages[session[d]] \in Seq(Stored)
    BY <2>3 DEF ChatTypes
  <2>5. h # <<>> => Chat!GivenOf(h, messages[session[d]])
    BY <2>4, CompressGives
  <2>6. /\ DOMAIN history' = Chats /\ history'[d] = h
        /\ \A c \in Chats \ {d} : history'[c] = history[c]
    BY <2>1
  <2> QED BY <2>5, <2>6
<1> QED BY <1>1, <1>2, <1>3, <1>4 DEF Chat!Next, Chat!Step

\* Whatever is stored meanwhile, a chat is given the newest messages of that
\* moment, after a summary perhaps: no more than fit the budget, or one, and no
\* fewer.
THEOREM HistoriesAreRecent == Spec => HistoryIsRecent
<1> DEFINE inv == ChatTypes /\ DOMAIN history = Chats
<1>1. Chat!Init => inv
  BY ChatInit DEF Chat!Init
<1>2. inv /\ [Chat!Next]_(Chat!vars) => inv'
  BY ChatTyped, HistorySteps
<1>3. inv /\ [Chat!Next]_(Chat!vars) =>
        [\A c \in Chats :
           history'[c] \notin {history[c], <<>>} =>
             Chat!GivenOf(history'[c], messages[session[c]])]_(Chat!vars)
  BY HistorySteps
<1> HIDE DEF inv
<1> QED BY <1>1, <1>2, <1>3, ChatSteps, PTL DEF Spec, HistoryIsRecent, Chat!HistoryIsRecent
=============================================================================
