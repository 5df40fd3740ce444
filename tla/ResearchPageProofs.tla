------------------------- MODULE ResearchPageProofs -------------------------
(***************************************************************************)
(* Proofs about ResearchPage, for any tasks, clients, retries and logs: a  *)
(* page leaves no client behind, and what it shows is one reading of the   *)
(* log of its task.                                                        *)
(***************************************************************************)
EXTENDS ResearchPage, SequenceTheorems, Recursion

-----------------------------------------------------------------------------
(* Events and the store *)

Statuses == {"idle", "submitting", "running", "streaming", "verifying",
             "completed", "failed", "aborted"}

Errors == {None, "task", "disconnected", "not found"}

Answers == BOOLEAN

Stores == [task : Tasks \cup {None}, status : Statuses, trace : Seq(Tasks \X Nat),
           deltas : Nat, answer : Answers, error : Errors]

\* A status is set to one that may follow it, or stays.
LEMMA StatusIsSet ==
  ASSUME NEW s \in Stores, NEW next \in Statuses
  PROVE  /\ SetStatus(s, next) \in Stores
         /\ SetStatus(s, next) = [s EXCEPT !.status = SetStatus(s, next).status]
         /\ SetStatus(s, next).status \in {s.status, next}
         /\ s.status = "aborted" => SetStatus(s, next) = s
<1>1. /\ SetStatus(s, next) \in {s, [s EXCEPT !.status = next]}
      /\ next \notin Allowed[s.status] => SetStatus(s, next) = s
  BY DEF SetStatus
<1>2. s.status = "aborted" => next \notin Allowed[s.status]
  BY DEF Allowed
<1>3. s = [s EXCEPT !.status = s.status] /\ s.status \in Statuses
  BY DEF Stores
<1>4. [s EXCEPT !.status = next] \in Stores /\ [s EXCEPT !.status = next].status = next
  BY DEF Stores
<1> QED BY <1>1, <1>2, <1>3, <1>4

LEMMA StatusesOfEvents ==
  \A type \in DOMAIN StatusOf : StatusOf[type] \in Statuses
BY DEF StatusOf, Statuses

\* What an event does to each part of the store.
Effect(u, s, t, i, type) ==
  /\ u \in Stores
  /\ u.task = s.task
  /\ u.trace = IF Contains(s.trace, <<t, i>>) THEN s.trace
               ELSE Append(s.trace, <<t, i>>)
  /\ u.deltas = IF type = "delta" THEN s.deltas + 1 ELSE s.deltas
  /\ u.answer = IF type = "answer" THEN TRUE ELSE s.answer
  /\ u.status = IF type \in DOMAIN StatusOf
                THEN SetStatus(s, StatusOf[type]).status ELSE s.status

LEMMA Applied ==
  ASSUME NEW s \in Stores, NEW t \in Tasks, NEW i \in Nat, NEW type
  PROVE  Effect(Apply(s, t, i, type), s, t, i, type)
<1> DEFINE trace  == IF Contains(s.trace, <<t, i>>) THEN s.trace
                     ELSE Append(s.trace, <<t, i>>)
           traced == [s EXCEPT !.trace = trace]
           moved  == IF type \in DOMAIN StatusOf
                     THEN SetStatus(traced, StatusOf[type]) ELSE traced
           u      == [moved EXCEPT !.deltas = IF type = "delta" THEN @ + 1 ELSE @,
                                   !.answer = IF type = "answer" THEN TRUE ELSE @,
                                   !.error  = IF type = "error" THEN "task" ELSE @]
<1>1. trace \in Seq(Tasks \X Nat)
  BY DEF Stores
<1>2. traced \in Stores /\ traced.trace = trace
      /\ traced.task = s.task /\ traced.deltas = s.deltas /\ traced.answer = s.answer
      /\ traced.status = s.status
  <2> HIDE DEF trace
  <2> QED BY <1>1 DEF Stores
<1>3. Apply(s, t, i, type) = u
  BY DEF Apply
<1> HIDE DEF trace, traced
<1>4. moved \in Stores /\ moved.trace = trace
      /\ moved.task = s.task /\ moved.deltas = s.deltas /\ moved.answer = s.answer
  <2>1. \A next : LET v == [traced EXCEPT !.status = next]
                  IN  /\ v.trace = trace /\ v.task = s.task
                      /\ v.deltas = s.deltas /\ v.answer = s.answer
    BY <1>2 DEF Stores
  <2>2. ASSUME NEW next \in Statuses
        PROVE  /\ SetStatus(traced, next) \in Stores
               /\ \E n : SetStatus(traced, next) = [traced EXCEPT !.status = n]
    BY <1>2, StatusIsSet
  <2>3. CASE type \notin DOMAIN StatusOf
    BY <1>2, <2>3
  <2>4. CASE type \in DOMAIN StatusOf
    <3>1. moved = SetStatus(traced, StatusOf[type]) /\ StatusOf[type] \in Statuses
      BY <2>4, StatusesOfEvents
    <3> HIDE DEF moved
    <3> QED BY <2>1, <2>2, <3>1
  <2> QED BY <2>3, <2>4
<1>5. moved.status = IF type \in DOMAIN StatusOf
                     THEN SetStatus(s, StatusOf[type]).status ELSE s.status
  <2>1. \A next \in Statuses : SetStatus(traced, next).status = SetStatus(s, next).status
    BY <1>2 DEF SetStatus, Stores
  <2> QED BY <1>2, <2>1, StatusesOfEvents
<1> HIDE DEF moved
<1>6. /\ u \in Stores
      /\ u.task = moved.task /\ u.trace = moved.trace /\ u.status = moved.status
      /\ u.deltas = IF type = "delta" THEN moved.deltas + 1 ELSE moved.deltas
      /\ u.answer = IF type = "answer" THEN TRUE ELSE moved.answer
  <2> DEFINE d == IF type = "delta" THEN moved.deltas + 1 ELSE moved.deltas
             a == IF type = "answer" THEN TRUE ELSE moved.answer
             e == IF type = "error" THEN "task" ELSE moved.error
  <2>1. u = [moved EXCEPT !.deltas = d, !.answer = a, !.error = e]
    OBVIOUS
  <2> HIDE DEF u
  <2>2. moved.deltas \in Nat /\ moved.answer \in Answers /\ moved.error \in Errors
    BY <1>4 DEF Stores
  <2>3. d \in Nat
    BY <2>2
  <2>4. a \in Answers
    BY <2>2 DEF Answers
  <2>5. e \in Errors
    BY <2>2 DEF Errors
  <2>6. u.deltas = d /\ u.answer = a
    <3> HIDE DEF d, a, e
    <3> QED BY <1>4, <2>1 DEF Stores
  <2>7. /\ u \in Stores
        /\ u.task = moved.task /\ u.trace = moved.trace /\ u.status = moved.status
    <3> HIDE DEF d, a, e
    <3> QED BY <1>4, <2>1, <2>3, <2>4, <2>5 DEF Stores
  <2> QED BY <2>6, <2>7
<1> HIDE DEF u
<1> QED BY <1>3, <1>4, <1>5, <1>6 DEF trace, Effect

LEMMA AppliedStores ==
  \A s \in Stores, t \in Tasks, i \in Nat : \A type : Apply(s, t, i, type) \in Stores
BY Applied DEF Effect

\* The events after the i-th are applied one by one.
OneByOne(s, t, events, i) ==
  \A j \in Nat :
    /\ ApplyUpTo(s, t, events, i, j) \in Stores
    /\ j <= i => ApplyUpTo(s, t, events, i, j) = s
    /\ j >= i => ApplyUpTo(s, t, events, i, j + 1) =
                   Apply(ApplyUpTo(s, t, events, i, j), t, j + 1, events[j + 1])

\* ApplyUpTo is the function that its recursion describes.
LEMMA AppliedUpTo ==
  ASSUME NEW s \in Stores, NEW t \in Tasks, NEW events, NEW i \in Nat
  PROVE  OneByOne(s, t, events, i)
<1> DEFINE Def(f) == [k \in Nat |-> IF k <= i THEN s ELSE Apply(f[k - 1], t, k, events[k])]
           step == [p \in Nat \X Stores |->
                      IF p[1] + 1 <= i THEN s
                      ELSE Apply(p[2], t, p[1] + 1, events[p[1] + 1])]
<1>1. \A n \in Nat, x \in Stores :
        step[<<n, x>>] = IF n + 1 <= i THEN s ELSE Apply(x, t, n + 1, events[n + 1])
  OBVIOUS
<1>2. ASSUME NEW n \in Nat, NEW x \in Stores PROVE step[<<n, x>>] \in Stores
  <2>1. Apply(x, t, n + 1, events[n + 1]) \in Stores
    BY AppliedStores
  <2> QED BY <1>1, <2>1
<1> HIDE DEF step
<1>3. PICK f \in [Nat -> Stores] : Continues(f, s, step)
  <2>1. \A n \in Nat, x \in Stores : step[<<n, x>>] \in Stores
    BY <1>2
  <2> QED BY ONLY <2>1, s \in Stores, FunctionOfNat
<1>4. f = Def(f)
  <2>1. ASSUME NEW k \in Nat PROVE f[k] = Def(f)[k]
    <3>1. CASE k = 0
      BY <1>3, <3>1 DEF Continues
    <3>2. CASE k # 0
      <4>1. k - 1 \in Nat /\ f[k - 1] \in Stores /\ (k - 1) + 1 = k
        BY <3>2
      <4>2. f[(k - 1) + 1] = step[<<k - 1, f[k - 1]>>]
        BY <1>3, <4>1 DEF Continues
      <4> QED BY <1>1, <4>1, <4>2
    <3> QED BY <3>1, <3>2
  <2> QED BY <2>1
<1>5. \E g : g = Def(g)
  BY <1>4
<1> DEFINE g == CHOOSE g : g = Def(g)
<1>6. g = Def(g)
  BY <1>5
<1>7. \A k \in Nat : g[k] = IF k <= i THEN s ELSE Apply(g[k - 1], t, k, events[k])
  <2>1. \A h : \A k \in Nat : Def(h)[k] = IF k <= i THEN s ELSE Apply(h[k - 1], t, k, events[k])
    OBVIOUS
  <2> HIDE DEF Def, g
  <2>2. \A k \in Nat : g[k] = Def(g)[k]
    BY <1>6
  <2> QED BY <2>1, <2>2
<1>8. \A j \in Nat : ApplyUpTo(s, t, events, i, j) = g[j]
  BY DEF ApplyUpTo
<1> HIDE DEF g, Def
<1> DEFINE P == {j \in Nat : g[j] \in Stores}
<1>9. Nat \subseteq P
  <2>1. 0 \in P
    BY <1>7
  <2>2. ASSUME NEW n \in Nat, n \in P PROVE n + 1 \in P
    <3>1. Apply(g[n], t, n + 1, events[n + 1]) \in Stores
      BY <2>2, AppliedStores
    <3>2. g[n + 1] = IF n + 1 <= i THEN s ELSE Apply(g[(n + 1) - 1], t, n + 1, events[n + 1])
      BY <1>7
    <3> QED BY <3>1, <3>2
  <2> HIDE DEF P
  <2> QED BY <2>1, <2>2, Always
<1> QED
  <2> SUFFICES ASSUME NEW j \in Nat
               PROVE  /\ g[j] \in Stores
                      /\ j <= i => g[j] = s
                      /\ j >= i => g[j + 1] = Apply(g[j], t, j + 1, events[j + 1])
    BY <1>8 DEF OneByOne
  <2>1. g[j + 1] = IF j + 1 <= i THEN s ELSE Apply(g[(j + 1) - 1], t, j + 1, events[j + 1])
    BY <1>7
  <2> QED BY <1>7, <1>9, <2>1

\* The trace of the first events of a task.
Traced(t, n) == [k \in 1..n |-> <<t, k>>]

LEMMA TraceGrows ==
  ASSUME NEW t \in Tasks, NEW n \in Nat
  PROVE  /\ Traced(t, n) \in Seq(Tasks \X Nat) /\ Len(Traced(t, n)) = n
         /\ ~Contains(Traced(t, n), <<t, n + 1>>)
         /\ Append(Traced(t, n), <<t, n + 1>>) = Traced(t, n + 1)
<1> DEFINE r == Traced(t, n)
<1>1. r \in Seq(Tasks \X Nat) /\ Len(r) = n /\ \A k \in 1..n : r[k] = <<t, k>>
  BY DEF Traced
<1>2. ~Contains(r, <<t, n + 1>>)
  BY <1>1 DEF Contains
<1>3. Append(r, <<t, n + 1>>) = Traced(t, n + 1)
  BY DEF Traced
<1> QED BY <1>1, <1>2, <1>3

\* Two stores that show the same, but for an outcome that an abort request set.
Alike(s, r) ==
  /\ s.task = r.task /\ s.trace = r.trace /\ s.deltas = r.deltas /\ s.answer = r.answer
  /\ s.status \in {r.status, "aborted"}

LEMMA StayAlike ==
  ASSUME NEW s \in Stores, NEW r \in Stores, NEW t \in Tasks, NEW i \in Nat, NEW type,
         Alike(s, r)
  PROVE  Alike(Apply(s, t, i, type), Apply(r, t, i, type))
<1> DEFINE u == Apply(s, t, i, type)
           v == Apply(r, t, i, type)
<1>1. /\ u.task = v.task /\ u.trace = v.trace /\ u.deltas = v.deltas /\ u.answer = v.answer
      /\ u.status = IF type \in DOMAIN StatusOf
                    THEN SetStatus(s, StatusOf[type]).status ELSE s.status
      /\ v.status = IF type \in DOMAIN StatusOf
                    THEN SetStatus(r, StatusOf[type]).status ELSE r.status
  <2>1. Effect(u, s, t, i, type) /\ Effect(v, r, t, i, type)
    BY Applied
  <2> HIDE DEF u, v
  <2> QED BY <2>1 DEF Effect, Alike
<1>2. ASSUME NEW next \in Statuses
      PROVE  SetStatus(s, next).status \in {SetStatus(r, next).status, "aborted"}
  <2>1. CASE s.status = "aborted"
    BY <2>1, StatusIsSet
  <2>2. CASE s.status = r.status
    BY <2>2 DEF SetStatus, Stores
  <2> QED BY <2>1, <2>2 DEF Alike
<1>3. u.status \in {v.status, "aborted"}
  BY <1>1, <1>2, StatusesOfEvents DEF Alike
<1> HIDE DEF u, v
<1>4. Alike(u, v)
  BY <1>1, <1>3 DEF Alike
<1> QED BY <1>4 DEF u, v

LEMMA FreshStores ==
  \A t \in Tasks \cup {None} :
    Fresh(t) \in Stores /\ Fresh(t).task = t /\ Fresh(t).trace = <<>>
BY DEF Fresh, Stores, Statuses, Errors, Answers

\* A reading from the beginning has the first events in its trace.
LEMMA ReadingIsTraced ==
  ASSUME NEW t \in Tasks, NEW events, NEW n \in Nat
  PROVE  /\ ApplyUpTo(Fresh(t), t, events, 0, n).task = t
         /\ ApplyUpTo(Fresh(t), t, events, 0, n).trace = Traced(t, n)
<1> DEFINE r(k) == ApplyUpTo(Fresh(t), t, events, 0, k)
           P    == {k \in Nat : r(k).task = t /\ r(k).trace = Traced(t, k)}
<1>0. Fresh(t) \in Stores /\ Fresh(t).task = t /\ Fresh(t).trace = <<>>
  BY FreshStores
<1>1. \A k \in Nat : /\ r(k) \in Stores
                     /\ k <= 0 => r(k) = Fresh(t)
                     /\ k >= 0 => r(k + 1) = Apply(r(k), t, k + 1, events[k + 1])
  <2>1. OneByOne(Fresh(t), t, events, 0)
    BY <1>0, AppliedUpTo
  <2> QED BY <2>1 DEF OneByOne
<1> HIDE DEF r
<1>2. 0 \in P
  <2>1. Traced(t, 0) = <<>>
    BY DEF Traced
  <2>2. r(0) = Fresh(t)
    BY <1>1
  <2> QED BY <1>0, <2>1, <2>2
<1>3. ASSUME NEW k \in Nat, k \in P PROVE k + 1 \in P
  <2>1. r(k + 1) = Apply(r(k), t, k + 1, events[k + 1]) /\ r(k) \in Stores
    BY <1>1
  <2>2. r(k).task = t /\ r(k).trace = Traced(t, k)
    BY <1>3
  <2>3. /\ r(k + 1).task = t
        /\ r(k + 1).trace = IF Contains(Traced(t, k), <<t, k + 1>>) THEN Traced(t, k)
                            ELSE Append(Traced(t, k), <<t, k + 1>>)
    <3>1. Effect(r(k + 1), r(k), t, k + 1, events[k + 1])
      BY <2>1, Applied
    <3> QED BY <2>2, <3>1 DEF Effect
  <2>4. /\ ~Contains(Traced(t, k), <<t, k + 1>>)
        /\ Append(Traced(t, k), <<t, k + 1>>) = Traced(t, k + 1)
    BY TraceGrows
  <2>5. r(k + 1).trace = Traced(t, k + 1)
    BY <2>3, <2>4, Zenon
  <2> QED BY <2>3, <2>5
<1>4. Nat \subseteq P
  <2> HIDE DEF P
  <2> QED BY <1>2, <1>3, Always
<1> QED BY <1>4 DEF r

\* Stores that are alike stay alike while the same events are applied, the one
\* from where it is, the other from the beginning.
LEMMA ReadingGoesOn ==
  ASSUME NEW s \in Stores, NEW t \in Tasks, NEW events, NEW n \in Nat,
         Alike(s, ApplyUpTo(Fresh(t), t, events, 0, n))
  PROVE  \A m \in Nat : m >= n =>
           Alike(ApplyUpTo(s, t, events, n, m), ApplyUpTo(Fresh(t), t, events, 0, m))
<1> DEFINE r(k) == ApplyUpTo(Fresh(t), t, events, 0, k)
           u(k) == ApplyUpTo(s, t, events, n, k)
           P    == {k \in Nat : k >= n => Alike(u(k), r(k))}
<1>1. OneByOne(Fresh(t), t, events, 0) /\ OneByOne(s, t, events, n)
  BY AppliedUpTo, FreshStores
<1>2. \A k \in Nat : /\ r(k) \in Stores
                     /\ r(k + 1) = Apply(r(k), t, k + 1, events[k + 1])
                     /\ u(k) \in Stores
                     /\ k <= n => u(k) = s
                     /\ k >= n => u(k + 1) = Apply(u(k), t, k + 1, events[k + 1])
  BY <1>1 DEF OneByOne
<1>3. Alike(s, r(n))
  OBVIOUS
<1> HIDE DEF r, u
<1>4. ASSUME NEW k \in Nat, k = n PROVE k \in P
  BY <1>2, <1>3, <1>4
<1>5. 0 \in P
  BY <1>4
<1>6. ASSUME NEW k \in Nat, k \in P PROVE k + 1 \in P
  <2>1. CASE k >= n
    <3>1. Alike(u(k), r(k)) /\ u(k) \in Stores /\ r(k) \in Stores
      BY <1>2, <1>6, <2>1
    <3>2. Alike(Apply(u(k), t, k + 1, events[k + 1]), Apply(r(k), t, k + 1, events[k + 1]))
      BY <3>1, StayAlike
    <3> QED BY <1>2, <2>1, <3>2
  <2>2. CASE k < n
    BY <1>4, <2>2
  <2> QED BY <2>1, <2>2
<1>7. Nat \subseteq P
  <2> HIDE DEF P
  <2> QED BY <1>5, <1>6, Always
<1> QED BY <1>7 DEF r, u

\* What follows in a log changes nothing of a reading of what was there.
LEMMA ReadingStays ==
  ASSUME NEW t \in Tasks, NEW events, NEW longer, NEW n \in Nat,
         \A k \in 1..n : longer[k] = events[k]
  PROVE  ApplyUpTo(Fresh(t), t, longer, 0, n) = ApplyUpTo(Fresh(t), t, events, 0, n)
<1> DEFINE r(k) == ApplyUpTo(Fresh(t), t, events, 0, k)
           u(k) == ApplyUpTo(Fresh(t), t, longer, 0, k)
           P    == {k \in Nat : u(k) = r(k)}
<1>1. OneByOne(Fresh(t), t, events, 0) /\ OneByOne(Fresh(t), t, longer, 0)
  BY AppliedUpTo, FreshStores
<1>2. \A k \in Nat : /\ k <= 0 => u(k) = r(k)
                     /\ r(k + 1) = Apply(r(k), t, k + 1, events[k + 1])
                     /\ u(k + 1) = Apply(u(k), t, k + 1, longer[k + 1])
  BY <1>1 DEF OneByOne
<1> HIDE DEF r, u
<1>3. 0 \in P
  BY <1>2
<1>4. ASSUME NEW k \in 0..(n - 1), k \in P PROVE k + 1 \in P
  <2>1. k \in Nat /\ k + 1 \in 1..n
    OBVIOUS
  <2>2. events[k + 1] = longer[k + 1]
    BY <2>1
  <2> QED BY <1>2, <1>4, <2>1, <2>2
<1>5. \A k \in 0..n : k \in P
  <2> HIDE DEF P
  <2> QED BY <1>3, <1>4, UpTo
<1> QED BY <1>5 DEF r, u

-----------------------------------------------------------------------------
(* The inductive invariant *)

EventTypes == {"started", "delta", "answer", "verification", "completed", "failed",
               "error", "aborted"}

Phases == {"off", "connecting", "waiting", "reading", "refused"}

SseClients == [task : Tasks \cup {None}, phase : Phases, pos : Nat, seen : Nat,
               retries : Nat]

TypeOK ==
  /\ log \in [Tasks -> Seq(EventTypes)]
  /\ client \in [Clients -> SseClients]
  /\ current \in Clients \cup {None}
  /\ store \in Stores
  /\ store.task = None => store.status = "idle"

\* The client still follows a stream.
Live(k) == k.phase \notin {"off", "refused"}

\* A client that follows a stream is the page's, and has consumed what it shows.
Writes(k, s) ==
  k.task \in Tasks /\ s.task = k.task /\ k.seen = Len(s.trace)

LiveIsShown ==
  \A c \in Clients : Live(client[c]) => c = current /\ Writes(client[c], store)

\* The store shows one reading of the first events of its task.
Shows(s, logs) ==
  s.task # None =>
    /\ Len(s.trace) <= Len(logs[s.task])
    /\ Alike(s, ApplyUpTo(Fresh(s.task), s.task, logs[s.task], 0, Len(s.trace)))

PageInv == TypeOK /\ LiveIsShown /\ Shows(store, log)

-----------------------------------------------------------------------------
(* Its steps *)

LEMMA PageInit == Init => PageInv
<1> SUFFICES ASSUME Init PROVE PageInv
  OBVIOUS
<1> USE DEF Init
<1>1. Off \in SseClients
  BY DEF Off, Opened, SseClients, Phases
<1>2. store \in Stores /\ store.task = None /\ store.status = "idle"
  <2>1. Fresh(None) \in Stores /\ Fresh(None).task = None
    BY FreshStores
  <2>2. store = [Fresh(None) EXCEPT !.status = "idle"] /\ "idle" \in Statuses
    BY DEF Statuses
  <2> QED BY ONLY <2>1, <2>2 DEF Stores
<1>3. log \in [Tasks -> Seq(EventTypes)]
  OBVIOUS
<1>4. TypeOK
  BY <1>1, <1>2, <1>3 DEF TypeOK
<1>5. LiveIsShown
  <2>1. \A c \in Clients : client[c] = Off
    OBVIOUS
  <2>2. ~Live(Off)
    BY DEF Live, Off, Opened
  <2> QED BY <2>1, <2>2 DEF LiveIsShown
<1>6. Shows(store, log)
  BY <1>2 DEF Shows
<1> QED BY <1>4, <1>5, <1>6 DEF PageInv

\* Every log is what it was, with more events or none.
Longer ==
  \A t \in Tasks : /\ Len(log[t]) <= Len(log'[t])
                   /\ \A k \in 1..Len(log[t]) : log'[t][k] = log[t][k]

LEMMA LogsGrow ==
  ASSUME PageInv, log' \in [Tasks -> Seq(EventTypes)], Longer,
         UNCHANGED <<client, current, store>>
  PROVE  PageInv'
<1>1. Shows(store, log')
  <2> SUFFICES ASSUME store.task # None
               PROVE  /\ Len(store.trace) <= Len(log'[store.task])
                      /\ Alike(store, ApplyUpTo(Fresh(store.task), store.task,
                                                log'[store.task], 0, Len(store.trace)))
    BY DEF Shows
  <2> DEFINE t == store.task
             n == Len(store.trace)
  <2>1. t \in Tasks /\ n \in Nat /\ Len(log[t]) \in Nat /\ Len(log'[t]) \in Nat
    BY DEF PageInv, TypeOK, Stores
  <2>2. n <= Len(log[t]) /\ Alike(store, ApplyUpTo(Fresh(t), t, log[t], 0, n))
    BY DEF PageInv, Shows
  <2>3. Len(log[t]) <= Len(log'[t]) /\ \A k \in 1..Len(log[t]) : log'[t][k] = log[t][k]
    BY <2>1 DEF Longer
  <2> HIDE DEF t, n
  <2>4. \A k \in 1..n : log'[t][k] = log[t][k]
    BY <2>1, <2>2, <2>3
  <2>5. ApplyUpTo(Fresh(t), t, log'[t], 0, n) = ApplyUpTo(Fresh(t), t, log[t], 0, n)
    BY <2>1, <2>4, ReadingStays
  <2>6. n <= Len(log'[t]) /\ Alike(store, ApplyUpTo(Fresh(t), t, log'[t], 0, n))
    BY <2>1, <2>2, <2>3, <2>5
  <2> QED BY <2>6 DEF t, n
<1>2. TypeOK' /\ LiveIsShown'
  BY DEF PageInv, TypeOK, LiveIsShown
<1>3. Shows(store, log)'
  BY <1>1 DEF Shows
<1> QED BY <1>2, <1>3 DEF PageInv

\* A step that applies no event, sets the status to nothing but "aborted" and opens
\* no client.
Quiet ==
  /\ UNCHANGED log
  /\ client' \in [Clients -> SseClients]
  /\ current' \in Clients \cup {None}
  /\ store' \in Stores /\ Alike(store', store)
  /\ store'.task = None => store'.status = store.status
  /\ \A c \in Clients : Live(client'[c]) =>
       /\ Live(client[c]) /\ current' = current
       /\ client'[c].task = client[c].task /\ client'[c].seen = client[c].seen

LEMMA QuietSteps ==
  ASSUME PageInv, Quiet
  PROVE  PageInv'
<1>1. /\ store'.task = store.task /\ store'.trace = store.trace
      /\ \A r : Alike(store, r) => Alike(store', r)
  BY DEF Quiet, Alike
<1>2. Shows(store', log')
  BY <1>1 DEF PageInv, Shows, Quiet
<1>3. TypeOK'
  BY <1>1 DEF Quiet, TypeOK, PageInv
<1>4. LiveIsShown'
  BY <1>1 DEF LiveIsShown, Writes, PageInv, Quiet
<1>5. Shows(store, log)'
  BY <1>2 DEF Shows
<1> QED BY <1>3, <1>4, <1>5 DEF PageInv

\* A new client begins with the store.
LEMMA FollowSteps ==
  ASSUME PageInv, NEW t \in Tasks, Follow(t), UNCHANGED log
  PROVE  PageInv'
<1>0. Unused \in Clients
  BY DEF Follow, Unused
<1> DEFINE c == Unused
<1>1. /\ client' = [CurrentClosed EXCEPT ![c] = Opened(t)] /\ current' = c
      /\ store' = Fresh(t)
  BY DEF Follow
<1> HIDE DEF c
<1>2. /\ Opened(t) \in SseClients /\ Opened(t).task = t /\ Opened(t).seen = 0
      /\ Off \in SseClients /\ ~Live(Off)
  BY DEF Opened, Off, SseClients, Phases, Live
<1>3. CurrentClosed \in [Clients -> SseClients]
  BY <1>2 DEF CurrentClosed, Closed, PageInv, TypeOK
<1>4. \A d \in Clients : ~Live(CurrentClosed[d])
  BY <1>2 DEF CurrentClosed, Closed, PageInv, LiveIsShown, Live
<1>5. t # None /\ Fresh(t) \in Stores /\ Fresh(t).task = t /\ Fresh(t).trace = <<>>
  BY FreshStores, PageAssumption
<1>6. TypeOK'
  BY <1>0, <1>1, <1>2, <1>3, <1>5 DEF c, PageInv, TypeOK
<1>7. LiveIsShown'
  <2>1. client'[c] = Opened(t) /\ \A d \in Clients \ {c} : client'[d] = CurrentClosed[d]
    BY <1>0, <1>1, <1>3 DEF c
  <2>2. Writes(Opened(t), Fresh(t))
    BY <1>2, <1>5 DEF Writes
  <2> QED BY <1>1, <1>4, <2>1, <2>2 DEF LiveIsShown
<1>8. Shows(Fresh(t), log)
  <2>1. OneByOne(Fresh(t), t, log[t], 0)
    BY <1>5, AppliedUpTo
  <2>2. ApplyUpTo(Fresh(t), t, log[t], 0, 0) = Fresh(t)
    BY <2>1 DEF OneByOne
  <2>3. Len(log[t]) \in Nat /\ Len(Fresh(t).trace) = 0
    BY <1>5 DEF PageInv, TypeOK
  <2>4. Alike(Fresh(t), Fresh(t))
    BY DEF Alike
  <2> QED BY <1>5, <2>2, <2>3, <2>4 DEF Shows
<1> QED BY <1>1, <1>6, <1>7, <1>8 DEF PageInv, Shows

\* What only shows an error is no event.
LEMMA ErrorsAreQuiet ==
  ASSUME NEW s \in Stores, NEW error \in Errors
  PROVE  /\ OnError(s, error) \in Stores /\ Alike(OnError(s, error), s)
         /\ OnError(s, error).status = s.status
BY DEF OnError, Alike, Stores

\* Clients are opened by Follow only.
LEMMA ClientsGoOn ==
  ASSUME PageInv, NEW c \in Clients, NEW k \in SseClients,
         Live(k) => Live(client[c]) /\ k.task = client[c].task /\ k.seen = client[c].seen,
         client' = [client EXCEPT ![c] = k],
         UNCHANGED <<log, current>>,
         store' \in Stores, Alike(store', store), store'.status = store.status
  PROVE  Quiet
<1>1. client \in [Clients -> SseClients] /\ current \in Clients \cup {None}
  BY DEF PageInv, TypeOK
<1>2. \A d \in Clients : client'[d] = IF d = c THEN k ELSE client[d]
  BY <1>1
<1> QED BY <1>1, <1>2 DEF Quiet

LEMMA StoreStays == PageInv => store \in Stores /\ Alike(store, store)
BY DEF PageInv, TypeOK, Alike

LEMMA ReconnectSteps ==
  ASSUME PageInv, NEW c \in Clients, NEW error \in {None, "disconnected"},
         Live(client[c]), Reconnect(c, error), UNCHANGED <<log, current>>
  PROVE  PageInv'
<1> DEFINE told == IF error = None THEN store ELSE OnError(store, error)
<1>1. "disconnected" \in Errors
  BY DEF Errors
<1>2. told \in Stores /\ Alike(told, store) /\ told.status = store.status
  BY <1>1, StoreStays, ErrorsAreQuiet
<1> HIDE DEF told
<1>3. client[c] \in SseClients
  BY DEF PageInv, TypeOK
<1>4. CASE client[c].retries >= MaxRetries
  <2>1. client' = [client EXCEPT ![c] = Off] /\ store' = OnError(told, "disconnected")
    BY <1>4 DEF Reconnect, told
  <2>2. store' \in Stores /\ Alike(store', told) /\ store'.status = store.status
    BY <1>1, <1>2, <2>1, ErrorsAreQuiet
  <2>3. Alike(store', store)
    BY <1>2, <2>2 DEF Alike
  <2>4. Off \in SseClients /\ ~Live(Off)
    BY DEF Off, Opened, SseClients, Phases, Live
  <2> QED BY <2>1, <2>2, <2>3, <2>4, ClientsGoOn, QuietSteps
<1>5. CASE ~(client[c].retries >= MaxRetries)
  <2> DEFINE k == [client[c] EXCEPT !.phase = "waiting", !.retries = @ + 1]
  <2>1. client' = [client EXCEPT ![c] = k] /\ store' = told
    BY <1>5 DEF Reconnect, told
  <2>2. k \in SseClients /\ k.task = client[c].task /\ k.seen = client[c].seen
    <3>1. client[c].retries + 1 \in Nat
      <4>1. client[c].retries \in Nat
        BY <1>3 DEF SseClients
      <4> QED BY ONLY <4>1
    <3>2. "waiting" \in Phases
      BY DEF Phases
    <3> QED BY <1>3, <3>1, <3>2 DEF SseClients
  <2> HIDE DEF k
  <2> QED BY <1>2, <2>1, <2>2, ClientsGoOn, QuietSteps
<1> QED BY <1>4, <1>5

\* The events that are read are those that the page does not show yet.
LEMMA ReadSteps ==
  ASSUME PageInv, NEW c \in Clients, Read(c)
  PROVE  PageInv'
<1> DEFINE k == client[c]
           t == k.task
<1>1. k \in SseClients /\ client \in [Clients -> SseClients] /\ store \in Stores
  BY DEF PageInv, TypeOK
<1>2. Live(k) /\ UNCHANGED <<log, current>>
  BY DEF Read, Live, serverVars, pageVars
<1>3. c = current /\ t \in Tasks /\ store.task = t /\ k.seen = Len(store.trace)
  BY <1>2 DEF PageInv, LiveIsShown, Writes
<1>4. PICK upto \in (k.pos + 1)..Len(log[t]) :
        IF upto <= k.seen
        THEN client' = [client EXCEPT ![c].pos = upto] /\ UNCHANGED store
        ELSE /\ client' = [client EXCEPT ![c] =
                  IF \E i \in (k.seen + 1)..upto : log[t][i] \in TerminalEvents
                  THEN Off
                  ELSE [k EXCEPT !.pos = upto, !.seen = upto, !.retries = 0]]
             /\ store' = ApplyUpTo(store, t, log[t], k.seen, upto)
  BY DEF Read
<1>5. k.pos \in Nat /\ k.seen \in Nat /\ Len(log[t]) \in Nat
  BY <1>1, <1>3 DEF SseClients, PageInv, TypeOK
<1>6. upto \in Nat /\ upto <= Len(log[t])
  BY <1>5
<1> HIDE DEF k, t
<1>7. CASE upto <= k.seen
  <2> DEFINE j == [k EXCEPT !.pos = upto]
  <2>1. client' = [client EXCEPT ![c] = j] /\ UNCHANGED store
    BY <1>4, <1>7 DEF k
  <2>2. j \in SseClients /\ j.task = k.task /\ j.seen = k.seen
    BY <1>1, <1>6 DEF SseClients
  <2> HIDE DEF j
  <2> QED BY <1>2, <2>1, <2>2, ClientsGoOn, QuietSteps, StoreStays DEF k
<1>8. CASE ~(upto <= k.seen)
  <2> DEFINE j == IF \E i \in (k.seen + 1)..upto : log[t][i] \in TerminalEvents
                  THEN Off
                  ELSE [k EXCEPT !.pos = upto, !.seen = upto, !.retries = 0]
             n == k.seen
             r(m) == ApplyUpTo(Fresh(t), t, log[t], 0, m)
             u == ApplyUpTo(store, t, log[t], n, upto)
  <2>1. client' = [client EXCEPT ![c] = j] /\ store' = u
    BY <1>4, <1>8
  <2>2. j \in SseClients /\ (Live(j) => j.task = t /\ j.seen = upto)
    <3>1. Off \in SseClients /\ ~Live(Off)
      BY DEF Off, Opened, SseClients, Phases, Live
    <3>2. LET l == [k EXCEPT !.pos = upto, !.seen = upto, !.retries = 0]
          IN  l \in SseClients /\ l.task = t /\ l.seen = upto
      BY <1>1, <1>6 DEF SseClients, t
    <3> QED BY <3>1, <3>2
  <2> HIDE DEF j
  <2>3. Alike(store, r(n))
    BY <1>3, PageAssumption DEF PageInv, Shows
  <2>4. Alike(u, r(upto))
    BY <1>1, <1>3, <1>5, <1>6, <1>8, <2>3, ReadingGoesOn
  <2>5. u \in Stores
    <3>1. OneByOne(store, t, log[t], n)
      BY <1>1, <1>3, <1>5, AppliedUpTo
    <3> QED BY <1>6, <3>1 DEF OneByOne
  <2>6. r(upto).task = t /\ r(upto).trace = Traced(t, upto) /\ Len(Traced(t, upto)) = upto
    <3>1. Len(Traced(t, upto)) = upto
      BY <1>3, <1>6, TraceGrows
    <3>2. r(upto).task = t /\ r(upto).trace = Traced(t, upto)
      BY <1>3, <1>6, ReadingIsTraced
    <3> QED BY <3>1, <3>2
  <2> HIDE DEF u, r, n
  <2>7. u.task = t /\ Len(u.trace) = upto
    BY <2>4, <2>6 DEF Alike
  <2>8. Shows(u, log)
    BY <1>6, <2>4, <2>7 DEF Shows, r
  <2>9. TypeOK'
    BY <1>2, <1>3, <2>1, <2>2, <2>5, <2>7, PageAssumption DEF PageInv, TypeOK
  <2>10. LiveIsShown'
    <3>1. \A d \in Clients : client'[d] = IF d = c THEN j ELSE client[d]
      BY <1>1, <2>1
    <3>2. \A d \in Clients : Live(client[d]) => d = c
      BY <1>3 DEF PageInv, LiveIsShown
    <3>3. Live(j) => Writes(j, u)
      BY <1>3, <2>2, <2>7 DEF Writes
    <3> QED BY <1>2, <1>3, <2>1, <3>1, <3>2, <3>3 DEF LiveIsShown
  <2> QED BY <1>2, <2>1, <2>8, <2>9, <2>10 DEF PageInv, Shows
<1> QED BY <1>7, <1>8

\* The server's steps.
LEMMA ServerSteps ==
  ASSUME PageInv,
         \/ \E t \in Tasks : Start(t) \/ End(t)
         \/ AnswerAbort
  PROVE  PageInv'
<1>1. log \in [Tasks -> Seq(EventTypes)]
  BY DEF PageInv, TypeOK
<1>2. ASSUME NEW t \in Tasks, NEW events \in Seq(EventTypes),
             log' = [log EXCEPT ![t] = log[t] \o events],
             UNCHANGED <<client, current, store>>
      PROVE  PageInv'
  <2>0. /\ log[t] \o events \in Seq(EventTypes)
        /\ Len(log[t] \o events) = Len(log[t]) + Len(events)
        /\ \A k \in 1..Len(log[t]) : (log[t] \o events)[k] = log[t][k]
        /\ Len(log[t]) \in Nat /\ Len(events) \in Nat
    BY <1>1, ConcatProperties
  <2>1. \A u \in Tasks : log'[u] = IF u = t THEN log[t] \o events ELSE log[u]
    BY <1>1, <1>2
  <2>2. log' \in [Tasks -> Seq(EventTypes)]
    BY <1>1, <1>2, <2>0
  <2>3. Longer
    <3> SUFFICES ASSUME NEW u \in Tasks
                 PROVE  /\ Len(log[u]) <= Len(log'[u])
                        /\ \A k \in 1..Len(log[u]) : log'[u][k] = log[u][k]
      BY DEF Longer
    <3>1. log[u] \in Seq(EventTypes)
      BY <1>1
    <3>2. CASE u = t
      <4>1. log[u] = log[t] /\ log'[u] = log[t] \o events
        BY <2>1, <3>2
      <4>2. Len(log[t]) <= Len(log[t] \o events)
        BY <2>0
      <4> QED BY <2>0, <4>1, <4>2
    <3>3. CASE u # t
      BY <2>1, <3>1, <3>3
    <3> QED BY <3>2, <3>3
  <2> QED BY <1>2, <2>2, <2>3, LogsGrow
<1>3. ASSUME NEW t \in Tasks, NEW events \in Seq(EventTypes), Publish(t, events)
      PROVE  PageInv'
  BY <1>2, <1>3 DEF Publish, pageVars
<1>4. ASSUME NEW t \in Tasks, Start(t) \/ End(t)
      PROVE  PageInv'
  <2>1. /\ <<"started">> \in Seq(EventTypes)
        /\ <<"delta", "answer", "verification", "completed">> \in Seq(EventTypes)
        /\ <<"failed", "error">> \in Seq(EventTypes)
        /\ <<"aborted">> \in Seq(EventTypes)
    BY DEF EventTypes
  <2> QED BY <1>3, <1>4, <2>1 DEF Start, End
<1>5. CASE AnswerAbort
  <2>1. UNCHANGED <<client, current, store>>
    BY <1>5 DEF AnswerAbort, pageVars
  <2>2. CASE log' = log
    <3>1. Longer
      BY <1>1, <2>2 DEF Longer
    <3> QED BY <1>1, <2>1, <2>2, <3>1, LogsGrow
  <2>3. CASE log' = [log EXCEPT ![request.task] = Append(log[request.task], "aborted")]
    <3>1. CASE request.task \in Tasks
      <4>1. Append(log[request.task], "aborted") = log[request.task] \o <<"aborted">>
        BY <1>1, <3>1
      <4>2. <<"aborted">> \in Seq(EventTypes)
        BY DEF EventTypes
      <4>3. log' = [log EXCEPT ![request.task] = log[request.task] \o <<"aborted">>]
        BY <2>3, <4>1
      <4> QED BY <1>2, <2>1, <3>1, <4>2, <4>3
    <3>2. CASE request.task \notin Tasks
      <4>1. log' = log
        BY <1>1, <2>3, <3>2
      <4> QED BY <2>2, <4>1
    <3> QED BY <3>1, <3>2
  <2> QED BY <1>5, <2>2, <2>3 DEF AnswerAbort
<1> QED BY <1>4, <1>5

\* The client's steps but for those that read.
LEMMA ClientSteps ==
  ASSUME PageInv, NEW c \in Clients,
         \/ Accept(c) \/ Refuse(c) \/ Refused(c) \/ Timer(c)
         \/ FailToConnect(c) \/ Break(c) \/ Drop(c)
  PROVE  PageInv'
<1> DEFINE k == client[c]
<1>1. k \in SseClients /\ store \in Stores /\ Alike(store, store)
  BY StoreStays DEF PageInv, TypeOK
<1>2. CASE Accept(c) \/ Refuse(c) \/ Timer(c)
  <2>1. Live(k) /\ UNCHANGED <<log, current, store>>
    BY <1>2 DEF Accept, Refuse, Timer, Live, serverVars, pageVars
  <2>2. ASSUME NEW phase \in Phases, client' = [client EXCEPT ![c].phase = phase]
        PROVE  PageInv'
    <3> DEFINE j == [k EXCEPT !.phase = phase]
    <3>1. j \in SseClients /\ j.task = k.task /\ j.seen = k.seen
      BY <1>1 DEF SseClients
    <3>2. client' = [client EXCEPT ![c] = j]
      BY <2>2
    <3> HIDE DEF j
    <3> QED BY <1>1, <2>1, <3>1, <3>2, ClientsGoOn, QuietSteps
  <2>3. CASE Accept(c)
    <3> DEFINE j == [k EXCEPT !.phase = "reading", !.pos = 0, !.retries = 0]
    <3>1. j \in SseClients /\ j.task = k.task /\ j.seen = k.seen
      BY <1>1 DEF SseClients, Phases
    <3>2. client' = [client EXCEPT ![c] = j]
      BY <2>3 DEF Accept
    <3> HIDE DEF j
    <3> QED BY <1>1, <2>1, <3>1, <3>2, ClientsGoOn, QuietSteps
  <2>4. "refused" \in Phases /\ "connecting" \in Phases
    BY DEF Phases
  <2> QED BY <1>2, <2>2, <2>3, <2>4 DEF Refuse, Timer
<1>3. CASE Refused(c)
  <2>1. Off \in SseClients /\ ~Live(Off) /\ "not found" \in Errors
    BY DEF Off, Opened, SseClients, Phases, Live, Errors
  <2>2. client' = [client EXCEPT ![c] = Off] /\ store' = OnError(store, "not found")
        /\ UNCHANGED <<log, current>>
    BY <1>3 DEF Refused, serverVars, pageVars
  <2> QED BY <1>1, <2>1, <2>2, ErrorsAreQuiet, ClientsGoOn, QuietSteps
<1>4. CASE FailToConnect(c) \/ Break(c) \/ Drop(c)
  <2>1. Live(k) /\ UNCHANGED <<log, current>>
    BY <1>4 DEF FailToConnect, Break, Drop, Broken, Live, serverVars, pageVars
  <2>2. \E error \in {None, "disconnected"} : Reconnect(c, error)
    BY <1>4 DEF FailToConnect, Break, Drop, Broken
  <2> QED BY <2>1, <2>2, ReconnectSteps
<1> QED BY <1>2, <1>3, <1>4

\* A client that is closed follows nothing, and no other one does.
LEMMA NoneIsLeft ==
  ASSUME PageInv
  PROVE  /\ CurrentClosed \in [Clients -> SseClients]
         /\ \A c \in Clients : ~Live(CurrentClosed[c])
<1>1. Off \in SseClients /\ ~Live(Off)
  BY DEF Off, Opened, SseClients, Phases, Live
<1> QED BY <1>1 DEF CurrentClosed, Closed, PageInv, TypeOK, LiveIsShown, Live

\* The page's steps.
LEMMA PageSteps ==
  ASSUME PageInv,
         \/ \E t \in Tasks : Visit(t)
         \/ Restart \/ Leave \/ Retry \/ Abort \/ AbortReturns
  PROVE  PageInv'
<1>1. /\ client \in [Clients -> SseClients] /\ current \in Clients \cup {None}
      /\ store \in Stores /\ Alike(store, store)
  BY StoreStays DEF PageInv, TypeOK
<1>2. CASE \E t \in Tasks : Visit(t)
  BY <1>2, FollowSteps DEF Visit, serverVars
<1>3. CASE Retry
  <2>1. store.task \in Tasks
    BY <1>1, <1>3 DEF Retry, PageInv, TypeOK, Stores
  <2> QED BY <1>3, <2>1, FollowSteps DEF Retry, serverVars
<1>4. CASE Restart \/ Abort
  <2>1. UNCHANGED <<log, client, current, store>>
    BY <1>4 DEF Restart, Abort, serverVars, pageVars
  <2> QED BY <1>1, <2>1, QuietSteps DEF Quiet
<1>5. CASE Leave
  <2>1. client' = CurrentClosed /\ current' = None /\ UNCHANGED <<log, store>>
    BY <1>5 DEF Leave, serverVars
  <2> QED BY <1>1, <2>1, NoneIsLeft, QuietSteps DEF Quiet
<1>6. CASE AbortReturns
  <2>1. client' \in {CurrentClosed, client} /\ UNCHANGED <<log, current>>
    BY <1>6 DEF AbortReturns, serverVars, pageVars
  <2>2. store' \in Stores /\ Alike(store', store)
        /\ (store'.task = None => store'.status = store.status)
    <3>1. CASE store' = store
      BY <1>1, <3>1
    <3>2. CASE store.status \in DOMAIN Allowed /\ store' = SetStatus(store, "aborted")
      <4>1. "aborted" \in Statuses /\ "idle" \notin DOMAIN Allowed
        BY DEF Statuses, Allowed
      <4>2. /\ store' \in Stores
            /\ store' = [store EXCEPT !.status = store'.status]
            /\ store'.status \in {store.status, "aborted"}
        BY <1>1, <3>2, <4>1, StatusIsSet
      <4>3. store'.task = store.task /\ Alike(store', store)
        BY <1>1, <4>2 DEF Alike, Stores
      <4>4. store.task # None
        BY <3>2, <4>1 DEF PageInv, TypeOK
      <4> QED BY <4>2, <4>3, <4>4
    <3> QED BY <1>6, <3>1, <3>2 DEF AbortReturns
  <2> QED BY <1>1, <2>1, <2>2, NoneIsLeft, QuietSteps DEF Quiet
<1> QED BY <1>2, <1>3, <1>4, <1>5, <1>6

LEMMA PageInvSteps == PageInv /\ [Next]_vars => PageInv'
<1>1. SUFFICES ASSUME PageInv, [Next]_vars PROVE PageInv'
  OBVIOUS
<1>2. CASE UNCHANGED vars
  <2>1. UNCHANGED <<log, client, current, store>>
    BY <1>2 DEF vars, serverVars, pageVars
  <2> QED BY <1>1, <2>1, StoreStays, QuietSteps DEF Quiet, PageInv, TypeOK
<1>3. CASE Next
  BY <1>1, <1>3, ServerSteps, ClientSteps, ReadSteps, PageSteps DEF Next, StepClient
<1> QED BY <1>1, <1>2, <1>3

-----------------------------------------------------------------------------
(* The theorems *)

LEMMA PageInvAlways == Spec => []PageInv
BY PageInit, PageInvSteps, PTL DEF Spec

\* However often connections are lost and the log is replayed, whatever pages were
\* open before and however abort requests are answered, the page shows what one
\* reading of the log of its task gives (SseClient.consume, applySSEEvent).
THEOREM PagesReplay == Spec => []PageIsReplay
<1>1. PageInv => PageIsReplay
  <2> SUFFICES ASSUME PageInv, store.task # None PROVE PageIsReplay
    BY DEF PageIsReplay
  <2> DEFINE t == store.task
             n == Len(store.trace)
             r == ApplyUpTo(Fresh(t), t, log[t], 0, n)
  <2>1. n <= Len(log[t]) /\ Alike(store, r)
    BY DEF PageInv, Shows
  <2> QED BY <2>1 DEF PageIsReplay, Alike
<1> QED BY <1>1, PageInvAlways, PTL

\* However a user goes from page to page, aborts and retries, at most one client
\* follows a stream, and it is that of the page (restart, close).
THEOREM NoClientIsLeft == Spec => []OneLiveClient
<1>1. PageInv => OneLiveClient
  BY DEF PageInv, LiveIsShown, Live, OneLiveClient
<1> QED BY <1>1, PageInvAlways, PTL
=============================================================================
