---------------------------- MODULE ResearchPage ----------------------------
(***************************************************************************)
(* The research page of the web client: the user goes from task to task,   *)
(* aborts and retries; an SseClient follows the stream of the task through *)
(* lost connections (apps/web/lib/research/sse-client.ts) and its events   *)
(* are written into the one store that all pages share (sse-handler.ts,    *)
(* research-store.ts, state-machine.ts, app/research/[taskId]/page.tsx).   *)
(*                                                                         *)
(* The server is what TaskStream promises: a connection reads the log of   *)
(* its task from the beginning.  An action is one JavaScript callback, or  *)
(* one step of the server or of the network.  Texts are left out: a delta  *)
(* is counted and an answer is there or not.                               *)
(***************************************************************************)
EXTENDS Integers, Sequences, SequencesExt, FiniteSets

CONSTANTS
  Tasks,      \* the tasks a user may look at
  Clients,    \* the SseClients there may be at once
  MaxRetries, \* MAX_SSE_RETRIES
  MaxMounts,  \* bound: how often a page is opened or left
  MaxFaults,  \* bound: failures of the network
  None        \* nothing

ASSUME PageAssumption ==
  /\ IsFiniteSet(Tasks) /\ IsFiniteSet(Clients)
  /\ MaxRetries \in Nat /\ MaxMounts \in Nat /\ MaxFaults \in Nat
  /\ None \notin Tasks \cup Clients

VARIABLES
  log,     \* log[t]: the types of the events the server published
  known,   \* known[t]: the server knows the task; a restart forgets all
  client,  \* client[c]: the SseClient, or Off: see below
  current, \* sseRef.current of the page that is mounted
  mount,   \* the number of the page; odd while one is mounted
  request, \* the abort request under way
  store,   \* the store
  faults   \* how often the network failed

serverVars == <<log, known>>
pageVars   == <<current, mount>>
vars == <<serverVars, client, pageVars, request, store, faults>>

\* A client: the task it is for, what its connect() waits for, how many events of
\* the connection it has read, how many it has consumed (ids are not reused and
\* every connection begins with the first event, so these are the first ones),
\* and its reconnections since something worked.
Opened(t) == [task |-> t, phase |-> "connecting", pos |-> 0, seen |-> 0,
              retries |-> 0]

\* A client that waits for nothing, and never will again.
Off == [Opened(None) EXCEPT !.phase = "off"]

TerminalEvents == {"completed", "failed", "aborted"}

Ended(t) == \E i \in 1..Len(log[t]) : log[t][i] \in TerminalEvents

\* The server has nothing more to send about the task.
Over(t) == Ended(t) \/ ~known[t]

-----------------------------------------------------------------------------
(* The store *)

\* startTask().
Fresh(t) == [task |-> t, status |-> "submitting", trace |-> <<>>,
             deltas |-> 0, answer |-> FALSE, error |-> None]

\* ALLOWED_TRANSITIONS; "idle" and "queued" are never set on this page.
Allowed ==
  [submitting |-> {"running", "failed", "aborted"},
   running    |-> {"streaming", "failed", "aborted"},
   streaming  |-> {"verifying", "running", "failed", "aborted"},
   verifying  |-> {"completed", "failed", "aborted"},
   completed  |-> {}, failed |-> {}, aborted |-> {}]

\* setStatus(): what is not allowed throws, and changes nothing.
SetStatus(s, next) ==
  IF next \in Allowed[s.status] THEN [s EXCEPT !.status = next] ELSE s

\* The status an event stands for.
StatusOf ==
  [started |-> "running", delta |-> "streaming", verification |-> "verifying",
   completed |-> "completed", failed |-> "failed", aborted |-> "aborted"]

\* applySSEEvent() of the i-th event of a task, of this type.  The server's
\* task.failed has no error in its data: the error event that follows it has.
Apply(s, t, i, type) ==
  LET traced == [s EXCEPT !.trace =
                  IF Contains(@, <<t, i>>) THEN @ ELSE Append(@, <<t, i>>)]
      moved  == IF type \in DOMAIN StatusOf
                THEN SetStatus(traced, StatusOf[type]) ELSE traced
  IN  [moved EXCEPT !.deltas = IF type = "delta" THEN @ + 1 ELSE @,
                    !.answer = IF type = "answer" THEN TRUE ELSE @,
                    !.error  = IF type = "error" THEN "task" ELSE @]

\* The events of a task after the i-th up to the j-th one.
ApplyUpTo(s, t, events, i, j) ==
  LET applied[k \in Nat] ==
        IF k <= i THEN s ELSE Apply(applied[k - 1], t, k, events[k])
  IN  applied[j]

Showing(s) == s.deltas > 0 \/ s.answer

\* The page's onError: an error is shown unless there is an answer or outcome.
OnError(s, error) ==
  IF Showing(s) \/ s.status \in {"completed", "failed"} THEN s
  ELSE [s EXCEPT !.error = error]

-----------------------------------------------------------------------------
Init ==
  /\ log     = [t \in Tasks |-> <<>>]
  /\ known   = [t \in Tasks |-> TRUE]
  /\ client  = [c \in Clients |-> Off]
  /\ current = None
  /\ mount   = 0
  /\ request = None
  /\ store   = [Fresh(None) EXCEPT !.status = "idle"]
  /\ faults  = 0

Fault == faults < MaxFaults /\ faults' = faults + 1

-----------------------------------------------------------------------------
(* The server *)

Publish(t, events) ==
  /\ known[t]
  /\ log' = [log EXCEPT ![t] = @ \o events]
  /\ UNCHANGED <<known, client, pageVars, request, store, faults>>

Start(t) == log[t] = <<>> /\ Publish(t, <<"started">>)

\* The task ends; a runner that succeeds publishes its answer in one go.  What
\* it published before, the page only adds to its trace: it is left out.
End(t) ==
  /\ log[t] # <<>> /\ ~Ended(t)
  /\ \E events \in {<<"delta", "answer", "verification", "completed">>,
                    <<"failed", "error">>, <<"aborted">>} :
       Publish(t, events)

\* The process restarts: tasks were kept in memory.
Restart ==
  /\ \E t \in Tasks : known[t]
  /\ known' = [t \in Tasks |-> FALSE]
  /\ UNCHANGED <<log, client, pageVars, request, store, faults>>

-----------------------------------------------------------------------------
(* The client *)

\* close(): whatever connect() waits for ends and is not told, but for the
\* body of a refusal: that error is reported all the same.
Closed(k) == IF k.phase = "refused" THEN k ELSE Off

\* The page's clients after it closed the one it has.
CurrentClosed ==
  [c \in Clients |-> IF c = current THEN Closed(client[c]) ELSE client[c]]

\* scheduleReconnect(), with the error that was caught, or None.
Reconnect(c, error) ==
  LET told == IF error = None THEN store ELSE OnError(store, error)
  IN  IF client[c].retries >= MaxRetries
      THEN /\ client' = [client EXCEPT ![c] = Off]
           /\ store'  = OnError(told, "disconnected")
      ELSE /\ client' = [client EXCEPT ![c].phase = "waiting",
                                       ![c].retries = @ + 1]
           /\ store'  = told

\* The stream is there.
Accept(c) ==
  /\ client[c].phase = "connecting" /\ known[client[c].task]
  /\ client' = [client EXCEPT ![c].phase = "reading", ![c].pos = 0,
                              ![c].retries = 0]
  /\ UNCHANGED <<serverVars, pageVars, request, store, faults>>

\* 4xx: no more reconnecting; the body is awaited for the error's code.
Refuse(c) ==
  /\ client[c].phase = "connecting" /\ ~known[client[c].task]
  /\ client' = [client EXCEPT ![c].phase = "refused"]
  /\ UNCHANGED <<serverVars, pageVars, request, store, faults>>

Refused(c) ==
  /\ client[c].phase = "refused"
  /\ client' = [client EXCEPT ![c] = Off]
  /\ store'  = OnError(store, "not found")
  /\ UNCHANGED <<serverVars, pageVars, request, faults>>

\* 5xx, or no answer.
FailToConnect(c) ==
  /\ client[c].phase = "connecting" /\ Fault
  /\ Reconnect(c, "disconnected")
  /\ UNCHANGED <<serverVars, pageVars, request>>

\* The connection breaks, with an error or as if the stream was over.
Broken(c) ==
  /\ client[c].phase = "reading"
  /\ \E error \in {None, "disconnected"} : Reconnect(c, error)
  /\ UNCHANGED <<serverVars, pageVars, request>>

\* The network's fault; or the process that served it is gone.
Break(c) == Broken(c) /\ Fault
Drop(c)  == Broken(c) /\ ~known[client[c].task] /\ UNCHANGED faults

\* Mutant: no event ids are kept.
ReadTwice(c) ==
  /\ client[c].phase = "reading"
  /\ LET k == client[c]
         t == k.task
     IN  \E upto \in (k.pos + 1)..Len(log[t]) :
           /\ client' = [client EXCEPT ![c] =
                IF \E i \in (k.pos + 1)..upto : log[t][i] \in TerminalEvents
                THEN Off ELSE [k EXCEPT !.pos = upto, !.retries = 0]]
           /\ store' = ApplyUpTo(store, t, log[t], k.pos, upto)
  /\ UNCHANGED <<serverVars, pageVars, request, faults>>

\* Mutant: the outcome does not close the stream.
ReadOn(c) ==
  /\ client[c].phase = "reading"
  /\ LET k == client[c]
         t == k.task
     IN  \E upto \in (k.pos + 1)..Len(log[t]) :
           IF upto <= k.seen
           THEN client' = [client EXCEPT ![c].pos = upto] /\ UNCHANGED store
           ELSE /\ client' = [client EXCEPT ![c] =
                     [k EXCEPT !.pos = upto, !.seen = upto, !.retries = 0]]
                /\ store' = ApplyUpTo(store, t, log[t], k.seen, upto)
  /\ UNCHANGED <<serverVars, pageVars, request, faults>>

\* A chunk arrives with one event or several.  consume() passes over those it
\* has seen; all the others are applied, also after one that closes the client.
Read(c) ==
  /\ client[c].phase = "reading"
  /\ LET k == client[c]
         t == k.task
     IN  \E upto \in (k.pos + 1)..Len(log[t]) :
           IF upto <= k.seen
           THEN client' = [client EXCEPT ![c].pos = upto] /\ UNCHANGED store
           ELSE /\ client' = [client EXCEPT ![c] =
                     IF \E i \in (k.seen + 1)..upto : log[t][i] \in TerminalEvents
                     THEN Off
                     ELSE [k EXCEPT !.pos = upto, !.seen = upto, !.retries = 0]]
                /\ store' = ApplyUpTo(store, t, log[t], k.seen, upto)
  /\ UNCHANGED <<serverVars, pageVars, request, faults>>

\* The back-off delay is over.
Timer(c) ==
  /\ client[c].phase = "waiting"
  /\ client' = [client EXCEPT ![c].phase = "connecting"]
  /\ UNCHANGED <<serverVars, pageVars, request, store, faults>>

-----------------------------------------------------------------------------
(* The page *)

\* An object that is not in use, for a new client.
Unused == CHOOSE c \in Clients : client[c] = Off

\* restart(): the store begins anew, the client there is is closed and a new
\* one connects.
Follow(t) ==
  /\ \E c \in Clients : client[c] = Off
  /\ client'  = [CurrentClosed EXCEPT ![Unused] = Opened(t)]
  /\ current' = Unused
  /\ store'   = Fresh(t)

Mounted == mount % 2 = 1

\* The user opens the page of a task.
Visit(t) ==
  /\ ~Mounted /\ mount < 2 * MaxMounts
  /\ mount' = mount + 1
  /\ Follow(t)
  /\ UNCHANGED <<serverVars, request, faults>>

\* Mutant: the effect has no clean-up.
LeaveOpen ==
  /\ Mounted
  /\ mount'   = mount + 1
  /\ current' = None
  /\ UNCHANGED <<serverVars, client, request, store, faults>>

\* The user leaves it, perhaps for that of another task: a page with another
\* task is another page.  The store keeps what it has.
Leave ==
  /\ Mounted
  /\ mount'   = mount + 1
  /\ client'  = CurrentClosed
  /\ current' = None
  /\ UNCHANGED <<serverVars, request, store, faults>>

\* The retry button: the task failed and the error that is shown, its own or that
\* of a connection lost before, says that it may be retried.
Retry ==
  /\ Mounted /\ store.status = "failed"
  /\ store.error \in {"task", "disconnected"}
  /\ Follow(store.task)
  /\ UNCHANGED <<serverVars, mount, request, faults>>

\* handleAbort() up to its await.
Abort ==
  /\ Mounted /\ request = None
  /\ store.status \in {"running", "streaming", "verifying"}
  /\ request' = [task |-> store.task, mount |-> mount, reply |-> None]
  /\ UNCHANGED <<serverVars, client, pageVars, store, faults>>

\* The server's answer: the status of the task, which is aborted unless it had
\* ended; or an error; or none comes, whether or not it was aborted.
Outcome(t) == log[t][CHOOSE i \in 1..Len(log[t]) : log[t][i] \in TerminalEvents]

AnswerAbort ==
  /\ request # None /\ request.reply = None
  /\ \E lost \in BOOLEAN :
       /\ IF lost THEN Fault ELSE UNCHANGED faults
       /\ \/ /\ known[request.task] /\ ~Ended(request.task)
             /\ log' = [log EXCEPT ![request.task] = Append(@, "aborted")]
             /\ request' = [request EXCEPT !.reply =
                              IF lost THEN "error" ELSE "aborted"]
          \/ /\ known[request.task] /\ Ended(request.task)
             /\ request' = [request EXCEPT !.reply =
                              IF lost THEN "error" ELSE Outcome(request.task)]
             /\ UNCHANGED log
          \/ /\ lost \/ ~known[request.task]
             /\ request' = [request EXCEPT !.reply = "error"]
             /\ UNCHANGED log
  /\ UNCHANGED <<known, client, pageVars, store>>

\* handleAbort() goes on: the client of this page is closed, if it is still
\* there, and the status is set, whatever task the store is about by now.
AbortReturns ==
  /\ request # None /\ request.reply # None
  /\ client' = IF request.mount = mount THEN CurrentClosed ELSE client
  /\ store' = IF request.reply = "aborted" /\ store.status \in DOMAIN Allowed
              THEN SetStatus(store, "aborted") ELSE store
  /\ request' = None
  /\ UNCHANGED <<serverVars, pageVars, faults>>

-----------------------------------------------------------------------------
StepClient(c) ==
  Accept(c) \/ Refuse(c) \/ Refused(c) \/ Drop(c) \/ Read(c) \/ Timer(c)

Next ==
  \/ \E t \in Tasks : Start(t) \/ End(t) \/ Visit(t)
  \/ \E c \in Clients : StepClient(c) \/ FailToConnect(c) \/ Break(c)
  \/ Restart \/ Leave \/ Retry \/ Abort \/ AnswerAbort \/ AbortReturns

Spec == Init /\ [][Next]_vars

\* Fetches are answered, what is sent arrives, a gone server's connections end
\* and timers go off; that the network fails is never required.
Fairness == \A c \in Clients : WF_vars(StepClient(c))

FairSpec == Spec /\ Fairness

-----------------------------------------------------------------------------
(* Properties *)

\* However often the connection is lost and the log replayed, and whatever
\* pages were open before, the page shows what one reading of the first events
\* of its own task gives: no event of another task, none twice, none left out,
\* no delta added again.  Only an abort request may set the status otherwise.
PageIsReplay ==
  store.task # None =>
    LET t == store.task
        n == Len(store.trace)
    IN  /\ n <= Len(log[t])
        /\ LET replayed == ApplyUpTo(Fresh(t), t, log[t], 0, n)
           IN  /\ store.trace = replayed.trace
               /\ store.deltas = replayed.deltas
               /\ store.answer = replayed.answer
               /\ store.status \in {replayed.status, "aborted"}

\* No client is left behind: one that follows a stream is that of the page.
OneLiveClient ==
  \A c \in Clients : client[c].phase \notin {"off", "refused"} => c = current

\* A client lets go of a task that is over: after the outcome, or a refusal, it
\* neither waits nor reconnects.
OverIsLetGo ==
  \A c \in Clients : \A t \in Tasks :
    client[c].task = t /\ Over(t) ~> client[c].task # t

-----------------------------------------------------------------------------
(* What the source says and the code does not do *)

\* F007: "task.failed: a badge and an error message".  A page whose task failed
\* shows the task's error, once its client is through.
FailureIsExplained ==
  store.status = "failed" /\ current # None /\ client[current] = Off
    => store.error = "task"
=============================================================================
