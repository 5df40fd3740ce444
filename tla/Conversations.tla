--------------------------- MODULE Conversations ---------------------------
(***************************************************************************)
(* Chats of a session: RealWorkflowRunner.run (api/runner_real.py) loads   *)
(* the session's history, runs the graph, stores the turn, writes two      *)
(* audit entries and publishes the answer; api/memory.py keeps the         *)
(* messages and fits them into a budget of tokens.                         *)
(*                                                                         *)
(* Every call of the memory and of the audit store runs in a thread and is *)
(* awaited: other chats go on meanwhile, a chat may be cancelled, and the  *)
(* thread of a cancelled chat goes on if it had begun.  A message is its   *)
(* chat, its role and its number of tokens.                                *)
(***************************************************************************)
EXTENDS Settings, Sequences, SequencesExt, FiniteSets

CONSTANTS
  Chats,    \* the chat tasks
  Sessions  \* the sessions they name

VARIABLES
  messages, \* messages[s]: what is stored of session s
  at,       \* at[c]: what the coroutine of chat c is at
  session,  \* session[c]: the session it names, or None
  history,  \* history[c]: what it was given of the session, while the graph runs
  answer,   \* answer[c]: the size of its answer, None before the graph ended
  thread,   \* thread[c]: the call it has in a thread, and how far that is
  faults    \* how often an entry could not be written

vars == <<messages, at, session, history, answer, thread, faults>>

\* The calls that are awaited, by what they do.
Calls == {"history", "user", "assistant", "audit", "verify"}

NoThread == [call |-> None, is |-> "over"]

Message(c, role, size) == [chat |-> c, role |-> role, size |-> size]

-----------------------------------------------------------------------------
(* api/memory.py *)

Tokens(ms) ==
  LET upTo[n \in 0..Len(ms)] == IF n = 0 THEN 0 ELSE upTo[n - 1] + ms[n].size
  IN  upTo[Len(ms)]

LastOf(ms, n) == IF n >= Len(ms) THEN ms ELSE SubSeq(ms, Len(ms) - n + 1, Len(ms))

\* _split_by_budget(): from the newest back while they fit; the newest always.
Kept(ms, budget) ==
  LET fits == {n \in 0..Len(ms) : n <= 1 \/ Tokens(LastOf(ms, n)) <= budget}
  IN  LastOf(ms, Max(fits))

\* The newest messages that leave room for a summary, perhaps none.
MakeRoom(kept, summary) ==
  LET fits == {n \in 0..Len(kept) : n = 0 \/ summary + Tokens(LastOf(kept, n)) <= Budget}
  IN  LastOf(kept, Max(fits))

\* summarize(): the sizes of what can come of it; a failure or an empty summary is
\* none, and so it is without a summarizer.  A summary is as large as a message.
Summaries(overflow) == IF Summarises /\ overflow > 0 THEN Sizes ELSE {}

\* _compress(): the possible results.
Compress(ms) ==
  IF Tokens(ms) <= Budget THEN {ms}
  ELSE LET kept == Kept(ms, Budget)
       IN  {kept} \cup
           {<<Message(None, "system", n)>> \o MakeRoom(kept, n) :
              n \in Summaries(Len(ms) - Len(kept))}

\* Mutant: the rows in ascending order, up to the limit.
Oldest(ms) == IF HistoryLimit >= Len(ms) THEN ms ELSE SubSeq(ms, 1, HistoryLimit)

\* What history() takes of a session, in memory or from the data base.
Recent(ms) == LastOf(ms, HistoryLimit)

\* append(): an insert into messages needs a row of sessions, which nothing
\* inserts.
CanAppend == ~Persistent

-----------------------------------------------------------------------------
\* What a session may hold when the chats begin: nothing, or an earlier turn.
EarlierTurns ==
  {<<>>} \cup {<<Message(None, "user", m), Message(None, "assistant", n)>> :
               m \in Sizes, n \in Sizes}

\* build_session_memory(): the data base, where nothing is ever stored, or memory.
SessionMemory == IF Persistent THEN {<<>>} ELSE EarlierTurns

Init ==
  /\ messages \in [Sessions -> SessionMemory]
  /\ at       = [c \in Chats |-> "new"]
  /\ session  = [c \in Chats |-> None]
  /\ history  = [c \in Chats |-> <<>>]
  /\ answer   = [c \in Chats |-> None]
  /\ thread   = [c \in Chats |-> NoThread]
  /\ faults   = 0

\* The coroutine calls a thread and awaits it, or is somewhere else.
Await(c, call) ==
  /\ at'     = [at EXCEPT ![c] = call]
  /\ thread' = [thread EXCEPT ![c] = [call |-> call, is |-> "called"]]

Continue(c, next) ==
  /\ at'     = [at EXCEPT ![c] = next]
  /\ thread' = [thread EXCEPT ![c] = NoThread]

\* The chat starts; one that names no session has no memory, also not under the
\* session id that create_chat() made up for the reply.
Start(c) ==
  /\ at[c] = "new"
  /\ \E s \in Sessions \cup {None} :
       /\ session' = [session EXCEPT ![c] = s]
       /\ IF s = None THEN Continue(c, "graph") ELSE Await(c, "history")
  /\ UNCHANGED <<messages, history, answer, faults>>

\* The graph raises, or ends with an answer, always of some text.
Think(c) ==
  /\ at[c] = "graph"
  /\ \/ Continue(c, "failed") /\ UNCHANGED answer
     \/ /\ \E n \in Sizes : answer' = [answer EXCEPT ![c] = n]
        /\ Await(c, IF session[c] = None THEN "audit" ELSE "user")
  /\ history' = [history EXCEPT ![c] = <<>>]
  /\ UNCHANGED <<messages, session, faults>>

\* Mutant: of the turn, only the question is stored.
ProceedUnstored(c) ==
  /\ thread[c].is = "done" /\ at[c] = thread[c].call
  /\ \/ at[c] = "history"   /\ Continue(c, "graph")
     \/ at[c] = "user"      /\ Await(c, "audit")
     \/ at[c] = "assistant" /\ Await(c, "audit")
     \/ at[c] = "audit"     /\ Await(c, "verify")
     \/ at[c] = "verify"    /\ Continue(c, "completed")
  /\ UNCHANGED <<messages, session, history, answer, faults>>

\* An awaited call returned.  After the last one the answer is published.
Proceed(c) ==
  /\ thread[c].is = "done" /\ at[c] = thread[c].call
  /\ \/ at[c] = "history"   /\ Continue(c, "graph")
     \/ at[c] = "user"      /\ Await(c, "assistant")
     \/ at[c] = "assistant" /\ Await(c, "audit")
     \/ at[c] = "audit"     /\ Await(c, "verify")
     \/ at[c] = "verify"    /\ Continue(c, "completed")
  /\ UNCHANGED <<messages, session, history, answer, faults>>

\* It raised: so does the runner.
Raise(c) ==
  /\ thread[c].is = "raised" /\ at[c] = thread[c].call
  /\ Continue(c, "failed")
  /\ UNCHANGED <<messages, session, history, answer, faults>>

\* The chat is cancelled where it waits.  Its call goes on if it had begun, and
\* never begins if it had not.
Cancel(c) ==
  /\ at[c] \in Calls \cup {"graph"}
  /\ at' = [at EXCEPT ![c] = "aborted"]
  /\ \E left \in {NoThread} \cup {thread[c]} :
       /\ left.is \in {"over", "called"}
       /\ thread' = [thread EXCEPT ![c] = left]
  /\ UNCHANGED <<messages, session, history, answer, faults>>

-----------------------------------------------------------------------------
(* The threads *)

\* The call returns or raises; nobody may be waiting any more.
Returns(c, call) == thread[c] = [call |-> call, is |-> "called"]

Finish(c, how) ==
  thread' = [thread EXCEPT ![c] = IF at[c] = @.call THEN [@ EXCEPT !.is = how]
                                  ELSE NoThread]

\* history().
ReadHistory(c) ==
  /\ Returns(c, "history")
  /\ \E h \in Compress(Recent(messages[session[c]])) :
       history' = [history EXCEPT ![c] = h]
  /\ Finish(c, "done")
  /\ UNCHANGED <<messages, at, session, answer, faults>>

\* append().
Store(c, role, size) ==
  /\ IF CanAppend
     THEN /\ messages' = [messages EXCEPT ![session[c]] =
                            Append(@, Message(c, role, size))]
          /\ Finish(c, "done")
     ELSE Finish(c, "raised") /\ UNCHANGED messages
  /\ UNCHANGED <<at, session, history, answer, faults>>

StoreUser(c) == Returns(c, "user") /\ \E n \in Sizes : Store(c, "user", n)

StoreAssistant(c) ==
  Returns(c, "assistant") /\ Store(c, "assistant", answer[c])

\* AuditStore.add().
Record(c, call) ==
  /\ Returns(c, call)
  /\ \/ Finish(c, "done") /\ UNCHANGED faults
     \/ /\ faults < MaxFaults /\ faults' = faults + 1
        /\ Finish(c, "raised")
  /\ UNCHANGED <<messages, at, session, history, answer>>

-----------------------------------------------------------------------------
Step(c) ==
  \/ Start(c) \/ Think(c) \/ Proceed(c) \/ Raise(c) \/ Cancel(c)
  \/ ReadHistory(c) \/ StoreUser(c) \/ StoreAssistant(c)
  \/ Record(c, "audit") \/ Record(c, "verify")

Next == \E c \in Chats : Step(c)

Spec == Init /\ [][Next]_vars

-----------------------------------------------------------------------------
(* Properties *)

\* Where the messages of chat c are in its session.
StoredOf(c) ==
  IF session[c] = None THEN {}
  ELSE {i \in DOMAIN messages[session[c]] : messages[session[c]][i].chat = c}

\* The message at i is what chat c stored in that role.
StoredAs(c, i, role) == i \in StoredOf(c) /\ messages[session[c]][i].role = role

\* Whatever other chats of the session, cancelled ones among them, do meanwhile:
\* a chat whose answer is out has stored its question and then that answer, once,
\* so the next chat of the session is given both; no chat stores more than that.
TurnIsStored ==
  \A c \in Chats :
    /\ \A i \in StoredOf(c) :
         \/ StoredAs(c, i, "user")
         \/ StoredAs(c, i, "assistant") /\ \E q \in StoredOf(c) : q < i /\ StoredAs(c, q, "user")
    /\ \A i, j \in StoredOf(c) :
         messages[session[c]][i].role = messages[session[c]][j].role => i = j
    /\ at[c] = "completed" /\ session[c] # None =>
         \E i \in StoredOf(c) :
           StoredAs(c, i, "assistant") /\ messages[session[c]][i].size = answer[c]

\* What of h are messages of the session: all but a summary.
Quoted(h) == IF h[1].role = "system" THEN Tail(h) ELSE h

\* h is given of a session where these messages are stored: it quotes the newest
\* ones, in their order and with none left out; it fits the budget, or is one
\* message only; and a further message would be too many or not fit beside it.
GivenOf(h, stored) ==
  LET n == Len(Quoted(h))
  IN  /\ n <= Len(stored)
      /\ Quoted(h) = SubSeq(stored, Len(stored) - n + 1, Len(stored))
      /\ Tokens(h) <= Budget \/ Len(h) = 1
      /\ \/ n = Len(stored) \/ n = HistoryLimit
         \/ Tokens(h) + stored[Len(stored) - n].size > Budget

\* A chat is given the newest messages of its session at the moment they are
\* read, as many as limit and budget let pass beside the summary, whichever of
\* the turns of other chats are stored then.
HistoryIsRecent ==
  [][\A c \in Chats :
       history'[c] \notin {history[c], <<>>} =>
         GivenOf(history'[c], messages[session[c]])]_vars

-----------------------------------------------------------------------------
(* What the source says and the code does not do *)

\* "With persistence on, the session memory goes to MySQL" (api/runner_real.py:422):
\* a chat whose graph gave an answer fails only when its audit does.
MemoryIsNoFault ==
  \A c \in Chats : at[c] = "failed" /\ answer[c] # None => faults > 0
=============================================================================
