------------------------------- MODULE Service -------------------------------
(***************************************************************************)
(* The parts of the service that share its process and nothing else: the   *)
(* chats of sessions, the rate limit of one scope and route, the calls of  *)
(* synchronous libraries, an evaluation, the documents that are uploaded,  *)
(* the accounts and their tokens, the vector store and its searches, and   *)
(* the pages of companies.  A behaviour is one of one part, while the      *)
(* others stay where they begin.                                           *)
(***************************************************************************)
EXTENDS Settings, Sequences

CONSTANTS
  Chats, Sessions,            \* see Conversations
  Requests,                   \* see RateLimit
  Uploads, Contents, Default, Times, Lengths, \* see Documents
  Users, Roles,               \* see Access
  Files, Editions, Scores, CandidateK, RerankK, MaxChunks,
  ChunkSize, ChunkOverlap, \* see Retrieval
  Domestic, Foreign, Rows, CacheMax      \* see MarketData

ASSUME ServiceAssumption ==
  /\ None \notin Chats /\ None \notin Sessions
  /\ Editions \subseteq Seq(Nat) /\ Scores \subseteq Int /\ MaxChunks \in Nat
  /\ ChunkSize \in Nat /\ ChunkOverlap \in Nat /\ ChunkOverlap < ChunkSize
  /\ CacheMax \in Nat /\ Times \subseteq Nat /\ Lengths \subseteq Nat \ {0}

VARIABLES
  part,    \* the part that takes steps
  messages, at, session, history, answer, thread, faults,
  count, ttl, gate, got, recent, outages,
  waiting, work, queue, lock, login,
  spec, executor, persists, stage, outcomes, last, writer, pending, rows, result,
  kept, tenants, docs, upload, reader,
  accounts, members, token, clock, held, tasks, served, refusal,
  documents, query,
  studies, row, cache, finances, used

chatVars     == <<messages, at, session, history, answer, thread, faults>>
limitVars    == <<count, ttl, gate, got, recent, outages>>
callVars     == <<waiting, work, queue, lock, login>>
evalVars     == <<spec, executor, persists, stage, outcomes, last, writer, pending, rows, result>>
documentVars == <<kept, tenants, docs, upload, reader>>
accessVars   == <<accounts, members, token, clock, held, tasks, served, refusal>>
searchVars   == <<documents, query>>
companyVars  == <<studies, row, cache, finances, used>>

vars == <<part, chatVars, limitVars, callVars, evalVars, documentVars, accessVars,
          searchVars, companyVars>>

Chat   == INSTANCE Conversations
Gate   == INSTANCE RateLimit WITH at <- gate, faults <- outages
Pool   == INSTANCE BlockingCalls
Eval   == INSTANCE Evaluation WITH session <- pending
Docs   == INSTANCE Documents
Doors  == INSTANCE Access WITH answer <- refusal
Search == INSTANCE Retrieval
Market == INSTANCE MarketData

Parts == {"chat", "limit", "calls", "evaluation", "documents", "access", "search", "companies"}

Init ==
  /\ part \in Parts
  /\ Chat!Init /\ Gate!Init /\ Pool!Init /\ Eval!Init /\ Docs!Init /\ Doors!Init
  /\ Search!Init /\ Market!Init
  /\ part # "chat" => \A s \in Sessions : messages[s] = <<>>
  /\ part # "evaluation" => spec = Eval!BuildSpec({}, 1) /\ executor = None /\ ~persists
  /\ part # "documents" => kept = "memory"

Next ==
  \/ /\ part = "chat" /\ Chat!Next
     /\ UNCHANGED <<part, limitVars, callVars, evalVars, documentVars,
                    accessVars, searchVars, companyVars>>
  \/ /\ part = "limit" /\ Gate!Next
     /\ UNCHANGED <<part, chatVars, callVars, evalVars, documentVars,
                    accessVars, searchVars, companyVars>>
  \/ /\ part = "calls" /\ Pool!Next
     /\ UNCHANGED <<part, chatVars, limitVars, evalVars, documentVars,
                    accessVars, searchVars, companyVars>>
  \/ /\ part = "evaluation" /\ Eval!Next
     /\ UNCHANGED <<part, chatVars, limitVars, callVars, documentVars,
                    accessVars, searchVars, companyVars>>
  \/ /\ part = "documents" /\ Docs!Next
     /\ UNCHANGED <<part, chatVars, limitVars, callVars, evalVars,
                    accessVars, searchVars, companyVars>>
  \/ /\ part = "access" /\ Doors!Next
     /\ UNCHANGED <<part, chatVars, limitVars, callVars, evalVars,
                    documentVars, searchVars, companyVars>>
  \/ /\ part = "search" /\ Search!Next
     /\ UNCHANGED <<part, chatVars, limitVars, callVars, evalVars,
                    documentVars, accessVars, companyVars>>
  \/ /\ part = "companies" /\ Market!Next
     /\ UNCHANGED <<part, chatVars, limitVars, callVars, evalVars,
                    documentVars, accessVars, searchVars>>

Spec == Init /\ [][Next]_vars

-----------------------------------------------------------------------------
(* Properties: each is one of a part, and stated there *)

\* A chat whose answer is out has stored its turn, once and in order.
TurnIsStored == part = "chat" => Chat!TurnIsStored

\* A chat is given the newest messages, as many as limit and budget let pass.
HistoryIsRecent == Chat!HistoryIsRecent

\* A chat whose graph gave an answer fails only when its audit does.
MemoryIsNoFault == part = "chat" => Chat!MemoryIsNoFault

\* The counter lets through at most twice the limit in any window's length.
BurstIsBounded == part = "limit" => Gate!BurstIsBounded

\* A counter that never expires is one that Redis failed.
StuckOnlyByFault == part = "limit" => Gate!StuckOnlyByFault

\* A query runs in the login of its own thread, and no lock is left behind.
SessionIsOwn == part = "calls" => Pool!SessionIsOwn

\* An evaluation is in the database as a whole or not at all.
EvaluationIsWhole == part = "evaluation" => Eval!EvaluationIsWhole

\* No better result of a case gets a worse verdict.
ScoresAreEarned == part = "evaluation" => Eval!ScoresAreEarned

\* An accepted upload is there, and once per tenant in MySQL.
UploadIsKept == part = "documents" => Docs!UploadIsKept

\* Page after page a caller is shown each of its documents.
PagesSkipNothing == part = "documents" => Docs!PagesSkipNothing

\* A request is served in a role its account had less than a token's life ago,
\* and sees one tenant.
RightsAreRecent == part = "access" => Doors!RightsAreRecent

\* Chunks leave no gap in a document.
DocumentIsCovered == part = "search" => Search!DocumentIsCovered

\* A search drops no candidate for one both channels think worse of.
SearchIsFair == part = "search" => Search!SearchIsFair

\* A cache keeps what was used last.
CacheKeepsTheLatest == part = "companies" => Market!CacheKeepsTheLatest
=============================================================================
