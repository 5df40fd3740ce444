# FinSage: a verification project

FinSage (`src/src/finsage`, Python 3.11, and the web client in `src/apps/web`) is
a financial research assistant. A FastAPI process takes chat, research, financial
health, due-diligence and report requests, runs each as a background task on an
agent workflow (LangGraph), streams the task's events to browsers by SSE, and
calls retrieval, finance-data providers and language models on the way.

Everything here is written in TLA+ from the code. Paths are relative to the
repository (`src/`); `finsage/` abbreviates `src/src/finsage/`. `PROJECT.json`
maps each definition to the lines it stands for.

## 1. Inventory

For each component: its state, its operations, what is hard about it, and what
makes it correct.

**Task manager and event bus** (`finsage/api/tasks.py`). State: the handles
(status, error code, times, replay buffer, subscriber queues), the `asyncio.Task`
of each running task, a semaphore. Operations: `submit`, `_guarded`/`_execute`,
`emit`, `_close`, `abort`, `subscribe`, `stream`. Hard: one event loop interleaves
submissions, runners, aborts and any number of stream connections at every
`await`; a cancellation may land before the first step, in the semaphore's queue,
between the hand-over of a permit and the step that uses it, or in the runner.
Correct when permits are neither lost nor minted, no queued task starves, a stream
is the log of its task without gap or repetition and ends exactly once the task
has ended, and an abort is answered and final.

**Runners** (`finsage/api/runner_real.py`, `DevRunner` in `api/app.py`). Called by
the task manager with a handle; read session memory, invoke the graph of the task
kind, append the two messages of the turn, emit the answer's events, write audit
entries and set the result. Hard: several awaits, each a point where the task can
be cancelled or another task of the same session can run; threads outlive the
cancelled await. Correct when a conversation turn is stored whole and in order,
and the result agrees with the events and the audit trail.

**Session memory** (`finsage/api/memory.py`). Messages per session, in memory or
MySQL; on read, the newest messages that fit a token budget are kept and the rest
is summarised. Correct when the injected context keeps order, ends with the
newest messages and stays within the budget.

**Workflow graphs and nodes** (`finsage/workflows/nodes.py`, `state.py`,
`reliability.py`, `checkpoint.py`, `finsage/agents/*/graph.py`). A state record
passed through nodes with conditional edges: policy gate, retrieval, financial
data, calculation, verification, debate, abstention, answer, audit; wrappers for
retries and timeouts. Hard: which error code survives to the answer when several
nodes fail, which path skips verification, retries of what was already done.
Correct when a blocked, failed or unverified answer never reaches the user as a
confident one and every run is audited.

**Governance** (`finsage/governance/*.py`): policy rules, verification rules
V001..., confidence scoring, audit entries. Pure operators over the state record.

**Finance providers** (`finsage/providers/finance/*.py`). A registry with
priorities, failover, a retry loop and a circuit breaker per provider; a bounded
thread pool; conflict detection and normalisation of what several providers say.
Hard: concurrent calls share the breaker; time passes between the check and the
recording; failures are counted across calls. Correct when a sick provider is
left alone for its interval, probed afterwards, and never blocks the others.

**Rate limit** (`finsage/api/ratelimit.py`, `persistence/redis.py`). A counter per
scope, route and window in Redis. Hard: two commands that are not atomic, a failure
of either, the window's boundary. Correct when bursts are bounded and nobody is
locked out for good.

**Authentication and tenancy** (`finsage/api/auth.py`, `auth_service.py`,
`identity_token.py`, `routes*.py`, `provisioning.py`, `apps/web/lib/api/client.ts`).
State: accounts and their role in each tenant, the token each client keeps. A login
signs the role of the moment into a token; requests are served by what the token
says. Hard: roles change and tokens end between two requests, and a client must learn
from the refusal that its token is no good. Correct when a role is used only for a
token's life after it was taken away, and no request sees another tenant.

**Stores** (`finsage/api/app.py`, `mysql_stores.py`, `persistence/*`). Files,
evidence, audit entries. Hard: uploads look for a row and insert it in transactions
that overlap; a page is cut before it is filtered. Correct when an accepted upload is
there once per tenant, and whoever turns the pages sees every document.

**Companies** (`finsage/api/companies.py`): rows of company pages, from a profile and
a quote of any source, with two caches of limited size. Hard: rows of one company
overlap; either half may fail; a source may not say what currency its price is in.
Correct when the caches keep what was used last.

**Evaluation** (`finsage/evaluation/*.py`, `api/evaluation_service.py`): a background
run over the cases of a benchmark, scored case by case, its tables written by a thread
when it is over. Hard: the thread outlives an abort; the edges of the scores. Correct
when the tables are all there or none, and better results are not graded worse.

**Retrieval and ingestion** (`finsage/retrieval/*.py`, `finsage/ingestion/*.py`,
`finsage/mcp/knowledge_server`, `scripts/seed_milvus.py`): chunks, indexing, two
channels of a search, their fusion, reranking, evidence. Hard: the store changes
between the channels; the edges of chunks and of scores. Correct when chunks leave no
gap and no candidate is dropped for a worse one.

**Conflict detection, normalisation and calculations**
(`finsage/providers/finance/conflict.py`, `normalize.py`, `finsage/financial/*.py`,
`finsage/sentiment.py`). No state: functions from the figures a run fetched to the
conflicts between their sources, and to margins, growths and a valuation. Hard: which
figures may be compared at all, zeros and losses as denominators, and what a number is
traced to. Correct when a contradiction is told and a number rests on shown evidence.

**Web client: stream client, event handler, store, research page**
(`apps/web/lib/research/*.ts`, `apps/web/app/research/[taskId]/page.tsx`). One
global store, an `SseClient` per visit with its own back-off timer and its set of
seen event ids, an abort request that returns later. Hard: each reconnection
replays the whole log; clients, timers and requests of a page that was left are
still there; the server forgets every task when it restarts. Correct when the page
shows one reading of its own task's log, no client is left behind and a client lets
go of a task that is over.

**Thread pool and provider base** (`finsage/providers/finance/_executor.py`,
`base.py`). Synchronous libraries run in a bounded pool under a time limit; the
thread of a call that timed out goes on. Hard: who frees a place, and when.

**Provider adapters** (`finsage/providers/finance/*.py`): what each source makes of a
reply that fails, hangs, is empty, odd or no number: a refusal, which the registry
passes over, another error, which it does not, or an answer.

**Language models, MCP servers, observability, settings, migrations, scripts, the
other pages of the client**: one HTTP call each, thin adapters, configuration, logging
or layout.

How they interact: a route calls the rate limit and submits to the **task
manager**, which calls a **runner** with a handle; the runner calls **session
memory**, one **graph**, and the stores, and emits events into the handle; graphs
call **retrieval**, the **provider registry** and a **language model**; the **web
client** reads the handle's log through `stream` and calls `abort`. All of this is
one process with one event loop and a pool of threads; nothing of the task
manager's, breaker's or in-memory stores' state survives a restart.

`PROJECT.json` has the full list of components with their status, and of hazards
with the line where each bites and the properties that watch it.

## 2. Plan

Order: what every request goes through first, then what decides its content, then
the parts that only some requests reach.

| | modules | status |
|---|---|---|
| 1 | `TaskStream` (abstract), `TaskManager`, `TaskManagerProofs` | checked and proved |
| 2 | `ProviderFailover`, `ProviderFailoverProofs` | checked and proved |
| 3 | `GovernedRun` (abstract), `FinancialMetrics`, `WorkflowNodes`, `WorkflowRequests`, `Debate`, the four graphs, `GovernedWorkflows`, `GovernedWorkflowsProofs` | checked and proved |
| 4 | `ResearchPage`, on what `TaskStream` promises, `ResearchPageProofs` | checked and proved |
| 5 | `Settings`, `Conversations`, `RateLimit`, composed in `Service`; `ServiceProofs` | checked and proved |
| 6 | `BlockingCalls`: time limits, threads that outlive them, Baostock's login; `ServiceProofs` | checked, the session proved |
| 7 | `Documents`: uploads and their pages, `DocumentsProofs`; `Evaluation`: cases, scores, the flush, `ServiceProofs` | checked and proved |
| 8 | `Retrieval`: chunks, indexing, fusion of two channels, evidence; `DocumentsProofs` | checked and proved |
| 9 | `MarketData`: what the sources answer, rows of company pages, their caches; `ServiceProofs` | checked and proved |
| 10 | `Access`, `AccessProofs`: accounts, roles, tokens, tenants, the client's token | checked and proved |
| 11 | `Progress`: what the service owes an end, over `TaskManager` and `ProviderFailover` | checked (liveness) |
| 12 | `Recursion`: induction over numbers, the functions it defines, quotients | proved |

Parts that share no state are composed the way `GovernedWorkflows` and `Service`
do it: one variable says which of them takes steps, so that the state space is the
sum of theirs and not the product. `Service` and `Progress` are built so.

Runs. Five runs check what holds, so that they can be repeated after every change of the
code: a new module's properties join an existing composition, and where they are deeper
than a plain one (the type invariants of modules whose types are proved, first of all),
they replace it. Seven small runs each show one sentence of the repository that the code
does not keep.

Every safety property the passing runs check has a theorem; what has none is liveness
(section 5 says why). Two of the findings, which their runs show on one behaviour, are
proved to be final (`AbandonedTasksStay`, `SpentBreakerStaysSpent`).

## 3. The modules

### TaskStream, TaskManager

An action of `TaskManager` is what a coroutine does between two awaits, as asyncio
runs it: `Submit` is `submit()`; `StartAtOnce`, `JoinLine` and `StartGranted` are the
ways through `async with self._sem` of `_guarded`, each followed in the same step by
what `_execute` does before it awaits the runner; `RunnerEnds` is the rest of
`_execute` (the outcome, its events, `_close`) together with the release of the
permit, because there is no await between them; `CancelScheduled`, `CancelWaiting`,
`CancelGranted` and `CancelRunning` are the same coroutine stepped with a
cancellation pending at each place it can be parked. `RunnerSurvivesCancel` is
Python 3.11's `wait_for`, which can swallow a cancellation. `AbortEnded`,
`AbortLive` and `AbortReturns` are `abort()`; `Connect`, `Replay`, `EndReplay`,
`Deliver`, `EndLive` are `subscribe()`'s generator; `Disconnect` and `Unregister`
the client that goes and the generator that is closed later, at a time nobody promises.
The semaphore (value,
FIFO of futures, wake-up of one at a time) is modelled from the standard library of
Python 3.11 as the code uses it.

| variable | code |
|---|---|
| `status`, `finishedAt`, `buffer` | `TaskHandle.status`, `.finished_at`, `._buffer` |
| `registered`, `queue` | `TaskHandle._subscribers` and its queues |
| `ordered`, `terminal` | the two snapshots `subscribe()` takes |
| `permits`, `waiters` | `TaskManager._sem` |
| `phase`, `cancelled` | where the `asyncio.Task` is parked; `Task.cancel()` was called |

`TaskStream` is what the clients are promised: a task has a log, a connection reads
it from its beginning and is told "over" only when it has read all of an ended
task's log. `ImplementsTaskStream` maps `buffer` to the log and what a client got to
what it has read; the queues, snapshots, semaphore and cancellations disappear.

### ProviderFailover

`ProviderRegistry.invoke` for one operation and market (the breaker's key is
operation.market.provider, so another operation shares no state). `Invoke` sorts and
skips, `Answer`, `FailSoftly`, `TryAgain`, `FailAtLast`, `FailForGood`, `Raise` are
the branches of `guard` and of the loop, `Cancel` the caller's own time limit. The
breaker's `_failures` and `_opened_at` are `failures` and `age`: a time is kept as
the time since, up to what `is_open()` compares. Calls overlap at every await, and
`Tick` lets time pass between any two steps.

### FinancialMetrics, WorkflowNodes, Debate, the four graphs, GovernedWorkflows, GovernedRun

`FinancialMetrics` is what is computed from a sequence of readings, each with company,
ticker, market, metric, currency, unit, source, period and value: which are compared
(`ComparisonKey`), which of those contradict each other, which margins and growths can
be computed and from which readings. What the numbers are is left out, whether they
exist (a zero, a missing period, a second currency) is not. `Debate` is the bull and the
bear of the research graph, whose arguments are derived from the claims or drafted by a
model, and the rule that decides between them.

`WorkflowNodes` has the nodes the graphs share, as operators from a state to an
update, and the rules they call: verification, the confidence of an answer, the
selection of evidence, the derivation of claims. `ResearchWorkflow`,
`HealthWorkflow`, `DueDiligence` and `ReportWorkflow` are one run of each graph: a
variable `at` for the next node, `state` for LangGraph's channels (`Merge` drops a
key the graph does not declare, as LangGraph does), an action per node. In the
research graph the two waiting nodes have their wrappers: `TryAgain`, `Conclude`,
`TimeOut`. `Raise` is the exception no node catches, or the cancelled task. The
policy's patterns, the search, the providers' figures and the language model's drafts
are choices of the environment; an evidence is a number with its scores, whether it names company
and period, and whether it holds injected text. `GovernedWorkflows` chooses a graph
and a request. `GovernedRun` is the promise common to all four: a run ends once,
an error is never forgotten, an answer is given only without an error and on an
acceptable verification, and then the run is audited as what it was.

### ResearchPage

One JavaScript callback is one action, as the browser runs them: `Accept`, `Refuse`,
`Refused`, `FailToConnect`, `Break`, `Read`, `Timer` are `connect()`, `consume()`
and `scheduleReconnect()` between two awaits, `Visit`, `Leave`, `Retry`, `Abort` and
`AbortReturns` the page. The server is `TaskStream`'s promise (`Start`, `End`) plus
`Restart`, after which no task is known. `store` is the Zustand store; `SetStatus`
is its state machine, which throws on a transition it does not list.

### Settings, Conversations, RateLimit, Service

`Conversations` is `RealWorkflowRunner.run` with `api/memory.py`: a chat's coroutine
(`Start`, `Think`, `Proceed`, `Raise`, `Cancel`) and the thread of the call it awaits
(`ReadHistory`, `StoreUser`, `StoreAssistant`, `Record`), which goes on when the
coroutine is cancelled, or never begins. The graph is one step. A message is its
chat, role and size; `Compress` is the budget and the summary. `RateLimit` is the
dependency of a limited route on one Redis key, a request at a command each:
`Incr`, `Expire`, their failures (carried out or not), `Decide`. `Service` puts these
two and the six modules that follow side by side: they share the process and its
settings (`Settings`), and no state. Each of its properties is one of a part.

### BlockingCalls

A call of a synchronous library is a coroutine that waits (`waiting`) and a function
in the loop's pool (`work`, `queue`). `Call`, `Return` and `GiveUp` are `_call()`'s
`wait_for(asyncio.to_thread(...))`; giving up cancels what is still queued, which a
worker then passes over (`Take`), and is not noticed by what has begun. `Acquire`,
`LogIn`, `Query`, `LogOut` are Baostock's `_query()` in its thread, with the failures
of each of its calls; `Finish` is any other library.

### Evaluation

The task of an evaluation: `Start`, `RunCase` (a case is executed, scored and counted, or
the executor raises), `Finish`, `Flushed` and `Abort` are `run_evaluation()` between its
awaits; `AddDataset`, `AddCases`, `Commit` the thread that replays the buffered calls in
one session. `session` is what was added and not committed, `rows` what the database has.
The evaluators are operators from a case and a result to a verdict and a score in
ten-thousandths; `Results` enumerates results around each threshold, in every form the
evaluators read: hits with and without a primary key, an abstention by flag, bucket or
score, attempts and successes or a stated rate. `AtLeast` says which of two results is
better by what the case is about, and not by the evaluator's own functions. The executor
that `app.py` wires today (`"dev"`) executes no case.

### Documents

`Receive`, `RegisterInMemory`, and for MySQL `Resolve` (the transaction's snapshot and
the tenant), `AddTenant` and `Insert` are `upload_document()`; InnoDB is external: reads
see the snapshot, an insert sees what is committed and waits for another's of the same
key. A client reads the list page by page (`Browse`, `TurnPage`), with uploads between any
two pages: `Listed` is the page a store cuts, of which the filter lets pass what `Matches`.
A document has the time it was created at, which may be anything, also that of another:
the store in memory sorts stably, MySQL orders by the time alone, so `Orders` are all the
orders that a query may give to documents of one time, chosen anew for every page.

### Access

`Provision`, `Login`, the four routes of tasks with their guards in the code's order
(`Admitted`, `MayUse`, `MaySee`), `Refuse` and the client's `Refused`. `held` is history:
when an account last had a role, which no code keeps; the property compares it with what
is served.

### Retrieval

`Ingest` is a document of the seeding script, `Ask`, `DenseSearch`, `SparseSearch`,
`Fuse`, `Rerank` a search, an action at each call that waits; `Ingest` may come between
any two. A document is the lengths of its pages; `ChunkSize` and `ChunkOverlap`, 800 and 120 in the
code, are constants. Scores are arbitrary; weights and `MinMax` are the code's, over a
common denominator, so that no quotient is rounded. The code computes with floats: a tie
that only their rounding makes or breaks is not modelled.

### MarketData

A source is a table from kinds of replies to what its adapter makes of them, read off
each `_sync` function and its `_guard_parse` (or the lack of it); which source ends a
call is `ProviderFailover`'s matter, so here any may. `Open`, `ReadProfile`, `ReadQuote`,
`ReadFinancials` are `CompanyService` between its awaits, `Touch` its `OrderedDict`s. A
quote has the currency its price is in and the one it is labelled with; only yfinance's
may differ, which labels a price of no stated currency as one in dollars. A row shows the
label.

### Progress

`ProviderFailover` and an instance of `TaskManager` with their fairness, either of which
takes steps: the liveness of both in one run.

### MC modules

Each `MC...` module only adds symmetry sets, bounds, or the values of constants that a
configuration file cannot write down.

## 4. The runs

| run | states | shows |
|---|---|---|
| `TaskManager_run` | 312 000 | five tasks, two permits, two aborts landing at every point: no permit is lost or minted, no wake-up lost, the queue is fair, an answered abort has stopped its task, ended tasks stay as they are; three tasks with a client and an abort, two with two clients: the replay and the queue join without gap or repetition, log and status agree, and the whole refines `TaskStream` |
| `TaskManager_abort` | violated | the finding on `abort()` of a queued task |
| `Progress_run` | 115 000 | what is owed although a runner may hang: a queued task gets its turn or all permits are held for ever, the stream of a started task ends unless the task never does, an abort is answered unless the runner swallows it and hangs; two overlapping calls over three providers with retries and time: failover is in order and complete, an open interval runs its course whatever late calls report, calls return, open breakers let calls pass again |
| `ProviderFailover_reopen` | violated | the finding on the breaker that opens once |
| `GovernedWorkflows_run` | 227 000 | all four graphs with every outcome of what they call: answers are grounded, conflicts of sources are told, a released report stands on what its run has, errors and warnings survive, every run ends and is a governed run |
| `GovernedWorkflows_cut` | violated | the finding on evidence cut away under a claim |
| `ResearchPage_run` | 177 000 | two tasks, two visits, two faults, a restart: the page is one replay of its own task's log, one live client, no reconnecting to what is over |
| `ResearchPage_failed` | violated | the finding on the error event that is never read |
| `Service_run` | 3 573 000 | each part over its own interleavings. *chat*: turns are whole, histories are the newest messages that fit. *limit*: bursts are at most twice the limit, only a fault leaves a counter without an expiry. *calls*: each query of Baostock keeps its own login. *evaluation*: the tables are all there or none, scores are earned. *documents*: uploads are kept once, a reader of pages misses nothing. *access*: rights are recent. *search*: chunks leave no gap, no better candidate is dropped. *companies*: caches keep the latest |
| `Service_memory` | violated | the finding on the messages' foreign key |
| `Access_expired` | violated | the finding on the token that ended |
| `Documents_duplicate` | violated | the finding on two uploads of one file |

Deadlock is checked only for the workflows, whose every state has a next step
(`Done` once the run is over). The other systems may really stop: nobody has to
submit, call, visit or ask again.

**Bounds, and why they are enough.** *Tasks*: five for two permits give a queue longer
than the pool with room for a cancelled task before, between and behind the waiting ones;
two aborts may hit the same or different tasks. With streams (`Bounded` of
`MCTaskManager`) there are fewer: three tasks, so that one queues, with a client and an
abort, or two with two clients, each of which has a queue and a snapshot of its own; one
event of the runner's makes a snapshot that is neither empty nor all of the log.
*Failover*: three providers have a first, a middle and a last one; a threshold of 2
separates "counted" from "opened"; an interval of one tick separates open, expiring and
long expired; one retry separates first and last attempts. *Workflows*: three evidences
of which two are kept make the cut happen, scores of 0 and 100 reach both ends of the
confidence; given claims include each way to be unsound; the figures are none, some from
which nothing follows, a growth, a loss with a cash flow and two sources that agree under
different names of a currency, and two sources that contradict each other; a debater's
model drafts nothing, or two arguments of which one may cite what is not shown. *Page*:
two clients are the old and the new one, two tasks the left and the opened one; one
reconnection is both the first and the last. *Chats*: two of one session interleave and
leave up to four messages beside an earlier turn; the history's limit of 3 and the budget
of 3 cut sequences of sizes 1, 2 and 4, the last larger than the budget. *Requests*:
three, a limit of two and a window of two ticks have one refused and let requests
straddle a window's end; `MaxCount` is above the limit, so the counter is never stopped
before it refuses. *Evaluations*: each type's cases differ in what they expect; results
lie on, above and below each threshold; up to five cases make totals over several types.
*Uploads*: three of two contents and two known tenants, one default and none: a pair that
collides and one beside it; two times of creation, so that documents come in both orders
and as a tie; pages of one, the shortest, whose every border lies between two documents.
*Access*: one account in two tenants with two roles, a token's life of two ticks and two
ticks, so a token is used in its first, last and first dead instant (three ticks where
the client must read the refusal); another account would only repeat it, since no state
is shared between accounts but the tenants of tasks. *Search*: chunks of 4 that share 2,
and files of an empty page and one of a chunk, of one page of a chunk, and of one page of
several, the last of which may lie within the one before; two candidates from two
channels, of which one is kept. *Companies*: two rows, two domestic and one foreign
company and caches of two, so one goes when the third comes. *Library calls*: of three
with Baostock's login one is in the session, one at its lock and one queued or given up;
a fourth, of another library, is beside them; three workers are fewer than the calls, so
the queue is not always empty.

**Fairness, and why the code justifies it.** *Task manager*: asyncio's ready queue is
FIFO, so a coroutine that can be stepped is (weak fairness of `StepTask`,
`AbortReturns`, `StepConn`); a connected client reads. That a runner ends is not assumed:
its threads for memory and audit have no time limit (`runner_real.py:175`, 188, 197, 214,
222), nor have the nodes of the graphs it builds (`runner_real.py:158-160` pass none), so
the liveness properties say what is owed besides to a task whose runner never ends. Nor is
it assumed when an abandoned generator is closed, or that a client submits, aborts,
connects or leaves. *Failover*: a
provider call is bounded by `BaseProvider._call`'s time limit, delays end, time
passes. *Workflows*: LangGraph runs the next node while there is one; that a run of a
graph ends is under the assumption that each of its nodes does. The wrappers for retries
and time limits are those a graph may be built with; the deployed runner builds it
without, which is the run that never times out. *Page*: fetches
are answered, timers go off, a stopped server's connections end; that the network
fails is never required. In `Progress` what is fair is not enabled in the part that
stays where it begins, so its fairness asks nothing there. `Service` has no liveness
property: what its parts owe an end (a request, a search, an upload) is a bounded number
of their own steps.

## 5. What is proved

The theorems hold for every value of the constants that the modules' assumptions admit,
and rest on nothing else. The assumptions are on the constants only, and TLC evaluates
them on every run: `ConstantsAssumption` (of `TaskManager` and of `ProviderFailover`),
`SettingsAssumption` and `ServiceAssumption` (limits, sizes and windows are numbers, a
chunk is longer than its overlap, times of creation and lengths of pages are numbers, the
latter not 0, `None` is no tenant, chat, session or call),
`PageAssumption`, and of the graphs `EvidenceAssumption`, `FiguresAssumption`,
`ReliabilityAssumption`, `DraftsAssumption` and `RequestAssumption` (scores are
percentages, what a request brings is finite and of its type). The inductive invariants
below were checked by TLC as invariants of the runs before they were proved.

**Recursion.** The library's induction theorems take an operator, which the provers
cannot instantiate. `Least`, from the well-foundedness of the numbers, takes a set
instead: a proof by induction becomes one about the least counterexample (`UpTo`,
`Always`), and a recursive function is the one that exists (`FunctionUpTo`,
`FunctionOfNat`) and the only one (`FunctionIsOne`) that follows its base and step. What
the model computes by going through a sequence (`LetThrough`, `ApplyUpTo`, `Chunks`,
`Tokens`) is therefore written as a recursive function of a number. `Quotient`
and `AtLeastQuotient` say what `\div` is; the provers know it for variables, not for the
terms the code divides.

**TaskManagerProofs.** `TypeCorrect` is inductive as it stands. `SemaphoreCorrect`
(`PermitsConserved`, `NoLostWakeUp`) and `WakeUpsReachTheQueue` need `PendingInLine`:
every task parked on the semaphore has its future in the line; without it a release with
somebody parked but nobody in the line would lose a wake-up. The counting argument is
that each step moves one permit between the pool and the set of holders
(`WakeUpConserves`). `EndedTasksAreFinal` and the streams need `LifeInv`, which ties the
status of a task to where its coroutine is parked. `StreamsCorrect` (`StreamIsLog`,
`EndedStreamIsComplete`) rests on `StreamInv`: for each connection, received, snapshot
and queue make up the log, with the sentinel exactly in the case the code sends one.
`TaskStreamImplemented` maps each action to one of `TaskStream` or to a stutter; the only
hard case, a delivery, needs that the next item of the snapshot or queue is the next
event of the log (`NextIsFromLog`). `AbortStops` (`AnsweredAbortStopped`) has `AbortInv`:
an abort that returned is of a task whose coroutine is done, and a coroutine that is done
stays so. `LineIsFair` (`NoOvertaking`) has `LineInv`: the line has each task once, and
tasks that were granted a permit ahead of those that were not; a granted task that is
cancelled leaves the line, which keeps its order (`LeaveLineKeepsOrder`). `LogsTellStatus`
(`LogTellsStatus`) has `LogInv`, the same sentence for all tasks, step by step.
`AbandonedTasksStay` makes finding 1 a theorem: a task whose coroutine ended before it
started stays `queued` (`DoneStaysDone`, `DoneKeepsStatus`), its log is empty by `LogInv`,
so by `StreamInv` an open stream of it has delivered nothing and has no sentinel to come.

**ProviderFailoverProofs.** `Inv` adds `Placed` to the types: a call that is at a
provider is at a candidate, with its retries within bounds. From it
`BreakerCorrect`, `FailoverCorrect` (by `MoveOnKeeps`: what the loop leaves behind and
what is left are all candidates, those behind ahead of those left), and
`OpenBreakerHolds` (`OpenRunsItsCourse`): calls that were inside a provider when its
breaker opened report while it is open, in any order, and their failures neither prolong
nor end the interval; nobody else enters meanwhile. `SpentBreakerStaysSpent` makes
finding 2 a theorem: by `CountAndTimeAgree` a breaker that counted up to the threshold has
a time, which a further failure keeps; so once its interval is over it is never open again
before its provider has answered.

**GovernedWorkflowsProofs.** `RunInv` says of each graph what holds between its nodes:
`ResearchInv`, `HealthInv`, `DossierInv` and `ReportInv`, each of parts. The types; what
is known by where the run is (`...Progress`: nothing is verified before verification, no
answer and no audit entry before their nodes); what the gate and a conflict left behind
(`ResearchTraces`); what the claims and arguments are made from by the time they are
verified (`...Basis`); and what a run has that reached its answer or its abstention
(`...Ends`, from `Grounded`, `Derived`, `Anticipated` and `Vouched`). The verdict is
unfolded once (`VerdictSays`); a claim of a number is bound to a calculation the state
has, and each fact to an evidence it has (`ClaimsMade`). With it:

- `AnswersAreGrounded` (`AnswerIsGrounded`), `ReportsAreSound` (`ReleasedReportIsSound`):
  the parts `Ends` are what the properties say, and nothing after the answer changes what
  it stands on;
- `ZeroMeansAbstained` (`ZeroConfidenceIsAbstention`): the confidence of an answer is at
  least 20 percent, whatever the scores, because an answer needs a `PASS` and some
  evidence or calculation (`ConfidenceBounds`, on `MeanBounds` and `CoverageBounds`);
- `ErrorsAndWarningsStay` (`NothingIsForgotten`): each node's update keeps the error and
  the warnings (`Kept`), shown together with the invariant's step, node by node;
- `GraphsAreGoverned` (`ImplementsGovernedRun`): each node is a step of `GovernedRun` or a
  stutter, for each of the four graphs under its own mapping.

**ResearchPageProofs.** `PageInv`: the client that still follows a stream is the page's,
it is at the page's task and has consumed as many events as the page shows; and the store
is `Alike` a reading of just the first that many events of the task's log. The mapping of
events is a function of store and event (`Effect`), so a reading is determined by how many
events it has (`ApplyUpTo`), and an event that was seen is skipped whichever connection
replays it. An abort, which the page writes into the store itself, changes only
the status, where `Alike` lets pass "aborted". `PagesReplay` (`PageIsReplay`) and `NoClientIsLeft`
(`OneLiveClient`) are read off it.

**ServiceProofs**, **AccessProofs** and **DocumentsProofs** prove what `Service_run` checks,
part by part: `PartSteps` reads a part's steps off `Init` and `Next`.

- `NeverStuck` (`StuckOnlyByFault`), with `LimitTypes`: while Redis has not failed, a
  counter without an expiry has a request between its `INCR` and its `EXPIRE`. The first
  of a window is the only one that can create the key, and `Tick` deletes only a key that
  has an expiry.
- `BurstsAreBounded` (`BurstIsBounded`): in a window's length at most twice the limit is
  let through. `BurstInv`: for some number of ticks `c`, the requests of the last `c` ticks
  were let through by the counter there is now, at most the limit of them; the others by
  one before it, at most the limit; and the counter's expiry is far enough away that a
  third one cannot begin before the first one's requests are a window old (`Room`).
- `SessionCorrect` (`SessionIsOwn`), with `CallTypes`: a thread is between login
  and logout exactly while the lock is its own, and only there does it touch the login.
- `WholeOrNothing` (`EvaluationIsWhole`): where the thread is determines what its session
  and the database have (`WriterInv`), and the task waits for it unless it is aborted
  (`StageInv`).
- `ScoresEarned` (`ScoresAreEarned`): no evaluator scores a better result lower, or fails
  it where a worse one passes (`VerdictsAreFair`, for any sets of sources and any numbers,
  not only those of the benchmark). What is better is said of the results, not by the
  evaluators: more hits, an answer nearer to the value, more citations and fewer that lead
  nowhere, a clearer abstention by the same sign, more successes and fewer failures or else
  a higher stated rate. For shares it is that a ratio, rounded as it is, grows with them:
  `RatioGrows` compares cross products, `LargerShare` brings hits and misses to that form.
  For an abstention it is that whichever of flag, bucket and score decides of the one
  result decides of the other (`AbstentionHolds`). `NotExecuted`: without a result only a
  case that expects an answer is passed. `ScoreInv` ties the last outcome to the case and
  the result it is a verdict on; that every case of a request is one of the benchmark
  (`SpecIs`) takes a counting argument, because `BuildSpec` picks its cases by their rank
  (`EachIsCounted`).
- `CachesKeepTheLatest` (`CacheKeepsTheLatest`): by `MarketInv` each cache has a company
  once and in the order of use. The theorem is about what `Touch` does to a sequence: to
  move or append one entry, and to cut the oldest, leaves the latest of all uses, in their
  order.
- `TurnsAreStored` (`TurnIsStored`): where a chat and its thread are (`ChatTypes`)
  determines what the chat stored so far (`Turn`): nothing, its question, or the
  question and after it the answer, each once and in no other session (`TurnInv`). The
  messages of the others come between and change none of it.
- `HistoriesAreRecent` (`HistoryIsRecent`): when a chat reads its history, what it is
  given ends with the newest message that is stored then, leaves none out between, is
  within the budget unless it is one entry alone, and is as long as limit and budget let
  it be. One step establishes it (`HistorySteps`), so the theorem is about `Compress`
  (`CompressGives`): one message more costs just its size more (`OneOlder`), so the
  longest end that fits is found by comparing sums (`KeptFits`), also when a summary takes
  its room from the far end (`RoomFits`); ends of ends are ends (`EndsOfEnds`,
  `EndsAgree`).
- `RightsEnd` (`RightsAreRecent`): a token says a role that was held when it was signed,
  and nothing makes that earlier (`TokensWereTrue`); it is refused from the end of its
  life on; what is shown passed the check of the tenant. The assumption that `None` is
  no tenant is needed: a token that named it would see everything.
- `AcceptedIsKept` (`UploadIsKept`): in MySQL a document's id is its tenant and content,
  ids are distinct, and what a transaction read in its snapshot is still there
  (`DocsInv`, `UploadInv`); rows are never taken away.
- `PagesComplete` (`PagesSkipNothing`): a reader that came to the end of the list was
  shown every document that it may see and that was there when it began, whatever was
  uploaded between its pages, with whatever times. `ReaderInv`: what it has not seen has
  at least as many documents before it as it has turned past. Documents are only added, so
  what is before one only grows (`NewerStay`), and where the store knows an order a
  document's place is the number of those before it (`PlaceIs`); so a page that begins at
  that number does not leave it behind. It is not said of MySQL where two documents have
  the same time, because there it is false (section 6).
- `SearchesAreFair` (`SearchIsFair`): a candidate that both channels rank above another
  has the higher fused score, since both spreads are positive. It needs that quotients are
  not rounded. `SearchInv` adds that the channels found chunks of the asking tenant's
  documents only, and what each stage keeps of the one before.
- `DocumentsAreCovered` (`DocumentIsCovered`): chunks of a page begin a step apart, as long
  as there is text (`Cuts`, by the arithmetic of `Quotient`), and those of a document are
  its pages' joined (`JoinedUpTo`). For some sizes a page's last chunk lies wholly within
  the one before, and then shares all of itself with it.

**Only model-checked.** All liveness (`QueueIsServed`, `StartedStreamEnds`,
`AbortIsAnswered`, `EveryCallReturns`, `ProviderIsProbedAgain`, `RunEnds`, `OverIsLetGo`):
fairness and `ENABLED` are beyond the prover. And the seven runs that are violated: that
a promise is broken takes one behaviour, which TLC shows.

## 6. Findings

Disagreements between the code and what the repository says of it, each a run that
TLC finds violated; `PROJECT.json` quotes the lines.

1. `abort()` of a task that still queues answers, but the task stays `queued` for
   ever and its streams stay open (`finsage/api/tasks.py:233`).
2. After its first open interval a breaker never opens again, however many calls
   fail (`finsage/providers/finance/resilience.py:53`).
3. Evidence a calculation cites may be cut by the selection that follows it, so a
   run with good data abstains (`finsage/workflows/nodes.py:541`).
4. The client closes the stream at `task.failed` and does not read the `error` event
   that explains it (`apps/web/lib/research/sse-client.ts:197`).
5. With persistence on, a chat that names a session runs its graph and then fails:
   its messages refer to a session row nobody inserts (`finsage/api/memory.py:229`).
6. A token that has ended is refused with 403, and the client ends a session on 401
   only: it keeps the dead token and never sends its user to the login
   (`finsage/api/auth.py:70`, `apps/web/lib/api/client.ts:171`).
7. Two uploads of one file whose transactions overlap both find it unknown, and the second
   fails with the duplicate key that is said to be no longer raised
   (`finsage/api/mysql_stores.py:116`).

Seen while modelling, without a run of their own:

- an unexpected exception leaves `finished_at` unset (`tasks.py:278`);
- after the interval a breaker lets every call pass, not one probe as its docstring
  says (`resilience.py:35`, 17-18);
- the node that fetches financial data sets `data_conflict` for rule V007 and the cap
  on confidence, but no graph's state declares the key, so LangGraph drops it and
  neither ever applies (`nodes.py:280`, 273-274): of a contradiction between sources
  only the warning `provider_data_conflict` is left;
- a difference is compared with half a percent of the second value, so whether two
  readings agree may depend on their order (`conflict.py:172`); readings are grouped by
  the names they were given, so the aliases of markets and metrics never bring two
  together (`conflict.py:107`);
- the rows of a margin are a period and a currency: figures of two companies may end up
  in one ratio (`nodes.py:306`);
- the rule of the debate may decide for one side however far the two disagree
  (`nodes.py:805`), which `evaluation/evaluators.py:307` says an answer must not;
- the warning of a failed language model is lost when there is also an injection
  warning (`nodes.py:652`, 647);
- a run that raises is not audited (`runner_real.py:181`, `docs/workflows.md:143`);
- a health report's confidence is always 0.9: nothing writes the key it reads
  (`financial_health/graph.py:164`, `nodes.py:884`);
- an abstained due-diligence run keeps its `report` (`due_diligence/graph.py:155`);
- the page's retry subscribes again to the same failed task; an abort that returns
  late marks the task then shown as aborted (`page.tsx:114`); an error is not shown
  beside a partial answer, and one that was shown is not cleared by a reconnection;
- a chat without a session is answered with a session id that its runner never used,
  so its first turn is not remembered (`routes.py:103`);
- a chat that is cancelled or whose audit fails after its turn was stored leaves an
  answer in the memory that nobody saw;
- `memory_history_limit` is never read: the limit is a constant (`settings.py:140`,
  `memory.py:31`);
- a summary that is itself larger than the budget drops every message and is passed on
  alone, although the total is said to be always controlled (`memory.py:155`, 128-129); it
  takes a budget far below the default;
- one failed `EXPIRE` leaves a counter that never expires: once it is at the limit every
  request of that scope is refused until the key is deleted, also where failures of the
  limiter are configured to let requests pass (`redis.py:100`, `ratelimit.py:73`);
- a price whose source states no currency is labelled, and its row shown, as one in
  dollars, whatever the profile said (`yfinance_provider.py:96`, `companies.py:126`);
- a provider's result that states its success rate alone cannot pass, because the
  successes it does not state are taken for 0 (`evaluators.py:295`, 275); a hit of an
  expected document is not counted when it has a primary key, which every hit of a search
  has (`evaluators.py:64`, 114);
- one hung query of Baostock keeps its lock, and every further one a worker of the
  pool that `asyncio.to_thread` shares with authentication, memory and audit
  (`_executor.py:48`, `baostock.py:45`);
- Baostock's health check logs in and out without the lock that its comment says
  serialises every session (`baostock.py:351`, 42-44), but nothing calls it beside
  queries;
- a page of documents is cut from all tenants' before it is filtered, so it may be short
  or empty while others follow, and `total` is the length of what is left of the page
  (`routes.py:349`, 370, where `list_tasks` filters first; `schemas.py:150`); a
  document uploaded between two pages makes the next one repeat the last of the one before,
  and of documents of one time MySQL, which orders by nothing else, may show one twice and
  another never (`mysql_stores.py:150`);
- an evaluation requested without a tenant runs through and fails at its flush, as its
  data set needs one;
- a row of a company is cached without a time: what its sources failed to say stays
  unsaid, its count of research tasks and its price stay those of the first time, and an
  older row that ends later replaces a newer one (`companies.py:83`); recent tasks of a
  company are sought among the ten newest of all;
- the five seconds around a whole failover end the call before a hung first source's ten,
  which the breaker does not count (`companies.py:94`);
- several adapters parse outside `_guard_parse`, so a reply of another shape raises an
  error that ends the failover instead of asking the next source (pytdx, akshare's and
  efinance's financials, yfinance's import; `base.py:104` says otherwise); ashare and
  Tushare let a NaN through to the `Quote`;
- `build_registry` never gives Tushare its token; Baostock cannot parse the period "FY",
  the only one asked for; akshare's period filter never matches "2024" to "2024-12-31";
  efinance answers financials with ratios only, so akshare is not asked;
- conflicts between sources are looked for in what the registry returned
  (`nodes.py:273`), which is the answer of one source: they are found only where that
  source reports figures of several;
- a hit of authority tier 0 is read as tier 1 (`mcp/knowledge_server/__init__.py:211`); a channel's failure
  is passed over only as a `RetrievalError`, which Milvus' own errors are not
  (`search.py:193`); the last chunk of a text may be contained in the one before;
- the seeding script says it may be repeated (`scripts/seed_milvus.py:7`), but makes a
  new id each time (line 81), so every document is there twice afterwards;
- the client's global search shows whichever answer arrives last
  (`global-search.tsx:96`); a late 401 to an old request clears the token a login has
  just stored (`client.ts:173`); the history page pages through the ten tasks it fetched.

## 7. Not modelled, and why

Texts (prompts, claims' wording, sections, narratives), patterns of the policy and of
injection, token estimates and the layout of events are abstracted to what the
properties tell apart. Registration of providers and assembly of the application
happen before the first step. Formats of foreign data, signatures and password
hashes are library work. Logging, metrics, migrations and page layout take no steps
that another part could observe.

Of conflict detection and normalisation the spelling of names and periods and the
Chinese aliases are left out; of the calculation engine the numbers that come out, and
the ratios and comparisons that no graph asks for. Sentiment gives a text that no rule
reads, and the discounted cash flow of a valuation is skipped as long as its assumptions
are not configured. A language model is one call with an
answer, none, or a failure. The search server asks one library and then another; the
financial server passes calls on. `create_research` also passes the rate limit, which
`Access` does not repeat. The global search, the notification bell and the history page
keep view state of their own; what is odd about them is a remark above. Real time, such
as how long a call waits for a worker, is out of the model: ticks order windows, tokens
and breakers only.
