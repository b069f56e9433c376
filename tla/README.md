# A TLA+ model of the self-correcting RAG agent

This directory holds TLA+ modules that model the program in `../src`
(`nevin-py/self_correcting_rag`: a FastAPI service around a LangGraph agent that plans, retrieves,
answers with citations, judges its own answer and repairs it), TLC configurations that model-check
them, and proofs that TLAPS checks. `PROJECT.json` is the machine-readable side of this file:
components, runs, mutants, the source lines each definition stands for, findings and hazards.

## 1. The system

| Component | Code (`src/app/...`) | State | Operations |
|---|---|---|---|
| Agent graph | `agent/graph.py`, `agent/nodes.py`, `agent/state.py` | `RAGState`: plan, evidence, answer, claims, repair loop, counters | six nodes, two routers |
| Citation validator, support gate | `agent/citation_validator.py`, `agent/support.py` | none | pure functions of an answer and its evidence |
| Evidence memory | `agent/evidence_state.py`, `agent/chat_service.py` | `EvidenceState` inside the last interaction's `routing_path` | load, build, merge, store |
| Query without streaming | `agent/router.py` `query_agent` | one interaction row, two messages | load, run the graph, log, store |
| Streamed query | `agent/streaming.py` `_stream_query` | event queue, producer task, copy of the graph's state, answer so far | produce, consume, save, reply |
| Chat persistence | `agent/chat_service.py` | messages with sequence numbers, interactions | store, log, load history |
| Web search | `agent/search_tool.py`, `documents/clients.py` `RotatingTavily` | key index shared by the process, daily budget, fetch semaphore | parallel backends, key rotation, enrichment, fallback |
| Retrieval, embedding, ranking | `documents/service.py`, `agent/reranker.py` | embedding cache, embedding gate, local ranker and its lock | embed, search, insert, rank |
| LLM clients | `documents/clients.py`, `_structured_invoke`, `_llm_with_fallback` | executor threads, trace writers | resolve clients, walk a chain |
| Refresh tokens | `auth/tokens.py`, `auth/router.py` | `RefreshToken` rows | issue, rotate, revoke, revoke all |
| One-time codes | `auth/otp.py` | `EmailOTP` rows | create, verify, resend |
| Usage quotas | `core/usage.py` | `UsageEvent` rows | check, record |
| Ingestion | `documents/router.py`, `documents/service.py`, `documents/vector_store.py` | `IngestionLog` and chunk rows, ingest messages | upload, background pipeline |
| Chats | `agent/router.py` | chat rows and everything that refers to them | create, delete, purge |
| Frontend session | `frontend/src/lib/api.ts`, `stores/authStore.ts` | local storage shared by tabs | rotate, bootstrap, logout |
| Frontend chats | `frontend/src/stores/chatStore.ts` | messages on screen | send, select, restore |

How they interact: a query (streamed or not) loads the chat's history and the evidence memory of
its last interaction, runs the graph, and saves an interaction (with the merged memory) and a pair
of messages in two commits. In the streamed path the graph runs in a task of its own and talks to
the request through a queue of 256 events; the graph's nodes call models, retrieval and search,
which time out and fail. Ingestion runs in the background and writes messages into the same chats.
The browser holds an access token and rotates a refresh token through the auth endpoints, from
several tabs.

What is hard, and what makes each part correct:

* **Agent graph.** A loop whose exit depends on fields LangGraph *keeps* unless a node returns
  them, on three counters, and on what a judge says. Correct: it ends within its budgets; a repair
  pass carries the critique and never loses an answer it had; statuses, claims and caveats agree
  on every exit.
* **Evidence memory.** Survives failed, conversational and clarifying turns. Correct: facts
  established are never lost or invented by a turn that failed.
* **Streamed query.** Two tasks, a bounded queue, dropped events, a client that may leave, a
  timeout, two commits. Correct: what is delivered is what the graph returned, saved before it is
  sent, and the stream ends and leaves no task behind.
* **Chat persistence.** Writers of one chat at a time, or not (ingestion does not take the lock).
  Correct: one sequence number per message, no memory lost.
* **Tokens and codes.** Read-then-write transactions with no row lock. Correct: a refresh token is
  used once; after a logout or a password change none works.
* **Quotas.** Check now, record later. Correct: a budget is overrun by overlapping requests only,
  and nothing a user does gives budget back.
* **Ingestion.** A status row, a pipeline, three commits. Correct: one completed row per file and
  chat; a row's status says what is stored.
* **Chats.** A deletion runs beside turns and uploads of the same chat. Correct: it fails or
  succeeds as a whole, and leaves no completed upload without its chunks.
* **Web search.** Threads and tasks of several searches share keys, a budget and a semaphore, and
  a turn may be cancelled at any await. Correct: a good key is found, what is found is kept,
  permits come back.
* **Retrieval.** Threads outlive the tasks that started them. Correct: the limits hold of the work
  somebody waits for; no task waits for ever for a permit or the ranker.
* **LLM clients.** Keys of two owners, four preferences, chains of fallbacks, calls that hang.
  Correct: the user's key is used before the server's, and no call holds up the turn.
* **Frontend.** Asynchronous handlers over shared local storage. Correct: a logout is final; a
  message lands in its own chat.

## 2. Modules

| Module | What it is | Run with |
|---|---|---|
| `AgentGraph` | the graph, the request around it and the memory between turns | `AgentGraphMC` |
| `TurnContract` | what a chat promises of its requests, with no graph inside | refined by `AgentGraph` |
| `AgentGraphProofs` | the theorems about `AgentGraph` | |
| `QueryStream` | one streamed query: graph as event source, queue, consumer | itself |
| `QueryStreamProofs` | the theorems about `QueryStream` | |
| `AuthTokens` | the refresh tokens of one user and the handlers that issue, rotate and revoke them | `AuthTokensMC` |
| `AuthTokensProofs` | the theorems about `AuthTokens` | |
| `OneTimeCodes` | the mailed codes of one account and the handlers that send and check them | `OneTimeCodesMC` |
| `OneTimeCodesProofs` | the theorems about `OneTimeCodes` | |
| `ChatRecords` | the tables behind a user's chats, the requests and how they begin and end | |
| `ChatTurns`, `Ingestion`, `ChatAdmin` | the handlers over those tables: turns; uploads; creation, deletion and purge of chats | |
| `ChatWork` | the three of them interleaved, with crashes, and the properties | `ChatWorkMC` |
| `ChatWorkProofs` | the theorems about `ChatWork` | |
| `WebSearch` | the searches of the turns of one process | itself |
| `WebSearchProofs` | the theorems about `WebSearch` | |
| `LlmCalls` | which clients a turn uses and how its calls walk them | itself |
| `LlmCallsProofs` | the theorems about `LlmCalls` | |
| `Retrieval` | embedding, indexing and ranking by the turns and uploads of one process | itself |
| `RetrievalProofs` | the theorems about `Retrieval` | |

The `MC` modules hold the symmetry sets of their instances. `AgentGraph`, `QueryStream`,
`LlmCalls` and `WebSearch` look at a turn from four sides: the control of the graph, its delivery,
its model calls, its searches. `ChatWork` composes turns with everything else that writes to a
chat.

### AgentGraph

`node` is what LangGraph runs next (`"idle"` between the requests of a chat). The other variables
are the fields of `RAGState` some guard or property reads, under the names of the code, plus the
chat's stored memory and whether it has messages. `web_runs` and `caveated` are history variables:
calls of `_search_web`, and which claims were handed to `_append_caveats`.

One action is one node run to its return; where a node has several returns each is a disjunct or
an action of its own (`VerifyNothing`, `VerifyFastPath`, `VerifyReferents`,
`VerifySchedulesRepair`, `VerifyFinalizes`, ...). `StartTurn` is `query_agent` up to the graph's
invocation, `PersistTurn` its remainder (two commits, either may fail, the failure of the first is
swallowed), `GraphFails` a timeout or an exception of any node.

Abstracted: a piece of evidence is a member of `Fact` (the code deduplicates by text); what the
planner, the judge, a retriever, the reranker and the citation validator return is any value the
code accepts from them; an answer is its kind, whether its last sentence asks the user something
and whether a citation note follows it; claims are the facts behind the verified ones (by judge,
by validator) and which failing verdicts occur. `JUDGE_FAST_PATH` and `CITATION_SUPPORT_GATE` are
on, as shipped. A failing judge is one more verdict: the empty one (`verify_answer` falls back on
it). `caveated` is what reaches `_append_caveats`; `prune_caveats` may still drop echoes and cap
the bullets at 5, which no property looks at.

`TurnContract` is the abstract specification: phase, established facts, whether the last
remembered turn asked, and the result. `AgentGraph` implements it under the mapping written at
`KeepsContract`. It says that the memory changes at the end of a request only, that a request that
failed may be remembered but is reported as an error, and that no turn loses facts.

### QueryStream

The graph is reduced to an event source: which node runs, which model call speaks, and the three
fields of its state the consumer uses (answer, status, claims). The end of a node may be dropped
(the comment at `streaming.py:205` says it happens), the end of the root is not. `queue` is
`events_q`; `Put` waits for room. Consumer actions are the branches of the read loop, the two
commits that save the turn, the `except` branch and the disconnect of the client. `Break` is what
the `except` branch comes to: it cancels the producer and then raises itself, because it logs with
a `logger` that `streaming.py` does not define. The stream breaks off there (`"broken"`), without
a last event; the second attempt to save and the events below it never run and are not modelled.
`accumulated`, `answer` and `has_tokens` are `accumulated_state`, `answer` (as the set of model
calls whose tokens it holds) and `answer_pass_has_tokens`. A commit may fail at either step; after
a swallowed failure the same session cannot store (SQLAlchemy wants a rollback first), which is
`CanStore`. Left out: heartbeats, status events, the time itself (with a limit set, the time may
be over whenever an event is looked at, as the code looks only then).

### AuthTokens

A handler is a sequence of database statements; `stage[r]` is the next one of request `r`, and
requests interleave between any two. A request issues at most one token, so tokens are named by
requests: `row[r]` is the committed row of the token `r` issued. A SELECT sees committed rows and
takes no lock (`Read`); the flush of a rotation writes the old row, by primary key, and waits for
another writer (`Rotate`); the UPDATE of a revocation finds its rows when it starts and writes
them when no one else holds them (`FindLive`, `RevokeAll`), so it misses rows committed in
between: PostgreSQL's read committed. `Crash` loses a request and rolls its transaction back.
`before` is a history variable: which requests had ended when this one began. It lets the
properties say what holds of requests that do not overlap, which is what the code can promise.

### OneTimeCodes

`create_and_send_otp` and `verify_otp` statement by statement, inside the handlers that call them
(`register`, `resend_otp`, `forgot_password`, `verify_email`, `reset_password`). A handler sends
at most one code, so a code is named by its request; `code[c]` says whether it exists and is
consumed (used or superseded), `age[c]` whether it is within the cooldown, between, or expired.
Time passes by actions of its own. A mail may arrive or not. `target` and `counted` are what
`verify_otp` has read and later writes; nothing locks the rows, so another request may write in
between. One registration has ended at the start, with its code unused, used, or never made.
`before` is the same history variable as in `AuthTokens`. The one handler that sets a password and
is not here is `change_password`, which sends no code and asks for a session; it is in
`AuthTokens`.

### ChatRecords, ChatTurns, Ingestion, ChatAdmin, ChatWork

One user's rows: chats, interactions (with their place in the chat, which stands for `created_at`,
and the memory each carries), messages with their sequence numbers, ingestion logs, chunks, usage
events, and the advisory lock of each chat. A request is one of six kinds and goes from `stage` to
`stage`; each step is one statement or commit that another request can meet. `ChatRecords`
declares the state, admission of a request (`Begin`), the quotas (`Used`) and what refers to a
chat (`Children`), which the foreign keys of `delete` and `purge` see.

* `ChatTurns`: `query_agent` charges its use after it has loaded the memory, `query_agent_stream`
  before. The graph only ends or fails here. `Log` and `Store` are the two commits; `Lock` takes
  the advisory lock and reads the last number, `Store` inserts and commits. A turn that fails saves
  nothing, streamed or not (`Break` in `QueryStream` says why).
* `Ingestion`: the checks of `upload`, its row, then the background task: processing, chunks,
  completed or failed, the note in the chat (which does not take the lock), the use. Each step may
  raise; all but the first (`Start`, outside the `try`) then mark the row as failed.
* `ChatAdmin`: `create_chat` with its reuse of an empty chat, `delete_chat` and `purge_all_chats`
  with their open transaction: rows deleted and not committed are seen by others until the commit,
  and a child inserted in between fails it.

The memory of a turn is the set of the turns it descends from, so "forgetting" is visible. A file
is its hash. Extraction, chunking and embedding succeed or raise.

### WebSearch

A turn plans one or more searches and gathers them. Each search has a Tavily task (a thread, with
`RotatingTavily`'s key index shared by all), SearXNG tasks, a Wikipedia lookup, then page fetches
under the process's semaphore, and the Wikipedia fallback if nothing came. Feeds are no pages
(`_fetch` leaves them before the semaphore); every other page waits for a permit, returns it with
its answer, and the pages of a cancelled turn return theirs (`Returned`). `found` says a backend
has found something, `kept` that the search's result has it. A turn is cancelled by its time limit
or its client; its thread goes on. Rotating is `index := (index + 1) % Keys` without regard to
which key failed, as in the code. `raced` is a history variable: somebody rotated during this
call.

### LlmCalls

`Resolved` is `resolve_llms`: for each preference and each set of stored and server keys, the
clients and fallbacks with the owner of their key, including that the constructor raises for the
preference `google`. `ChainFor` is what `_llm_with_fallback` and `_structured_invoke` make of them
for each call. `phase` follows one attempt: waiting in a thread, timed out, a late answer of a
thread that was given up (`hung`), the next client. Initial states are all sets of keys, so the
run checks `resolve_llms` over all its inputs. `Store` adds or deletes a stored key until the turn
begins.

### Retrieval

A turn embeds its queries and searches for each (a leg), and then ranks what it found; an upload
embeds batches and inserts them. A leg looks its texts up in the cache (an LRU of `CacheMax`),
waits for a permit, runs the call in a thread, sleeps and tries again, puts the result in the
cache. Ranking tries the remote service, then the local ranker under its lock (loaded once, at
first use), then keywords. Cancellation releases permits and the lock; the threads are separate
variables (`thread`, `inference`) and run on.

## 3. Runs

| Run | Instance | Shows | Distinct states |
|---|---|---|---|
| `agent_safety` | 2 facts, 2 repair passes, 1 search, 1 retrieval, 1 slot | safety of the graph, refinement of `TurnContract` | 300,000 |
| `agent_progress` | 1 fact, no carried facts | every request ends | 70,000 |
| `stream` | 2 passes, 2 models, 1 token each, a queue of 2 | delivery and persistence of a streamed query | 86,000 |
| `tokens` | 4 requests | revocation, single use, reuse detection | 50,000 |
| `tokens_logout` | as `tokens` | a finding | |
| `codes` | 4 requests, 2 guesses | life of a one-time code | 1,160,000 |
| `chats` | 3 requests of six kinds, 1 chat, 1 file | the records of a chat under concurrent writers | 590,000 |
| `web` | 2 turns, 2 searches, 2 keys, 1 paid call, 1 fetch, 1 permit | keys, budget, permits, endings | 330,000 |
| `web_found` | as `web` | a finding | |
| `models` | one turn, every set of keys and every preference, 2 planner attempts | whose keys are used, endings | 210,000 |
| `retrieval` | 2 tasks of up to 2 legs, 1 permit, 2 attempts, a cache of 1 | limits, the ranker, endings | 300,000 |
| `retrieval_stacked` | as `retrieval` | a finding | |

`agent_safety`:

* `StepBudget`, `SearchBudget`: the graph takes at most `5 + 2 * MaxRepairPasses` steps and a
  request searches at most `MaxSearches + 1` times.
* `RepairCarriesCritique`, `RepairKeepsTheAnswer`: a repair has its critique and draft, and never
  replaces an answer by an admission that there is none.
* `NoSilentFailure`, `ClaimsMatchContext`: at the end of every branch of `verify_answer` failing
  claims were handed to the caveats, and the claims are about the present context. The first
  speaks of claims only: a sentence nobody made a claim of is outside it.
* `KeepsContract`: what a turn may do to the memory and to the outcome of a request.
  (`QuestionIsClarification` and `PlannerAsksOnce` are proved and have no run.)

`agent_progress`: `RequestsEnd`.

`stream`: `OneCallAtATime` (the answer never mixes two model calls), `CompletedIsFaithful` (a
completed reply is the graph's last state in spite of dropped events), `DoneIsDurable` (it is sent
after both commits), `StreamEnds` (a stream nobody left ends or breaks off, and its producer ends
too).

`tokens`: `RevocationHolds` (tokens of before a revocation are dead for good), `SingleUse` (two
rotations of one token overlap), `StaleTokensBuyNothing` (a cookie of before a logout refreshes
nothing after it), `ReuseKillsTheFamily`.

`codes`: `DeadCodesStayDead` (a code that was accepted or superseded lets nobody in who comes
later), `ExtraGuessesNeedOverlap` (the attempt cap is exceeded only if two requests that checked
the code overlapped), `CodesCompeteOnlyByOverlap` (two live codes, or two mails within the
cooldown, need an overlap), `PasswordNeedsCode` (without a session, the password of a verified
account changes by a reset whose code was mailed, arrived and was accepted, or by a registration
that overlapped the request that verified the account).

`chats`: `TurnsKeepTheirNumbers`, `MemoryForgetsOnlyOverlaps` (what a turn established is lost to a
turn that overlapped it, never otherwise), `OverrunNeedsOverlap` (quotas),
`CompletedIsIndexed` (a completed upload has its chunks unless a purge ran beside it),
`CopiesNeedOverlap` (deduplication), `DeletionFailsOnlyByOverlap`, `StatusTellsTheOutcome`
(an upload that is over and still pending has no chunks; one left at processing lost its worker;
only completed or deleted rows were charged for), `LedgerIsKept` (a deletion gives no budget back).

`web`: `GoodKeysAreFound` (a call gives up for quota only if every key is spent, or somebody
rotated meanwhile), `SearchesEnd` (every search ends, which needs the permits back from those that
ended or were cancelled: a page has no other way past the semaphore).

`models`: `OwnKeysComeFirst`, `TurnsEnd` (a model that hangs for ever holds nothing up).

`retrieval`: `ExcessIsAbandoned` (more threads than permits, or two inferences, only by work whose
turn is gone), `KeywordsNeedAFailure` (the local ranker is not given up for nothing), `TasksEnd`.

Several of these properties have the form "only by overlap". The handlers read, decide and write
without a lock, so the plain statements ("the cap holds", "one live code") are false; what the
code does promise is that requests one after the other never do it. The properties say this of
each anomaly, and exclude every other cause: crashes, failed commits, undelivered mail, other
users of the table.

**Bounds.** Two facts are the least for which one may be kept and another dropped, with one
context slot and one carried fact; three add only symmetric choices. Two repair passes are the
shipped value and the first number that has both kinds of pass (searching and rewriting only). One
search makes the sufficiency retry exceed the budget. The counters saturate at `CounterCap`, which
no guard reads; in `agent_safety` it lies above the step budget, so the budget is really tested.
In `stream` a queue of two is the least in which a sentinel can wait behind another event; two
models give a fallback after tokens, two passes an answer that is replaced. In `tokens` and
`codes` four requests are the least for an issue, a use, a replay or revocation, and one that
overlaps them. In `chats` three requests give two that follow each other and a third beside both;
budgets of two are overrun by three. (A file twice on record and a third upload that meets it,
`ReuploadsAreServed`, needs `MaxTokens = 3`.) In `web` two keys are the least of which one can be
passed over, two searches the least that race for them, one permit the least that can be lost. In
`models` the inputs of `resolve_llms` are complete; two attempts of the planner are the least that
repeat. In `retrieval` two tasks give a cancelled one and one that meets its threads; two legs
make a task compete with itself for its permit; a cache of one evicts at once. Every property has
at least one mutant of the code's definitions (listed in `PROJECT.json`) under which its run
fails, so none holds by its shape.

**Deadlock** is checked in the agent runs (a chat can always start another turn), in `chats`
(where `Finished` is the only state without a further step that is accepted), `web` and `models`.
It is not in `stream` (a stream ends, and the producer of a client that left may stay blocked, see
below), `tokens`,
`codes` and `retrieval`, where every request or task runs once and then all stops; in `retrieval`
`TasksEnd` says what a deadlock check would.

**Fairness.** `AgentGraph`: weak fairness of a request's next step. LangGraph schedules the next
node at once; planner and judge calls are bounded by timeouts in `_structured_invoke`, generator
calls by the HTTP clients. `GraphFails` is one of the steps, so failing is never forced and never
excluded. `QueryStream`: weak fairness of the producer and of the consumer, two tasks of one event
loop. Nothing is assumed of the client. `WebSearch`, `Retrieval`: weak fairness of each search's
or task's next step; every network call in them has a timeout, a semaphore of asyncio is fair to
its waiters, and cancelling is never forced. `LlmCalls`: weak fairness of the turn's own steps,
where waiting for a model ends by its answer or by the timeout; a model that hangs need not ever
answer, and traces need not ever be written.

## 4. Findings

Quotations and lines are in `PROJECT.json`. Three have a run that shows them:

1. `tokens_logout` (`LogoutIsFinal`): a rotation in flight survives the logout that was to make it
   worthless.
2. `web_found` (`FoundIsKept`): `search_structured` reads the result of the direct Wikipedia
   lookup before that task is done; the exception throws away what the other backends found.
3. `retrieval_stacked` (`InferencesAreSerialized`): the lock around the local ranker goes with a
   cancelled turn, its thread runs on, and the next inference stacks upon it.

Of others the formula stands in its module, under "Statements of the documents that the code does
not keep". No run checks these; the argument is in `PROJECT.json`, from the lines of the code:

4. `NothingSilentlyAsserted` (`AgentGraph`): an *uncertain* claim is neither a caveat nor an
   obstacle to "answered".
5. `ClarificationNeverLoops`: `verify_answer` asks again after a clarification; only the planner
   is guarded.
6. `PinnedFactsStay`: a repair pass reranks, and may drop, the facts pinned before it.
7. `JudgedFactsAreEstablished`: claims verified by the judge name cite keys, memory looks up
   evidence ids.
8. `FailureIsNotSuccess` (`QueryStream`): a graph that raised is saved and reported as answered.
9. `CaveatsAreDelivered`: streamed tokens win over the answer `verify_answer` edited.
10. `AnswerIsKept`: the `except` branch is to keep what was streamed, and raises before it saves
    anything (`logger`, `streaming.py:373` and `375`).
11. `WritersAreSerialized` (`ChatWork`): an ingestion's note takes its number without the lock.
12. `ReuploadsAreServed`: two overlapping uploads of a file make the third one fail
    (`scalar_one_or_none` on two rows).
13. `KeysAreEnough` (`LlmCalls`): the preference `google` raises in `resolve_llms`.
14. `RetriesAreOthers`: with the preference `auto` a timed-out model is asked again as its own
    fallback.

And these were met while modelling:

15. A verdict with blank repair queries ends the graph in the middle of a repair (`Abandoned` in
    the model).
16. The sufficiency retry is not bounded by `MAX_SEARCHES`, and `MAX_GRAPH_STEPS` is not read
    anywhere.
17. A refresh token is "single-use" only for requests that do not overlap, and so is the attempt
    cap of a one-time code.
18. `parent_context` is set by retrieval and read nowhere.
19. `_bm25_rerank` tests an array for truth and always falls through to the keywords
    (`agent/reranker.py:212`).
20. A distance of 0.0 counts as a missing one (`documents/service.py:148`).

The model also shows that the producer of a client that disconnected can wait for ever on a full
queue; nothing in the repository says otherwise, so it is listed as a hazard.

## 5. Proofs

`AgentGraphProofs` proves, for every finite set of facts and all bounds that satisfy
`FactAssumption` and `BoundsAssumption` (naturals; at least one context slot and one reserved
slot; counters that saturate no lower than the budgets they are compared with):

* type correctness (`TypeCorrect`);
* every safety invariant of `agent_safety`, `QuestionIsClarification` and `PlannerAsksOnce`;
* `GraphImplementsContract`: the graph implements `TurnContract`;
* `ShippedStepBudget`: at most 9 steps with the shipped settings, so LangGraph's own limit of 25
  is never met and `MAX_GRAPH_STEPS` (20) would not be either.

The argument. `TypeOK` is inductive by itself. `ControlInv` strengthens it: `LoopInv` ties the
node to the loop's fields (a requested search or rewrite exists only on the way through gather and
generate, with critique and draft; none is left when the graph ends), `AnswerInv` says what kinds
of answer each node can meet, `ModeInv` which plans reach the research nodes. It is needed because
the two repair properties speak of `generate_answer` while the fields they mention are set two
nodes earlier. `StepInv` bounds the steps by `Allowance`, what the present node and `repair_count`
still permit; `SearchInv` relates `web_runs` to `search_count` and `repair_count` in the same way.
`Settled` is the conjunction of the three properties of a finished graph; they are invariant by
cases over the exits of `verify_answer`. `MemoryInv` bounds the carried facts, which is what makes
the merge never shrink them. The refinement proof follows: each action maps to `Begin`, `Finish`
or a stutter.

`AuthTokensProofs` proves the five properties of `tokens` for any finite set of requests. The
invariant `TokenInv` has three parts beside the types: `Past` (the tokens a request deals with
belong to requests that have ended, so none of them can become live again), `Revoking` (what an
UPDATE has found covers the live tokens of before it began) and `Rotating` (a rotated token is
revoked; whoever presents it later, or presents a token a revocation has found, is not on its way
to a successor). Two lemmas, `OnwardInv` for a statement in the middle of a request and `EndInv`
for one that ends it, carry the invariant; each action is an instance of one of them.

`QueryStreamProofs` proves the types and the three safety properties of `stream` for any numbers
of passes, models and tokens and a queue of any size. The consumer is behind the graph by what is
in the queue, so `StreamInv` says what that can be: tokens of different calls have a start between
them (`Tokens`), and as long as the consumer reads, the graph's last state is known to it or still
on its way, with no other end behind it (`LastState`). `Saved` counts what each point of the
consumer's way has committed.

`OneTimeCodesProofs` proves the properties of `codes` for any finite set of requests and any cap
on the guesses. `Past` says what a request that has ended can no longer do; `Superseded`, `Dead`,
`Consumption` and `Cooled` say what became of a code by the time the next request begins;
`Counting` that no guess is lost while no two checks of the code overlap; `Mailed` that a request
which was let in guessed the code it had read, and that this code had arrived and is for its
purpose.

`ChatWorkProofs` proves the eight properties of `chats`, for any finite sets of requests and of
chats and any limits, with any of the six kinds of request and a crash at any step. `WorkInv` has
one part for each thing a request relies on while it is under way: the lock is held by the turn
that stores, and all numbers of turns are below the one it has read (`Locks`, `Numbers`); what its
memory lacks was hidden by the row of a turn that overlapped the forgotten one (`Remembered`, over
the places of the rows, `Places`); the room that was left when it was admitted, counted against
all the requests that began before it (`Budgets`, `ChatLimits`); which chats a purge has listed
and what has been written since (`Purged`, `Indexed`); that a second copy of a file was accepted
beside the first (`Copies`); who wrote what a deletion did not see (`Lateness`); what is left to
do for an upload whose row is open, and what its steps so far have left behind (`Settling`). The
greatest number of a finite set, on which `LastSequence` and `LastPlace` rest, is a lemma by
well-founded induction (`GreatestNumber`).

`LlmCallsProofs` proves `OwnKeysComeFirst` for any number of attempts. It is a fact about
`resolve_llms`: `Proper` says of one client that the key it was built with is the one its owner
is asked for, `PreferredIsFirst` of a chain that the provider asked for leads it; `Chosen` says
that the clients of a turn are worked out from the keys it was given, once. The cases are the
preferences and the providers, not the sets of keys.

`RetrievalProofs` proves the two safety properties of `retrieval` for any number of tasks, legs,
permits and attempts. The permits that are left and the legs that hold one always make up
`Permits`, and a thread runs only for a leg that holds a permit or was cancelled (`Gate`); who
infers and is still waited for has the lock, and a model that is being loaded is loaded by
somebody (`Ranking`).

`WebSearchProofs` proves the type invariant and `GoodKeysAreFound` of `web` for any number of
turns, searches, keys, pages and permits. Types are not inductive here: that the recorded uses are
no more than the searches needs that a search is charged once, as it leaves its gather
(`Charging`), and that a search holds no more permits than `FetchTop` needs the bound on both of
its counters together (`Fetching`). `Holding` says that permits are held while pages are fetched
and at no other time. `Tried` is the argument for the keys: a call nobody has raced has used up as
many keys, counted backwards from the index around the ring, as it has made attempts (`Behind`,
`OneMoreBehind`, `AllBehind`).

**What the proofs changed in the models.** Several were found wrong, or undefined, by an attempt
to prove something of them:

* `ExtraGuessesNeedOverlap` said that two of the *counted* guesses overlap. With five requests
  that is false: a request may die after it has read the counter and before its guess is answered,
  and its write still undoes another's. It now speaks of the requests that checked the code.
* Two requests of which one had not begun counted as overlapping in `OneTimeCodes`.
* Definitions by `CASE` with overlapping guards (in `OneTimeCodes`, `ChatTurns`, `LlmCalls`,
  `Retrieval`, `WebSearch`, `AuthTokens`) have no definite value in TLA+, though TLC takes the
  first; they are written with `IF` in the order of the code.
* Interactions were a sequence from which a deletion filtered; a set of rows with a place is what
  the table is, and can be reasoned about.
* The assumptions on the constants had left out that requests are finitely many, and that a user
  does not start with more chats than the limit.

**Only model-checked:** liveness everywhere (`RequestsEnd`, `StreamEnds`, `SearchesEnd`,
`TurnsEnd`, `TasksEnd`): fairness is out of the prover's reach. Every other property of a passing
run is stated by a theorem. The three properties that a run refutes (`LogoutIsFinal`,
`FoundIsKept`, `InferencesAreSerialized`) are false, and what takes their place is proved
(`RevocationHolds`, `ExcessIsAbandoned`). The type invariant of `Retrieval` is not proved as a
whole: its cache is a sequence made by library operators that are defined by recursion
(`SelectSeq`, `SetToSeq`); `Gate` and `Ranking` type the variables the two properties are about.

## 6. Not modelled, and the plan

Not modelled, and why:

* Prompts and wording, scores (ranking, support), token budgets, extraction, OCR, chunking,
  logging, metrics and cost, rendering, migrations, evaluation, scripts: no state another part
  depends on, or numeric heuristics whose outcome a model takes as a choice.
* Listing, renaming, feedback and analytics of chats, the memory API, document links, the location
  tool: one statement each, or none that writes.
* The frontend's session and chat store. Tabs rotate one session under a Web Lock, and a stream
  may write while the user switches chats; a model of them would be one of React state. The
  server's half is in `AuthTokens`.
* In `Retrieval`, the second round of the sufficiency retry (it is in `AgentGraph`); a turn that
  had one would only have more legs.
* Code nothing calls: `assemble_context` and `context_provider`, `multi_query_retrieval`,
  `search_tavily`, `search_searxng`, `search_web_fallback`, `smart_search`,
  `revoke_refresh_token`, `get_chroma_client`.

Next, in this order:

1. `WebSearch`: that the fetches of a process never hold more than `Permits` (`Taken`), and
   `Retrieval`: the type of the misses, with lemmas on the sum of a function over a finite set.
2. `QueryStream`: a refinement of a stream without a queue, of which `CompletedIsFaithful` is a
   part.
3. `ChatWork`: a bound on the overrun of a quota by the number of requests that overlap.
