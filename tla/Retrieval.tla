------------------------------- MODULE Retrieval -------------------------------
(***************************************************************************)
(* What the turns and the uploads of one process share when they embed     *)
(* texts and rank evidence: the cache of embeddings, the gate in front of  *)
(* the embedding service, and the local ranker with its lock               *)
(* (documents/service.py, agent/reranker.py, gather_evidence).  A turn may *)
(* be cancelled by its time limit or by a client that leaves; the threads  *)
(* it has started are not.                                                 *)
(***************************************************************************)
EXTENDS Integers, Sequences, FiniteSetsExt, SequencesExt

CONSTANTS
  Query, Chunk, (* texts that turns and uploads embed                      *)
  MaxTasks,     (* turns and uploads, numbered as they start               *)
  MaxLegs,      (* queries of a turn (MAX_SEARCH_QUERIES), batches of an upload *)
  MaxReranks,   (* lists that gather_evidence ranks in one turn            *)
  Permits,      (* NOMIC_CONCURRENCY                                       *)
  Attempts,     (* NOMIC_MAX_RETRIES + 1                                   *)
  CacheMax      (* _EMBED_CACHE_MAX                                        *)

ASSUME RetrievalAssumption ==
  /\ Query \cap Chunk = {}   \* the key of the cache holds the task type
  /\ {MaxTasks, MaxLegs, MaxReranks, CacheMax} \subseteq Nat
  /\ {Permits, Attempts} \subseteq Nat \ {0}

VARIABLES
  kind, stage,  \* of a task
  texts, at,    \* of a leg (a retrieve_chunks, or a batch): its texts, its progress
  misses,       \* the texts that it asks the service for
  thread, tries,\* its call, which runs in a thread; attempts made
  cache,        \* _embed_cache, the oldest entry first
  permits,      \* what is left of the semaphore of _rate_limiter
  todo,         \* lists that a turn has yet to rank
  lock,         \* the task that holds _flashrank_lock, 0 if none does
  ranker,       \* _reranker and _init_attempted
  inference     \* the thread that ranks for a task

embedding == <<texts, at, misses, thread, tries>>
ranking   == <<todo, lock, ranker, inference>>
vars      == <<kind, stage, embedding, cache, permits, ranking>>

-----------------------------------------------------------------------------
(* Tasks and their legs *)

Tasks == 1..MaxTasks
Legs  == Tasks \X (1..MaxLegs)

LegsOf(t) == {l \in Legs : l[1] = t /\ texts[l] # {}}

Holding == {"slot", "pacing", "calling"}

LegOver(l) == at[l] \in {"found", "nothing", "raised", "embedded", "failed", "cancelled"}

Over(t) == stage[t] \in {"done", "cancelled", "stored", "failed"}

TypeOK ==
  /\ kind \in [Tasks -> {"none", "turn", "upload"}]
  /\ stage \in [Tasks -> {"new", "embedding", "asking", "waiting", "inferring",
                          "done", "cancelled", "storing", "stored", "failed"}]
  /\ texts \in [Legs -> SUBSET Query \cup SUBSET Chunk]
  /\ misses \in [Legs -> SUBSET Query \cup SUBSET Chunk]
  /\ at \in [Legs -> Holding \cup {"idle", "lookup", "queue", "ready", "found", "nothing",
                                   "raised", "embedded", "failed", "cancelled"}]
  /\ thread \in [Legs -> {"none", "running", "answered", "error"}]
  /\ tries \in [Legs -> 0..Attempts]
  /\ cache \in Seq(Query \cup Chunk) /\ Len(cache) <= CacheMax
  /\ permits = Permits - Cardinality({l \in Legs : at[l] \in Holding})
  /\ todo \in [Tasks -> 0..MaxReranks]
  /\ lock \in Tasks \cup {0}
  /\ ranker \in {"none", "loading", "ready", "broken"}
  /\ inference \in [Tasks -> {"none", "start", "loading", "running",
                              "ranked", "keywords", "raised"}]

Init ==
  /\ kind = [t \in Tasks |-> "none"]
  /\ stage = [t \in Tasks |-> "new"]
  /\ texts = [l \in Legs |-> {}]
  /\ at = [l \in Legs |-> "idle"]
  /\ misses = [l \in Legs |-> {}]
  /\ thread = [l \in Legs |-> "none"]
  /\ tries = [l \in Legs |-> 0]
  /\ cache = <<>>
  /\ permits = Permits
  /\ todo = [t \in Tasks |-> 0]
  /\ lock = 0
  /\ ranker = "none"
  /\ inference = [t \in Tasks |-> "none"]

\* A turn starts its queries together, an upload its batches one after another.
Start(t) ==
  /\ stage[t] = "new" /\ \A u \in 1 .. t - 1 : stage[u] # "new"
  /\ \E k \in {"turn", "upload"}, n \in 1..MaxLegs :
     \E given \in [1..n -> IF k = "turn" THEN {{q} : q \in Query}
                                         ELSE SUBSET Chunk \ {{}}] :
       /\ kind' = [kind EXCEPT ![t] = k]
       /\ stage' = [stage EXCEPT ![t] = "embedding"]
       /\ texts' = [l \in Legs |-> IF l[1] = t /\ l[2] <= n THEN given[l[2]] ELSE texts[l]]
       /\ at' = [l \in Legs |-> IF l[1] = t /\ (l[2] = 1 \/ (l[2] <= n /\ k = "turn"))
                                THEN "lookup" ELSE at[l]]
  /\ UNCHANGED <<misses, thread, tries, cache, permits, ranking>>

-----------------------------------------------------------------------------
(* One leg: _embed_text_rate_limited, and for a query retrieve_chunks *)

\* move_to_end for every text that is there, in some fixed order.
Touched(hits) ==
  SelectSeq(cache, LAMBDA x : x \notin hits) \o SelectSeq(cache, LAMBDA x : x \in hits)

Admit(l) ==
  /\ at[l] = "queue" /\ permits > 0
  /\ permits' = permits - 1
  /\ at' = [at EXCEPT ![l] = "slot"]
  /\ UNCHANGED <<kind, stage, texts, misses, thread, tries, cache, ranking>>

\* _wait_for_slot: one leg at a time sleeps until the interval has passed.
Pace(l) ==
  /\ at[l] = "slot" /\ \A m \in Legs : at[m] # "pacing"
  /\ at' = [at EXCEPT ![l] = "pacing"]
  /\ UNCHANGED <<kind, stage, texts, misses, thread, tries, cache, permits, ranking>>

Call(l) ==
  /\ at[l] = "pacing"
  /\ at' = [at EXCEPT ![l] = "calling"]
  /\ thread' = [thread EXCEPT ![l] = "running"]
  /\ tries' = [tries EXCEPT ![l] = 1]
  /\ UNCHANGED <<kind, stage, texts, misses, cache, permits, ranking>>

\* The thread: the service answers, or fails in a way that is tried again or not.
\* It goes on whatever has become of the leg.
Answer(l) ==
  /\ thread[l] = "running"
  /\ \E transient \in BOOLEAN, result \in {"answered", "error"} :
       IF transient /\ result = "error" /\ tries[l] < Attempts
       THEN tries' = [tries EXCEPT ![l] = @ + 1] /\ UNCHANGED thread
       ELSE /\ thread' = [thread EXCEPT ![l] = IF at[l] = "calling" THEN result ELSE "none"]
            /\ tries' = [tries EXCEPT ![l] = 0]
  /\ UNCHANGED <<kind, stage, texts, at, misses, cache, permits, ranking>>

\* New vectors go to the end, then the oldest entries go.
Stored(vectors) ==
  LET all == cache \o SetToSeq(vectors \ ToSet(cache))
  IN  SubSeq(all, 1 + IF Len(all) > CacheMax THEN Len(all) - CacheMax ELSE 0, Len(all))

\* What becomes of a leg, and of the next batch of its upload.
Embedded(l) ==
  [m \in Legs |->
     IF m = l THEN IF kind[l[1]] = "turn" THEN "ready" ELSE "embedded"
     ELSE IF m = <<l[1], l[2] + 1>> /\ at[m] = "idle" /\ texts[m] # {} THEN "lookup"
     ELSE at[m]]

Unembedded(l) ==
  [at EXCEPT ![l] = IF kind[l[1]] = "turn" THEN "nothing" ELSE "failed"]

Lookup(l) ==
  LET missing == texts[l] \ ToSet(cache)
  IN  /\ at[l] = "lookup"
      /\ cache' = Touched(texts[l])
      /\ misses' = [misses EXCEPT ![l] = missing]
      /\ at' = IF missing = {} THEN Embedded(l) ELSE [at EXCEPT ![l] = "queue"]
      /\ UNCHANGED <<kind, stage, texts, thread, tries, permits, ranking>>

Resume(l) ==
  /\ at[l] = "calling" /\ thread[l] # "running"
  /\ permits' = permits + 1
  /\ thread' = [thread EXCEPT ![l] = "none"]
  /\ misses' = [misses EXCEPT ![l] = {}]
  /\ cache' = IF thread[l] = "answered" THEN Stored(misses[l]) ELSE cache
  /\ at' = IF thread[l] = "answered" THEN Embedded(l) ELSE Unembedded(l)
  /\ UNCHANGED <<kind, stage, texts, tries, ranking>>

\* search_similar: rows, no row, or an error of the database.
Outcomes == {"found", "nothing", "raised"}

\* Only the vector search can raise: what follows it (fusion, parents) falls back.
Search(l) ==
  /\ at[l] = "ready"
  /\ \E result \in Outcomes : at' = [at EXCEPT ![l] = result]
  /\ UNCHANGED <<kind, stage, texts, misses, thread, tries, cache, permits, ranking>>

LegStep(l) == Lookup(l) \/ Admit(l) \/ Pace(l) \/ Call(l) \/ Answer(l) \/ Resume(l) \/ Search(l)

\* The legs that are over have been read; others run on.
Collected(t) == {l \in LegsOf(t) : LegOver(l)}

Collect(t) ==
  /\ at' = [l \in Legs |-> IF l \in Collected(t) THEN "idle" ELSE at[l]]
  /\ texts' = [l \in Legs |-> IF l \in Collected(t) THEN {} ELSE texts[l]]

-----------------------------------------------------------------------------
(* An upload ends: insert_chunks writes everything or nothing *)

FinishUpload(t) ==
  /\ kind[t] = "upload" /\ stage[t] = "embedding"
  /\ \/ \E l \in LegsOf(t) : at[l] = "failed" /\ stage' = [stage EXCEPT ![t] = "failed"]
     \/ /\ \A l \in LegsOf(t) : at[l] = "embedded"
        /\ \E end \in {"stored", "failed"} : stage' = [stage EXCEPT ![t] = end]
  /\ Collect(t)
  /\ UNCHANGED <<kind, misses, thread, tries, cache, permits, ranking>>

-----------------------------------------------------------------------------
(* A turn goes on: _retrieve_documents, and the calls of rerank *)

NextStage(lists) == IF lists = 0 THEN "done" ELSE "asking"

\* One query that raises ends the gather: nothing is kept, and the others run on.
Join(t) ==
  LET raised == \E l \in LegsOf(t) : at[l] = "raised"
      found  == ~raised /\ \E l \in LegsOf(t) : at[l] = "found"
  IN  /\ kind[t] = "turn" /\ stage[t] = "embedding"
      /\ raised \/ \A l \in LegsOf(t) : LegOver(l)
      /\ \E lists \in (IF found THEN 1 ELSE 0) .. MaxReranks :
           /\ todo' = [todo EXCEPT ![t] = lists]
           /\ stage' = [stage EXCEPT ![t] = NextStage(lists)]
      /\ Collect(t)
      /\ UNCHANGED <<kind, misses, thread, tries, cache, permits, lock, ranker, inference>>

\* A list is ranked: the next one, or the turn goes on to write its answer.
Ranked(t) ==
  /\ todo' = [todo EXCEPT ![t] = @ - 1]
  /\ stage' = [stage EXCEPT ![t] = NextStage(todo[t] - 1)]

\* _rerank_openrouter; any failure falls back to the local ranker.
Ask(t) ==
  /\ stage[t] = "asking"
  /\ \/ Ranked(t)
     \/ stage' = [stage EXCEPT ![t] = "waiting"] /\ UNCHANGED todo
  /\ UNCHANGED <<kind, embedding, cache, permits, lock, ranker, inference>>

\* Mutant of LockFree: the ranker is used without its lock.
LockIgnored == TRUE

LockFree == lock = 0

TakeLock(t) ==
  /\ stage[t] = "waiting" /\ LockFree
  /\ lock' = t
  /\ stage' = [stage EXCEPT ![t] = "inferring"]
  /\ inference' = [inference EXCEPT ![t] = "start"]
  /\ UNCHANGED <<kind, embedding, cache, permits, todo, ranker>>

\* _flashrank_rerank_sync, in a thread.  _get_reranker tries to load once: whoever
\* comes while it is loading, or after it failed, ranks by keywords.
Begin(t) ==
  /\ inference[t] = "start"
  /\ ranker' = IF ranker = "none" THEN "loading" ELSE ranker
  /\ inference' = [inference EXCEPT ![t] = CASE ranker = "none"  -> "loading"
                                             [] ranker = "ready" -> "running"
                                             [] OTHER            -> "keywords"]
  /\ UNCHANGED <<kind, stage, embedding, cache, permits, todo, lock>>

Load(t) ==
  /\ inference[t] = "loading"
  /\ \/ ranker' = "ready" /\ inference' = [inference EXCEPT ![t] = "running"]
     \/ ranker' = "broken" /\ inference' = [inference EXCEPT ![t] = "keywords"]
  /\ UNCHANGED <<kind, stage, embedding, cache, permits, todo, lock>>

Infer(t) ==
  /\ inference[t] = "running"
  /\ \E result \in {"ranked", "raised"} : inference' = [inference EXCEPT ![t] = result]
  /\ UNCHANGED <<kind, stage, embedding, cache, permits, todo, lock, ranker>>

\* The turn has its ranking; if the model raised it ranks by keywords itself.
Release(t) ==
  /\ stage[t] = "inferring" /\ inference[t] \in {"ranked", "keywords", "raised"}
  /\ lock' = 0
  /\ inference' = [inference EXCEPT ![t] = "none"]
  /\ Ranked(t)
  /\ UNCHANGED <<kind, embedding, cache, permits, ranker>>

-----------------------------------------------------------------------------
(* The time limit (query_agent), a client that leaves (producer_task.cancel) *)

\* What is awaited is let go, threads excepted.  A gather that has raised no longer
\* knows its other queries.
Cut(t) == IF stage[t] = "embedding" THEN {l \in LegsOf(t) : ~LegOver(l)} ELSE {}

\* Mutant of Freed: a cancelled call keeps its permit.
FreedNothing(legs) == 0

\* Mutant of Freed: a leg that waits for a permit gives one back.
FreedInQueue(legs) == Cardinality({l \in legs : at[l] \in Holding \cup {"queue"}})

Freed(legs) == Cardinality({l \in legs : at[l] \in Holding})

Cancel(t) ==
  /\ kind[t] = "turn" /\ stage[t] # "new" /\ ~Over(t)
  /\ stage' = [stage EXCEPT ![t] = "cancelled"]
  /\ at' = [l \in Legs |-> IF l \in Cut(t) THEN "cancelled" ELSE at[l]]
  /\ texts' = [l \in Legs |-> IF l \in Cut(t) THEN {} ELSE texts[l]]
  /\ misses' = [l \in Legs |-> IF l \in Cut(t) THEN {} ELSE misses[l]]
  /\ permits' = permits + Freed(Cut(t))
  /\ lock' = IF lock = t THEN 0 ELSE lock
  /\ UNCHANGED <<kind, thread, tries, cache, todo, ranker, inference>>

TurnStep(t) ==
  \/ Join(t) \/ Ask(t) \/ TakeLock(t) \/ Release(t)
  \/ Begin(t) \/ Load(t) \/ Infer(t)

Step(t) ==
  \/ TurnStep(t)
  \/ FinishUpload(t)
  \/ \E n \in 1..MaxLegs : LegStep(<<t, n>>)

Next == \E t \in Tasks : Start(t) \/ Step(t) \/ Cancel(t)

Spec == Init /\ [][Next]_vars

\* The event loop and its threads go on with every task.  No task has to start or to
\* be cancelled.
FairSpec == Spec /\ \A t \in Tasks : WF_vars(Step(t))

-----------------------------------------------------------------------------
(* Properties *)

Inferring == {t \in Tasks : inference[t] \in {"start", "loading", "running"}}

Abandoned == {t \in Tasks : stage[t] = "cancelled"}

\* The limits of the gate and of the lock hold of the work that somebody waits for:
\* what exceeds them (threads of the embedding service, of the local ranker) is
\* work whose turn was cancelled, because a thread outlives the permit it was
\* started under.
ExcessIsAbandoned ==
  /\ Cardinality({l \in Legs : thread[l] = "running" /\ at[l] # "cancelled"}) <= Permits
  /\ Cardinality(Inferring \ Abandoned) <= 1

\* reranker.py:11 promises that the spikes of concurrent inferences cannot stack,
\* thanks to the lock.  They do: the lock is let go with the turn, the thread runs on.
InferencesAreSerialized == Cardinality(Inferring) <= 1

\* A turn that reaches the local ranker gets keyword scores instead of the model's
\* only if the model failed, or if a cancelled turn is still loading it.
KeywordsNeedAFailure ==
  [][\A t \in Tasks \ Abandoned : inference[t] = "start" /\ inference'[t] = "keywords" =>
       \/ ranker = "broken"
       \/ \E u \in Abandoned : inference[u] = "loading"]_vars

\* Whatever the service, the database, the ranker and other turns do, no turn and no
\* upload waits for ever for a permit, for its slot or for the ranker.
TasksEnd == \A t \in Tasks : [](stage[t] # "new" => <>Over(t))

=============================================================================
