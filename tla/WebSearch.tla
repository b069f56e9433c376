------------------------------- MODULE WebSearch -------------------------------
(***************************************************************************)
(* The web search of the turns that run in one process (_search_web,       *)
(* agent/search_tool.py, RotatingTavily).  A turn plans some searches and  *)
(* runs them together; a search asks Tavily (in a thread), SearXNG and     *)
(* Wikipedia, merges what they found, fetches the best pages under a       *)
(* semaphore of the whole process, and falls back to Wikipedia.            *)
(* A page is told from another only by the backend that found it.          *)
(***************************************************************************)
EXTENDS Integers, FiniteSetsExt

CONSTANTS
  MaxTurns,
  MaxSearches,  (* of all turns; both are numbered as they are planned     *)
  Keys,         (* how many keys RotatingTavily holds                      *)
  MaxQueries,   (* MAX_SEARCH_QUERIES                                      *)
  MaxCalls,     (* MAX_TAVILY_CALLS_PER_DAY                                *)
  FetchTop,     (* EVIDENCE_FETCH_TOP_N                                    *)
  Permits       (* ENRICHMENT_CONCURRENCY                                  *)

ASSUME SearchAssumption ==
  /\ {Keys, MaxQueries, Permits} \subseteq Nat \ {0}
  /\ {MaxTurns, MaxSearches, MaxCalls, FetchTop} \subseteq Nat

VARIABLES
  searxng,   \* SEARXNG_URL is set
  index,     \* the key that RotatingTavily uses next
  spent,     \* keys whose quota is used up
  charged,   \* how many usage rows of kind "tavily" there are
  budget,    \* of a turn: whether its searches may ask Tavily
  turn,      \* of a search, 0 as long as it is not planned
  stage,     \* of search_structured
  tavily, key, tries,   \* its Tavily task, the key it is calling, attempts made
  raced,     \* somebody else rotated the keys during its call (history)
  searx,     \* its SearXNG tasks, which count as one, are running
  wiki,      \* its Wikipedia lookup
  found,     \* a backend has found something for it
  kept,      \* it has results
  todo, held \* its page fetches: waiting for the semaphore, holding it

keyring == <<index, spent>>
calls   == <<tavily, key, tries, raced>>
fetches == <<todo, held>>
plan    == <<searxng, budget, turn>>
vars    == <<keyring, charged, plan, stage, calls, searx, wiki, found, kept, fetches>>

-----------------------------------------------------------------------------
(* Searches *)

Turns    == 1..MaxTurns
Searches == 1..MaxSearches

Over(s) == stage[s] \in {"done", "lost", "cancelled"}

Ended(t) == budget[t] # "new" /\ \A s \in Searches : turn[s] = t => Over(s)

Allowed(t) == budget[t] # "denied"

TypeOK ==
  /\ searxng \in BOOLEAN
  /\ index \in 1..Keys /\ spent \subseteq 1..Keys
  /\ charged \in 0..MaxSearches
  /\ budget \in [Turns -> {"new", "allowed", "denied"}]
  /\ turn \in [Searches -> Turns \cup {0}]
  /\ stage \in [Searches -> {"new", "gathering", "merging", "enriching", "fallback",
                             "done", "lost", "cancelled"}]
  /\ tavily \in [Searches -> {"off", "reading", "calling", "exhausted"}]
  /\ key \in [Searches -> 0..Keys] /\ tries \in [Searches -> 0..Keys]
  /\ raced \in [Searches -> BOOLEAN]
  /\ searx \in [Searches -> BOOLEAN]
  /\ wiki \in [Searches -> {"off", "new", "direct", "api", "article"}]
  /\ found \in [Searches -> BOOLEAN] /\ kept \in [Searches -> BOOLEAN]
  /\ todo \in [Searches -> 0..FetchTop] /\ held \in [Searches -> 0..FetchTop]
  \* Pages are fetched for a search that enriches its results.
  /\ \A s \in Searches : todo[s] > 0 => stage[s] = "enriching"

Init ==
  /\ searxng \in BOOLEAN
  /\ index = 1
  /\ spent = {}
  /\ charged = 0
  /\ budget = [t \in Turns |-> "new"]
  /\ turn = [s \in Searches |-> 0]
  /\ stage = [s \in Searches |-> "new"]
  /\ tavily = [s \in Searches |-> "off"]
  /\ key = [s \in Searches |-> 0]
  /\ tries = [s \in Searches |-> 0]
  /\ raced = [s \in Searches |-> FALSE]
  /\ searx = [s \in Searches |-> FALSE]
  /\ wiki = [s \in Searches |-> "off"]
  /\ found = [s \in Searches |-> FALSE]
  /\ kept = [s \in Searches |-> FALSE]
  /\ todo = [s \in Searches |-> 0]
  /\ held = [s \in Searches |-> 0]

-----------------------------------------------------------------------------
(* A turn plans its searches *)

\* enforce_tavily_budget: over it, SearXNG only; a check that fails lets the turn pass.
Budgets ==
  {"allowed"} \cup {b \in {"denied"} : charged >= MaxCalls}

\* search_structured up to its gather.  With no task to gather nothing is awaited: a
\* direct lookup (of a query that is no search phrase) has not run when it is read.
FirstStage(tasks, direct) ==
  IF tasks THEN "gathering" ELSE IF direct THEN "lost" ELSE "fallback"

\* A turn with the budget b searches for first..last, of which topics are looked up.
PlanOf(t, b, first, last, topics) ==
  LET queries == first..last
      asked(f, value) == [s \in Searches |-> IF s \in queries THEN value ELSE f[s]]
      tasks == b # "denied" \/ searxng
  IN  /\ \A s \in Searches : turn[s] = 0 <=> s >= first
      /\ first <= last /\ last < first + MaxQueries
      /\ budget' = [budget EXCEPT ![t] = b]
      /\ turn' = asked(turn, t)
      /\ tavily' = IF b = "denied" THEN tavily ELSE asked(tavily, "reading")
      /\ searx' = IF searxng THEN asked(searx, TRUE) ELSE searx
      /\ stage' = [s \in Searches |->
                     IF s \in queries THEN FirstStage(tasks, s \in topics) ELSE stage[s]]
      /\ wiki' = [s \in Searches |->
                    IF s \in topics THEN "direct"
                    ELSE IF s \in queries /\ ~tasks THEN "new" ELSE wiki[s]]

Plan(t) ==
  /\ budget[t] = "new" /\ \A u \in 1 .. t - 1 : budget[u] # "new"
  /\ \E b \in Budgets, first, last \in Searches :
       \E topics \in SUBSET (first..last) : PlanOf(t, b, first, last, topics)
  /\ UNCHANGED <<searxng, keyring, charged, key, tries, raced, found, kept, fetches>>

-----------------------------------------------------------------------------
(* The backends.  A thread goes on when its search is cancelled. *)

\* Nobody reads the answers to a search that was cancelled.
Gain(s, some) == found' = [found EXCEPT ![s] = @ \/ (some /\ stage[s] # "cancelled")]

\* RotatingTavily.search reads the index under its lock.
ReadKey(s) ==
  /\ tavily[s] = "reading"
  /\ tavily' = [tavily EXCEPT ![s] = "calling"]
  /\ key' = [key EXCEPT ![s] = index]
  /\ tries' = [tries EXCEPT ![s] = @ + 1]
  /\ UNCHANGED <<keyring, charged, plan, stage, raced, searx, wiki, found, kept, fetches>>

\* An answer, with or without results, or an error that is not about quotas, which
\* _safe makes an answer without.
TavilyAnswers(s) ==
  /\ tavily[s] = "calling" /\ key[s] \notin spent
  /\ tavily' = [tavily EXCEPT ![s] = "off"]
  /\ key' = [key EXCEPT ![s] = 0]
  /\ tries' = [tries EXCEPT ![s] = 0]
  /\ raced' = [raced EXCEPT ![s] = FALSE]
  /\ \E some \in BOOLEAN : Gain(s, some)
  /\ UNCHANGED <<keyring, charged, plan, stage, searx, wiki, kept, fetches>>

InCall(s) == tavily[s] = "calling" \/ (tavily[s] = "reading" /\ tries[s] > 0)

\* Mutant of NextIndex: the modulus is forgotten.
NextIndexUnbounded == index + 1

NextIndex == (index % Keys) + 1

\* Mutant of Attempts: range(len(self._clients) - 1).
AttemptsLess == Keys - 1

Attempts == Keys

\* The quota of the key is used up: the index moves on from wherever it is by now.
Rotate(s) ==
  /\ tavily[s] = "calling"
  /\ spent' = spent \cup {key[s]}
  /\ index' = NextIndex
  /\ raced' = [q \in Searches |-> raced[q] \/ (q # s /\ InCall(q))]
  /\ tavily' = [tavily EXCEPT ![s] = IF tries[s] < Attempts THEN "reading" ELSE "exhausted"]
  /\ key' = [key EXCEPT ![s] = 0]
  /\ UNCHANGED <<charged, plan, stage, tries, searx, wiki, found, kept, fetches>>

\* Both calls are over; _safe makes no results of an error.
SearxngAnswers(s) ==
  /\ searx[s]
  /\ searx' = [searx EXCEPT ![s] = FALSE]
  /\ \E some \in BOOLEAN : Gain(s, some)
  /\ UNCHANGED <<keyring, charged, plan, stage, calls, wiki, kept, fetches>>

\* _wiki_text: the article of that name (unless the query is a search phrase), or the
\* first relevant hit of the search API; an error or a thin page is nothing.
WikiSteps ==
  {<<"new", "direct">>, <<"new", "api">>, <<"direct", "api">>, <<"api", "article">>}
    \cup {"direct", "api", "article"} \X {"off"}

LookUp(s) ==
  /\ \E step \in WikiSteps :
       /\ step[1] = wiki[s]
       /\ wiki' = [wiki EXCEPT ![s] = step[2]]
       /\ \/ UNCHANGED found
          \/ /\ step \in {"direct", "article"} \X {"off"}
             /\ Gain(s, TRUE)
  /\ UNCHANGED <<keyring, charged, plan, stage, calls, searx, kept, fetches>>

-----------------------------------------------------------------------------
(* search_structured *)

Gathered(s) ==
  /\ tavily[s] \notin {"reading", "calling"}
  /\ ~searx[s]

\* record_usage, whatever Tavily answered; a failure is logged.
Charge(s) ==
  /\ stage[s] = "gathering" /\ Gathered(s) /\ Allowed(turn[s])
  /\ stage' = [stage EXCEPT ![s] = "merging"]
  /\ charged' \in {charged, charged + 1}
  /\ UNCHANGED <<keyring, plan, calls, searx, wiki, found, kept, fetches>>

\* What the tasks left behind is read once.
Forget(s) ==
  /\ tavily' = [tavily EXCEPT ![s] = "off"]
  /\ tries' = [tries EXCEPT ![s] = 0]
  /\ raced' = [raced EXCEPT ![s] = FALSE]
  /\ UNCHANGED key

\* Merged, sorted and cut; result() of a lookup that is not done raises, and _one
\* turns that into no results for the query.  pages are the best ones that are no
\* feeds: _fetch leaves a feed at once, without the semaphore.
Merge(s) ==
  /\ \/ stage[s] = "merging"
     \/ stage[s] = "gathering" /\ Gathered(s) /\ ~Allowed(turn[s])
  /\ \/ /\ wiki[s] # "off"
        /\ stage' = [stage EXCEPT ![s] = "lost"]
        /\ UNCHANGED <<wiki, kept, todo>>
     \/ /\ wiki[s] = "off" /\ ~found[s]
        /\ stage' = [stage EXCEPT ![s] = "fallback"]
        /\ wiki' = [wiki EXCEPT ![s] = "new"]
        /\ UNCHANGED <<kept, todo>>
     \/ /\ wiki[s] = "off" /\ found[s]
        /\ stage' = [stage EXCEPT ![s] = "enriching"]
        /\ kept' = [kept EXCEPT ![s] = TRUE]
        /\ \E pages \in 0..FetchTop : todo' = [todo EXCEPT ![s] = pages]
        /\ UNCHANGED wiki
  /\ Forget(s)
  /\ UNCHANGED <<keyring, charged, plan, searx, found, held>>

Taken == MapThenSumSet(LAMBDA s : held[s], Searches)

FetchPage(s) ==
  /\ stage[s] = "enriching" /\ todo[s] > 0 /\ Taken < Permits
  /\ todo' = [todo EXCEPT ![s] = @ - 1]
  /\ held' = [held EXCEPT ![s] = @ + 1]
  /\ UNCHANGED <<keyring, charged, plan, stage, calls, searx, wiki, found, kept>>

\* The text of the page, or "".
PageAnswers(s) ==
  /\ stage[s] = "enriching" /\ held[s] > 0
  /\ held' = [held EXCEPT ![s] = @ - 1]
  /\ UNCHANGED <<keyring, charged, plan, stage, calls, searx, wiki, found, kept, todo>>

Enriched(s) ==
  /\ stage[s] = "enriching" /\ todo[s] = 0 /\ held[s] = 0
  /\ stage' = [stage EXCEPT ![s] = "done"]
  /\ UNCHANGED <<keyring, charged, plan, calls, searx, wiki, found, kept, fetches>>

\* The pair is unpacked the wrong way round: the title is taken for the text, and is
\* usually too short to be kept.
FallBack(s) ==
  /\ stage[s] = "fallback" /\ wiki[s] = "off"
  /\ stage' = [stage EXCEPT ![s] = "done"]
  /\ \/ UNCHANGED kept
     \/ found[s] /\ kept' = [kept EXCEPT ![s] = TRUE]
  /\ UNCHANGED <<keyring, charged, plan, calls, searx, wiki, found, fetches>>

\* Mutant of Returned: a fetch that is cancelled keeps its permit.
ReturnedNothing(S) == held

\* async with gives the permits back as the cancelled fetches unwind.
Returned(S) == [s \in Searches |-> IF s \in S THEN 0 ELSE held[s]]

\* The turn's time is up: its coroutines are cancelled and the semaphore is given
\* back; its threads and a direct lookup go on.
Cancel(t) ==
  /\ budget[t] # "new" /\ ~Ended(t)
  /\ LET mine == {s \in Searches : turn[s] = t /\ ~Over(s)}
         stopped(f, value) == [s \in Searches |-> IF s \in mine THEN value ELSE f[s]]
     IN  /\ stage' = stopped(stage, "cancelled")
         /\ searx' = stopped(searx, FALSE)
         /\ wiki' = [s \in Searches |-> IF s \in mine /\ stage[s] = "fallback"
                                        THEN "off" ELSE wiki[s]]
         /\ found' = stopped(found, FALSE)
         /\ kept' = stopped(kept, FALSE)
         /\ todo' = stopped(todo, 0)
         /\ held' = Returned(mine)
  /\ UNCHANGED <<keyring, charged, plan, calls>>

-----------------------------------------------------------------------------
Tavily(s) == ReadKey(s) \/ TavilyAnswers(s) \/ Rotate(s)

Search(s) ==
  \/ Charge(s)
  \/ Merge(s)
  \/ FetchPage(s)
  \/ PageAnswers(s)
  \/ Enriched(s)
  \/ FallBack(s)

\* Nothing is left to plan or to wait for.
Finished ==
  /\ \A s \in Searches :
       /\ IF turn[s] = 0 THEN \A t \in Turns : budget[t] # "new" ELSE Over(s)
       /\ Gathered(s) /\ wiki[s] = "off"
  /\ UNCHANGED vars

Work(s) == Tavily(s) \/ SearxngAnswers(s) \/ LookUp(s) \/ Search(s)

Next ==
  \/ \E t \in Turns : Plan(t) \/ Cancel(t)
  \/ \E s \in Searches : Work(s)
  \/ Finished

\* Every call has a timeout of its own, and the event loop and the semaphore serve
\* everybody.
Fairness == \A s \in Searches : WF_vars(Work(s))

Spec == Init /\ [][Next]_vars

FairSpec == Spec /\ Fairness

-----------------------------------------------------------------------------
(* Properties *)

(***************************************************************************)
(* A Tavily call fails for quota only when every key is used up, unless    *)
(* another search rotated the keys during the call: two that fail on one   *)
(* key move the index twice, past a key that is good.  (RotatingTavily)    *)
(***************************************************************************)
GoodKeysAreFound ==
  \A s \in Searches :
    tavily[s] = "exhausted" => spent = 1..Keys \/ raced[s]

(***************************************************************************)
(* Per-backend failures are skipped, one bad backend never fails the turn  *)
(* (docs/TECHNICAL_DEEP_DIVE.md:170): what a backend has found for a       *)
(* search that ends is not thrown away.                                    *)
(***************************************************************************)
FoundIsKept ==
  \A s \in Searches :
    stage[s] \in {"done", "lost"} /\ found[s] => kept[s]

(***************************************************************************)
(* Every search that is planned ends, whatever its backends answer.  Its    *)
(* pages wait for permits that the searches of other turns hold: those     *)
(* come back also from the turns that are cancelled in the middle of a     *)
(* fetch.  (_enrichment_semaphore)                                         *)
(***************************************************************************)
SearchesEnd == \A s \in Searches : turn[s] # 0 ~> Over(s)
=============================================================================
