------------------------------ MODULE AgentGraph ------------------------------
(***************************************************************************)
(* The self-correcting agent: the LangGraph of app/agent/graph.py, the     *)
(* nodes of app/agent/nodes.py, and the request around it (query_agent in  *)
(* app/agent/router.py), which loads the chat's evidence memory, runs the  *)
(* graph to its end and stores the merged memory for the next turn.        *)
(*                                                                         *)
(* Variables are the fields of RAGState that some guard or some property   *)
(* reads.  A piece of evidence is a member of Fact (its normalised text:   *)
(* the code deduplicates by text).  What a language model, a retriever or  *)
(* a reranker returns is a nondeterministic choice among the values the    *)
(* code accepts from it.                                                   *)
(***************************************************************************)
EXTENDS Integers, FiniteSets

CONSTANTS
  Fact,             (* the texts retrieval can return                        *)
  MaxRepairPasses,  (* settings.MAX_REPAIR_PASSES                            *)
  MaxSearches,      (* settings.MAX_SEARCHES                                 *)
  MaxRetrievals,    (* settings.MAX_RETRIEVALS                               *)
  MaxEvidence,      (* MAX_EVIDENCE, slots of the generator context          *)
  ReservedSlots,    (* REPAIR_RESERVED_SLOTS, of them for repair evidence    *)
  MaxCarried,       (* MAX_CARRIED_EVIDENCE, facts kept between turns        *)
  CounterCap        (* where the counters saturate, so that a request that   *)
                    (* never ends has finitely many states; no guard sees it *)

ASSUME FactAssumption == IsFiniteSet(Fact)

ASSUME BoundsAssumption ==
  /\ MaxRepairPasses \in Nat
  /\ MaxSearches \in Nat
  /\ MaxRetrievals \in Nat
  /\ MaxEvidence \in Nat \ {0}
  /\ ReservedSlots \in Nat \ {0}
  /\ MaxCarried \in Nat
  /\ CounterCap \in Nat
  /\ CounterCap >= MaxSearches
  /\ CounterCap >= MaxRetrievals

VARIABLES
  node,             (* the node to run next; "END"; "idle" between requests  *)
  understanding,    (* the sanitised plan of classify_and_plan               *)
  evidence,         (* the facts of the generator context                    *)
  pins,             (* of them, the ones whose cite key is P1, P2, ...       *)
  answer,           (* what the text of the answer is, see Answers           *)
  claims,           (* the claims found in it and their verdicts             *)
  final_status,
  repair_queries,   (* TRUE: the list is not empty                           *)
  revise_requested,
  repair_count,
  critique,         (* TRUE: not the empty string                            *)
  draft_answer,     (* an answer, or NoAnswer                                *)
  caveated,         (* the verdicts whose claims were given to the caveats   *)
  search_count, retrieval_count, graph_steps,
  web_runs,         (* history: calls of _search_web in this request         *)
  history,          (* the chat has stored messages                          *)
  memory,           (* the EvidenceState the last interaction stored         *)
  outcome           (* what the request returned to its caller, if it has    *)

plan     == <<understanding>>
context  == <<evidence, pins>>
text     == <<answer, claims, final_status, caveated>>
loop     == <<repair_queries, revise_requested, repair_count, critique,
              draft_answer>>
counters == <<search_count, retrieval_count, graph_steps, web_runs>>
chat     == <<history, memory, outcome>>
vars     == <<node, plan, context, text, loop, counters, chat>>

-----------------------------------------------------------------------------
(* Values *)

Nodes == {"classify_and_plan", "conversational_response", "ask_clarification",
          "gather_evidence", "generate_answer", "verify_answer"}

Statuses == {"answered", "answered_with_caveats", "needs_clarification",
             "conversational"}

\* The verdicts on a claim other than "verified".
Failing == {"unverified", "contradicted", "uncertain"}

(***************************************************************************)
(* An answer: what it is (cited prose of the generator, an earlier draft   *)
(* used again, "I don't have enough reliable information", "could not      *)
(* generate an answer", a reply to small talk, a question of the agent),   *)
(* whether its prose ends by asking the user something, and whether a      *)
(* citation note was appended after the prose.                             *)
(***************************************************************************)
Answers == [kind  : {"none", "cited", "draft", "apology", "failure", "reply",
                     "question"},
            asks  : BOOLEAN,
            noted : BOOLEAN]

Plain(kind) == [kind |-> kind, asks |-> FALSE, noted |-> FALSE]
NoAnswer    == Plain("none")

(***************************************************************************)
(* Claims: the facts cited by claims the judge verified (their evidence_ids *)
(* are cite keys), the facts cited by claims the citation validator        *)
(* verified (their evidence_ids are evidence ids), and the other verdicts  *)
(* that occur.                                                             *)
(***************************************************************************)
Claims   == [judged : SUBSET Fact, checked : SUBSET Fact,
             failed : SUBSET Failing]
NoClaims == [judged |-> {}, checked |-> {}, failed |-> {}]

Plans == [mode : {"research", "conversational", "clarification"},
          docs : BOOLEAN, web : BOOLEAN]
NoPlan == [mode |-> "research", docs |-> FALSE, web |-> FALSE]

\* asked: last_final_status is needs_clarification, all that is asked of it.
Memories == [established : SUBSET Fact, asked : BOOLEAN]
NoMemory == [established |-> {}, asked |-> FALSE]

TypeOK ==
  /\ node \in Nodes \cup {"END", "idle"}
  /\ understanding \in Plans
  /\ evidence \in SUBSET Fact
  /\ pins \in SUBSET Fact
  /\ answer \in Answers
  /\ claims \in Claims
  /\ final_status \in Statuses
  /\ repair_queries \in BOOLEAN
  /\ revise_requested \in BOOLEAN
  /\ repair_count \in 0..MaxRepairPasses
  /\ critique \in BOOLEAN
  /\ draft_answer \in Answers
  /\ caveated \in SUBSET Failing
  /\ search_count \in Nat
  /\ retrieval_count \in Nat
  /\ graph_steps \in Nat
  /\ web_runs \in Nat
  /\ history \in BOOLEAN
  /\ memory \in Memories
  /\ outcome \in Statuses \cup {"none", "error"}

Capped(n) == IF n < CounterCap THEN n ELSE CounterCap
Bump(n)   == Capped(n + 1)

(* A definition whose comment begins with "Mutant" is a plausible mistake in  *)
(* the code; the specification does not use it, the runs that must notice it  *)
(* put it in the place of the definition that follows it.                     *)

-----------------------------------------------------------------------------
(* The request, before the graph *)

\* create_initial_state: a request starts from a fresh RAGState.
FreshState ==
  /\ understanding' = NoPlan
  /\ evidence' = {}
  /\ pins' = {}
  /\ answer' = NoAnswer
  /\ claims' = NoClaims
  /\ final_status' = "answered"
  /\ repair_queries' = FALSE
  /\ revise_requested' = FALSE
  /\ repair_count' = 0
  /\ critique' = FALSE
  /\ draft_answer' = NoAnswer
  /\ caveated' = {}
  /\ search_count' = 0
  /\ retrieval_count' = 0
  /\ graph_steps' = 0
  /\ web_runs' = 0

\* query_agent loads the chat and starts the graph at its entry point.
StartTurn ==
  /\ node = "idle"
  /\ node' = "classify_and_plan"
  /\ FreshState
  /\ outcome' = "none"
  /\ UNCHANGED <<history, memory>>

-----------------------------------------------------------------------------
(* classify_and_plan *)

\* A clarification without a question is research on the web.
RequireQuestion(p, question) ==
  IF p.mode = "clarification" /\ ~question
    THEN [p EXCEPT !.mode = "research", !.web = TRUE]
    ELSE p

Offered == memory.asked

\* A clarification that is not grounded, or was offered already, is research.
\* hit: the message or the conversation names a document or refers back.
GroundClarification(p, hit) ==
  IF p.mode = "clarification" /\ (Offered \/ ~history \/ hit)
    THEN [mode |-> "research", docs |-> TRUE, web |-> p.web \/ ~history]
    ELSE p

\* Research looks somewhere.
RequireSource(p) ==
  IF p.mode = "research" /\ ~p.docs /\ ~p.web THEN [p EXCEPT !.web = TRUE] ELSE p

RouteAfterClassify(p) ==
  CASE p.mode = "conversational" -> "conversational_response"
    [] p.mode = "clarification"  -> "ask_clarification"
    [] OTHER                     -> "gather_evidence"

\* p is what the planner model answers; when every model fails it is research
\* on documents and web, also a member of Plans.
ClassifyAndPlan ==
  /\ node = "classify_and_plan"
  /\ \E p \in Plans, question \in BOOLEAN, hit \in BOOLEAN :
       LET u == RequireSource(GroundClarification(RequireQuestion(p, question), hit))
       IN  /\ understanding' = u
           /\ node' = RouteAfterClassify(u)
  /\ graph_steps' = Bump(graph_steps)
  /\ UNCHANGED <<context, text, loop, chat, search_count, retrieval_count, web_runs>>

-----------------------------------------------------------------------------
(* The two short circuits *)

ConversationalResponse ==
  /\ node = "conversational_response"
  /\ answer' = Plain("reply")
  /\ final_status' = "conversational"
  /\ graph_steps' = Bump(graph_steps)
  /\ node' = "END"
  /\ UNCHANGED <<plan, context, claims, caveated, loop, chat, search_count,
                 retrieval_count, web_runs>>

AskClarification ==
  /\ node = "ask_clarification"
  /\ answer' = [Plain("question") EXCEPT !.asks = TRUE]
  /\ final_status' = "needs_clarification"
  /\ graph_steps' = Bump(graph_steps)
  /\ node' = "END"
  /\ UNCHANGED <<plan, context, claims, caveated, loop, chat, search_count,
                 retrieval_count, web_runs>>

-----------------------------------------------------------------------------
(* gather_evidence *)

UseWeb == repair_queries \/ understanding.web

\* A repair pass (repair_queries not empty) forces the web on.
RunsWeb  == UseWeb /\ search_count < MaxSearches
RunsDocs == understanding.docs /\ retrieval_count < MaxRetrievals

\* Prior facts above the relevance floor; a repair pass pins none.
Pinnable == IF repair_queries THEN {{}} ELSE SUBSET memory.established

\* What the sources of the first round return: anything, or nothing.
Found == IF RunsWeb \/ RunsDocs THEN SUBSET Fact ELSE {{}}

\* The sufficiency retry compares search_count before this node's own search.
MayRetry(pool) == ~repair_queries /\ search_count < MaxSearches /\ pool # {}

\* What the retry adds; it does not look at the counters of the sources.
Refound(pool, retry) ==
  IF retry /\ MayRetry(pool) /\ (UseWeb \/ understanding.docs)
    THEN SUBSET Fact ELSE {{}}

\* Mutant of Selections: a repair pass keeps nothing of the old pool.
SelectionsOnlyNew(pool, new) ==
  {sel \in SUBSET (IF repair_queries THEN new ELSE pool) :
     Cardinality(sel) <= MaxEvidence}

\* How often this node searches the web.
Searches(pool, retry) ==
  (IF RunsWeb THEN 1 ELSE 0)
    + (IF retry /\ MayRetry(pool) /\ UseWeb THEN 1 ELSE 0)

\* The slots of the context: the best of the pool within the token budget, and
\* in a repair pass the new facts first, at most ReservedSlots of them.
Selections(pool, new) ==
  {sel \in SUBSET pool :
     /\ Cardinality(sel) <= MaxEvidence
     /\ pool # {} => sel # {}
     /\ repair_queries /\ new # {} =>
          /\ sel \cap new # {}
          /\ Cardinality(sel \cap new) <= ReservedSlots}

\* Mutant of Counted: only repair passes are counted.
CountedOnRepair(n, used) == IF used /\ repair_queries THEN Bump(n) ELSE n

Counted(n, used) == IF used THEN Bump(n) ELSE n

GatherEvidence ==
  /\ node = "gather_evidence"
  /\ \E pinned \in Pinnable, found \in Found, retry \in BOOLEAN :
       LET pool == (evidence \cup found) \ pinned
       IN  \E more \in Refound(pool, retry) :
             /\ \E sel \in Selections(pool \cup more, found \ evidence) :
                  evidence' = pinned \cup sel
             /\ pins' = pinned
             /\ web_runs' = Capped(web_runs + Searches(pool, retry))
  /\ search_count' = Counted(search_count, UseWeb)
  /\ retrieval_count' = Counted(retrieval_count, understanding.docs)
  /\ graph_steps' = Bump(graph_steps)
  /\ node' = "generate_answer"
  /\ UNCHANGED <<plan, text, loop, chat>>

-----------------------------------------------------------------------------
(* generate_answer *)

Revising == critique /\ draft_answer # NoAnswer

\* Nothing was assembled.
GenerateWithoutEvidence ==
  /\ node = "generate_answer"
  /\ evidence = {}
  /\ answer' = Plain("apology")
  /\ claims' = NoClaims
  /\ final_status' = "answered_with_caveats"
  /\ graph_steps' = Bump(graph_steps)
  /\ node' = "verify_answer"
  /\ UNCHANGED <<plan, context, caveated, loop, chat, search_count,
                 retrieval_count, web_runs>>

\* Mutant of GenerateFails: the failure return does not reset the claims.
GenerateFailsKeepingClaims ==
  /\ node = "generate_answer"
  /\ evidence # {}
  /\ answer' = IF Revising THEN draft_answer ELSE Plain("failure")
  /\ final_status' = "answered_with_caveats"
  /\ node' = "verify_answer"
  /\ UNCHANGED <<plan, context, claims, caveated, loop, chat, counters>>

\* Every generator model failed: the previous draft, if this is a revision.
\* This return leaves graph_steps alone.
GenerateFails ==
  /\ node = "generate_answer"
  /\ evidence # {}
  /\ answer' = IF Revising THEN [draft_answer EXCEPT !.kind =
                                   IF @ = "cited" THEN "draft" ELSE @]
                           ELSE Plain("failure")
  /\ claims' = NoClaims
  /\ final_status' = "answered_with_caveats"
  /\ node' = "verify_answer"
  /\ UNCHANGED <<plan, context, caveated, loop, chat, counters>>

\* The citation validator, without its support gate: a sentence that cites
\* known evidence is verified, an uncited assertion is unverified.
GenerateAnswer ==
  /\ node = "generate_answer"
  /\ evidence # {}
  /\ answer' \in [kind : {"cited"}, asks : BOOLEAN, noted : BOOLEAN]
  /\ claims' \in [judged : {{}}, checked : SUBSET evidence,
                  failed : SUBSET {"unverified"}]
  /\ graph_steps' = Bump(graph_steps)
  /\ node' = "verify_answer"
  /\ UNCHANGED <<plan, context, final_status, caveated, loop, chat, search_count,
                 retrieval_count, web_runs>>

-----------------------------------------------------------------------------
(* verify_answer *)

EndsWithUserQuestion(a) == a.asks /\ ~a.noted

(***************************************************************************)
(* The citation validator again, with its support gate: on the answer the  *)
(* generator just wrote it can only demote what it found verified; a draft *)
(* used again it reads against other evidence; the failure notice cites    *)
(* nothing.                                                                *)
(***************************************************************************)
Rechecks ==
  {m \in [checked : SUBSET evidence, unverified : BOOLEAN] :
     /\ answer.kind = "cited" =>
          /\ m.checked \subseteq claims.checked
          /\ m.checked # claims.checked => m.unverified
          /\ "unverified" \in claims.failed => m.unverified
     /\ answer.kind = "failure" => m.checked = {}}

Errors(m) == m.unverified \/ answer.noted

\* No error and at least one claim: the judge is not asked.
Clean(m) == ~Errors(m) /\ m.checked # {}

\* One verdict of the judge.  overall: "off the question" is "supported" with
\* addresses_question false (it is read only then).  wants: the gaps it names and
\* the searches that would fix them ("blank search": only queries of white space).
Verdicts == [overall : {"supported", "off the question", "partial", "unsupported"},
             wants   : {"nothing", "gap", "search", "blank search"}]

(***************************************************************************)
(* The judge's claims win over the validator's; the validator's survive    *)
(* where the judge says nothing alike.  When the judge fails the verdict   *)
(* is "partial" and only the validator's claims are there, one of the      *)
(* choices below.                                                          *)
(***************************************************************************)
MergedClaims(m) == [judged : SUBSET evidence, checked : SUBSET m.checked,
                    failed : SUBSET Failing]

Gaps(v, c) == v.wants # "nothing" \/ "unverified" \in c.failed

\* Mutant of Repairable: no bound on the number of passes.
RepairableForever(v, c) ==
  /\ Gaps(v, c)
  /\ "contradicted" \notin c.failed
  /\ v.overall \in {"partial", "unsupported"}

Repairable(v, c) ==
  /\ Gaps(v, c)
  /\ "contradicted" \notin c.failed
  /\ v.overall \in {"partial", "unsupported"}
  /\ repair_count < MaxRepairPasses

\* Mutant of RewriteOnly: the second pass searches too.
RewriteOnlyLater == repair_count >= 2

\* The first repair pass searches, later ones only rewrite.
RewriteOnly == repair_count >= 1

RequestsSearch(v) == v.wants \in {"search", "blank search"}

\* The pass is over: the loop fields are reset, the draft is not.
ClearLoop ==
  /\ repair_queries' = FALSE
  /\ revise_requested' = FALSE
  /\ critique' = FALSE
  /\ UNCHANGED <<repair_count, draft_answer>>

\* What every return of the node does and leaves alone.
VerifyStep ==
  /\ node = "verify_answer"
  /\ graph_steps' = Bump(graph_steps)
  /\ UNCHANGED <<plan, context, chat, search_count, retrieval_count, web_runs>>

\* route_after_verify, on the fields the node just wrote.
RouteAfterVerify ==
  node' = CASE repair_queries'   -> "gather_evidence"
            [] ~repair_queries' /\ revise_requested' -> "generate_answer"
            [] OTHER             -> "END"

VerifyNothing ==
  /\ VerifyStep
  /\ answer = NoAnswer \/ evidence = {}
  /\ claims' = NoClaims
  /\ final_status' = "answered_with_caveats"
  /\ caveated' = {}
  /\ UNCHANGED answer
  /\ ClearLoop
  /\ RouteAfterVerify

Judging == answer # NoAnswer /\ evidence # {}

VerifyFastPath ==
  /\ VerifyStep
  /\ Judging
  /\ \E m \in Rechecks :
       /\ Clean(m)
       /\ IF EndsWithUserQuestion(answer)
            THEN /\ final_status' = "needs_clarification"
                 /\ claims' = NoClaims
            ELSE /\ final_status' = "answered"
                 /\ claims' = [NoClaims EXCEPT !.checked = m.checked]
  /\ caveated' = {}
  /\ UNCHANGED answer
  /\ ClearLoop
  /\ RouteAfterVerify

\* The judge finds several real-world matches of a name: ask which.
VerifyReferents ==
  /\ VerifyStep
  /\ Judging
  /\ \E m \in Rechecks : ~Clean(m)
  /\ answer' = Plain("question")
  /\ claims' = NoClaims
  /\ final_status' = "needs_clarification"
  /\ caveated' = {}
  /\ ClearLoop
  /\ RouteAfterVerify

\* Mutant of CarryFeedback: the draft is not handed over.
CarryFeedbackWithoutDraft ==
  /\ critique' = TRUE
  /\ UNCHANGED draft_answer

\* What the next pass is told: the judge's findings and the draft they are about.
CarryFeedback ==
  /\ critique' = TRUE
  /\ draft_answer' = answer

\* Mutant of CountPass: the first pass is counted, later ones are not.
CountPassOnce == repair_count' = 1

CountPass == repair_count' = repair_count + 1

\* The queries of a searching pass are the judge's, less the blank ones.
VerifySchedulesRepair ==
  /\ VerifyStep
  /\ Judging
  /\ \E m \in Rechecks, v \in Verdicts :
       /\ ~Clean(m)
       /\ claims' \in MergedClaims(m)
       /\ Repairable(v, claims')
       /\ RewriteOnly \/ RequestsSearch(v)
       /\ repair_queries' = (~RewriteOnly /\ v.wants = "search")
       /\ revise_requested' = RewriteOnly
  /\ CountPass
  /\ CarryFeedback
  /\ UNCHANGED <<answer, final_status, caveated>>
  /\ RouteAfterVerify

\* Contradicted claims and a clarification question of the judge: ask it.
\* Contradictions are never repaired.
VerifyAsksAboutConflict ==
  /\ VerifyStep
  /\ Judging
  /\ \E m \in Rechecks :
       /\ ~Clean(m)
       /\ claims' \in MergedClaims(m)
       /\ "contradicted" \in claims'.failed
  /\ answer' = Plain("question")
  /\ final_status' = "needs_clarification"
  /\ caveated' = {}
  /\ ClearLoop
  /\ RouteAfterVerify

\* Mutant of Resolve: the caveats of a refuted answer leave out what is unverified.
ResolveHalfCaveated(m, v, c) ==
  LET caveats(fs) == [status |-> "answered_with_caveats", of |-> c.failed \cap fs]
  IN  IF EndsWithUserQuestion(answer) THEN [status |-> "needs_clarification", of |-> {}]
      ELSE IF "contradicted" \in c.failed THEN caveats({"contradicted"})
      ELSE IF c.failed # {} \/ v.overall # "supported" \/ Errors(m)
             THEN caveats({"unverified"})
      ELSE [status |-> "answered", of |-> {}]

\* The status of an answer that is neither repaired nor a conflict to ask about,
\* and the verdicts whose claims go to its caveats.
Resolve(m, v, c) ==
  LET caveats(fs) == [status |-> "answered_with_caveats", of |-> c.failed \cap fs]
  IN  CASE EndsWithUserQuestion(answer) ->
             [status |-> "needs_clarification", of |-> {}]
        [] ~EndsWithUserQuestion(answer)
           /\ ("contradicted" \in c.failed \/ v.overall = "unsupported") ->
             caveats({"contradicted", "unverified"})
        [] ~EndsWithUserQuestion(answer) /\ "contradicted" \notin c.failed
           /\ v.overall # "unsupported"
           /\ ("unverified" \in c.failed \/ v.overall # "supported" \/ Errors(m)) ->
             caveats({"unverified"})
        [] OTHER ->
             [status |-> "answered", of |-> {}]

VerifyFinalizes ==
  /\ VerifyStep
  /\ Judging
  /\ \E m \in Rechecks, v \in Verdicts :
       /\ ~Clean(m)
       /\ \E c \in MergedClaims(m) :
            /\ ~(Repairable(v, c) /\ (RewriteOnly \/ RequestsSearch(v)))
            /\ claims' = c
            /\ final_status' = Resolve(m, v, c).status
            /\ caveated' = Resolve(m, v, c).of
  /\ UNCHANGED answer
  /\ ClearLoop
  /\ RouteAfterVerify

-----------------------------------------------------------------------------
(* The request, after the graph *)

\* build_evidence_state: the evidence whose id a verified claim carries.  The
\* judge's claims carry cite keys, which are no evidence ids.
Backed == claims.checked \cap evidence

\* Mutant of Carried: a clarification turn stores its claims as well.
CarriedWhateverTheStatus ==
  {kept \in SUBSET (Backed \cup memory.established) :
     /\ Cardinality(kept) <= MaxCarried
     /\ Backed # {} /\ kept # {} => kept \cap Backed # {}}

\* merge_evidence_state: this turn's facts, then the prior ones, up to a cap.
Carried ==
  IF final_status \in {"needs_clarification", "conversational"}
    THEN {memory.established}
    ELSE {kept \in SUBSET (Backed \cup memory.established) :
            LET all == Backed \cup memory.established
                cap(s) == IF Cardinality(s) < MaxCarried THEN Cardinality(s)
                                                         ELSE MaxCarried
            IN  /\ Cardinality(kept) = cap(all)
                /\ Cardinality(kept \cap Backed) = cap(Backed)}

\* The two commits of the request: the interaction with its evidence memory (a
\* failure is logged and swallowed, and fails the next commit), the messages.
PersistTurn ==
  /\ node = "END"
  /\ \E logged \in BOOLEAN, stored \in BOOLEAN :
       /\ stored => logged
       /\ IF logged
            THEN \E kept \in Carried :
                   memory' = [established |-> kept,
                             asked |-> final_status = "needs_clarification"]
            ELSE UNCHANGED memory
       /\ history' = (history \/ stored)
       /\ outcome' = IF stored THEN final_status ELSE "error"
  /\ node' = "idle"
  /\ FreshState

\* A node raises, or the time of the request is up: an error for the caller,
\* nothing stored.
GraphFails ==
  /\ node \in Nodes
  /\ node' = "idle"
  /\ outcome' = "error"
  /\ UNCHANGED <<history, memory>>
  /\ FreshState

-----------------------------------------------------------------------------
(* The specification *)

Init ==
  /\ node = "idle"
  /\ understanding = NoPlan
  /\ evidence = {}
  /\ pins = {}
  /\ answer = NoAnswer
  /\ claims = NoClaims
  /\ final_status = "answered"
  /\ repair_queries = FALSE
  /\ revise_requested = FALSE
  /\ repair_count = 0
  /\ critique = FALSE
  /\ draft_answer = NoAnswer
  /\ caveated = {}
  /\ search_count = 0
  /\ retrieval_count = 0
  /\ graph_steps = 0
  /\ web_runs = 0
  /\ history \in BOOLEAN
  /\ memory = NoMemory
  /\ outcome = "none"

Verify ==
  \/ VerifyNothing
  \/ VerifyFastPath
  \/ VerifyReferents
  \/ VerifySchedulesRepair
  \/ VerifyAsksAboutConflict
  \/ VerifyFinalizes

Generate ==
  \/ GenerateWithoutEvidence
  \/ GenerateFails
  \/ GenerateAnswer

\* A step of a request that has started.
RequestStep ==
  \/ ClassifyAndPlan
  \/ ConversationalResponse
  \/ AskClarification
  \/ GatherEvidence
  \/ Generate
  \/ Verify
  \/ PersistTurn
  \/ GraphFails

Next == StartTurn \/ RequestStep

(***************************************************************************)
(* LangGraph runs the scheduled node as soon as the last one returned, and *)
(* every call a node makes ends (it returns, raises, or QUERY_TIMEOUT ends *)
(* the request), so a started request keeps taking steps.  Nothing obliges *)
(* a user to send a message, or a node to fail.                            *)
(***************************************************************************)
Fairness == WF_vars(RequestStep)

Spec == Init /\ [][Next]_vars /\ Fairness

-----------------------------------------------------------------------------
(* Safety *)

Researched == node = "END" /\ understanding.mode = "research"

\* A repair was scheduled but no query survived the stripping of blank ones, so
\* route_after_verify ended the graph in the middle of it.
Abandoned == node = "END" /\ critique

(***************************************************************************)
(* The graph takes at most 4 steps without a repair, 7 with a searching    *)
(* repair and 2 more with each rewriting one.  No code enforces            *)
(* MAX_GRAPH_STEPS, and LangGraph raises GraphRecursionError at 25: the    *)
(* loop has to be bounded by repair_count alone.                           *)
(***************************************************************************)
StepBudget == graph_steps <= IF repair_count = 0 THEN 4 ELSE 5 + 2 * repair_count

(***************************************************************************)
(* A request searches the web at most once more than MAX_SEARCHES allows:  *)
(* the sufficiency retry of gather_evidence is not counted, and repair     *)
(* passes cannot add to that.                                              *)
(***************************************************************************)
SearchBudget == web_runs <= MaxSearches + 1

(***************************************************************************)
(* A completed research turn never leaves an unverified or contradicted    *)
(* claim in its answer without handing that claim to the caveats; so an    *)
(* answer with status "answered" has none.                                 *)
(***************************************************************************)
NoSilentFailure ==
  Researched /\ ~Abandoned /\ final_status # "needs_clarification" =>
    claims.failed \ {"uncertain"} \subseteq caveated

(***************************************************************************)
(* Every pass after the first regenerates from the judge's critique and    *)
(* from the draft it criticises: a repair never silently starts afresh.    *)
(***************************************************************************)
RepairCarriesCritique == node = "generate_answer" /\ repair_count > 0 => Revising

(***************************************************************************)
(* A completed research answer whose last line asks the user something is  *)
(* a clarification turn, whichever of the exits of verify_answer it took.  *)
(***************************************************************************)
QuestionIsClarification ==
  Researched /\ ~Abandoned /\ EndsWithUserQuestion(answer) =>
    final_status = "needs_clarification"

(***************************************************************************)
(* The claims under verification, and the ones the turn ends with, are     *)
(* about the evidence of the current context: no verdict reached before a  *)
(* repair pass gathered other evidence survives into memory.               *)
(***************************************************************************)
ClaimsMatchContext ==
  node \in {"verify_answer", "END"} => claims.judged \cup claims.checked \subseteq evidence

(***************************************************************************)
(* A repair pass never trades an answer for an admission that there is     *)
(* none: it keeps a context to answer from, and when the generator is down *)
(* the draft stands.                                                       *)
(***************************************************************************)
RepairKeepsTheAnswer ==
  node \in {"verify_answer", "END"} /\ repair_count > 0 =>
    /\ answer.kind # "apology"
    /\ answer.kind = "failure" => draft_answer.kind = "failure"

(***************************************************************************)
(* The planner may ask for clarification only in a chat that shows         *)
(* something to choose from, and never twice running.                      *)
(***************************************************************************)
PlannerAsksOnce == node = "ask_clarification" => history /\ ~Offered

-----------------------------------------------------------------------------
(* Liveness and refinement *)

\* Every request ends: no combination of verdicts and failures loops.
RequestsEnd == node # "idle" ~> node = "idle"

Contract == INSTANCE TurnContract WITH
  Capacity    <- MaxCarried,
  phase       <- IF node = "idle" THEN "idle" ELSE "running",
  established <- memory.established,
  asked       <- memory.asked,
  result      <- outcome

\* The graph and the request around it keep the contract of a chat.
KeepsContract == Contract!Spec

-----------------------------------------------------------------------------
(* Statements of the documents that the code does not keep; see the README *)

(***************************************************************************)
(* README.md: "Every claim is either cited and verified or explicitly      *)
(* flagged as a caveat; nothing is silently asserted."                     *)
(***************************************************************************)
NothingSilentlyAsserted ==
  Researched /\ ~Abandoned /\ final_status # "needs_clarification" =>
    claims.failed \subseteq caveated

(***************************************************************************)
(* classify_and_plan: "Rule: clarification never loops. One round was      *)
(* already offered if the previous turn ended with needs_clarification ... *)
(* never ask again."                                                       *)
(***************************************************************************)
ClarificationNeverLoops ==
  node = "END" /\ Offered => final_status # "needs_clarification"

(***************************************************************************)
(* gather_evidence: "Prior-turn verified facts are PINNED, not reranked:   *)
(* they were already verified and must not compete with (and lose to)      *)
(* fresh retrieval."                                                       *)
(***************************************************************************)
PinnedFactsStay ==
  [][node = "gather_evidence" /\ node' = "generate_answer" => pins \subseteq evidence']_vars

(***************************************************************************)
(* ARCHITECTURE.md: "established = evidence records that backed claims the *)
(* judge marked verified" (as far as there is room for them).              *)
(***************************************************************************)
JudgedFactsAreEstablished ==
  [][node = "END" /\ ~Abandoned /\ memory' # memory /\ final_status = "answered"
       /\ Cardinality(memory'.established) < MaxCarried
       => claims.judged \subseteq memory'.established]_vars

=============================================================================
