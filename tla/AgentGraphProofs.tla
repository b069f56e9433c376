--------------------------- MODULE AgentGraphProofs ---------------------------
(***************************************************************************)
(* Theorems about AgentGraph, for every value of its constants.            *)
(*                                                                         *)
(* The loop of the graph is bounded by repair_count, so the inductive      *)
(* invariant says, node by node, what repair_count tells of the rest of    *)
(* the state: how many steps and searches are behind, and that the draft   *)
(* and the context of the repaired answer are there.                       *)
(***************************************************************************)
EXTENDS AgentGraph, FiniteSetTheorems, TLAPS

-----------------------------------------------------------------------------
(* The inductive invariant *)

Before == {"idle", "classify_and_plan", "conversational_response", "ask_clarification"}
Looping == {"gather_evidence", "generate_answer", "verify_answer"}

\* A searching repair is the first; a repair has an answer to repair.
LoopInv ==
  /\ repair_count = 0 => ~repair_queries /\ ~critique
  /\ node \in Before => repair_count = 0 /\ claims = NoClaims
  /\ node = "gather_evidence" => repair_count = 0 \/ (repair_count = 1 /\ repair_queries)
  /\ node \in Looping /\ repair_count > 0 =>
       critique /\ evidence # {} /\ draft_answer.kind \notin {"none", "apology"}

\* The answer under verification is an apology exactly when nothing was found.
AnswerInv ==
  /\ node = "verify_answer" =>
       IF evidence = {} THEN answer = Plain("apology")
                        ELSE answer.kind \notin {"none", "apology"}
  /\ RepairKeepsTheAnswer

\* The route the plan chose.
ModeInv ==
  /\ node = "conversational_response" => understanding.mode = "conversational"
  /\ node = "ask_clarification" => understanding.mode = "clarification"

\* The steps a request may have behind it when it reaches a node.
Allowance ==
  CASE node \in {"idle", "classify_and_plan"} -> 0
    [] node \in {"conversational_response", "ask_clarification"} -> 1
    [] node = "gather_evidence" -> IF repair_count = 0 THEN 1 ELSE 4
    [] node = "generate_answer" -> IF repair_count = 0 THEN 2 ELSE 3 + 2 * repair_count
    [] node = "verify_answer"   -> IF repair_count = 0 THEN 3 ELSE 4 + 2 * repair_count
    [] OTHER                    -> IF repair_count = 0 THEN 4 ELSE 5 + 2 * repair_count

StepInv == graph_steps <= Allowance

\* A search still to come is within the budget and its one overdraft.
SearchInv ==
  /\ SearchBudget
  /\ node \in Before => search_count = 0 /\ web_runs = 0
  /\ node = "gather_evidence" /\ repair_count = 0 => search_count = 0 /\ web_runs = 0
  /\ (node = "gather_evidence" \/ (node \in Looping /\ repair_count = 0)) =>
       (search_count < MaxSearches => web_runs <= MaxSearches)

\* The memory is never over its capacity.
MemoryInv == Cardinality(memory.established) <= MaxCarried

ControlInv == TypeOK /\ LoopInv /\ AnswerInv /\ ModeInv

-----------------------------------------------------------------------------
(* Types *)

\* A saturating counter stays a natural number and grows by at most one.
LEMMA BumpType ==
  ASSUME NEW n \in Nat
  PROVE  Bump(n) \in Nat /\ Bump(n) <= n + 1
BY BoundsAssumption DEF Bump, Capped

\* The state of a new request has its types.
LEMMA FreshStateType ==
  ASSUME FreshState
  PROVE  /\ understanding' \in Plans
         /\ evidence' \in SUBSET Fact
         /\ pins' \in SUBSET Fact
         /\ answer' \in Answers
         /\ claims' \in Claims
         /\ final_status' \in Statuses
         /\ repair_queries' \in BOOLEAN
         /\ revise_requested' \in BOOLEAN
         /\ repair_count' \in 0..MaxRepairPasses
         /\ critique' \in BOOLEAN
         /\ draft_answer' \in Answers
         /\ caveated' \in SUBSET Failing
         /\ search_count' \in Nat
         /\ retrieval_count' \in Nat
         /\ graph_steps' \in Nat
         /\ web_runs' \in Nat
<1>1. understanding' \in Plans
  BY DEF FreshState, NoPlan, Plans
<1>2. answer' \in Answers /\ draft_answer' \in Answers
  BY DEF FreshState, NoAnswer, Plain, Answers
<1>3. claims' \in Claims
  BY DEF FreshState, NoClaims, Claims
<1>4. final_status' \in Statuses
  BY DEF FreshState, Statuses
<1>5. repair_count' \in 0..MaxRepairPasses
  BY BoundsAssumption DEF FreshState
<1> QED
  BY <1>1, <1>2, <1>3, <1>4, <1>5 DEF FreshState

\* What verify_answer leaves alone keeps its type.
LEMMA VerifyStepType ==
  ASSUME TypeOK, VerifyStep
  PROVE  /\ understanding' \in Plans
         /\ evidence' \in SUBSET Fact
         /\ pins' \in SUBSET Fact
         /\ search_count' \in Nat
         /\ retrieval_count' \in Nat
         /\ graph_steps' \in Nat
         /\ web_runs' \in Nat
         /\ history' \in BOOLEAN
         /\ memory' \in Memories
         /\ outcome' \in Statuses \cup {"none", "error"}
BY BumpType DEF TypeOK, VerifyStep, plan, context, chat

LEMMA ClearLoopType ==
  ASSUME TypeOK, ClearLoop
  PROVE  /\ repair_queries' \in BOOLEAN
         /\ revise_requested' \in BOOLEAN
         /\ repair_count' \in 0..MaxRepairPasses
         /\ critique' \in BOOLEAN
         /\ draft_answer' \in Answers
BY DEF TypeOK, ClearLoop

LEMMA RouteAfterVerifyType ==
  ASSUME RouteAfterVerify
  PROVE  node' \in Nodes \cup {"END", "idle"}
BY DEF RouteAfterVerify, Nodes

\* The verdicts a status and its caveats are made of.
LEMMA ResolveType ==
  ASSUME NEW m, NEW v, NEW c, c.failed \in SUBSET Failing
  PROVE  /\ Resolve(m, v, c).status \in Statuses
         /\ Resolve(m, v, c).of \in SUBSET Failing
BY DEF Resolve, Statuses

\* The claims the judge and the validator leave are claims about the evidence.
LEMMA MergedClaimsType ==
  ASSUME TypeOK, NEW m \in Rechecks, NEW c \in MergedClaims(m)
  PROVE  /\ c \in Claims
         /\ c.failed \in SUBSET Failing
         /\ c.judged \cup c.checked \subseteq evidence
         /\ m.checked \subseteq evidence
BY DEF TypeOK, Rechecks, MergedClaims, Claims

\* The type invariant is preserved, action by action.
LEMMA TypeStep ==
  ASSUME TypeOK, [Next]_vars
  PROVE  TypeOK'
<1>1. CASE StartTurn
  BY <1>1, FreshStateType DEF TypeOK, StartTurn, Nodes
<1>2. CASE ClassifyAndPlan
  <2> PICK p \in Plans, question \in BOOLEAN, hit \in BOOLEAN :
        understanding' = RequireSource(GroundClarification(RequireQuestion(p, question), hit))
        /\ node' = RouteAfterClassify(understanding')
    BY <1>2 DEF ClassifyAndPlan
  <2>1. RequireQuestion(p, question) \in Plans
    BY DEF RequireQuestion, Plans
  <2>2. GroundClarification(RequireQuestion(p, question), hit) \in Plans
    BY <2>1 DEF GroundClarification, Plans, TypeOK
  <2>3. understanding' \in Plans
    BY <2>2 DEF RequireSource, Plans
  <2>4. node' \in Nodes
    BY DEF RouteAfterClassify, Nodes
  <2> QED
    BY <1>2, <2>3, <2>4, BumpType DEF TypeOK, ClassifyAndPlan, context, text, loop, chat
<1>3. CASE ConversationalResponse
  BY <1>3, BumpType DEF TypeOK, ConversationalResponse, plan, context, loop, chat, Plain,
     Answers, Statuses
<1>4. CASE AskClarification
  <2>1. answer' \in Answers
    BY <1>4 DEF AskClarification, Plain, Answers
  <2> QED
    BY <1>4, <2>1, BumpType DEF TypeOK, AskClarification, plan, context, loop, chat, Statuses
<1>5. CASE GatherEvidence
  <2> PICK pinned \in Pinnable, found \in Found, retry \in BOOLEAN :
        \E more \in Refound((evidence \cup found) \ pinned, retry) :
             /\ \E sel \in Selections(((evidence \cup found) \ pinned) \cup more,
                                      found \ evidence) :
                  evidence' = pinned \cup sel
             /\ pins' = pinned
    BY <1>5 DEF GatherEvidence
  <2> PICK more \in Refound((evidence \cup found) \ pinned, retry) :
             /\ \E sel \in Selections(((evidence \cup found) \ pinned) \cup more,
                                      found \ evidence) :
                  evidence' = pinned \cup sel
             /\ pins' = pinned
    OBVIOUS
  <2>1. pinned \subseteq Fact
    BY DEF Pinnable, TypeOK, Memories
  <2>2. found \subseteq Fact /\ more \subseteq Fact
    BY DEF Found, Refound
  <2>3. evidence' \subseteq Fact /\ pins' \subseteq Fact
    BY <2>1, <2>2 DEF Selections, TypeOK
  <2>4. web_runs' \in Nat
    BY <1>5, BoundsAssumption DEF GatherEvidence, TypeOK, Capped, Searches
  <2>5. search_count' \in Nat /\ retrieval_count' \in Nat /\ graph_steps' \in Nat
    BY <1>5, BumpType DEF GatherEvidence, TypeOK, Counted
  <2>6. node' \in Nodes
    BY <1>5 DEF GatherEvidence, Nodes
  <2> QED
    BY <1>5, <2>3, <2>4, <2>5, <2>6 DEF TypeOK, GatherEvidence, plan, text, loop, chat
<1>6. CASE GenerateWithoutEvidence
  BY <1>6, BumpType DEF TypeOK, GenerateWithoutEvidence, plan, context, loop, chat, Plain,
     Answers, Statuses, NoClaims, Claims, Nodes
<1>7. CASE GenerateFails
  <2>1. answer' \in Answers
    BY <1>7 DEF GenerateFails, TypeOK, Plain, Answers
  <2> QED
    BY <1>7, <2>1 DEF TypeOK, GenerateFails, plan, context, loop, chat, counters,
       Statuses, NoClaims, Claims, Nodes
<1>8. CASE GenerateAnswer
  <2>1. answer' \in Answers
    BY <1>8 DEF GenerateAnswer, Answers
  <2>2. claims' \in Claims
    BY <1>8 DEF GenerateAnswer, Claims, Failing, TypeOK
  <2> QED
    BY <1>8, <2>1, <2>2, BumpType DEF TypeOK, GenerateAnswer, plan, context, loop, chat, Nodes
<1>9. CASE VerifyNothing
  BY <1>9, VerifyStepType, ClearLoopType, RouteAfterVerifyType
     DEF TypeOK, VerifyNothing, NoClaims, Claims, Statuses
<1>10. CASE VerifyFastPath
  <2> PICK m \in Rechecks :
         IF EndsWithUserQuestion(answer)
            THEN /\ final_status' = "needs_clarification"
                 /\ claims' = NoClaims
            ELSE /\ final_status' = "answered"
                 /\ claims' = [NoClaims EXCEPT !.checked = m.checked]
    BY <1>10 DEF VerifyFastPath
  <2>1. claims' \in Claims /\ final_status' \in Statuses
    BY DEF NoClaims, Claims, Statuses, Rechecks, TypeOK
  <2> QED
    BY <1>10, <2>1, VerifyStepType, ClearLoopType, RouteAfterVerifyType
       DEF TypeOK, VerifyFastPath
<1>11. CASE VerifyReferents
  BY <1>11, VerifyStepType, ClearLoopType, RouteAfterVerifyType
     DEF TypeOK, VerifyReferents, NoClaims, Claims, Statuses, Plain, Answers
<1>12. CASE VerifySchedulesRepair
  <2> PICK m \in Rechecks, v \in Verdicts :
         /\ claims' \in MergedClaims(m)
         /\ Repairable(v, claims')
         /\ repair_queries' = (~RewriteOnly /\ v.wants = "search")
         /\ revise_requested' = RewriteOnly
    BY <1>12 DEF VerifySchedulesRepair
  <2>1. claims' \in Claims
    BY MergedClaimsType
  <2>2. repair_count' \in 0..MaxRepairPasses
    BY <1>12, BoundsAssumption DEF VerifySchedulesRepair, CountPass, Repairable, TypeOK
  <2>3. repair_queries' \in BOOLEAN /\ revise_requested' \in BOOLEAN
    BY DEF RewriteOnly
  <2> QED
    BY <1>12, <2>1, <2>2, <2>3, VerifyStepType, RouteAfterVerifyType
       DEF TypeOK, VerifySchedulesRepair, CarryFeedback
<1>13. CASE VerifyAsksAboutConflict
  <2>1. claims' \in Claims
    BY <1>13, MergedClaimsType DEF VerifyAsksAboutConflict
  <2> QED
    BY <1>13, <2>1, VerifyStepType, ClearLoopType, RouteAfterVerifyType
       DEF TypeOK, VerifyAsksAboutConflict, Statuses, Plain, Answers
<1>14. CASE VerifyFinalizes
  <2> PICK m \in Rechecks, v \in Verdicts :
         \E c \in MergedClaims(m) :
            /\ claims' = c
            /\ final_status' = Resolve(m, v, c).status
            /\ caveated' = Resolve(m, v, c).of
    BY <1>14 DEF VerifyFinalizes
  <2>1. claims' \in Claims /\ final_status' \in Statuses /\ caveated' \in SUBSET Failing
    BY MergedClaimsType, ResolveType
  <2> QED
    BY <1>14, <2>1, VerifyStepType, ClearLoopType, RouteAfterVerifyType
       DEF TypeOK, VerifyFinalizes
<1>15. CASE PersistTurn
  <2> PICK logged \in BOOLEAN, stored \in BOOLEAN :
       /\ IF logged
            THEN \E kept \in Carried :
                   memory' = [established |-> kept,
                              asked |-> final_status = "needs_clarification"]
            ELSE UNCHANGED memory
       /\ history' = (history \/ stored)
       /\ outcome' = IF stored THEN final_status ELSE "error"
    BY <1>15 DEF PersistTurn
  <2>1. \A kept \in Carried : kept \subseteq Fact
    BY DEF Carried, Backed, TypeOK, Memories
  <2>2. memory' \in Memories
    <3>1. CASE ~logged
      BY <3>1 DEF TypeOK
    <3>2. CASE logged
      <4> PICK kept \in Carried :
             memory' = [established |-> kept,
                        asked |-> final_status = "needs_clarification"]
        BY <3>2
      <4>1. (final_status = "needs_clarification") \in BOOLEAN
        OBVIOUS
      <4>2. kept \in SUBSET Fact
        BY <2>1
      <4> QED
        BY <4>1, <4>2 DEF Memories
    <3> QED
      BY <3>1, <3>2
  <2>3. history' \in BOOLEAN /\ outcome' \in Statuses \cup {"none", "error"}
    BY DEF TypeOK
  <2> QED
    BY <1>15, <2>2, <2>3, FreshStateType DEF TypeOK, PersistTurn
<1>16. CASE GraphFails
  BY <1>16, FreshStateType DEF TypeOK, GraphFails
<1>17. CASE UNCHANGED vars
  BY <1>17 DEF TypeOK, vars, plan, context, text, loop, counters, chat
<1> QED
  BY <1>1, <1>2, <1>3, <1>4, <1>5, <1>6, <1>7, <1>8, <1>9, <1>10, <1>11, <1>12, <1>13,
     <1>14, <1>15, <1>16, <1>17 DEF Next, RequestStep, Generate, Verify

\* The initial states have their types.
LEMMA InitType == Init => TypeOK
<1> SUFFICES ASSUME Init PROVE TypeOK
  OBVIOUS
<1>1. understanding \in Plans /\ memory \in Memories
  BY DEF Init, NoPlan, Plans, NoMemory, Memories
<1>2. answer \in Answers /\ draft_answer \in Answers
  BY DEF Init, NoAnswer, Plain, Answers
<1>3. claims \in Claims
  BY DEF Init, NoClaims, Claims
<1>4. repair_count \in 0..MaxRepairPasses
  BY BoundsAssumption DEF Init
<1> QED
  BY <1>1, <1>2, <1>3, <1>4 DEF Init, TypeOK, Statuses

\* Every variable of the request and of the chat keeps its type.
THEOREM TypeCorrect == Spec => []TypeOK
<1>1. Init => TypeOK
  BY InitType
<1>2. TypeOK /\ [Next]_vars => TypeOK'
  BY TypeStep
<1> QED
  BY <1>1, <1>2, PTL DEF Spec

-----------------------------------------------------------------------------
(* Control *)

\* A return that clears the loop fields ends the graph.
LEMMA ClearedEnds ==
  ASSUME ClearLoop, RouteAfterVerify
  PROVE  /\ node' = "END"
         /\ ~repair_queries' /\ ~critique'
         /\ repair_count' = repair_count
         /\ draft_answer' = draft_answer
BY DEF ClearLoop, RouteAfterVerify

\* Where a scheduled repair goes: the first searches or, with blank queries only,
\* ends the graph; later ones rewrite.
LEMMA RepairRoutes ==
  ASSUME TypeOK, VerifySchedulesRepair
  PROVE  /\ repair_count' = repair_count + 1
         /\ evidence # {} /\ evidence' = evidence
         /\ critique' /\ draft_answer' = answer /\ answer' = answer
         /\ claims'.judged \cup claims'.checked \subseteq evidence
         /\ \/ /\ repair_count = 0
               /\ \/ node' = "gather_evidence" /\ repair_queries'
                  \/ node' = "END" /\ ~repair_queries'
            \/ /\ repair_count >= 1 /\ ~repair_queries'
               /\ node' = "generate_answer"
<1> PICK m \in Rechecks, v \in Verdicts :
      /\ claims' \in MergedClaims(m)
      /\ repair_queries' = (~RewriteOnly /\ v.wants = "search")
      /\ revise_requested' = RewriteOnly
  BY DEF VerifySchedulesRepair
<1>1. claims'.judged \cup claims'.checked \subseteq evidence
  BY MergedClaimsType
<1>2. repair_count \in Nat
  BY BoundsAssumption DEF TypeOK
<1>3. /\ repair_count' = repair_count + 1
      /\ evidence # {} /\ evidence' = evidence
      /\ critique' /\ draft_answer' = answer /\ answer' = answer
  BY DEF VerifySchedulesRepair, VerifyStep, Judging, CountPass, CarryFeedback, context
<1>4. CASE RewriteOnly
  <2>1. ~repair_queries' /\ revise_requested'
    BY <1>4
  <2>2. node' = "generate_answer"
    BY <2>1 DEF VerifySchedulesRepair, RouteAfterVerify
  <2> QED
    BY <1>1, <1>2, <1>3, <1>4, <2>1, <2>2 DEF RewriteOnly
<1>5. CASE ~RewriteOnly
  <2>0. ~revise_requested'
    BY <1>5
  <2>1. ~revise_requested' /\ repair_count = 0
    BY <2>0, <1>2, <1>5 DEF RewriteOnly
  <2>2. repair_queries' = (v.wants = "search")
    BY <1>5
  <2>3. \/ node' = "gather_evidence" /\ repair_queries'
        \/ node' = "END" /\ ~repair_queries'
    BY <2>1, <2>2 DEF VerifySchedulesRepair, RouteAfterVerify
  <2> QED
    BY <1>1, <1>2, <1>3, <2>1, <2>3
<1> QED
  BY <1>4, <1>5

\* The returns of verify_answer that end the graph.
VerifyEnds ==
  VerifyNothing \/ VerifyFastPath \/ VerifyReferents \/ VerifyAsksAboutConflict
    \/ VerifyFinalizes

\* What they have in common: the answer stays, or becomes the agent's question.
LEMMA VerifyEndsFrame ==
  ASSUME VerifyEnds
  PROVE  /\ node = "verify_answer" /\ node' = "END"
         /\ ~repair_queries' /\ ~critique'
         /\ repair_count' = repair_count
         /\ draft_answer' = draft_answer
         /\ evidence' = evidence
         /\ understanding' = understanding
         /\ search_count' = search_count
         /\ web_runs' = web_runs
         /\ graph_steps' = Bump(graph_steps)
         /\ memory' = memory /\ history' = history /\ outcome' = outcome
         /\ answer' = answer \/ answer' = Plain("question")
<1>1. ClearLoop /\ RouteAfterVerify /\ VerifyStep
  BY DEF VerifyEnds, VerifyNothing, VerifyFastPath, VerifyReferents,
     VerifyAsksAboutConflict, VerifyFinalizes
<1>2. answer' = answer \/ answer' = Plain("question")
  BY DEF VerifyEnds, VerifyNothing, VerifyFastPath, VerifyReferents,
     VerifyAsksAboutConflict, VerifyFinalizes
<1> QED
  BY <1>1, <1>2, ClearedEnds DEF VerifyStep, plan, context, chat

\* A repair pass that starts with evidence ends with evidence.
LEMMA GatherKeepsEvidence ==
  ASSUME TypeOK, GatherEvidence, repair_queries, evidence # {}
  PROVE  evidence' # {}
<1> PICK pinned \in Pinnable, found \in Found, retry \in BOOLEAN :
      \E more \in Refound((evidence \cup found) \ pinned, retry) :
        \E sel \in Selections(((evidence \cup found) \ pinned) \cup more,
                              found \ evidence) : evidence' = pinned \cup sel
  BY DEF GatherEvidence
<1>1. pinned = {}
  BY DEF Pinnable
<1>2. \A sel, more : sel \in Selections(((evidence \cup found) \ pinned) \cup more,
                                       found \ evidence) => sel # {}
  BY <1>1 DEF Selections
<1> QED
  BY <1>2

\* The control invariants are preserved, action by action.
LEMMA ControlStep ==
  ASSUME ControlInv, [Next]_vars
  PROVE  ControlInv'
<1> USE DEF ControlInv
<1>a. TypeOK'
  BY TypeStep
<1>b. repair_count \in Nat
  BY BoundsAssumption DEF TypeOK
<1>0. TypeOK' /\ repair_count \in Nat
  BY <1>a, <1>b
<1>1. CASE StartTurn
  BY <1>0, <1>1 DEF StartTurn, FreshState, LoopInv, AnswerInv, ModeInv, RepairKeepsTheAnswer,
     Before, Looping
<1>2. CASE ClassifyAndPlan
  <2>1. /\ node = "classify_and_plan"
        /\ node' = RouteAfterClassify(understanding')
        /\ UNCHANGED <<repair_count, repair_queries, critique, claims>>
    BY <1>2 DEF ClassifyAndPlan, text, loop
  <2>2. repair_count' = 0 /\ claims' = NoClaims /\ ~repair_queries' /\ ~critique'
    BY <2>1 DEF LoopInv, Before
  <2>3. /\ node' \in {"conversational_response", "ask_clarification", "gather_evidence"}
        /\ node' = "conversational_response" => understanding'.mode = "conversational"
        /\ node' = "ask_clarification" => understanding'.mode = "clarification"
    BY <2>1 DEF RouteAfterClassify
  <2> QED
    BY <1>0, <2>2, <2>3 DEF LoopInv, AnswerInv, ModeInv, RepairKeepsTheAnswer
<1>3. CASE ConversationalResponse
  BY <1>0, <1>3 DEF ConversationalResponse, plan, context, loop, LoopInv, AnswerInv,
     ModeInv, RepairKeepsTheAnswer, Before, Looping
<1>4. CASE AskClarification
  BY <1>0, <1>4 DEF AskClarification, plan, context, loop, LoopInv, AnswerInv,
     ModeInv, RepairKeepsTheAnswer, Before, Looping
<1>5. CASE GatherEvidence
  <2>1. /\ node = "gather_evidence" /\ node' = "generate_answer"
        /\ UNCHANGED <<repair_count, repair_queries, critique, draft_answer>>
    BY <1>5 DEF GatherEvidence, loop
  <2>2. repair_count > 0 => repair_queries /\ evidence # {}
    BY <2>1, <1>0 DEF LoopInv, Looping
  <2>3. repair_count > 0 => evidence' # {}
    BY <2>2, <1>5, GatherKeepsEvidence
  <2> QED
    BY <1>0, <2>1, <2>3 DEF LoopInv, AnswerInv, ModeInv, RepairKeepsTheAnswer, Before, Looping
<1>6. CASE GenerateWithoutEvidence
  BY <1>0, <1>6 DEF GenerateWithoutEvidence, context, loop, LoopInv, AnswerInv,
     ModeInv, RepairKeepsTheAnswer, Before, Looping, Plain
<1>7. CASE GenerateFails
  <2>1. /\ node = "generate_answer" /\ node' = "verify_answer" /\ evidence # {}
        /\ UNCHANGED <<evidence, repair_count, repair_queries, critique, draft_answer>>
    BY <1>7 DEF GenerateFails, context, loop
  <2>2. repair_count > 0 => Revising
    BY <2>1 DEF LoopInv, Looping, Revising, NoAnswer, Plain
  <2>3. /\ answer'.kind \notin {"none", "apology"}
        /\ repair_count > 0 /\ answer'.kind = "failure" => draft_answer.kind = "failure"
    <3>1. CASE ~Revising
      BY <2>2, <3>1, <1>7 DEF GenerateFails, Plain
    <3>2. CASE Revising
      <4>1. answer' = [draft_answer EXCEPT !.kind = IF @ = "cited" THEN "draft" ELSE @]
        BY <1>7, <3>2 DEF GenerateFails
      <4>2. answer'.kind = IF draft_answer.kind = "cited" THEN "draft" ELSE draft_answer.kind
        BY <4>1 DEF TypeOK, Answers
      <4>3. draft_answer.kind \notin {"none", "apology"}
        BY <2>1, <3>2, <1>0 DEF LoopInv, Looping, Revising
      <4> QED
        BY <4>2, <4>3
    <3> QED
      BY <3>1, <3>2
  <2> QED
    BY <1>0, <2>1, <2>3 DEF LoopInv, AnswerInv, ModeInv, RepairKeepsTheAnswer, Before, Looping
<1>8. CASE GenerateAnswer
  BY <1>0, <1>8 DEF GenerateAnswer, context, loop, LoopInv, AnswerInv,
     ModeInv, RepairKeepsTheAnswer, Before, Looping
<1>9. CASE VerifyEnds
  <2>1. repair_count > 0 => evidence # {} /\ answer.kind # "apology"
    BY <1>9, <1>0, VerifyEndsFrame DEF LoopInv, AnswerInv, Looping
  <2> QED
    BY <1>0, <1>9, <2>1, VerifyEndsFrame DEF LoopInv, AnswerInv, ModeInv,
       RepairKeepsTheAnswer, Before, Looping, Plain
<1>10. CASE VerifySchedulesRepair
  <2>1. node = "verify_answer"
    BY <1>10 DEF VerifySchedulesRepair, VerifyStep
  <2>2. evidence # {} /\ answer.kind \notin {"none", "apology"}
    BY <1>10, <2>1, RepairRoutes DEF AnswerInv
  <2> QED
    BY <1>0, <1>10, <2>1, <2>2, RepairRoutes DEF LoopInv, AnswerInv, ModeInv,
       RepairKeepsTheAnswer, Before, Looping
<1>11. CASE PersistTurn
  BY <1>0, <1>11 DEF PersistTurn, FreshState, LoopInv, AnswerInv, ModeInv,
     RepairKeepsTheAnswer, Before, Looping
<1>12. CASE GraphFails
  BY <1>0, <1>12 DEF GraphFails, FreshState, LoopInv, AnswerInv, ModeInv,
     RepairKeepsTheAnswer, Before, Looping
<1>13. CASE UNCHANGED vars
  BY <1>0, <1>13 DEF vars, plan, context, text, loop, LoopInv, AnswerInv, ModeInv,
     RepairKeepsTheAnswer, Before, Looping
<1> QED
  BY <1>1, <1>2, <1>3, <1>4, <1>5, <1>6, <1>7, <1>8, <1>9, <1>10, <1>11, <1>12, <1>13
     DEF Next, RequestStep, Generate, Verify, VerifyEnds

\* The control invariants hold throughout.
LEMMA ControlInvariant == Spec => []ControlInv
<1>1. Init => ControlInv
  <2> SUFFICES ASSUME Init PROVE ControlInv
    OBVIOUS
  <2>1. TypeOK
    BY InitType
  <2>2. LoopInv /\ AnswerInv /\ ModeInv
    BY DEF Init, LoopInv, AnswerInv, ModeInv, RepairKeepsTheAnswer, Looping
  <2> QED
    BY <2>1, <2>2 DEF ControlInv
<1>2. ControlInv /\ [Next]_vars => ControlInv'
  BY ControlStep
<1> QED
  BY <1>1, <1>2, PTL DEF Spec

\* Every pass after the first regenerates from the critique and the draft it is
\* about (RepairCarriesCritique): verify_answer hands both over, no node between
\* it and generate_answer loses them.
THEOREM RepairsCarryTheCritique == Spec => []RepairCarriesCritique
<1>1. ControlInv => RepairCarriesCritique
  BY DEF ControlInv, LoopInv, Looping, RepairCarriesCritique, Revising, NoAnswer, Plain
<1> QED
  BY <1>1, ControlInvariant, PTL

\* A repair never ends in an apology or a failure notice that the first pass had
\* not already given (RepairKeepsTheAnswer).
THEOREM RepairsKeepTheAnswer == Spec => []RepairKeepsTheAnswer
<1>1. ControlInv => RepairKeepsTheAnswer
  BY DEF ControlInv, AnswerInv
<1> QED
  BY <1>1, ControlInvariant, PTL

-----------------------------------------------------------------------------
(* Bounds *)

\* The number of steps is within the allowance of the next node.
LEMMA StepsStep ==
  ASSUME ControlInv, StepInv, [Next]_vars
  PROVE  StepInv'
<1>0. /\ repair_count \in Nat /\ graph_steps \in Nat
      /\ Bump(graph_steps) \in Nat /\ Bump(graph_steps) <= graph_steps + 1
  BY BumpType, BoundsAssumption DEF ControlInv, TypeOK
<1>1. CASE StartTurn \/ PersistTurn \/ GraphFails
  BY <1>1 DEF StartTurn, PersistTurn, GraphFails, FreshState, StepInv, Allowance
<1>2. CASE ClassifyAndPlan
  <2>1. /\ node = "classify_and_plan" /\ repair_count = 0 /\ repair_count' = 0
        /\ graph_steps' = Bump(graph_steps)
    BY <1>2 DEF ClassifyAndPlan, loop, ControlInv, LoopInv, Before
  <2>2. node' \in {"conversational_response", "ask_clarification", "gather_evidence"}
    BY <1>2 DEF ClassifyAndPlan, RouteAfterClassify
  <2> QED
    BY <1>0, <2>1, <2>2 DEF StepInv, Allowance
<1>3. CASE ConversationalResponse \/ AskClarification
  BY <1>0, <1>3 DEF ConversationalResponse, AskClarification, loop, StepInv, Allowance,
     ControlInv, LoopInv, Before
<1>4. CASE GatherEvidence
  BY <1>0, <1>4 DEF GatherEvidence, loop, StepInv, Allowance, ControlInv, LoopInv
<1>5. CASE GenerateWithoutEvidence \/ GenerateAnswer
  BY <1>0, <1>5 DEF GenerateWithoutEvidence, GenerateAnswer, loop, StepInv, Allowance
<1>6. CASE GenerateFails
  BY <1>0, <1>6 DEF GenerateFails, loop, counters, StepInv, Allowance
<1>7. CASE VerifyEnds
  BY <1>0, <1>7, VerifyEndsFrame DEF StepInv, Allowance
<1>8. CASE VerifySchedulesRepair
  <2>1. node = "verify_answer" /\ graph_steps' = Bump(graph_steps)
    BY <1>8 DEF VerifySchedulesRepair, VerifyStep
  <2>2. TypeOK
    BY DEF ControlInv
  <2>3. /\ repair_count' = repair_count + 1
        /\ \/ repair_count = 0 /\ node' \in {"gather_evidence", "END"}
           \/ repair_count >= 1 /\ node' = "generate_answer"
    BY <1>8, <2>2, RepairRoutes
  <2> QED
    BY <1>0, <2>1, <2>3 DEF StepInv, Allowance
<1>9. CASE UNCHANGED vars
  BY <1>9 DEF vars, loop, counters, StepInv, Allowance
<1> QED
  BY <1>1, <1>2, <1>3, <1>4, <1>5, <1>6, <1>7, <1>8, <1>9
     DEF Next, RequestStep, Generate, Verify, VerifyEnds

\* The graph is bounded by repair_count alone (StepBudget): 4 steps, 7 with a
\* searching repair, 2 more with each rewriting one, whatever the models say.
THEOREM StepsAreBounded == Spec => []StepBudget
<1>1. Init => StepInv
  BY DEF Init, StepInv, Allowance
<1>2. ControlInv /\ StepInv /\ [Next]_vars => StepInv'
  BY StepsStep
<1>3. ControlInv /\ StepInv => StepBudget
  <2> SUFFICES ASSUME ControlInv, StepInv PROVE StepBudget
    OBVIOUS
  <2>1. repair_count \in Nat /\ graph_steps \in Nat
    BY BoundsAssumption DEF ControlInv, TypeOK
  <2>2. node = "gather_evidence" => repair_count \in {0, 1}
    BY DEF ControlInv, LoopInv
  <2>3. node \in Before => repair_count = 0
    BY DEF ControlInv, LoopInv
  <2> QED
    BY <2>1, <2>2, <2>3 DEF StepInv, Allowance, StepBudget, Before
<1> QED
  BY <1>1, <1>2, <1>3, ControlInvariant, PTL DEF Spec

\* With the shipped settings, MAX_REPAIR_PASSES = 2, a request takes at most 9
\* steps: MAX_GRAPH_STEPS = 20 and LangGraph's limit of 25 are never reached.
COROLLARY ShippedStepBudget ==
  ASSUME MaxRepairPasses = 2
  PROVE  Spec => [](graph_steps <= 9)
<1>1. TypeOK /\ StepBudget => graph_steps <= 9
  BY DEF TypeOK, StepBudget
<1> QED
  BY <1>1, TypeCorrect, StepsAreBounded, PTL

\* What one visit of gather_evidence does to the counters of the web.
LEMMA GatherSearches ==
  ASSUME TypeOK, GatherEvidence
  PROVE  /\ search_count' = IF UseWeb THEN Bump(search_count) ELSE search_count
         /\ web_runs' <= web_runs + 2
         /\ repair_queries => web_runs' <= web_runs + 1
         /\ ~UseWeb \/ search_count >= MaxSearches => web_runs' <= web_runs
<1> PICK pool, retry : web_runs' = Capped(web_runs + Searches(pool, retry))
  BY DEF GatherEvidence
<1>1. /\ Searches(pool, retry) \in 0..2
      /\ repair_queries => Searches(pool, retry) \in 0..1
      /\ ~UseWeb \/ search_count >= MaxSearches => Searches(pool, retry) = 0
  BY BoundsAssumption DEF Searches, RunsWeb, MayRetry, TypeOK
<1>2. web_runs \in Nat /\ CounterCap \in Nat
  BY BoundsAssumption DEF TypeOK
<1>3. web_runs' <= web_runs + Searches(pool, retry) /\ web_runs' \in Nat
  BY <1>1, <1>2 DEF Capped
<1>4. search_count' = IF UseWeb THEN Bump(search_count) ELSE search_count
  BY DEF GatherEvidence, Counted
<1> QED
  BY <1>1, <1>2, <1>3, <1>4

\* The searches done and the ones still possible stay within the budget.
LEMMA SearchesStep ==
  ASSUME ControlInv, SearchInv, [Next]_vars
  PROVE  SearchInv'
<1>0. /\ TypeOK /\ TypeOK'
      /\ MaxSearches \in Nat /\ CounterCap \in Nat /\ CounterCap >= MaxSearches
  BY TypeStep, BoundsAssumption DEF ControlInv
<1>t. /\ search_count \in Nat /\ web_runs \in Nat /\ repair_count \in Nat
      /\ search_count' \in Nat /\ web_runs' \in Nat /\ repair_count' \in Nat
  BY <1>0, BoundsAssumption DEF TypeOK
<1>1. CASE StartTurn \/ PersistTurn \/ GraphFails
  BY <1>0, <1>1 DEF StartTurn, PersistTurn, GraphFails, FreshState, SearchInv, SearchBudget
<1>2. CASE ClassifyAndPlan \/ ConversationalResponse \/ AskClarification
  <2>1. /\ node \in Before /\ UNCHANGED <<search_count, web_runs>>
    BY <1>2 DEF ClassifyAndPlan, ConversationalResponse, AskClarification, Before
  <2> QED
    BY <1>0, <2>1 DEF SearchInv, SearchBudget
<1>3. CASE GatherEvidence
  <2>1. /\ node = "gather_evidence" /\ node' = "generate_answer"
        /\ repair_count' = repair_count
    BY <1>3 DEF GatherEvidence, loop
  <2>2. /\ search_count' = IF UseWeb THEN Bump(search_count) ELSE search_count
        /\ web_runs' <= web_runs + 2
        /\ repair_queries => web_runs' <= web_runs + 1
        /\ ~UseWeb \/ search_count >= MaxSearches => web_runs' <= web_runs
    BY <1>0, <1>3, GatherSearches
  <2>3. CASE repair_count = 0
    <3>1. search_count = 0 /\ web_runs = 0
      BY <2>1, <2>3 DEF SearchInv
    <3>2. CASE ~UseWeb \/ MaxSearches = 0
      BY <1>0, <1>t, <2>1, <2>2, <3>1, <3>2 DEF SearchInv, SearchBudget, Before, Looping
    <3>3. CASE UseWeb /\ MaxSearches > 0
      <4>1. search_count' = 1
        BY <1>0, <2>2, <3>1, <3>3 DEF Bump, Capped
      <4> QED
        BY <1>0, <1>t, <2>1, <2>2, <3>1, <3>3, <4>1
           DEF SearchInv, SearchBudget, Before, Looping
    <3> QED
      BY <1>0, <3>2, <3>3
  <2>4. CASE repair_count > 0
    <3>1. repair_queries
      BY <2>1, <2>4, <1>t DEF ControlInv, LoopInv
    <3>2. search_count < MaxSearches => web_runs <= MaxSearches
      BY <2>1 DEF SearchInv
    <3>3. web_runs <= MaxSearches + 1
      BY DEF SearchInv, SearchBudget
    <3>4. web_runs' <= MaxSearches + 1
      BY <1>0, <1>t, <2>2, <3>1, <3>2, <3>3
    <3> QED
      BY <1>t, <2>1, <2>4, <3>4 DEF SearchInv, SearchBudget, Before, Looping
  <2> QED
    BY <1>t, <2>3, <2>4
<1>4. CASE Generate
  <2>1. /\ node = "generate_answer" /\ node' = "verify_answer"
        /\ UNCHANGED <<search_count, web_runs, repair_count>>
    BY <1>4 DEF Generate, GenerateWithoutEvidence, GenerateFails, GenerateAnswer, loop,
       counters
  <2> QED
    BY <2>1 DEF SearchInv, SearchBudget, Before, Looping
<1>5. CASE VerifyEnds
  BY <1>5, VerifyEndsFrame DEF SearchInv, SearchBudget, Before, Looping
<1>6. CASE VerifySchedulesRepair
  <2>1. node = "verify_answer" /\ UNCHANGED <<search_count, web_runs>>
    BY <1>6 DEF VerifySchedulesRepair, VerifyStep
  <2>2. /\ repair_count' = repair_count + 1
        /\ \/ repair_count = 0 /\ node' \in {"gather_evidence", "END"}
           \/ repair_count >= 1 /\ node' = "generate_answer"
    BY <1>0, <1>6, RepairRoutes
  <2> QED
    BY <1>t, <2>1, <2>2 DEF SearchInv, SearchBudget, Before, Looping
<1>7. CASE UNCHANGED vars
  BY <1>7 DEF vars, loop, counters, SearchInv, SearchBudget
<1> QED
  BY <1>1, <1>2, <1>3, <1>4, <1>5, <1>6, <1>7 DEF Next, RequestStep, Verify, VerifyEnds

\* Web searches overrun MAX_SEARCHES by at most the one retry that is not counted
\* (SearchBudget).
THEOREM SearchesAreBounded == Spec => []SearchBudget
<1>1. Init => SearchInv
  BY BoundsAssumption DEF Init, SearchInv, SearchBudget
<1>2. ControlInv /\ SearchInv /\ [Next]_vars => SearchInv'
  BY SearchesStep
<1>3. SearchInv => SearchBudget
  BY DEF SearchInv
<1> QED
  BY <1>1, <1>2, <1>3, ControlInvariant, PTL DEF Spec

-----------------------------------------------------------------------------
(* What the exits of verify_answer establish *)

\* A finished answer is honest about its claims, its question and its context.
Settled == NoSilentFailure /\ QuestionIsClarification /\ ClaimsMatchContext

\* The claims a graph-ending return leaves are about the evidence at hand.
LEMMA EndClaims ==
  ASSUME TypeOK, VerifyEnds
  PROVE  claims'.judged \cup claims'.checked \subseteq evidence
<1>1. CASE VerifyNothing \/ VerifyReferents
  BY <1>1 DEF VerifyNothing, VerifyReferents, NoClaims
<1>2. CASE VerifyFastPath
  <2> PICK m \in Rechecks : claims' = NoClaims
                            \/ claims' = [NoClaims EXCEPT !.checked = m.checked]
    BY <1>2 DEF VerifyFastPath
  <2>1. m.checked \subseteq evidence
    BY DEF Rechecks
  <2> QED
    BY <2>1 DEF NoClaims
<1>3. CASE VerifyAsksAboutConflict
  BY <1>3, MergedClaimsType DEF VerifyAsksAboutConflict
<1>4. CASE VerifyFinalizes
  BY <1>4, MergedClaimsType DEF VerifyFinalizes
<1> QED
  BY <1>1, <1>2, <1>3, <1>4 DEF VerifyEnds

\* Unless it asks the user, such a return has no failed claim that is not caveated,
\* the uncertain ones apart.
LEMMA EndCaveats ==
  ASSUME TypeOK, VerifyEnds, final_status' # "needs_clarification"
  PROVE  claims'.failed \ {"uncertain"} \subseteq caveated'
<1>1. CASE VerifyNothing \/ VerifyReferents
  BY <1>1 DEF VerifyNothing, VerifyReferents, NoClaims
<1>2. CASE VerifyFastPath
  BY <1>2 DEF VerifyFastPath, NoClaims
<1>3. CASE VerifyAsksAboutConflict
  BY <1>3 DEF VerifyAsksAboutConflict
<1>4. CASE VerifyFinalizes
  <2> PICK m \in Rechecks, v \in Verdicts :
        \E c \in MergedClaims(m) :
            /\ claims' = c
            /\ final_status' = Resolve(m, v, c).status
            /\ caveated' = Resolve(m, v, c).of
    BY <1>4 DEF VerifyFinalizes
  <2> PICK c \in MergedClaims(m) :
            /\ claims' = c
            /\ final_status' = Resolve(m, v, c).status
            /\ caveated' = Resolve(m, v, c).of
    OBVIOUS
  <2>1. c.failed \subseteq {"unverified", "contradicted", "uncertain"}
    BY MergedClaimsType DEF Failing
  <2>2. ~EndsWithUserQuestion(answer)
    BY DEF Resolve
  <2>3. CASE "contradicted" \in c.failed \/ v.overall = "unsupported"
    BY <2>1, <2>2, <2>3 DEF Resolve
  <2>4. CASE ~("contradicted" \in c.failed \/ v.overall = "unsupported")
    BY <2>1, <2>2, <2>4 DEF Resolve
  <2> QED
    BY <2>3, <2>4
<1> QED
  BY <1>1, <1>2, <1>3, <1>4 DEF VerifyEnds

\* An answer that ends by asking the user leaves as a clarification.
LEMMA EndQuestions ==
  ASSUME ControlInv, VerifyEnds, EndsWithUserQuestion(answer')
  PROVE  final_status' = "needs_clarification"
<1>1. node = "verify_answer"
  BY VerifyEndsFrame
<1>2. CASE VerifyNothing
  <2>1. answer = Plain("apology")
    BY <1>1, <1>2 DEF VerifyNothing, ControlInv, AnswerInv, NoAnswer, Plain
  <2> QED
    BY <1>2, <2>1 DEF VerifyNothing, EndsWithUserQuestion, Plain
<1>3. CASE VerifyFastPath
  BY <1>3 DEF VerifyFastPath
<1>4. CASE VerifyReferents \/ VerifyAsksAboutConflict
  BY <1>4 DEF VerifyReferents, VerifyAsksAboutConflict
<1>5. CASE VerifyFinalizes
  <2>1. answer' = answer
    BY <1>5 DEF VerifyFinalizes
  <2> QED
    BY <1>5, <2>1 DEF VerifyFinalizes, Resolve
<1> QED
  BY <1>2, <1>3, <1>4, <1>5 DEF VerifyEnds

LEMMA SettledStep ==
  ASSUME ControlInv, Settled, [Next]_vars
  PROVE  Settled'
<1> USE DEF Settled
<1>0. TypeOK
  BY DEF ControlInv
<1>1. CASE StartTurn \/ ClassifyAndPlan \/ GatherEvidence \/ PersistTurn \/ GraphFails
  <2>1. node' \notin {"verify_answer", "END"}
    BY <1>1 DEF StartTurn, ClassifyAndPlan, RouteAfterClassify, GatherEvidence, PersistTurn,
       GraphFails
  <2> QED
    BY <2>1 DEF NoSilentFailure, QuestionIsClarification, ClaimsMatchContext, Researched
<1>2. CASE ConversationalResponse \/ AskClarification
  <2>1. /\ understanding'.mode # "research" /\ claims' = NoClaims
    BY <1>2 DEF ConversationalResponse, AskClarification, plan, ControlInv, ModeInv, LoopInv,
       Before
  <2> QED
    BY <2>1 DEF NoSilentFailure, QuestionIsClarification, ClaimsMatchContext, Researched,
       NoClaims
<1>3. CASE Generate
  <2>1. node' = "verify_answer" /\ evidence' = evidence
    BY <1>3 DEF Generate, GenerateWithoutEvidence, GenerateFails, GenerateAnswer, context
  <2>2. claims'.judged \cup claims'.checked \subseteq evidence
    BY <1>3 DEF Generate, GenerateWithoutEvidence, GenerateFails, GenerateAnswer, NoClaims
  <2> QED
    BY <2>1, <2>2 DEF NoSilentFailure, QuestionIsClarification, ClaimsMatchContext, Researched
<1>4. CASE VerifyEnds
  BY <1>0, <1>4, VerifyEndsFrame, EndClaims, EndCaveats, EndQuestions
     DEF NoSilentFailure, QuestionIsClarification, ClaimsMatchContext
<1>5. CASE VerifySchedulesRepair
  BY <1>0, <1>5, RepairRoutes
     DEF NoSilentFailure, QuestionIsClarification, ClaimsMatchContext, Researched, Abandoned
<1>6. CASE UNCHANGED vars
  BY <1>6 DEF vars, plan, context, text, loop, NoSilentFailure, QuestionIsClarification,
     ClaimsMatchContext, Researched, Abandoned
<1> QED
  BY <1>1, <1>2, <1>3, <1>4, <1>5, <1>6 DEF Next, RequestStep, Verify, VerifyEnds

LEMMA SettledInvariant == Spec => []Settled
<1>1. Init => Settled
  BY DEF Init, Settled, NoSilentFailure, QuestionIsClarification, ClaimsMatchContext,
     Researched
<1>2. ControlInv /\ Settled /\ [Next]_vars => Settled'
  BY SettledStep
<1> QED
  BY <1>1, <1>2, ControlInvariant, PTL DEF Spec

\* No completed research answer leaves an unverified or contradicted claim out of
\* its caveats (NoSilentFailure).
THEOREM NoFailureIsSilent == Spec => []NoSilentFailure
<1>1. Settled => NoSilentFailure
  BY DEF Settled
<1> QED
  BY <1>1, SettledInvariant, PTL

\* A completed research answer that ends by asking the user is a clarification
\* turn (QuestionIsClarification).
THEOREM QuestionsAreClarifications == Spec => []QuestionIsClarification
<1>1. Settled => QuestionIsClarification
  BY DEF Settled
<1> QED
  BY <1>1, SettledInvariant, PTL

\* The verdicts a turn ends with are about the evidence of its last context
\* (ClaimsMatchContext).
THEOREM ClaimsAreCurrent == Spec => []ClaimsMatchContext
<1>1. Settled => ClaimsMatchContext
  BY DEF Settled
<1> QED
  BY <1>1, SettledInvariant, PTL

\* The planner asks at most once running, and never in an empty chat
\* (PlannerAsksOnce).
THEOREM PlannersAskOnce == Spec => []PlannerAsksOnce
<1>1. Init => PlannerAsksOnce
  BY DEF Init, PlannerAsksOnce
<1>2. PlannerAsksOnce /\ [Next]_vars => PlannerAsksOnce'
  <2> SUFFICES ASSUME PlannerAsksOnce, [Next]_vars, node' = "ask_clarification"
               PROVE  history' /\ ~Offered'
    BY DEF PlannerAsksOnce
  <2>1. CASE ClassifyAndPlan
    <3> PICK p \in Plans, question \in BOOLEAN, hit \in BOOLEAN :
          node' = RouteAfterClassify(
            RequireSource(GroundClarification(RequireQuestion(p, question), hit)))
      BY <2>1 DEF ClassifyAndPlan
    <3>1. history /\ ~Offered
      BY DEF RouteAfterClassify, RequireSource, GroundClarification
    <3> QED
      BY <2>1, <3>1 DEF ClassifyAndPlan, chat, Offered
  <2>2. CASE UNCHANGED vars
    BY <2>2 DEF vars, chat, PlannerAsksOnce, Offered
  <2>3. CASE VerifyEnds \/ VerifySchedulesRepair
    <3>1. RouteAfterVerify
      BY <2>3 DEF VerifyEnds, VerifyNothing, VerifyFastPath, VerifyReferents,
         VerifyAsksAboutConflict, VerifyFinalizes, VerifySchedulesRepair
    <3> QED
      BY <3>1 DEF RouteAfterVerify
  <2> QED
    BY <2>1, <2>2, <2>3 DEF Next, RequestStep, StartTurn, ConversationalResponse,
       AskClarification, GatherEvidence, Generate, GenerateWithoutEvidence, GenerateFails,
       GenerateAnswer, Verify, VerifyEnds, PersistTurn, GraphFails
<1> QED
  BY <1>1, <1>2, PTL DEF Spec

-----------------------------------------------------------------------------
(* The memory of the chat, and its contract *)

\* What merge_evidence_state carries is no less than there was, and fits.
LEMMA CarriedSize ==
  ASSUME TypeOK, MemoryInv, NEW kept \in Carried
  PROVE  /\ kept \in SUBSET Fact
         /\ Cardinality(kept) \in Cardinality(memory.established) .. MaxCarried
         /\ final_status \in {"needs_clarification", "conversational"} =>
              kept = memory.established
<1> DEFINE all == Backed \cup memory.established
<1>1. memory.established \subseteq Fact /\ all \subseteq Fact
  BY DEF TypeOK, Memories, Backed
<1>2. IsFiniteSet(all) /\ IsFiniteSet(memory.established)
  BY <1>1, FactAssumption, FS_Subset
<1>3. /\ Cardinality(memory.established) \in Nat /\ Cardinality(all) \in Nat
      /\ Cardinality(memory.established) <= Cardinality(all)
  <2>1. memory.established \subseteq all
    OBVIOUS
  <2> QED
    BY <1>2, <2>1, FS_CardinalityType, FS_Subset
<1>4. MaxCarried \in Nat /\ Cardinality(memory.established) <= MaxCarried
  BY BoundsAssumption DEF MemoryInv
<1>5. CASE final_status \in {"needs_clarification", "conversational"}
  <2>1. kept = memory.established
    BY <1>5 DEF Carried
  <2> QED
    BY <1>1, <1>3, <1>4, <2>1
<1>6. CASE final_status \notin {"needs_clarification", "conversational"}
  <2>1. /\ kept \subseteq all
        /\ Cardinality(kept) = IF Cardinality(all) < MaxCarried THEN Cardinality(all)
                                                                ELSE MaxCarried
    BY <1>6 DEF Carried
  <2> QED
    BY <1>1, <1>3, <1>4, <1>6, <2>1
<1> QED
  BY <1>5, <1>6

\* Every step of the chat's memory is a carry, or none.
LEMMA MemorySteps ==
  ASSUME [Next]_vars
  PROVE  \/ memory' = memory
         \/ PersistTurn /\ \E kept \in Carried :
              memory' = [established |-> kept,
                         asked |-> final_status = "needs_clarification"]
<1>1. CASE PersistTurn
  BY <1>1 DEF PersistTurn
<1>2. CASE VerifyEnds
  BY <1>2, VerifyEndsFrame
<1>3. CASE UNCHANGED vars
  BY <1>3 DEF vars, chat
<1> QED
  BY <1>1, <1>2, <1>3 DEF Next, RequestStep, StartTurn, ClassifyAndPlan,
     ConversationalResponse, AskClarification, GatherEvidence, Generate,
     GenerateWithoutEvidence, GenerateFails, GenerateAnswer, Verify, VerifyEnds,
     VerifySchedulesRepair, VerifyStep, GraphFails, chat

LEMMA MemoryStep ==
  ASSUME TypeOK, MemoryInv, [Next]_vars
  PROVE  /\ MemoryInv'
         /\ Cardinality(memory'.established)
              \in Cardinality(memory.established) .. MaxCarried
<1>1. CASE memory' = memory
  <2>1. memory.established \subseteq Fact
    BY DEF TypeOK, Memories
  <2>2. Cardinality(memory.established) \in Nat
    BY <2>1, FactAssumption, FS_Subset, FS_CardinalityType
  <2> QED
    BY <1>1, <2>2, BoundsAssumption DEF MemoryInv
<1>2. CASE memory' # memory
  <2> PICK kept \in Carried : memory'.established = kept
    BY <1>2, MemorySteps
  <2>1. Cardinality(kept) \in Cardinality(memory.established) .. MaxCarried
    BY CarriedSize
  <2> QED
    BY <2>1, BoundsAssumption DEF MemoryInv
<1> QED
  BY <1>1, <1>2

LEMMA MemoryInvariant == Spec => [](TypeOK /\ MemoryInv)
<1>1. Init => MemoryInv
  BY FS_EmptySet, BoundsAssumption DEF Init, MemoryInv, NoMemory
<1>2. TypeOK /\ MemoryInv /\ [Next]_vars => MemoryInv'
  BY MemoryStep
<1> QED
  BY <1>1, <1>2, TypeCorrect, PTL DEF Spec

\* A step of the graph is a step of the contract, or none.
LEMMA ContractStep ==
  ASSUME TypeOK, MemoryInv, [Next]_vars
  PROVE  [Contract!Next]_(Contract!vars)
<1> USE DEF Contract!vars
<1>1. CASE StartTurn
  BY <1>1 DEF StartTurn, Contract!Next, Contract!Begin
<1>2. CASE PersistTurn
  <2> PICK logged \in BOOLEAN, stored \in BOOLEAN :
       /\ stored => logged
       /\ IF logged
            THEN \E kept \in Carried :
                   memory' = [established |-> kept,
                              asked |-> final_status = "needs_clarification"]
            ELSE UNCHANGED memory
       /\ outcome' = IF stored THEN final_status ELSE "error"
    BY <1>2 DEF PersistTurn
  <2>1. node # "idle" /\ node' = "idle"
    BY <1>2 DEF PersistTurn
  <2>2. CASE ~logged
    BY <2>1, <2>2 DEF Contract!Next, Contract!Finish
  <2>3. CASE logged
    <3> PICK kept \in Carried :
          memory' = [established |-> kept, asked |-> final_status = "needs_clarification"]
      BY <2>3
    <3>1. memory'.established = kept /\ memory'.asked = (final_status = "needs_clarification")
      OBVIOUS
    <3>2. /\ kept \in SUBSET Fact
          /\ Cardinality(kept) \in Cardinality(memory.established) .. MaxCarried
          /\ final_status \in {"needs_clarification", "conversational"} =>
               kept = memory.established
      BY CarriedSize
    <3>3. final_status \in Contract!Answering \cup Contract!Asking
      BY DEF TypeOK, Statuses, Contract!Answering, Contract!Asking
    <3>4. Contract!Remember(final_status)
      <4>1. CASE final_status \in Contract!Asking
        BY <3>1, <3>2, <4>1 DEF Contract!Remember, Contract!Asking
      <4>2. CASE final_status \in Contract!Answering
        <5>1. \A S : Contract!Cardinality(S) = Cardinality(S)
          BY DEF Cardinality, Contract!Cardinality
        <5> QED
          BY <3>1, <3>2, <4>2, <5>1 DEF Contract!Remember
      <4> QED
        BY <3>3, <4>1, <4>2
    <3>5. outcome' \in {final_status, "error"}
      OBVIOUS
    <3> QED
      BY <2>1, <3>3, <3>4, <3>5 DEF Contract!Next, Contract!Finish
  <2> QED
    BY <2>2, <2>3
<1>3. CASE GraphFails
  BY <1>3 DEF GraphFails, Nodes, Contract!Next, Contract!Finish
<1>4. CASE VerifyEnds
  BY <1>4, VerifyEndsFrame
<1>5. CASE VerifySchedulesRepair
  <2>1. node = "verify_answer" /\ memory' = memory /\ outcome' = outcome
    BY <1>5 DEF VerifySchedulesRepair, VerifyStep, chat
  <2>2. node' \in {"gather_evidence", "generate_answer", "END"}
    BY <1>5, RepairRoutes
  <2> QED
    BY <2>1, <2>2
<1>6. CASE ClassifyAndPlan
  BY <1>6 DEF ClassifyAndPlan, RouteAfterClassify, chat
<1>7. CASE ConversationalResponse \/ AskClarification \/ GatherEvidence \/ Generate
  BY <1>7 DEF ConversationalResponse, AskClarification, GatherEvidence, Generate,
     GenerateWithoutEvidence, GenerateFails, GenerateAnswer, chat
<1>8. CASE UNCHANGED vars
  BY <1>8 DEF vars, chat
<1> QED
  BY <1>1, <1>2, <1>3, <1>4, <1>5, <1>6, <1>7, <1>8
     DEF Next, RequestStep, Verify, VerifyEnds

\* The graph and the request around it implement the contract of a chat
\* (KeepsContract): facts change only at the end of a turn that answered.
THEOREM GraphImplementsContract == Spec => KeepsContract
<1>1. Init => Contract!Init
  BY DEF Init, NoMemory, Contract!Init
<1>2. TypeOK /\ MemoryInv /\ [Next]_vars => [Contract!Next]_(Contract!vars)
  BY ContractStep
<1> QED
  BY <1>1, <1>2, MemoryInvariant, PTL DEF Spec, KeepsContract, Contract!Spec

=============================================================================
