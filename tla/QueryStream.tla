----------------------------- MODULE QueryStream -----------------------------
(***************************************************************************)
(* One streamed query (_stream_query in app/agent/streaming.py): a         *)
(* producer task runs the graph and puts its events on a bounded queue;    *)
(* the consumer turns them into server-sent events for the client, builds  *)
(* the answer from the generator's tokens, saves the turn and replies.     *)
(*                                                                         *)
(* The graph is AgentGraph seen from outside: which nodes run, what each   *)
(* returns for the three fields the consumer uses, and which events        *)
(* astream_events makes of it.  A text is not its characters but the model *)
(* call that wrote it and whether a node changed it afterwards.            *)
(***************************************************************************)
EXTENDS Integers, Sequences, FiniteSets

CONSTANTS
  MaxPasses,   (* generation passes of a request, 1 + MAX_REPAIR_PASSES       *)
  MaxModels,   (* the generator and its fallbacks                             *)
  MaxTokens,   (* bound on the token events of one model call                 *)
  QueueSize,   (* events_q                                                    *)
  TimeLimit    (* QUERY_TIMEOUT_SECONDS > 0                                   *)

ASSUME StreamAssumption ==
  /\ MaxPasses \in Nat \ {0}
  /\ MaxModels \in Nat \ {0}
  /\ MaxTokens \in Nat
  /\ QueueSize \in Nat \ {0}
  /\ TimeLimit \in BOOLEAN

VARIABLES
  node,          (* of the graph: the node to run; "end"; "ended"; "raised"   *)
  pass,          (* generation passes begun                                   *)
  call,          (* model calls begun in this pass                            *)
  calling,       (* the last of them is under way                             *)
  spoken,        (* its tokens so far                                         *)
  graph,         (* answer, final_status and claims in the graph's state      *)
  producer,      (* "running"; "closing", in its finally; "closed"            *)
  queue,         (* events_q                                                  *)
  consumer,      (* what the consumer does next                               *)
  accumulated,   (* accumulated_state: the consumer's copy of the graph's     *)
  answer,        (* the model calls whose tokens are in the answer            *)
  has_tokens,    (* answer_pass_has_tokens                                    *)
  interactions,  (* rows of this request, each with its evidence memory       *)
  messages,      (* pairs of messages of this request                         *)
  reply          (* the last event of the stream                              *)

graphside    == <<node, pass, call, calling, spoken, graph>>
consumerside == <<consumer, accumulated, answer, has_tokens,
                  interactions, messages, reply>>
vars         == <<graphside, producer, queue, consumerside>>

-----------------------------------------------------------------------------
(* Values *)

GraphNodes == {"classify", "respond", "gather", "generate", "verify", "end"}

Statuses == {"answered", "answered_with_caveats", "needs_clarification",
             "conversational"}

Calls == (1..MaxPasses) \X (1..MaxModels)

\* fixed: a text no generator wrote; model: what a call wrote; edited: changed by
\* verify_answer (caveats appended, markers stripped) or replaced by its question.
Texts  == [kind : {"none", "fixed", "model", "edited"}]
Fields == {"answer", "status", "claims"}

\* Claims: none; the citation validator's; the ones verify_answer returned.
GraphStates == [answer : Texts, status : Statuses,
                claims : {"none", "checked", "verified"}]

Text(kind) == [kind |-> kind]
Fresh      == [answer |-> Text("none"), status |-> "answered", claims |-> "none"]

\* A node's end says which fields it returned, a model's start or token which call.
NodeEnd(fields, state) == [type |-> "node", fields |-> fields, state |-> state]
RootEnd(state)         == [type |-> "root", fields |-> Fields, state |-> state]
ModelStart(c)          == [type |-> "start", call |-> c]
Token(c)               == [type |-> "token", call |-> c]
Sentinel               == [type |-> "sentinel"]

Events == [type : {"node", "root"}, fields : SUBSET Fields, state : GraphStates]
            \cup [type : {"start", "token"}, call : Calls] \cup {Sentinel}

NoReply == [kind |-> "none"]
Replies == [kind : {"done"}, status : Statuses,
            claims : {"none", "checked", "verified"}, streamed : SUBSET Calls,
            text : Texts]
             \cup {NoReply}

GraphTypes ==
  /\ node \in GraphNodes \cup {"ended", "raised"}
  /\ pass \in 1..MaxPasses
  /\ call \in 0..MaxModels
  /\ calling \in BOOLEAN
  /\ spoken \in 0..MaxTokens
  /\ graph \in GraphStates
  /\ producer \in {"running", "closing", "closed"}

ConsumerTypes ==
  /\ consumer \in {"reading", "logging", "storing", "ended", "broken", "gone"}
  /\ accumulated \in GraphStates
  /\ answer \in SUBSET Calls
  /\ has_tokens \in BOOLEAN
  /\ interactions \in Nat
  /\ messages \in Nat
  /\ reply \in Replies

TypeOK ==
  /\ GraphTypes
  /\ queue \in Seq(Events) /\ Len(queue) <= QueueSize
  /\ ConsumerTypes

-----------------------------------------------------------------------------
(* The producer *)

\* events_q.put waits for room.
Put(e) == Len(queue) < QueueSize /\ queue' = Append(queue, e)

\* astream_events sometimes drops the end of a node.
PutNodeEnd(fields) ==
  \/ Put(NodeEnd(fields, graph'))
  \/ UNCHANGED queue

Working == producer = "running" /\ UNCHANGED <<producer, consumerside>>

Classify ==
  /\ Working
  /\ node = "classify"
  /\ node' \in {"respond", "gather"}
  /\ UNCHANGED <<pass, call, calling, spoken, graph>>
  /\ PutNodeEnd({})

\* The two short circuits; their model calls are not the generator's.
Respond ==
  /\ Working
  /\ node = "respond"
  /\ \E status \in {"conversational", "needs_clarification"} :
       graph' = [graph EXCEPT !.answer = Text("fixed"), !.status = status]
  /\ node' = "end"
  /\ UNCHANGED <<pass, call, calling, spoken>>
  /\ PutNodeEnd({"answer", "status"})

Gather ==
  /\ Working
  /\ node = "gather"
  /\ node' = "generate"
  /\ UNCHANGED <<pass, call, calling, spoken, graph>>
  /\ PutNodeEnd({})

\* _invoke_chat walks the chain of models; a call may fail after some tokens.
CallModel ==
  /\ Working
  /\ node = "generate" /\ ~calling /\ call < MaxModels
  /\ call' = call + 1
  /\ calling' = TRUE
  /\ spoken' = 0
  /\ Put(ModelStart(<<pass, call'>>))
  /\ UNCHANGED <<node, pass, graph>>

Speak ==
  /\ Working
  /\ calling /\ spoken < MaxTokens
  /\ spoken' = spoken + 1
  /\ Put(Token(<<pass, call>>))
  /\ UNCHANGED <<node, pass, call, calling, graph>>

ModelFails ==
  /\ Working
  /\ calling
  /\ calling' = FALSE
  /\ UNCHANGED <<node, pass, call, spoken, graph, queue>>

Generated ==
  /\ node' = "verify"
  /\ calling' = FALSE
  /\ UNCHANGED <<pass, call, spoken>>

ModelAnswers ==
  /\ Working
  /\ calling
  /\ graph' = [graph EXCEPT !.answer = Text("model"), !.claims = "checked"]
  /\ Generated
  /\ PutNodeEnd({"answer", "claims"})

\* Nothing to generate from: a fixed text.  Every model failed: a fixed text, or
\* the draft, which is the last answer with its weak markers stripped.
GenerateWithoutModel ==
  /\ Working
  /\ node = "generate" /\ ~calling /\ call \in {0, MaxModels}
  /\ \E text \in IF call = 0 \/ pass = 1 THEN {Text("fixed")}
                                        ELSE {graph.answer, Text("edited")} :
       graph' = [answer |-> text, status |-> "answered_with_caveats",
                 claims |-> "none"]
  /\ Generated
  /\ PutNodeEnd(Fields)

\* A final return of verify_answer; its first one leaves the answer alone.
VerifyEnds ==
  /\ Working
  /\ node = "verify"
  /\ \E status \in Statuses \ {"conversational"}, claims \in {"none", "verified"},
        text \in {graph.answer, Text("edited")} :
       graph' = [answer |-> text, status |-> status, claims |-> claims]
  /\ node' = "end"
  /\ UNCHANGED <<pass, call, calling, spoken>>
  /\ \/ PutNodeEnd(Fields)
     \/ graph'.answer = graph.answer /\ PutNodeEnd({"status", "claims"})

\* A repair pass, searching or only rewriting.
VerifyRepairs ==
  /\ Working
  /\ node = "verify" /\ pass < MaxPasses
  /\ graph' = [graph EXCEPT !.claims = "verified"]
  /\ node' \in {"gather", "generate"}
  /\ pass' = pass + 1
  /\ call' = 0
  /\ UNCHANGED <<calling, spoken>>
  /\ PutNodeEnd({"claims"})

\* The end of the root is never dropped; then the producer's finally runs.
GraphEnds ==
  /\ producer = "running"
  /\ node = "end"
  /\ node' = "ended"
  /\ producer' = "closing"
  /\ Put(RootEnd(graph))
  /\ UNCHANGED <<pass, call, calling, spoken, graph, consumerside>>

\* A node raises: no root end; the exception stays in the producer's task.
GraphRaises ==
  /\ producer = "running"
  /\ node \in GraphNodes /\ node # "end"
  /\ node' = "raised"
  /\ producer' = "closing"
  /\ UNCHANGED <<pass, call, calling, spoken, graph, queue, consumerside>>

\* Mutant of Close: the sentinel follows the loop, not the finally.
CloseAfterLoop ==
  /\ producer = "closing"
  /\ producer' = "closed"
  /\ IF node = "ended" THEN Put(Sentinel) ELSE UNCHANGED queue
  /\ UNCHANGED <<graphside, consumerside>>

Close ==
  /\ producer = "closing"
  /\ producer' = "closed"
  /\ Put(Sentinel)
  /\ UNCHANGED <<graphside, consumerside>>

-----------------------------------------------------------------------------
(* The consumer *)

\* producer_task.cancel(), unless it is done: a running producer goes to its
\* finally, and one that waits there for room gives up.
CancelProducer ==
  producer' = CASE producer = "running" -> "closing"
                [] OTHER                -> "closed"

Take(types) ==
  /\ consumer = "reading"
  /\ queue # <<>>
  /\ Head(queue).type \in types
  /\ queue' = Tail(queue)

\* dict.update: the fields the node returned.
Merge(state, e) ==
  [f \in Fields |-> IF f \in e.fields THEN e.state[f] ELSE state[f]]

\* Mutant of ReadEnd: the end of the root is taken for one more internal event.
ReadEndOfNode ==
  /\ Take({"node", "root"})
  /\ accumulated' = IF Head(queue).type = "node" THEN Merge(accumulated, Head(queue))
                                                 ELSE accumulated
  /\ UNCHANGED <<graphside, producer, consumer, answer, has_tokens,
                 interactions, messages, reply>>

ReadEnd ==
  /\ Take({"node", "root"})
  /\ accumulated' = Merge(accumulated, Head(queue))
  /\ UNCHANGED <<graphside, producer, consumer, answer, has_tokens,
                 interactions, messages, reply>>

\* Mutant of ReadModelStart: a call that follows another in the same pass (a
\* fallback model) is not taken for a new answer.
ReadModelStartOfPass ==
  /\ Take({"start"})
  /\ answer' = IF has_tokens /\ Head(queue).call[2] = 1 THEN {} ELSE answer
  /\ UNCHANGED <<graphside, producer, consumer, accumulated, has_tokens,
                 interactions, messages, reply>>

\* answer_reset: tokens of an earlier call were sent.
ReadModelStart ==
  /\ Take({"start"})
  /\ answer' = IF has_tokens THEN {} ELSE answer
  /\ UNCHANGED <<graphside, producer, consumer, accumulated, has_tokens,
                 interactions, messages, reply>>

ReadToken ==
  /\ Take({"token"})
  /\ answer' = answer \cup {Head(queue).call}
  /\ has_tokens' = TRUE
  /\ UNCHANGED <<graphside, producer, consumer, accumulated,
                 interactions, messages, reply>>

\* The producer has put its sentinel, so there is nothing left to cancel.
ReadSentinel ==
  /\ Take({"sentinel"})
  /\ consumer' = "logging"
  /\ UNCHANGED <<graphside, producer, accumulated, answer, has_tokens,
                 interactions, messages, reply>>

(***************************************************************************)
(* The except branch cancels the producer and then raises itself: it logs  *)
(* with a logger that streaming.py does not define, before it saves or     *)
(* sends anything.  The stream breaks off without a last event.            *)
(***************************************************************************)
Break ==
  /\ consumer' = "broken"
  /\ CancelProducer

\* The time of the request is looked at whenever an event arrives.
TimesOut ==
  /\ TimeLimit
  /\ Take({"node", "root", "start", "token"})
  /\ Break
  /\ UNCHANGED <<graphside, accumulated, answer, has_tokens, interactions,
                 messages, reply>>

\* _log_interaction swallows the failure of its commit.
LogTurn ==
  /\ consumer = "logging"
  /\ consumer' = "storing"
  /\ \/ interactions' = interactions + 1
     \/ UNCHANGED interactions
  /\ UNCHANGED <<graphside, producer, queue, accumulated, answer, has_tokens,
                 messages, reply>>

\* Mutant of CanStore: the session is rolled back and used again.
CanStoreAnyway == TRUE

\* The messages use the same session, and one whose commit failed fails the next one.
CanStore == interactions > 0

\* The answer is what was streamed and, only if nothing was, what the graph says.
Done == [kind |-> "done", status |-> accumulated.status,
         claims |-> accumulated.claims, streamed |-> answer,
         text |-> accumulated.answer]

StoreTurn ==
  /\ consumer = "storing"
  /\ CanStore
  /\ messages' = messages + 1
  /\ reply' = Done
  /\ consumer' = "ended"
  /\ UNCHANGED <<graphside, producer, queue, accumulated, answer, has_tokens,
                 interactions>>

StoreTurnFails ==
  /\ consumer = "storing"
  /\ Break
  /\ UNCHANGED <<graphside, queue, accumulated, answer, has_tokens, interactions,
                 messages, reply>>

\* The client goes away: the generator is cancelled wherever it waits, and no
\* handler runs; the producer is not told.
Disconnect ==
  /\ consumer \in {"reading", "logging", "storing"}
  /\ consumer' = "gone"
  /\ UNCHANGED <<graphside, producer, queue, accumulated, answer, has_tokens,
                 interactions, messages, reply>>

-----------------------------------------------------------------------------
(* The specification *)

Init ==
  /\ node = "classify"
  /\ pass = 1
  /\ call = 0
  /\ calling = FALSE
  /\ spoken = 0
  /\ graph = Fresh
  /\ producer = "running"
  /\ queue = <<>>
  /\ consumer = "reading"
  /\ accumulated = Fresh
  /\ answer = {}
  /\ has_tokens = FALSE
  /\ interactions = 0
  /\ messages = 0
  /\ reply = NoReply

RunGraph ==
  \/ Classify
  \/ Respond
  \/ Gather
  \/ CallModel
  \/ Speak
  \/ ModelFails
  \/ ModelAnswers
  \/ GenerateWithoutModel
  \/ VerifyEnds
  \/ VerifyRepairs
  \/ GraphEnds
  \/ GraphRaises

Produce == RunGraph \/ Close

Consume ==
  \/ ReadEnd
  \/ ReadModelStart
  \/ ReadToken
  \/ ReadSentinel
  \/ TimesOut
  \/ LogTurn
  \/ StoreTurn
  \/ StoreTurnFails

Next == Produce \/ Consume \/ Disconnect

(***************************************************************************)
(* Both are tasks of one event loop that runs whichever of them is ready;  *)
(* a node's call ends (see AgentGraph), a commit succeeds or fails.        *)
(* Nothing obliges a client to leave.                                      *)
(***************************************************************************)
Fairness == WF_vars(Produce) /\ WF_vars(Consume)

Spec == Init /\ [][Next]_vars /\ Fairness

-----------------------------------------------------------------------------
(* Properties *)

Completed == reply.kind = "done"

(***************************************************************************)
(* The text on the client's screen never mixes two model calls: tokens of  *)
(* a fallback model or of a repair pass come after an answer_reset, however*)
(* late the consumer reads them.                                           *)
(***************************************************************************)
OneCallAtATime == Cardinality(answer) <= 1

(***************************************************************************)
(* When the graph ran to its end, the status and the claims of the reply   *)
(* are the graph's last ones, although any node's end may have been        *)
(* dropped on the way and the queue is read behind the graph's back.       *)
(***************************************************************************)
CompletedIsFaithful ==
  Completed /\ node = "ended" =>
    /\ reply.status = graph.status
    /\ reply.claims = graph.claims
    /\ reply.text = graph.answer

(***************************************************************************)
(* A completed reply is durable: its messages are stored, and the evidence *)
(* memory the next turn starts from was logged before them.                *)
(***************************************************************************)
DoneIsDurable == Completed => messages = 1 /\ interactions = 1

(***************************************************************************)
(* Whatever the graph does, raising included, and however small the queue, *)
(* a stream nobody left comes to an end, with its last event or broken     *)
(* off, and its producer ends too: a timeout that cancels a producer which *)
(* waits for room leaves no task behind.                                   *)
(***************************************************************************)
StreamEnds ==
  <>(\/ consumer = "gone"
     \/ consumer \in {"ended", "broken"} /\ producer = "closed")

-----------------------------------------------------------------------------
(* Statements of the documents that the code does not keep; see the README *)

(***************************************************************************)
(* What streaming.py says of a failed graph (lines 196-197): the UI gets   *)
(* "a well-formed done so the fallback path isn't mistaken for success".   *)
(***************************************************************************)
FailureIsNotSuccess ==
  node = "raised" /\ reply.kind = "done" => reply.status # "answered"

(***************************************************************************)
(* What streaming.py says of its except branch (line 367): "Timeout,       *)
(* GraphRecursionError, or any mid-pipeline failure: keep answer +         *)
(* evidence".                                                              *)
(***************************************************************************)
AnswerIsKept == consumer = "broken" /\ answer # {} => messages = 1

(***************************************************************************)
(* What ARCHITECTURE.md's third design rule says: claims the judge cannot  *)
(* verify are listed under Caveats in the answer.  A reply with caveats    *)
(* therefore carries the text verify_answer edited, not the tokens the     *)
(* generator streamed before it.                                           *)
(***************************************************************************)
CaveatsAreDelivered ==
  Completed /\ node = "ended" /\ reply.status = "answered_with_caveats"
    /\ graph.answer = Text("edited") => reply.streamed = {}

=============================================================================
