-------------------------- MODULE QueryStreamProofs --------------------------
(***************************************************************************)
(* Theorems about QueryStream, for any numbers of passes, models and       *)
(* tokens and a queue of any size.  The consumer is behind the graph by    *)
(* what is in the queue, so the invariants say what may still be in it:    *)
(* which model call the next tokens belong to (Tokens), and that the       *)
(* graph's last state is on its way until it has been read (LastState).    *)
(***************************************************************************)
EXTENDS QueryStream, FiniteSetTheorems, TLAPS

\* A model speaks while the graph generates.
Speaking == calling => node \in {"generate", "raised"} /\ call >= 1

StartsIn(i, j) == \E k \in i..j : queue[k].type = "start"

\* Tokens of two calls have a start between them: between the answer and what is in the
\* queue, within the queue, and between both and what the generator says next.
AnswerFirst ==
  \A j \in 1..Len(queue) : queue[j].type = "token" =>
    answer \subseteq {queue[j].call} \/ StartsIn(1, j)

CallsApart ==
  \A i, j \in 1..Len(queue) :
    i < j /\ queue[i].type = "token" /\ queue[j].type = "token" =>
      queue[i].call = queue[j].call \/ StartsIn(i, j)

SpokenLast ==
  calling =>
    /\ answer \subseteq {<<pass, call>>} \/ StartsIn(1, Len(queue))
    /\ \A i \in 1..Len(queue) : queue[i].type = "token" =>
         queue[i].call = <<pass, call>> \/ StartsIn(i, Len(queue))

TokensInQueue == AnswerFirst /\ CallsApart /\ SpokenLast

Tokens ==
  /\ answer # {} => has_tokens
  /\ \A c, d \in answer : c = d
  /\ consumer = "reading" => TokensInQueue

Agrees(state) == \A f \in Fields : state[f] = graph[f]

IsEnd(e) == e.type \in {"node", "root"}

\* The end of the root is in the queue, and after it no other end.
RootIsNext ==
  \E i \in 1..Len(queue) :
    /\ queue[i].type = "root" /\ queue[i].fields = Fields /\ Agrees(queue[i].state)
    /\ \A j \in i + 1..Len(queue) : ~IsEnd(queue[j])

RootWasRead == Agrees(accumulated) /\ \A i \in 1..Len(queue) : ~IsEnd(queue[i])

SentinelIsLast ==
  \A i \in 1..Len(queue) :
    queue[i].type = "sentinel" => producer = "closed" /\ i = Len(queue)

\* A graph that is over: its last state is in the queue or was read; it has been read
\* when the sentinel has; and a completed reply carries it.
WhileReading ==
  consumer = "reading" =>
    /\ producer = "running" \/ node \in {"ended", "raised"}
    /\ node = "ended" => RootIsNext \/ RootWasRead
    /\ SentinelIsLast

WhileSaving ==
  consumer \in {"logging", "storing"} =>
    producer = "closed" /\ (node = "ended" => Agrees(accumulated))

OnceCompleted ==
  Completed =>
    /\ producer = "closed"
    /\ node = "ended" => /\ reply.status = graph.status
                         /\ reply.claims = graph.claims
                         /\ reply.text = graph.answer

LastState == WhileReading /\ WhileSaving /\ OnceCompleted

\* What is saved at each point of the consumer's way.
Saved ==
  /\ consumer # "ended" => messages = 0 /\ reply.kind = "none"
  /\ interactions <= 1
  /\ consumer \in {"reading", "logging"} => interactions = 0
  /\ Completed => messages = 1 /\ interactions = 1

StreamInv == TypeOK /\ Speaking /\ Tokens /\ LastState /\ Saved

-----------------------------------------------------------------------------
(* Types *)

LEMMA AppendIsSeq ==
  ASSUME NEW S, NEW s \in Seq(S), NEW e \in S
  PROVE  Append(s, e) \in Seq(S)
OBVIOUS

LEMMA EventTypes ==
  /\ \A fields \in SUBSET Fields, state \in GraphStates :
       NodeEnd(fields, state) \in Events
  /\ \A state \in GraphStates : RootEnd(state) \in Events
  /\ \A c \in Calls : ModelStart(c) \in Events /\ Token(c) \in Events
  /\ Sentinel \in Events
BY DEF Events, NodeEnd, RootEnd, ModelStart, Token, Sentinel

LEMMA QueueType ==
  ASSUME TypeOK
  PROVE  queue \in Seq(Events) /\ Len(queue) \in 0..QueueSize
<1>1. queue \in Seq(Events) /\ Len(queue) <= QueueSize
  BY DEF TypeOK
<1> QED
  BY <1>1, StreamAssumption

LEMMA PutType ==
  ASSUME TypeOK, NEW e \in Events, Put(e)
  PROVE  queue' \in Seq(Events) /\ Len(queue') <= QueueSize
<1>1. queue \in Seq(Events) /\ Len(queue) \in Nat
  BY QueueType
<1>2. Append(queue, e) \in Seq(Events) /\ Len(Append(queue, e)) = Len(queue) + 1
  BY <1>1
<1>3. Len(queue) < QueueSize /\ queue' = Append(queue, e)
  BY DEF Put
<1> QED
  BY <1>1, <1>2, <1>3, StreamAssumption

LEMMA PutNodeEndType ==
  ASSUME TypeOK, NEW fields \in SUBSET Fields, graph' \in GraphStates, PutNodeEnd(fields)
  PROVE  queue' \in Seq(Events) /\ Len(queue') <= QueueSize
<1>1. CASE Put(NodeEnd(fields, graph'))
  BY <1>1, PutType, EventTypes
<1>2. CASE UNCHANGED queue
  BY <1>2 DEF TypeOK
<1> QED
  BY <1>1, <1>2 DEF PutNodeEnd

LEMMA TakeType ==
  ASSUME TypeOK, NEW types, Take(types)
  PROVE  /\ queue' \in Seq(Events) /\ Len(queue') <= QueueSize
         /\ Head(queue) \in Events
<1>1. queue \in Seq(Events) /\ Len(queue) \in 0..QueueSize
  BY QueueType
<1>2. queue # <<>> /\ queue' = Tail(queue)
  BY DEF Take
<1> QED
  BY <1>1, <1>2, StreamAssumption

LEMMA MergeType ==
  ASSUME NEW state \in GraphStates, NEW e \in Events, e.type \in {"node", "root"}
  PROVE  Merge(state, e) \in GraphStates
<1>1. e.state \in GraphStates
  BY DEF Events, Sentinel
<1> QED
  BY <1>1 DEF Merge, GraphStates, Fields

LEMMA InitType == Init => TypeOK
<1> SUFFICES ASSUME Init PROVE TypeOK
  OBVIOUS
<1>1. Fresh \in GraphStates
  BY DEF Fresh, Text, GraphStates, Texts, Statuses
<1>2. NoReply \in Replies
  BY DEF Replies
<1>3. queue \in Seq(Events) /\ Len(queue) <= QueueSize
  BY StreamAssumption DEF Init
<1>4. pass \in 1..MaxPasses /\ call \in 0..MaxModels /\ spoken \in 0..MaxTokens
  BY StreamAssumption DEF Init
<1> QED
  BY <1>1, <1>2, <1>3, <1>4 DEF Init, TypeOK, GraphTypes, ConsumerTypes, GraphNodes

\* What the steps of the graph leave alone.
LEMMA GraphType ==
  ASSUME GraphTypes, Speaking, RunGraph
  PROVE  GraphTypes' /\ Speaking'
<1> USE StreamAssumption DEF GraphTypes, Speaking, Working, GraphNodes
<1>1. CASE Classify \/ Gather
  BY <1>1 DEF Classify, Gather
<1>2. CASE Respond
  <2>1. PICK status \in Statuses :
          graph' = [graph EXCEPT !.answer = Text("fixed"), !.status = status]
    BY <1>2 DEF Respond, Statuses
  <2>2. Text("fixed") \in Texts
    BY DEF Texts, Text
  <2>3. graph' \in GraphStates
    BY <2>1, <2>2 DEF GraphStates
  <2> QED
    BY <1>2, <2>3 DEF Respond
<1>3. CASE CallModel
  BY <1>3 DEF CallModel
<1>4. CASE Speak
  BY <1>4 DEF Speak
<1>5. CASE ModelFails
  BY <1>5 DEF ModelFails
<1>6. CASE ModelAnswers
  BY <1>6 DEF ModelAnswers, Generated, GraphStates, Texts, Text
<1>7. CASE GenerateWithoutModel
  <2>1. PICK text \in Texts :
          graph' = [answer |-> text, status |-> "answered_with_caveats", claims |-> "none"]
    BY <1>7 DEF GenerateWithoutModel, GraphStates, Texts, Text
  <2>2. graph' \in GraphStates
    BY <2>1 DEF GraphStates, Statuses
  <2> QED
    BY <1>7, <2>2 DEF GenerateWithoutModel, Generated
<1>8. CASE VerifyEnds
  BY <1>8 DEF VerifyEnds, GraphStates, Texts, Text, Statuses
<1>9. CASE VerifyRepairs
  BY <1>9 DEF VerifyRepairs, GraphStates
<1>10. CASE GraphEnds
  BY <1>10 DEF GraphEnds
<1>11. CASE GraphRaises
  BY <1>11 DEF GraphRaises
<1> QED
  BY <1>1, <1>2, <1>3, <1>4, <1>5, <1>6, <1>7, <1>8, <1>9, <1>10, <1>11 DEF RunGraph

\* Every step of the graph is one of a running producer, and not the consumer's.
LEMMA Works ==
  ASSUME RunGraph
  PROVE  producer = "running" /\ UNCHANGED consumerside
<1> USE DEF Working
<1>1. CASE GraphEnds \/ GraphRaises
  BY <1>1 DEF GraphEnds, GraphRaises
<1>2. CASE Classify \/ Respond \/ Gather
  BY <1>2 DEF Classify, Respond, Gather
<1>3. CASE CallModel \/ Speak \/ ModelFails
  BY <1>3 DEF CallModel, Speak, ModelFails
<1>4. CASE ModelAnswers \/ GenerateWithoutModel
  BY <1>4 DEF ModelAnswers, GenerateWithoutModel
<1>5. CASE VerifyEnds \/ VerifyRepairs
  BY <1>5 DEF VerifyEnds, VerifyRepairs
<1> QED
  BY <1>1, <1>2, <1>3, <1>4, <1>5 DEF RunGraph

\* A step of the consumer reads an event, or is past the queue.
Taking ==
  \/ Take({"node", "root"}) \/ Take({"start"}) \/ Take({"token"}) \/ Take({"sentinel"})
  \/ Take({"node", "root", "start", "token"})

LEMMA Takes == Consume => Taking \/ UNCHANGED queue
<1>1. CASE ReadEnd \/ ReadModelStart \/ ReadToken
  BY <1>1 DEF ReadEnd, ReadModelStart, ReadToken, Taking
<1>2. CASE ReadSentinel \/ TimesOut
  BY <1>2 DEF ReadSentinel, TimesOut, Taking
<1>3. CASE LogTurn \/ StoreTurn \/ StoreTurnFails
  BY <1>3 DEF LogTurn, StoreTurn, StoreTurnFails
<1> QED
  BY <1>1, <1>2, <1>3 DEF Consume

\* The consumer changes nothing of the graph, and the producer by cancelling it.
LEMMA Consumes ==
  Consume => /\ UNCHANGED graphside
             /\ \/ UNCHANGED producer
                \/ (TimesOut \/ StoreTurnFails) /\ producer' \in {"closing", "closed"}
<1>1. CASE ReadEnd \/ ReadModelStart \/ ReadToken
  BY <1>1 DEF ReadEnd, ReadModelStart, ReadToken
<1>2. CASE ReadSentinel \/ TimesOut
  BY <1>2 DEF ReadSentinel, TimesOut, Break, CancelProducer
<1>3. CASE LogTurn \/ StoreTurn \/ StoreTurnFails
  BY <1>3 DEF LogTurn, StoreTurn, StoreTurnFails, Break, CancelProducer
<1> QED
  BY <1>1, <1>2, <1>3 DEF Consume

\* The steps of the graph put events of the right shape.
LEMMA GraphQueueType ==
  ASSUME TypeOK, Speaking, RunGraph
  PROVE  queue' \in Seq(Events) /\ Len(queue') <= QueueSize
<1>1. GraphTypes /\ GraphTypes'
  BY GraphType DEF TypeOK
<1>2. graph \in GraphStates /\ graph' \in GraphStates
  BY <1>1 DEF GraphTypes
<1>3. pass \in 1..MaxPasses /\ call \in 0..MaxModels /\ call' \in 0..MaxModels
  BY <1>1 DEF GraphTypes
<1> USE PutNodeEndType
<1>4. CASE Classify \/ Respond \/ Gather \/ ModelAnswers \/ GenerateWithoutModel
            \/ VerifyEnds \/ VerifyRepairs
  <2>1. PICK fields \in SUBSET Fields : PutNodeEnd(fields)
    BY <1>4 DEF Classify, Respond, Gather, ModelAnswers, GenerateWithoutModel,
                VerifyEnds, VerifyRepairs, Fields
  <2> QED
    BY <1>2, <2>1
<1>5. CASE CallModel
  <2>1. <<pass, call'>> \in Calls
    BY <1>3, <1>5 DEF CallModel, Calls
  <2> QED
    BY <1>5, <2>1, PutType, EventTypes DEF CallModel
<1>6. CASE Speak
  <2>1. <<pass, call>> \in Calls
    BY <1>3, <1>6 DEF Speak, Speaking, Calls
  <2> QED
    BY <1>6, <2>1, PutType, EventTypes DEF Speak
<1>7. CASE GraphEnds
  BY <1>2, <1>7, PutType, EventTypes DEF GraphEnds
<1>8. CASE ModelFails \/ GraphRaises
  BY <1>8 DEF ModelFails, GraphRaises, TypeOK
<1> QED
  BY <1>4, <1>5, <1>6, <1>7, <1>8 DEF RunGraph

\* What the consumer's steps leave of its own types; the replies come from Saved.
LEMMA ConsumerType ==
  ASSUME TypeOK, Saved, Consume
  PROVE  ConsumerTypes'
<1>1. ConsumerTypes
  BY DEF TypeOK
<1> USE DEF ConsumerTypes
<1>2. CASE ReadEnd
  <2>1. Merge(accumulated, Head(queue)) \in GraphStates
    <3>1. Head(queue) \in Events /\ Head(queue).type \in {"node", "root"}
      BY <1>2, TakeType DEF ReadEnd, Take
    <3> QED
      BY <1>1, <3>1, MergeType
  <2> QED
    BY <1>1, <1>2, <2>1 DEF ReadEnd, Take
<1>3. CASE ReadModelStart \/ ReadSentinel \/ TimesOut
  BY <1>1, <1>3 DEF ReadModelStart, ReadSentinel, TimesOut, Break, Take
<1>4. CASE ReadToken
  <2>1. Head(queue).call \in Calls
    <3>1. Head(queue) \in Events /\ Head(queue).type = "token"
      BY <1>4, TakeType DEF ReadToken, Take
    <3> QED
      BY <3>1 DEF Events, Sentinel
  <2> QED
    BY <1>1, <1>4, <2>1 DEF ReadToken, Take
<1>5. CASE LogTurn
  BY <1>1, <1>5 DEF LogTurn
<1>6. CASE StoreTurn
  <2>1. reply' \in Replies
    BY <1>1, <1>6 DEF StoreTurn, Done, Replies, GraphStates
  <2> QED
    BY <1>1, <1>6, <2>1 DEF StoreTurn
<1>7. CASE StoreTurnFails
  BY <1>1, <1>7 DEF StoreTurnFails, Break
<1> QED
  BY <1>2, <1>3, <1>4, <1>5, <1>6, <1>7 DEF Consume

LEMMA TypeStep ==
  ASSUME TypeOK, Speaking, Saved, [Next]_vars
  PROVE  TypeOK' /\ Speaking'
<1>1. GraphTypes /\ ConsumerTypes
  BY DEF TypeOK
<1>2. CASE RunGraph
  <2>1. UNCHANGED consumerside
    BY <1>2, Works DEF Working
  <2>2. ConsumerTypes'
    BY <1>1, <2>1 DEF ConsumerTypes, consumerside
  <2> QED
    BY <1>1, <1>2, <2>2, GraphType, GraphQueueType DEF TypeOK
<1>3. CASE Close
  <2>1. GraphTypes' /\ ConsumerTypes' /\ Speaking'
    BY <1>1, <1>3 DEF Close, GraphTypes, ConsumerTypes, graphside, consumerside, Speaking
  <2>2. queue' \in Seq(Events) /\ Len(queue') <= QueueSize
    BY <1>3, PutType, EventTypes DEF Close
  <2> QED
    BY <2>1, <2>2 DEF TypeOK
<1>4. CASE Consume
  <2>1. GraphTypes' /\ Speaking'
    BY <1>1, <1>4, Consumes DEF graphside, GraphTypes, Speaking
  <2>2. queue' \in Seq(Events) /\ Len(queue') <= QueueSize
    <3>1. CASE Taking
      BY <3>1, TakeType DEF Taking
    <3>2. CASE UNCHANGED queue
      BY <3>2 DEF TypeOK
    <3> QED
      BY <1>4, <3>1, <3>2, Takes
  <2> QED
    BY <1>4, <2>1, <2>2, ConsumerType DEF TypeOK
<1>5. CASE Disconnect
  BY <1>1, <1>5 DEF Disconnect, TypeOK, GraphTypes, ConsumerTypes, graphside, Speaking
<1>6. CASE UNCHANGED vars
  BY <1>1, <1>6 DEF vars, TypeOK, GraphTypes, ConsumerTypes, graphside, consumerside, Speaking
<1> QED
  BY <1>2, <1>3, <1>4, <1>5, <1>6 DEF Next, Produce

-----------------------------------------------------------------------------
(* What is saved *)

LEMMA StartedInv == Init => Speaking /\ Tokens /\ LastState /\ Saved
<1> SUFFICES ASSUME Init PROVE Speaking /\ Tokens /\ LastState /\ Saved
  OBVIOUS
<1>1. Len(queue) = 0 /\ reply.kind = "none"
  BY DEF Init, NoReply
<1>2. Speaking /\ Tokens
  BY <1>1 DEF Init, Speaking, Tokens, TokensInQueue, AnswerFirst, CallsApart, SpokenLast
<1>3. LastState /\ Saved
  BY <1>1 DEF Init, LastState, WhileReading, WhileSaving, OnceCompleted, SentinelIsLast,
              Saved, Completed
<1> QED
  BY <1>2, <1>3

\* Saved says nothing of the graph, the queue and the answer.
SavedState == <<consumer, interactions, messages, reply>>

LEMMA SavedFrame ==
  ASSUME Saved, UNCHANGED SavedState
  PROVE  Saved'
BY DEF Saved, SavedState, Completed

LEMMA SavedStep ==
  ASSUME TypeOK, Saved, [Next]_vars
  PROVE  Saved'
<1>1. ConsumerTypes
  BY DEF TypeOK
<1>2. CASE RunGraph \/ Close
  BY <1>2, Works, SavedFrame DEF Close, consumerside, SavedState
<1>3. CASE ReadEnd \/ ReadModelStart \/ ReadToken
  BY <1>3, SavedFrame DEF ReadEnd, ReadModelStart, ReadToken, SavedState
<1>4. CASE ReadSentinel \/ TimesOut \/ StoreTurnFails
  <2>1. /\ UNCHANGED <<interactions, messages, reply>>
        /\ \/ consumer = "reading" /\ consumer' = "logging"
           \/ consumer \in {"reading", "storing"} /\ consumer' = "broken"
    BY <1>4 DEF ReadSentinel, TimesOut, StoreTurnFails, Break, Take
  <2> QED
    BY <2>1 DEF Saved, Completed
<1>5. CASE LogTurn
  <2>1. /\ UNCHANGED <<messages, reply>>
        /\ consumer = "logging" /\ consumer' = "storing"
        /\ interactions' \in {interactions, interactions + 1}
    BY <1>5 DEF LogTurn
  <2>2. interactions = 0
    BY <2>1 DEF Saved
  <2> QED
    BY <2>1, <2>2 DEF Saved, Completed
<1>6. CASE StoreTurn
  <2>1. /\ consumer = "storing" /\ consumer' = "ended"
        /\ messages' = messages + 1 /\ UNCHANGED interactions
        /\ interactions > 0
    BY <1>6 DEF StoreTurn, CanStore
  <2>2. interactions = 1 /\ messages = 0
    BY <1>1, <2>1 DEF Saved, ConsumerTypes
  <2> QED
    BY <2>1, <2>2 DEF Saved
<1>7. CASE Disconnect
  <2>1. /\ consumer \in {"reading", "logging", "storing"} /\ consumer' = "gone"
        /\ UNCHANGED <<messages, reply, interactions>>
    BY <1>7 DEF Disconnect
  <2> QED
    BY <2>1 DEF Saved, Completed
<1>8. CASE UNCHANGED vars
  BY <1>8, SavedFrame DEF vars, consumerside, SavedState
<1> QED
  BY <1>2, <1>3, <1>4, <1>5, <1>6, <1>7, <1>8 DEF Next, Produce, Consume

-----------------------------------------------------------------------------
(* Tokens *)

\* An event put at the end, and one taken from the front.
LEMMA Appended ==
  ASSUME queue \in Seq(Events), NEW e, queue' = Append(queue, e)
  PROVE  /\ Len(queue) \in Nat /\ Len(queue') = Len(queue) + 1
         /\ \A i \in 1..Len(queue) : queue'[i] = queue[i]
         /\ queue'[Len(queue')] = e
OBVIOUS

LEMMA Removed ==
  ASSUME queue \in Seq(Events), queue # <<>>, queue' = Tail(queue)
  PROVE  /\ Len(queue) \in Nat \ {0} /\ Len(queue') = Len(queue) - 1
         /\ \A i \in 1..Len(queue') : queue'[i] = queue[i + 1]
         /\ Head(queue) = queue[1]
OBVIOUS

LEMMA StartsAppended ==
  ASSUME queue \in Seq(Events), NEW e, queue' = Append(queue, e)
  PROVE  /\ \A i \in 1..Len(queue), j \in 1..Len(queue) : StartsIn(i, j) => StartsIn(i, j)'
         /\ \A i \in 1..Len(queue) : StartsIn(i, Len(queue)) => StartsIn(i, Len(queue))'
         /\ StartsIn(1, Len(queue)) => StartsIn(1, Len(queue))'
         /\ e.type = "start" => \A i \in 1..Len(queue') : StartsIn(i, Len(queue))'
<1>1. /\ Len(queue) \in Nat /\ Len(queue') = Len(queue) + 1
      /\ \A i \in 1..Len(queue) : queue'[i] = queue[i]
      /\ queue'[Len(queue')] = e
  BY Appended
<1> QED
  BY <1>1 DEF StartsIn

LEMMA StartsRemoved ==
  ASSUME queue \in Seq(Events), queue # <<>>, queue' = Tail(queue)
  PROVE  /\ \A i, j \in 1..Len(queue') : StartsIn(i + 1, j + 1) => StartsIn(i, j)'
         /\ \A i \in 1..Len(queue') : StartsIn(i + 1, Len(queue)) => StartsIn(i, Len(queue))'
         /\ Head(queue).type # "start" =>
              /\ \A j \in 1..Len(queue') : StartsIn(1, j + 1) => StartsIn(1, j)'
              /\ StartsIn(1, Len(queue)) => StartsIn(1, Len(queue))'
<1>1. /\ Len(queue) \in Nat \ {0} /\ Len(queue') = Len(queue) - 1
      /\ \A i \in 1..Len(queue') : queue'[i] = queue[i + 1]
      /\ Head(queue) = queue[1]
  BY Removed
<1>2. ASSUME NEW i \in 1..Len(queue'), NEW j \in 1..Len(queue'), NEW k \in i + 1..j + 1,
             queue[k].type = "start"
      PROVE  k - 1 \in i..j /\ queue'[k - 1].type = "start"
  BY <1>1, <1>2
<1>3. \A i, j \in 1..Len(queue') : StartsIn(i + 1, j + 1) => StartsIn(i, j)'
  BY <1>2 DEF StartsIn
<1>4. \A i \in 1..Len(queue') : StartsIn(i + 1, Len(queue)) => StartsIn(i, Len(queue))'
  <2> SUFFICES ASSUME NEW i \in 1..Len(queue'), StartsIn(i + 1, Len(queue))
               PROVE  StartsIn(i, Len(queue))'
    OBVIOUS
  <2>1. Len(queue) = Len(queue') + 1 /\ Len(queue') \in 1..Len(queue')
    BY <1>1
  <2> QED
    BY <1>3, <2>1
<1>5. ASSUME Head(queue).type # "start"
      PROVE  /\ \A j \in 1..Len(queue') : StartsIn(1, j + 1) => StartsIn(1, j)'
             /\ StartsIn(1, Len(queue)) => StartsIn(1, Len(queue))'
  <2>1. ASSUME NEW j \in Nat, j <= Len(queue'), NEW k \in 1..j + 1, queue[k].type = "start"
        PROVE  k - 1 \in 1..j /\ queue'[k - 1].type = "start"
    <3>1. k # 1
      BY <1>1, <1>5, <2>1
    <3> QED
      BY <1>1, <2>1, <3>1
  <2>2. \A j \in Nat : j <= Len(queue') /\ StartsIn(1, j + 1) => StartsIn(1, j)'
    BY <2>1 DEF StartsIn
  <2>3. Len(queue') \in Nat /\ Len(queue) = Len(queue') + 1
    BY <1>1
  <2> QED
    BY <2>2, <2>3
<1> QED
  BY <1>3, <1>4, <1>5

\* The producer puts an event that is no token, while the call that speaks is the same.
LEMMA SilentPut ==
  ASSUME queue \in Seq(Events), TokensInQueue, NEW e, queue' = Append(queue, e),
         e.type # "token", UNCHANGED answer,
         calling' => calling /\ UNCHANGED <<pass, call>>
  PROVE  TokensInQueue'
<1>1. /\ Len(queue) \in Nat /\ Len(queue') = Len(queue) + 1
      /\ \A i \in 1..Len(queue) : queue'[i] = queue[i]
      /\ queue'[Len(queue')] = e
  BY Appended
<1>2. \A i \in 1..Len(queue') :
        queue'[i].type = "token" => i \in 1..Len(queue) /\ queue'[i] = queue[i]
  BY <1>1
<1>3. AnswerFirst'
  <2> SUFFICES ASSUME NEW j \in 1..Len(queue'), queue'[j].type = "token"
               PROVE  answer' \subseteq {queue'[j].call} \/ StartsIn(1, j)'
    BY DEF AnswerFirst
  <2>1. j \in 1..Len(queue) /\ 1 \in 1..Len(queue) /\ queue'[j] = queue[j]
    BY <1>1, <1>2
  <2> QED
    BY <2>1, StartsAppended DEF TokensInQueue, AnswerFirst
<1>4. CallsApart'
  <2> SUFFICES ASSUME NEW i \in 1..Len(queue'), NEW j \in 1..Len(queue'), i < j,
                      queue'[i].type = "token", queue'[j].type = "token"
               PROVE  queue'[i].call = queue'[j].call \/ StartsIn(i, j)'
    BY DEF CallsApart
  <2> QED
    BY <1>2, StartsAppended DEF TokensInQueue, CallsApart
<1>5. SpokenLast'
  <2> SUFFICES ASSUME calling'
               PROVE  /\ answer' \subseteq {<<pass, call>>'} \/ StartsIn(1, Len(queue))'
                      /\ \A i \in 1..Len(queue') : queue'[i].type = "token" =>
                           queue'[i].call = <<pass, call>>' \/ StartsIn(i, Len(queue))'
    BY DEF SpokenLast
  <2> QED
    BY <1>2, StartsAppended DEF TokensInQueue, SpokenLast
<1> QED
  BY <1>3, <1>4, <1>5 DEF TokensInQueue

\* A start separates what follows from all that is in the queue.
LEMMA StartPut ==
  ASSUME queue \in Seq(Events), TokensInQueue, NEW c, queue' = Append(queue, ModelStart(c)),
         UNCHANGED answer
  PROVE  TokensInQueue'
<1> DEFINE e == ModelStart(c)
<1>1. /\ Len(queue) \in Nat /\ Len(queue') = Len(queue) + 1
      /\ \A i \in 1..Len(queue) : queue'[i] = queue[i]
      /\ queue'[Len(queue')] = e
  BY Appended
<1>2. e.type = "start"
  BY DEF ModelStart
<1> HIDE DEF e
<1>3. \A i \in 1..Len(queue') : StartsIn(i, Len(queue))'
  BY <1>2, StartsAppended DEF e
<1>4. \A i \in 1..Len(queue') :
        queue'[i].type = "token" => i \in 1..Len(queue) /\ queue'[i] = queue[i]
  BY <1>1, <1>2
<1>5. AnswerFirst'
  <2> SUFFICES ASSUME NEW j \in 1..Len(queue'), queue'[j].type = "token"
               PROVE  answer' \subseteq {queue'[j].call} \/ StartsIn(1, j)'
    BY DEF AnswerFirst
  <2>1. j \in 1..Len(queue) /\ 1 \in 1..Len(queue) /\ queue'[j] = queue[j]
    BY <1>1, <1>4
  <2> QED
    BY <2>1, StartsAppended DEF TokensInQueue, AnswerFirst, e
<1>6. CallsApart'
  <2> SUFFICES ASSUME NEW i \in 1..Len(queue'), NEW j \in 1..Len(queue'), i < j,
                      queue'[i].type = "token", queue'[j].type = "token"
               PROVE  queue'[i].call = queue'[j].call \/ StartsIn(i, j)'
    BY DEF CallsApart
  <2> QED
    BY <1>4, StartsAppended DEF TokensInQueue, CallsApart, e
<1>7. SpokenLast'
  <2>1. 1 \in 1..Len(queue')
    BY <1>1
  <2> QED
    BY <1>3, <2>1 DEF SpokenLast
<1> QED
  BY <1>5, <1>6, <1>7 DEF TokensInQueue

\* The call that is under way says something.
LEMMA TokenPut ==
  ASSUME queue \in Seq(Events), TokensInQueue, calling,
         queue' = Append(queue, Token(<<pass, call>>)), UNCHANGED <<answer, pass, call>>
  PROVE  TokensInQueue'
<1> DEFINE e == Token(<<pass, call>>)
<1>1. /\ Len(queue) \in Nat /\ Len(queue') = Len(queue) + 1
      /\ \A i \in 1..Len(queue) : queue'[i] = queue[i]
      /\ queue'[Len(queue')] = e
  BY Appended
<1>2. e.call = <<pass, call>>
  BY DEF Token
<1> HIDE DEF e
<1>3. \A i \in 1..Len(queue') :
        \/ i \in 1..Len(queue) /\ queue'[i] = queue[i]
        \/ i = Len(queue') /\ queue'[i].call = <<pass, call>>
  BY <1>1, <1>2
<1>4. answer \subseteq {<<pass, call>>} \/ StartsIn(1, Len(queue))'
  BY StartsAppended DEF TokensInQueue, SpokenLast, e
<1>5. \A i \in 1..Len(queue) : queue[i].type = "token" =>
        queue[i].call = <<pass, call>> \/ StartsIn(i, Len(queue))'
  BY StartsAppended DEF TokensInQueue, SpokenLast, e
<1>6. AnswerFirst'
  <2> SUFFICES ASSUME NEW j \in 1..Len(queue'), queue'[j].type = "token"
               PROVE  answer' \subseteq {queue'[j].call} \/ StartsIn(1, j)'
    BY DEF AnswerFirst
  <2>1. CASE j \in 1..Len(queue) /\ queue'[j] = queue[j]
    <3>1. 1 \in 1..Len(queue)
      BY <1>1, <2>1
    <3> QED
      BY <2>1, <3>1, StartsAppended DEF TokensInQueue, AnswerFirst, e
  <2>2. CASE j = Len(queue') /\ queue'[j].call = <<pass, call>>
    BY <1>4, <2>2
  <2> QED
    BY <1>3, <2>1, <2>2
<1>7. CallsApart'
  <2> SUFFICES ASSUME NEW i \in 1..Len(queue'), NEW j \in 1..Len(queue'), i < j,
                      queue'[i].type = "token", queue'[j].type = "token"
               PROVE  queue'[i].call = queue'[j].call \/ StartsIn(i, j)'
    BY DEF CallsApart
  <2>1. i \in 1..Len(queue) /\ queue'[i] = queue[i]
    BY <1>1
  <2>2. CASE j \in 1..Len(queue) /\ queue'[j] = queue[j]
    BY <2>1, <2>2, StartsAppended DEF TokensInQueue, CallsApart, e
  <2>3. CASE j = Len(queue') /\ queue'[j].call = <<pass, call>>
    BY <1>5, <2>1, <2>3
  <2> QED
    BY <1>3, <2>2, <2>3
<1>8. SpokenLast'
  BY <1>3, <1>4, <1>5 DEF SpokenLast
<1> QED
  BY <1>6, <1>7, <1>8 DEF TokensInQueue

\* The consumer reads an event; what it leaves behind is in the same order.
LEMMA RestInOrder ==
  ASSUME queue \in Seq(Events), TokensInQueue, queue # <<>>, queue' = Tail(queue)
  PROVE  CallsApart'
<1>1. /\ Len(queue) \in Nat \ {0} /\ Len(queue') = Len(queue) - 1
      /\ \A i \in 1..Len(queue') : queue'[i] = queue[i + 1]
  BY Removed
<1> SUFFICES ASSUME NEW i \in 1..Len(queue'), NEW j \in 1..Len(queue'), i < j,
                    queue'[i].type = "token", queue'[j].type = "token"
             PROVE  queue'[i].call = queue'[j].call \/ StartsIn(i, j)'
  BY DEF CallsApart
<1>2. /\ i + 1 \in 1..Len(queue) /\ j + 1 \in 1..Len(queue) /\ i + 1 < j + 1
      /\ queue'[i] = queue[i + 1] /\ queue'[j] = queue[j + 1]
  BY <1>1
<1> QED
  BY <1>2, StartsRemoved DEF TokensInQueue, CallsApart

\* Nothing was read that separates the rest from the call that is under way.
LEMMA RestSpokenLast ==
  ASSUME queue \in Seq(Events), TokensInQueue, queue # <<>>, queue' = Tail(queue),
         UNCHANGED <<calling, pass, call>>
  PROVE  calling' => \A i \in 1..Len(queue') : queue'[i].type = "token" =>
           queue'[i].call = <<pass, call>>' \/ StartsIn(i, Len(queue))'
<1>1. /\ Len(queue) \in Nat \ {0} /\ Len(queue') = Len(queue) - 1
      /\ \A i \in 1..Len(queue') : queue'[i] = queue[i + 1]
  BY Removed
<1> SUFFICES ASSUME calling', NEW i \in 1..Len(queue'), queue'[i].type = "token"
             PROVE  queue'[i].call = <<pass, call>>' \/ StartsIn(i, Len(queue))'
  OBVIOUS
<1>2. i + 1 \in 1..Len(queue) /\ queue'[i] = queue[i + 1]
  BY <1>1
<1> QED
  BY <1>2, StartsRemoved DEF TokensInQueue, SpokenLast

LEMMA EndTaken ==
  ASSUME queue \in Seq(Events), TokensInQueue, queue # <<>>, queue' = Tail(queue),
         Head(queue).type \notin {"start", "token"},
         UNCHANGED <<answer, calling, pass, call>>
  PROVE  TokensInQueue'
<1>1. /\ Len(queue) \in Nat \ {0} /\ Len(queue') = Len(queue) - 1
      /\ \A i \in 1..Len(queue') : queue'[i] = queue[i + 1]
  BY Removed
<1>2. AnswerFirst'
  <2> SUFFICES ASSUME NEW j \in 1..Len(queue'), queue'[j].type = "token"
               PROVE  answer' \subseteq {queue'[j].call} \/ StartsIn(1, j)'
    BY DEF AnswerFirst
  <2>1. j + 1 \in 1..Len(queue) /\ queue'[j] = queue[j + 1]
    BY <1>1
  <2> QED
    BY <2>1, StartsRemoved DEF TokensInQueue, AnswerFirst
<1>3. calling' => answer' \subseteq {<<pass, call>>'} \/ StartsIn(1, Len(queue))'
  BY StartsRemoved DEF TokensInQueue, SpokenLast
<1> QED
  BY <1>2, <1>3, RestInOrder, RestSpokenLast DEF TokensInQueue, SpokenLast

LEMMA StartTaken ==
  ASSUME queue \in Seq(Events), TokensInQueue, queue # <<>>, queue' = Tail(queue),
         answer' = {}, UNCHANGED <<calling, pass, call>>
  PROVE  TokensInQueue'
<1>1. AnswerFirst' /\ (calling' => answer' \subseteq {<<pass, call>>'})
  BY DEF AnswerFirst
<1> QED
  BY <1>1, RestInOrder, RestSpokenLast DEF TokensInQueue, SpokenLast

LEMMA TokenTaken ==
  ASSUME queue \in Seq(Events), TokensInQueue, queue # <<>>, queue' = Tail(queue),
         Head(queue).type = "token", answer' = answer \cup {Head(queue).call},
         UNCHANGED <<calling, pass, call>>
  PROVE  TokensInQueue' /\ answer' = {Head(queue).call}
<1>1. /\ Len(queue) \in Nat \ {0} /\ Len(queue') = Len(queue) - 1
      /\ \A i \in 1..Len(queue') : queue'[i] = queue[i + 1]
      /\ Head(queue) = queue[1]
  BY Removed
<1>2. ~StartsIn(1, 1)
  BY <1>1 DEF StartsIn
<1>3. answer \subseteq {Head(queue).call}
  <2>1. 1 \in 1..Len(queue) /\ queue[1].type = "token"
    BY <1>1
  <2> QED
    BY <1>1, <1>2, <2>1 DEF TokensInQueue, AnswerFirst
<1>4. answer' = {Head(queue).call}
  BY <1>3
<1>5. AnswerFirst'
  <2> SUFFICES ASSUME NEW j \in 1..Len(queue'), queue'[j].type = "token"
               PROVE  answer' \subseteq {queue'[j].call} \/ StartsIn(1, j)'
    BY DEF AnswerFirst
  <2>1. /\ 1 \in 1..Len(queue) /\ j + 1 \in 1..Len(queue) /\ 1 < j + 1
        /\ queue'[j] = queue[j + 1]
    BY <1>1
  <2>2. queue[1].call = queue[j + 1].call \/ StartsIn(1, j + 1)
    BY <1>1, <2>1 DEF TokensInQueue, CallsApart
  <2>3. StartsIn(1, j + 1) => StartsIn(1, j)'
    BY StartsRemoved
  <2> QED
    BY <1>1, <1>4, <2>1, <2>2, <2>3
<1>6. calling' => answer' \subseteq {<<pass, call>>'} \/ StartsIn(1, Len(queue))'
  <2>1. 1 \in 1..Len(queue) /\ queue[1].type = "token"
    BY <1>1
  <2>2. calling => queue[1].call = <<pass, call>> \/ StartsIn(1, Len(queue))
    BY <2>1 DEF TokensInQueue, SpokenLast
  <2>3. StartsIn(1, Len(queue)) => StartsIn(1, Len(queue))'
    BY StartsRemoved
  <2> QED
    BY <1>1, <1>4, <2>2, <2>3
<1> QED
  BY <1>4, <1>5, <1>6, RestInOrder, RestSpokenLast DEF TokensInQueue, SpokenLast

\* A step of the graph puts an event that is neither a start nor a token, or none, and
\* the call that speaks afterwards spoke before; or one of the two others.
LEMMA QuietSteps ==
  ASSUME Speaking, RunGraph, ~CallModel, ~Speak
  PROVE  /\ \/ UNCHANGED queue
            \/ \E e : Put(e) /\ e.type \in {"node", "root"}
         /\ calling' => calling /\ UNCHANGED <<pass, call>>
<1>1. \A fields : PutNodeEnd(fields) =>
        UNCHANGED queue \/ \E e : Put(e) /\ e.type \in {"node", "root"}
  BY DEF PutNodeEnd, NodeEnd
<1>2. CASE Classify \/ Respond \/ Gather
  BY <1>1, <1>2 DEF Classify, Respond, Gather
<1>3. CASE ModelAnswers \/ GenerateWithoutModel \/ ModelFails
  BY <1>1, <1>3 DEF ModelAnswers, GenerateWithoutModel, Generated, ModelFails
<1>4. CASE VerifyEnds
  BY <1>1, <1>4 DEF VerifyEnds
<1>5. CASE VerifyRepairs
  BY <1>1, <1>5 DEF VerifyRepairs, Speaking
<1>6. CASE GraphEnds
  BY <1>6 DEF GraphEnds, RootEnd
<1>7. CASE GraphRaises
  BY <1>7 DEF GraphRaises
<1> QED
  BY <1>2, <1>3, <1>4, <1>5, <1>6, <1>7 DEF RunGraph

LEMMA TokensStep ==
  ASSUME TypeOK, Speaking, Tokens, [Next]_vars
  PROVE  Tokens'
<1>1. queue \in Seq(Events)
  BY QueueType
<1>2. ASSUME UNCHANGED <<answer, has_tokens>>,
             consumer' = "reading" => consumer = "reading" /\ (TokensInQueue => TokensInQueue')
      PROVE  Tokens'
  BY <1>2 DEF Tokens
<1>3. CASE RunGraph
  <2>1. UNCHANGED consumerside
    BY <1>3, Works
  <2>2. UNCHANGED <<answer, has_tokens, consumer>>
    BY <2>1 DEF consumerside
  <2> SUFFICES ASSUME TokensInQueue PROVE TokensInQueue'
    BY <1>2, <2>2
  <2>3. CASE CallModel
    <3>1. queue' = Append(queue, ModelStart(<<pass, call'>>))
      BY <2>3 DEF CallModel, Put
    <3> QED
      BY <1>1, <2>2, <3>1, StartPut
  <2>4. CASE Speak
    <3>1. /\ queue' = Append(queue, Token(<<pass, call>>))
          /\ calling /\ UNCHANGED <<pass, call>>
      BY <2>4 DEF Speak, Put
    <3> QED
      BY <1>1, <2>2, <3>1, TokenPut
  <2>5. CASE ~CallModel /\ ~Speak
    <3>1. calling' => calling /\ UNCHANGED <<pass, call>>
      BY <1>3, <2>5, QuietSteps
    <3>2. CASE UNCHANGED queue
      BY <2>2, <3>1, <3>2 DEF TokensInQueue, AnswerFirst, CallsApart, SpokenLast, StartsIn
    <3>3. ASSUME NEW e, Put(e), e.type \in {"node", "root"}
          PROVE  TokensInQueue'
      BY <1>1, <2>2, <3>1, <3>3, SilentPut DEF Put
    <3> QED
      BY <1>3, <2>5, <3>2, <3>3, QuietSteps
  <2> QED
    BY <2>3, <2>4, <2>5
<1>4. CASE Close
  <2>1. UNCHANGED <<answer, has_tokens, consumer>> /\ UNCHANGED <<calling, pass, call>>
    BY <1>4 DEF Close, graphside, consumerside
  <2>2. queue' = Append(queue, Sentinel) /\ Sentinel.type # "token"
    BY <1>4 DEF Close, Put, Sentinel
  <2> QED
    BY <1>1, <1>2, <2>1, <2>2, SilentPut
<1>5. CASE Consume
  <2>1. UNCHANGED <<calling, pass, call>>
    BY <1>5, Consumes DEF graphside
  <2>2. CASE ReadEnd
    <3>1. /\ Take({"node", "root"})
          /\ UNCHANGED <<answer, has_tokens, consumer>>
      BY <2>2 DEF ReadEnd
    <3>2. queue # <<>> /\ queue' = Tail(queue) /\ Head(queue).type \notin {"start", "token"}
      BY <3>1 DEF Take
    <3> QED
      BY <1>1, <1>2, <2>1, <3>1, <3>2, EndTaken
  <2>3. CASE ReadModelStart
    <3>1. /\ Take({"start"})
          /\ UNCHANGED <<has_tokens, consumer>>
          /\ answer' = IF has_tokens THEN {} ELSE answer
      BY <2>3 DEF ReadModelStart
    <3>2. queue # <<>> /\ queue' = Tail(queue) /\ consumer = "reading"
      BY <3>1 DEF Take
    <3>3. answer' = {}
      BY <3>1 DEF Tokens
    <3>4. TokensInQueue
      BY <3>2 DEF Tokens
    <3>5. TokensInQueue'
      BY <1>1, <2>1, <3>2, <3>3, <3>4, StartTaken
    <3> QED
      BY <3>3, <3>5 DEF Tokens
  <2>4. CASE ReadToken
    <3>1. /\ Take({"token"})
          /\ answer' = answer \cup {Head(queue).call} /\ has_tokens' = TRUE
      BY <2>4 DEF ReadToken
    <3>2. /\ queue # <<>> /\ queue' = Tail(queue) /\ Head(queue).type = "token"
          /\ consumer = "reading"
      BY <3>1 DEF Take
    <3>3. TokensInQueue
      BY <3>2 DEF Tokens
    <3>4. TokensInQueue' /\ answer' = {Head(queue).call}
      BY <1>1, <2>1, <3>1, <3>2, <3>3, TokenTaken
    <3>5. \A c, d \in answer' : c = d
      BY <3>4
    <3> QED
      BY <3>1, <3>4, <3>5 DEF Tokens
  <2>5. CASE ReadSentinel \/ TimesOut
    <3>1. consumer' # "reading" /\ UNCHANGED <<answer, has_tokens>>
      BY <2>5 DEF ReadSentinel, TimesOut, Break
    <3> QED
      BY <1>2, <3>1
  <2>6. CASE LogTurn
    BY <1>2, <2>6 DEF LogTurn
  <2>7. CASE StoreTurn \/ StoreTurnFails
    BY <1>2, <2>7 DEF StoreTurn, StoreTurnFails, Break
  <2> QED
    BY <1>5, <2>2, <2>3, <2>4, <2>5, <2>6, <2>7 DEF Consume
<1>6. CASE Disconnect
  BY <1>2, <1>6 DEF Disconnect
<1>7. CASE UNCHANGED vars
  <2>1. UNCHANGED <<queue, answer, has_tokens, consumer, calling, pass, call>>
    BY <1>7 DEF vars, graphside, consumerside
  <2> QED
    BY <2>1, <1>2 DEF TokensInQueue, AnswerFirst, CallsApart, SpokenLast, StartsIn
<1> QED
  BY <1>3, <1>4, <1>5, <1>6, <1>7 DEF Next, Produce

-----------------------------------------------------------------------------
(* The last state of the graph *)

\* The graph comes to its end by GraphEnds alone, and its steps put no sentinel.
LEMMA GraphSteps ==
  ASSUME Speaking, RunGraph
  PROVE  /\ \/ UNCHANGED queue
            \/ \E e : Put(e) /\ e.type # "sentinel"
         /\ GraphEnds \/ GraphRaises \/ (UNCHANGED producer /\ node' # "ended")
<1>1. CASE CallModel \/ Speak
  BY <1>1 DEF CallModel, Speak, Speaking, ModelStart, Token, Working
<1>2. CASE ~CallModel /\ ~Speak
  <2>1. UNCHANGED queue \/ \E e : Put(e) /\ e.type # "sentinel"
    BY <1>2, QuietSteps
  <2>2. GraphEnds \/ GraphRaises \/ (UNCHANGED producer /\ node' # "ended")
    <3> USE DEF Working
    <3>1. CASE Classify \/ Respond \/ Gather
      BY <3>1 DEF Classify, Respond, Gather
    <3>2. CASE ModelFails \/ ModelAnswers \/ GenerateWithoutModel
      BY <3>2 DEF ModelFails, ModelAnswers, GenerateWithoutModel, Generated, Speaking
    <3>3. CASE VerifyEnds \/ VerifyRepairs
      BY <3>3 DEF VerifyEnds, VerifyRepairs
    <3> QED
      BY <1>2, <3>1, <3>2, <3>3 DEF RunGraph
  <2> QED
    BY <2>1, <2>2
<1> QED
  BY <1>1, <1>2

\* What the graph's steps do to the two sides that are behind it.
LEMMA LastStateGraph ==
  ASSUME TypeOK, Speaking, LastState, RunGraph
  PROVE  LastState'
<1>1. /\ producer = "running"
      /\ UNCHANGED <<consumer, accumulated, reply>>
  BY Works DEF consumerside
<1>2. WhileSaving' /\ OnceCompleted'
  BY <1>1 DEF LastState, WhileSaving, OnceCompleted, Completed
<1>3. ASSUME consumer = "reading"
      PROVE  SentinelIsLast'
  <2>1. \A i \in 1..Len(queue) : queue[i].type # "sentinel"
    BY <1>1, <1>3 DEF LastState, WhileReading, SentinelIsLast
  <2>2. CASE UNCHANGED queue
    BY <2>1, <2>2 DEF SentinelIsLast
  <2>3. ASSUME NEW e, Put(e), e.type # "sentinel"
        PROVE  SentinelIsLast'
    <3>1. /\ Len(queue) \in Nat /\ Len(queue') = Len(queue) + 1
          /\ \A i \in 1..Len(queue) : queue'[i] = queue[i]
          /\ queue'[Len(queue')] = e
      BY <2>3, QueueType, Appended DEF Put
    <3>2. \A i \in 1..Len(queue') : queue'[i].type # "sentinel"
      BY <2>1, <2>3, <3>1
    <3> QED
      BY <3>2 DEF SentinelIsLast
  <2> QED
    BY <2>2, <2>3, GraphSteps
<1>4. CASE GraphEnds
  <2>1. /\ Put(RootEnd(graph)) /\ UNCHANGED graph /\ node' = "ended"
    BY <1>4 DEF GraphEnds
  <2>2. /\ Len(queue) \in Nat /\ Len(queue') = Len(queue) + 1
        /\ queue'[Len(queue')] = RootEnd(graph)
    BY <2>1, QueueType, Appended DEF Put
  <2>3. RootIsNext'
    <3>1. Len(queue') \in 1..Len(queue') /\ Len(queue') + 1..Len(queue') = {}
      BY <2>2
    <3>2. /\ queue'[Len(queue')].type = "root" /\ queue'[Len(queue')].fields = Fields
          /\ queue'[Len(queue')].state = graph'
      BY <2>1, <2>2 DEF RootEnd
    <3> QED
      BY <3>1, <3>2 DEF RootIsNext, Agrees
  <2> QED
    BY <1>1, <1>2, <1>3, <2>1, <2>3 DEF LastState, WhileReading
<1>5. CASE GraphRaises
  <2>1. node' = "raised"
    BY <1>5 DEF GraphRaises
  <2> QED
    BY <1>1, <1>2, <1>3, <2>1 DEF LastState, WhileReading
<1>6. CASE UNCHANGED producer /\ node' # "ended"
  BY <1>1, <1>2, <1>3, <1>6 DEF LastState, WhileReading
<1> QED
  BY <1>4, <1>5, <1>6, GraphSteps

\* The sentinel follows the last state.
LEMMA LastStateClose ==
  ASSUME TypeOK, LastState, Close
  PROVE  LastState'
<1>1. /\ producer = "closing" /\ producer' = "closed"
      /\ UNCHANGED <<node, graph, consumer, accumulated, reply>>
  BY DEF Close, graphside, consumerside
<1>2. /\ Len(queue) \in Nat /\ Len(queue') = Len(queue) + 1
      /\ \A i \in 1..Len(queue) : queue'[i] = queue[i]
      /\ queue'[Len(queue')] = Sentinel
  BY QueueType, Appended DEF Close, Put
<1>3. WhileSaving' /\ OnceCompleted'
  BY <1>1 DEF LastState, WhileSaving, OnceCompleted, Completed
<1> SUFFICES ASSUME consumer = "reading" PROVE WhileReading'
  BY <1>1, <1>3 DEF LastState, WhileReading
<1>4. SentinelIsLast'
  <2>1. \A i \in 1..Len(queue) : queue[i].type # "sentinel"
    BY <1>1 DEF LastState, WhileReading, SentinelIsLast
  <2> QED
    BY <1>1, <1>2, <2>1 DEF SentinelIsLast
<1>5. ~IsEnd(Sentinel)
  BY DEF IsEnd, Sentinel
<1>6. RootIsNext => RootIsNext'
  <2> SUFFICES ASSUME NEW i \in 1..Len(queue), queue[i].type = "root",
                      queue[i].fields = Fields, Agrees(queue[i].state),
                      \A j \in i + 1..Len(queue) : ~IsEnd(queue[j])
               PROVE  RootIsNext'
    BY DEF RootIsNext
  <2>1. i \in 1..Len(queue') /\ queue'[i] = queue[i]
    BY <1>2
  <2>2. \A j \in i + 1..Len(queue') : ~IsEnd(queue'[j])
    BY <1>2, <1>5
  <2>3. \A f \in Fields : queue'[i].state[f] = graph'[f]
    BY <1>1, <2>1 DEF Agrees
  <2> QED
    BY <2>1, <2>2, <2>3 DEF RootIsNext, IsEnd, Agrees
<1>7. RootWasRead => RootWasRead'
  <2> SUFFICES ASSUME RootWasRead PROVE RootWasRead'
    OBVIOUS
  <2>1. \A i \in 1..Len(queue') : ~IsEnd(queue'[i])
    BY <1>2, <1>5 DEF RootWasRead
  <2> QED
    BY <1>1, <2>1 DEF RootWasRead, Agrees, IsEnd
<1> QED
  BY <1>1, <1>4, <1>6, <1>7 DEF LastState, WhileReading


LEMMA SentinelStaysLast ==
  ASSUME TypeOK, SentinelIsLast, queue # <<>>, queue' = Tail(queue), UNCHANGED producer
  PROVE  SentinelIsLast'
<1>1. /\ Len(queue) \in Nat \ {0} /\ Len(queue') = Len(queue) - 1
      /\ \A i \in 1..Len(queue') : queue'[i] = queue[i + 1]
  BY QueueType, Removed
<1> SUFFICES ASSUME NEW i \in 1..Len(queue'), queue'[i].type = "sentinel"
             PROVE  producer' = "closed" /\ i = Len(queue')
  BY DEF SentinelIsLast
<1>2. i + 1 \in 1..Len(queue) /\ queue[i + 1].type = "sentinel"
  BY <1>1
<1>3. producer = "closed" /\ i + 1 = Len(queue)
  BY <1>2, Zenon DEF SentinelIsLast
<1>4. i \in Nat /\ Len(queue) \in Nat /\ Len(queue') = Len(queue) - 1
  BY <1>1
<1>5. i = Len(queue')
  BY <1>3, <1>4
<1> QED
  BY <1>3, <1>5

\* An event that is no end leaves the queue.
LEMMA NoEndTaken ==
  ASSUME TypeOK, LastState, queue # <<>>, queue' = Tail(queue), ~IsEnd(Head(queue)),
         consumer = "reading", UNCHANGED <<node, graph, producer, accumulated>>
  PROVE  (node = "ended" => RootIsNext \/ RootWasRead)' /\ SentinelIsLast'
<1>1. /\ Len(queue) \in Nat \ {0} /\ Len(queue') = Len(queue) - 1
      /\ \A i \in 1..Len(queue') : queue'[i] = queue[i + 1]
      /\ Head(queue) = queue[1]
  BY QueueType, Removed
<1>2. SentinelIsLast'
  BY SentinelStaysLast DEF LastState, WhileReading
<1>3. RootIsNext => RootIsNext'
  <2> SUFFICES ASSUME NEW i \in 1..Len(queue), queue[i].type = "root",
                      queue[i].fields = Fields, Agrees(queue[i].state),
                      \A j \in i + 1..Len(queue) : ~IsEnd(queue[j])
               PROVE  RootIsNext'
    BY DEF RootIsNext
  <2>1. i # 1
    BY <1>1 DEF IsEnd
  <2>2. i - 1 \in 1..Len(queue') /\ queue'[i - 1] = queue[i]
    BY <1>1, <2>1
  <2>3. \A j \in (i - 1) + 1..Len(queue') : ~IsEnd(queue'[j])
    BY <1>1, <2>1
  <2>4. \A f \in Fields : queue'[i - 1].state[f] = graph'[f]
    BY <2>2 DEF Agrees
  <2> QED
    BY <2>2, <2>3, <2>4 DEF RootIsNext, IsEnd, Agrees
<1>4. RootWasRead => RootWasRead'
  <2> SUFFICES ASSUME RootWasRead PROVE RootWasRead'
    OBVIOUS
  <2>1. \A i \in 1..Len(queue') : ~IsEnd(queue'[i])
    BY <1>1 DEF RootWasRead
  <2> QED
    BY <2>1 DEF RootWasRead, Agrees, IsEnd
<1> QED
  BY <1>2, <1>3, <1>4 DEF LastState, WhileReading

\* The end of a node leaves it, or the end of the root, which is merged whole.
LEMMA EndRead ==
  ASSUME TypeOK, LastState, ReadEnd
  PROVE  LastState'
<1>1. /\ UNCHANGED <<node, graph, producer, consumer, reply>>
      /\ accumulated' = Merge(accumulated, Head(queue))
      /\ Take({"node", "root"})
  BY DEF ReadEnd, graphside
<1>2. queue # <<>> /\ queue' = Tail(queue) /\ consumer = "reading" /\ IsEnd(Head(queue))
  BY <1>1 DEF Take, IsEnd
<1>3. /\ Len(queue) \in Nat \ {0} /\ Len(queue') = Len(queue) - 1
      /\ \A i \in 1..Len(queue') : queue'[i] = queue[i + 1]
      /\ Head(queue) = queue[1]
  BY <1>2, QueueType, Removed
<1>4. SentinelIsLast'
  BY <1>1, <1>2, SentinelStaysLast DEF LastState, WhileReading
<1>5. ASSUME node = "ended"
      PROVE  (RootIsNext \/ RootWasRead)'
  <2>1. RootIsNext
    BY <1>2, <1>3, <1>5 DEF LastState, WhileReading, RootWasRead
  <2>2. PICK i \in 1..Len(queue) :
          /\ queue[i].type = "root" /\ queue[i].fields = Fields /\ Agrees(queue[i].state)
          /\ \A j \in i + 1..Len(queue) : ~IsEnd(queue[j])
    BY <2>1 DEF RootIsNext
  <2>3. CASE i = 1
    <3>1. \A f \in Fields : accumulated'[f] = graph'[f]
      BY <1>1, <1>3, <2>2, <2>3 DEF Merge, Agrees
    <3>2. \A j \in 1..Len(queue') : ~IsEnd(queue'[j])
      BY <1>3, <2>2, <2>3
    <3> QED
      BY <3>1, <3>2 DEF RootWasRead, Agrees, IsEnd
  <2>4. CASE i # 1
    <3>1. i - 1 \in 1..Len(queue') /\ queue'[i - 1] = queue[i]
      BY <1>3, <2>4
    <3>2. \A j \in (i - 1) + 1..Len(queue') : ~IsEnd(queue'[j])
      BY <1>3, <2>2, <2>4
    <3>3. \A f \in Fields : queue'[i - 1].state[f] = graph'[f]
      BY <1>1, <2>2, <3>1 DEF Agrees
    <3> QED
      BY <2>2, <3>1, <3>2, <3>3 DEF RootIsNext, IsEnd, Agrees
  <2> QED
    BY <2>3, <2>4
<1>6. WhileSaving' /\ OnceCompleted'
  BY <1>1, <1>2 DEF LastState, WhileSaving, OnceCompleted, Completed
<1> QED
  BY <1>1, <1>2, <1>4, <1>5, <1>6 DEF LastState, WhileReading

\* The sentinel is read when nothing else is left.
LEMMA SentinelRead ==
  ASSUME TypeOK, LastState, ReadSentinel
  PROVE  LastState'
<1>1. /\ UNCHANGED <<node, graph, producer, accumulated, reply>>
      /\ Take({"sentinel"}) /\ consumer' = "logging"
  BY DEF ReadSentinel, graphside
<1>2. queue # <<>> /\ consumer = "reading" /\ Head(queue).type = "sentinel"
  BY <1>1 DEF Take
<1>3. Len(queue) \in Nat \ {0} /\ Head(queue) = queue[1]
  BY <1>2, QueueType, Removed, <1>1 DEF Take
<1>4. producer = "closed" /\ Len(queue) = 1
  <2>1. SentinelIsLast
    BY <1>2 DEF LastState, WhileReading
  <2>2. 1 \in 1..Len(queue) /\ queue[1].type = "sentinel"
    BY <1>2, <1>3
  <2> QED
    BY <2>1, <2>2 DEF SentinelIsLast
<1>5. ~RootIsNext
  BY <1>2, <1>3, <1>4 DEF RootIsNext
<1>6. node = "ended" => Agrees(accumulated)
  BY <1>2, <1>5 DEF LastState, WhileReading, RootWasRead
<1>7. WhileSaving'
  BY <1>1, <1>4, <1>6 DEF WhileSaving, Agrees
<1> QED
  BY <1>1, <1>7 DEF LastState, WhileReading, OnceCompleted, Completed

\* The reply is built from what was accumulated.
LEMMA TurnStored ==
  ASSUME TypeOK, LastState, StoreTurn
  PROVE  LastState'
<1>1. /\ UNCHANGED <<node, graph, producer, accumulated>>
      /\ consumer = "storing" /\ consumer' = "ended"
      /\ reply' = Done
  BY Zenon DEF StoreTurn, graphside
<1>2. /\ reply'.status = accumulated.status /\ reply'.claims = accumulated.claims
      /\ reply'.text = accumulated.answer
  BY <1>1 DEF Done
<1>3. producer = "closed" /\ (node = "ended" => Agrees(accumulated))
  BY <1>1 DEF LastState, WhileSaving
<1>4. Agrees(accumulated) => /\ accumulated.status = graph.status
                             /\ accumulated.claims = graph.claims
                             /\ accumulated.answer = graph.answer
  BY DEF Agrees, Fields
<1>5. OnceCompleted'
  BY <1>1, <1>2, <1>3, <1>4 DEF OnceCompleted
<1> QED
  BY <1>1, <1>5 DEF LastState, WhileReading, WhileSaving

LEMMA LastStateStep ==
  ASSUME TypeOK, Speaking, Saved, LastState, [Next]_vars
  PROVE  LastState'
<1>1. ConsumerTypes
  BY DEF TypeOK
<1>2. CASE RunGraph \/ Close
  BY <1>2, LastStateGraph, LastStateClose
<1>3. CASE ReadEnd \/ ReadSentinel \/ StoreTurn
  BY <1>3, EndRead, SentinelRead, TurnStored
<1>4. CASE ReadModelStart \/ ReadToken
  <2>1. /\ UNCHANGED <<node, graph, producer, consumer, accumulated, reply>>
        /\ queue # <<>> /\ queue' = Tail(queue) /\ ~IsEnd(Head(queue)) /\ consumer = "reading"
    BY <1>4 DEF ReadModelStart, ReadToken, Take, graphside, IsEnd
  <2> QED
    BY <2>1, NoEndTaken DEF LastState, WhileReading, WhileSaving, OnceCompleted, Completed
<1>5. CASE TimesOut \/ StoreTurnFails \/ Disconnect
  <2>1. /\ UNCHANGED reply /\ consumer' \in {"broken", "gone"}
        /\ consumer # "ended"
    BY <1>5 DEF TimesOut, StoreTurnFails, Break, Disconnect, Take
  <2>2. ~Completed'
    BY <2>1 DEF Saved, Completed
  <2> QED
    BY <2>1, <2>2 DEF LastState, WhileReading, WhileSaving, OnceCompleted
<1>6. CASE LogTurn
  <2>1. /\ UNCHANGED <<node, graph, producer, accumulated, reply>>
        /\ consumer = "logging" /\ consumer' = "storing"
    BY <1>6 DEF LogTurn, graphside
  <2> QED
    BY <2>1 DEF LastState, WhileReading, WhileSaving, OnceCompleted, Completed, Agrees
<1>7. CASE UNCHANGED vars
  <2>1. UNCHANGED <<node, graph, producer, queue, consumer, accumulated, reply>>
    BY <1>7 DEF vars, graphside, consumerside
  <2> QED
    BY <2>1 DEF LastState, WhileReading, WhileSaving, OnceCompleted, Completed, Agrees,
                RootIsNext, RootWasRead, SentinelIsLast, IsEnd
<1> QED
  BY <1>2, <1>3, <1>4, <1>5, <1>6, <1>7 DEF Next, Produce, Consume

-----------------------------------------------------------------------------
(* The theorems *)

LEMMA InvHolds == Spec => []StreamInv
<1>1. Init => StreamInv
  BY InitType, StartedInv DEF StreamInv
<1>2. StreamInv /\ [Next]_vars => StreamInv'
  BY TypeStep, TokensStep, LastStateStep, SavedStep DEF StreamInv
<1> QED
  BY <1>1, <1>2, PTL DEF Spec

\* The variables of the stream keep their types and the queue its bound (events_q,
\* a queue of maxsize QueueSize that put waits for).
THEOREM StreamTypes == Spec => []TypeOK
<1>1. StreamInv => TypeOK
  BY DEF StreamInv
<1> QED
  BY <1>1, InvHolds, PTL

\* The answer the consumer builds never mixes the tokens of two model calls, however far
\* it is behind the generator and wherever the call failed.
THEOREM NeverTwoCalls == Spec => []OneCallAtATime
<1>1. StreamInv => OneCallAtATime
  <2> SUFFICES ASSUME StreamInv PROVE Cardinality(answer) <= 1
    BY DEF OneCallAtATime
  <2>1. CASE answer = {}
    BY <2>1, FS_EmptySet
  <2>2. ASSUME NEW c \in answer
        PROVE  Cardinality(answer) <= 1
    <3>1. answer = {c}
      BY <2>2 DEF StreamInv, Tokens
    <3> QED
      BY <3>1, FS_Singleton
  <2> QED
    BY <2>1, <2>2
<1> QED
  BY <1>1, InvHolds, PTL

\* The status, the claims and the text of a completed reply are the graph's last ones,
\* although the ends of nodes may be dropped on the way.
THEOREM RepliesAreFaithful == Spec => []CompletedIsFaithful
<1>1. StreamInv => CompletedIsFaithful
  BY DEF StreamInv, LastState, OnceCompleted, CompletedIsFaithful
<1> QED
  BY <1>1, InvHolds, PTL

\* A completed reply is sent after its messages and its evidence memory were saved.
THEOREM RepliesAreDurable == Spec => []DoneIsDurable
<1>1. StreamInv => DoneIsDurable
  BY DEF StreamInv, Saved, DoneIsDurable
<1> QED
  BY <1>1, InvHolds, PTL
=============================================================================
