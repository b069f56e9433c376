--------------------------- MODULE ChatWorkProofs ---------------------------
(***************************************************************************)
(* Theorems about ChatWork, for any finite sets of requests and of chats   *)
(* and any limits.  Most properties say that something happens only to     *)
(* requests that overlapped.  Their invariants record, while a request is  *)
(* under way, what it may still rely on: the numbers below its own         *)
(* (Numbers), what its memory lacks (Remembered), the room that was left   *)
(* when it was admitted (Budgets, ChatLimits), what a purge has listed     *)
(* (Purged), who wrote what a deletion did not see (Lateness).             *)
(***************************************************************************)
EXTENDS ChatWork, FiniteSetTheorems, WellFoundedInduction, TLAPS

\* Who is remembered as earlier had ended; who has not begun has no part in anything.
Past ==
  \A r \in Requests :
    /\ \A s \in before[r] : Ended(s)
    /\ stage[r] = "new" => kind[r] = "none" /\ before[r] = {}

\* Which handler a request is in.
Roles ==
  \A r \in Requests :
    /\ stage[r] \in {"loading", "charging", "running", "logging", "locking", "storing"}
         => kind[r] \in {"query", "stream"}
    /\ stage[r] \in {"inserting", "starting", "indexing", "completing", "numbering", "noting",
                     "counting", "failing"} => kind[r] = "upload"
    /\ stage[r] \in {"creating", "recording"} => kind[r] = "create"
    /\ stage[r] = "deleting" => kind[r] \in {"delete", "purge"}
    /\ stage[r] = "wiping" => kind[r] = "purge"
    /\ kind[r] \in {"query", "stream", "upload", "create", "delete"} => chat[r] \in Chats
    /\ logs[r] # "none" => kind[r] = "upload" /\ stage[r] # "inserting"
    /\ r \in chunks => kind[r] = "upload" /\ stage[r] \notin {"inserting", "starting", "indexing"}
    /\ r \in chats => stage[r] \notin {"new", "creating"}

\* Who stores has the lock.
Locks ==
  \A r \in Requests : stage[r] = "storing" => lock[chat[r]] = r

\* A turn that has the lock has the next number.
Numbers ==
  /\ \A m \in TurnMessages : stage[m.by] = "done"
  /\ \A r \in Requests, m \in TurnMessages :
       stage[r] = "storing" /\ m.chat = chat[r] => m.seq < sequence[r]

\* The rows of a chat are told apart by their places, which follow the turns.
Places ==
  /\ \A i \in interactions :
       /\ i.at > 0
       /\ stage[i.by] \notin {"new", "loading", "charging", "running", "logging"}
       /\ i.by \in i.memory
  /\ \A i, j \in interactions :
       /\ i.by = j.by => i = j
       /\ i.chat = j.chat /\ i.at = j.at => i = j
       /\ i.chat = j.chat /\ i.by \in before[j.by] => i.at < j.at

\* A row after i, of a turn that ran beside the turn of i.
Hidden(i) ==
  \E k \in interactions : k.chat = i.chat /\ i.at < k.at /\ Overlap(k.by, i.by)

\* With its memory loaded, and not saved.
Remembers(r) ==
  \/ stage[r] \in {"running", "logging"}
  \/ stage[r] = "charging" /\ kind[r] = "query"

Remembered ==
  \A r \in Requests, i \in interactions :
    Remembers(r) /\ i.chat = chat[r] /\ i.by \in before[r] =>
      i.by \in loaded[r] \/ Hidden(i)

\* A purge lists every chat, and with it every upload that has ended, before it wipes.
Purged ==
  \A p, r \in Requests : r \in before[p] =>
    /\ stage[p] = "deleting" /\ kind[p] = "purge" /\ logs[r] # "none" => chat[r] \in Cleared(p)
    /\ stage[p] = "wiping" => logs[r] = "none"

\* An upload loses its chunks with its row, or to a purge.
Indexed ==
  \A r \in Requests :
    (stage[r] = "completing" /\ logs[r] # "none") \/ logs[r] = "completed" =>
      r \in chunks \/ \E p \in Requests : kind[p] = "purge" /\ Overlap(p, r)

\* An upload that was accepted is no duplicate.
Copies ==
  \A r, s \in Requests :
    r \in before[s] /\ about[r] = about[s] /\ chat[r] = chat[s]
      /\ (stage[s] \in {"inserting", "starting", "indexing"} \/ s \in chunks)
    => logs[r] # "completed"

\* What a deletion has not seen was written beside it.
Lateness ==
  \A d \in Requests : stage[d] = "deleting" /\ Late(d) # {} =>
    \E w \in Requests : kind[w] \in {"query", "stream", "upload"} /\ Overlap(d, w)

\* The row of an upload at each of its stages.
Settling ==
  \A r \in Requests :
    /\ Event("ingest_tokens", r) \in usage => stage[r] = "done"
    /\ logs[r] = "pending" => r \notin chunks
    /\ kind[r] = "upload" =>
         /\ stage[r] \in {"inserting", "refused", "missing", "reused", "ambiguous"} =>
              logs[r] = "none"
         /\ stage[r] = "starting" => logs[r] \in {"none", "pending"}
         /\ stage[r] \in {"indexing", "completing", "failing"} => logs[r] # "pending"
         /\ stage[r] \in {"numbering", "noting", "counting", "done"} =>
              logs[r] \in {"none", "completed"}
         /\ stage[r] = "failed" => logs[r] \in {"none", "pending", "failed"}

Quotas == {"query", "chat_create", "ingest_tokens"}

\* Admitted and not charged.
Owes(k, r) ==
  \/ k = "query" /\ stage[r] = "charging"
  \/ k = "query" /\ stage[r] = "loading" /\ kind[r] = "query"
  \/ k = "chat_create" /\ stage[r] \in {"creating", "recording"}
  \/ k = "ingest_tokens" /\ stage[r] \in {"inserting", "starting", "indexing", "completing",
                                          "numbering", "noting", "counting"}

Budgets ==
  /\ \A e \in usage : stage[e.by] # "new"
  /\ \A k \in Quotas, r \in Requests : Owes(k, r) =>
       Used(k) < Limit(k) \/ \E e \in usage : e.kind = k /\ Overlap(e.by, r)

\* Chats of which no two were made by requests that overlapped.
Apart(C) == \A r, s \in C \ Home : ~Overlap(r, s)

ChatLimits ==
  /\ \A C \in SUBSET chats : Apart(C) => Cardinality(C) <= MaxChats
  /\ \A r \in Requests, C \in SUBSET chats :
       stage[r] = "creating" /\ Apart(C) /\ (\A s \in C \ Home : ~Overlap(s, r)) =>
         Cardinality(C) < MaxChats

\* What there is, is finite, and the numbers have a greatest.
Bounded ==
  /\ IsFiniteSet(usage) /\ IsFiniteSet(chats)
  /\ \E n \in Nat : (\A m \in messages : m.seq <= n) /\ (\A i \in interactions : i.at <= n)

WorkInv ==
  /\ TypeOK /\ Past /\ Roles /\ Locks /\ Numbers /\ Places /\ Remembered /\ Purged /\ Indexed
  /\ Copies /\ Lateness /\ Settling /\ Budgets /\ ChatLimits /\ Bounded
  /\ TurnsKeepTheirNumbers /\ MemoryForgetsOnlyOverlaps
  /\ OverrunNeedsOverlap /\ DeletionFailsOnlyByOverlap


-----------------------------------------------------------------------------
(* The greatest number *)

LEMMA GreatestNumber ==
  ASSUME NEW S \in SUBSET Nat, S # {}, NEW n \in Nat, \A x \in S : x <= n
  PROVE  Max(S) \in S /\ \A x \in S : x <= Max(S)
<1> DEFINE Bounds == {b \in Nat : \A x \in S : x <= b}
           Less   == OpToRel(<, Nat)
<1>1. PICK b \in Bounds : \A c \in Bounds : <<c, b>> \notin Less
  <2>1. Bounds \subseteq Nat /\ Bounds # {}
    OBVIOUS
  <2>2. IsWellFoundedOn(Less, Nat)
    BY NatLessThanWellFounded
  <2> HIDE DEF Bounds, Less
  <2>3. \E b \in Bounds : \A c \in Bounds : ~ (<<c, b>> \in Less)
    BY <2>1, <2>2, WFMin, Zenon
  <2> QED
    BY <2>3
<1>2. \A c \in Bounds : ~(c < b)
  BY <1>1 DEF OpToRel
<1>3. b \in S
  <2> SUFFICES ASSUME b \notin S
               PROVE  FALSE
    OBVIOUS
  <2>1. PICK x : x \in S
    OBVIOUS
  <2>2. b \in Nat /\ x \in Nat /\ \A y \in S : y <= b /\ y # b /\ y \in Nat
    BY <2>1
  <2>3. b - 1 \in Nat /\ \A y \in S : y <= b - 1
    BY <2>1, <2>2
  <2> QED
    BY <1>2, <2>2, <2>3
<1>4. \E m \in S : \A x \in S : m >= x
  BY <1>3
<1>5. Max(S) \in S /\ \A x \in S : Max(S) >= x
  BY <1>4 DEF Max
<1> QED
  BY <1>5

LEMMA LastNumber ==
  ASSUME Types, Bounded, NEW c
  PROVE  /\ LastSequence(c) \in Nat
         /\ \A m \in messages : m.chat = c => m.seq <= LastSequence(c)
<1> DEFINE S == {m.seq : m \in {n \in messages : n.chat = c}} \cup {0}
<1>1. PICK n \in Nat : \A m \in messages : m.seq <= n
  BY DEF Bounded
<1>2. S \in SUBSET Nat /\ S # {} /\ \A x \in S : x <= n
  BY <1>1 DEF Types, Messages
<1>3. Max(S) \in S /\ \A x \in S : x <= Max(S)
  <2> HIDE DEF S
  <2> QED
    BY <1>2, GreatestNumber
<1>4. LastSequence(c) = Max(S)
  BY DEF LastSequence
<1> QED
  BY <1>2, <1>3, <1>4

LEMMA LastRow ==
  ASSUME Types, Bounded, NEW c
  PROVE  /\ LastPlace(c) \in Nat
         /\ \A i \in interactions : i.chat = c => i.at <= LastPlace(c)
         /\ (\E i \in interactions : i.chat = c /\ i.at > 0) =>
              \E i \in interactions : i.chat = c /\ i.at = LastPlace(c)
<1> DEFINE S == {i.at : i \in InteractionsOf(c)} \cup {0}
<1>1. PICK n \in Nat : \A i \in interactions : i.at <= n
  BY DEF Bounded
<1>2. S \in SUBSET Nat /\ S # {} /\ \A x \in S : x <= n
  BY <1>1 DEF Types, Interactions, InteractionsOf
<1>3. Max(S) \in S /\ \A x \in S : x <= Max(S)
  <2> HIDE DEF S
  <2> QED
    BY <1>2, GreatestNumber
<1>4. LastPlace(c) = Max(S)
  BY DEF LastPlace
<1>5. \A i \in interactions : i.chat = c => i.at \in S
  BY DEF InteractionsOf
<1>6. ASSUME NEW i \in interactions, i.chat = c, i.at > 0
      PROVE  \E j \in interactions : j.chat = c /\ j.at = Max(S)
  <2>1. Max(S) # 0
    <3> HIDE DEF S
    <3>1. i.at \in S /\ i.at <= Max(S) /\ Max(S) \in Nat /\ i.at \in Nat
      BY <1>2, <1>3, <1>5, <1>6
    <3> QED
      BY <1>6, <3>1
  <2> QED
    BY <1>3, <2>1 DEF InteractionsOf
<1> HIDE DEF S
<1>7. Max(S) \in Nat /\ \A i \in interactions : i.chat = c => i.at <= Max(S)
  BY <1>2, <1>3, <1>5
<1> QED
  BY <1>4, <1>6, <1>7


-----------------------------------------------------------------------------
(* Types *)

LEMMA TransTypes ==
  ASSUME Types, NEW r \in Requests, NEW here, NEW next \in Stages \cup Outcomes,
         Trans(r, here, next)
  PROVE  stage' \in [Requests -> Stages \cup Outcomes] /\ UNCHANGED <<kind, chat, about, before>>
BY DEF Types, Trans, Go, inputs

LEMMA BeginTypes ==
  ASSUME Types, NEW r \in Requests, NEW k, NEW c \in Chats \cup {Nobody},
         NEW a \in Files \cup Titles \cup {Nobody}, NEW next \in Stages \cup Outcomes,
         Begin(r, k, c, a), Go(r, next)
  PROVE  /\ stage' \in [Requests -> Stages \cup Outcomes]
         /\ kind' \in [Requests -> Kinds \cup {"none"}]
         /\ chat' \in [Requests -> Chats \cup {Nobody}]
         /\ about' \in [Requests -> Files \cup Titles \cup {Nobody}]
         /\ before' \in [Requests -> SUBSET Requests]
<1>1. stage' \in [Requests -> Stages \cup Outcomes]
  BY DEF Types, Go
<1>2. k \in Kinds /\ kind' = [kind EXCEPT ![r] = k]
  BY DEF Begin
<1>3. kind' \in [Requests -> Kinds \cup {"none"}]
  BY <1>2 DEF Types
<1>4. chat' \in [Requests -> Chats \cup {Nobody}]
  BY DEF Begin, Types
<1>5. about' \in [Requests -> Files \cup Titles \cup {Nobody}]
  BY DEF Begin, Types
<1>6. before' \in [Requests -> SUBSET Requests]
  BY DEF Begin, Types
<1> QED
  BY <1>1, <1>3, <1>4, <1>5, <1>6

LEMMA KnownAreChats == Known \subseteq Chats
BY DEF Known, Chats

LEMMA ChildrenAreRows ==
  ASSUME Types, NEW c
  PROVE  Children(c) \subseteq Rows /\ Deleted(c) \subseteq Rows /\ Deleted(c) = Children(c)
<1>1. Children(c) \subseteq Rows
  BY DEF Children, Rows, Types
<1>2. \A row \in Children(c) : row[1] \in {"message", "turn", "log"}
  BY DEF Children
<1> QED
  BY <1>1, <1>2 DEF Deleted

LEMMA UnlockedType ==
  ASSUME Types, NEW r
  PROVE  Unlocked(r) \in [Chats -> Requests \cup {Nobody}]
BY DEF Types, Unlocked

LEMMA TurnTypes ==
  ASSUME Types, Bounded, NEW r \in Requests, TurnStep(r)
  PROVE  Types'
<1> USE TransTypes DEF tables, locals
<1>1. CASE Admit(r)
  <2>1. PICK k \in {"query", "stream"}, c \in Known, next \in Stages \cup Outcomes :
          Begin(r, k, c, Nobody) /\ Go(r, next)
    BY <1>1 DEF Admit, Stages, Outcomes
  <2>2. UNCHANGED <<chats, interactions, messages, logs, chunks, usage, lock, loaded, sequence,
                    found>>
    BY <1>1 DEF Admit
  <2> QED
    BY <2>1, <2>2, BeginTypes, KnownAreChats DEF Types
<1>2. CASE Charge(r)
  <2>1. Event("query", r) \in [kind : {"query", "chat_create", "ingest_tokens"}, by : Requests]
    BY DEF Event
  <2>2. stage' \in [Requests -> Stages \cup Outcomes] /\ UNCHANGED <<kind, chat, about, before>>
    BY <1>2 DEF Charge, Stages
  <2>3. /\ usage' = usage \cup {Event("query", r)}
        /\ UNCHANGED <<chats, interactions, messages, logs, chunks, lock, loaded, sequence, found>>
    BY <1>2 DEF Charge
  <2> QED
    BY <2>1, <2>2, <2>3 DEF Types
<1>3. CASE Load(r)
  <2>1. LoadedMemory(chat[r]) \subseteq Requests
    BY DEF LoadedMemory, InteractionsOf, Types, Interactions
  <2>2. stage' \in [Requests -> Stages \cup Outcomes] /\ UNCHANGED <<kind, chat, about, before>>
    BY <1>3 DEF Load, Stages, Outcomes
  <2>3. /\ loaded' = [loaded EXCEPT ![r] = LoadedMemory(chat[r])]
        /\ UNCHANGED <<chats, interactions, messages, logs, chunks, usage, lock, sequence, found>>
    BY <1>3 DEF Load
  <2>4. loaded' \in [Requests -> SUBSET Requests]
    BY <2>1, <2>3 DEF Types
  <2> QED
    BY <2>2, <2>3, <2>4 DEF Types
<1>4. CASE GraphEnds(r) \/ GraphFails(r)
  BY <1>4 DEF GraphEnds, GraphFails, Types, Stages, Outcomes
<1>5. CASE Log(r)
  <2>1. stage' \in [Requests -> Stages \cup Outcomes] /\ UNCHANGED <<kind, chat, about, before>>
    BY <1>5 DEF Log, Stages, Outcomes
  <2>2. interactions' \subseteq Interactions
    <3>1. ASSUME chat[r] \in chats
          PROVE  Row(r) \in Interactions
      <4>1. LastPlace(chat[r]) + 1 \in Nat
        BY LastRow
      <4>2. Merged(r) \in SUBSET Requests
        BY DEF Merged, Types
      <4> QED
        BY <3>1, <4>1, <4>2 DEF Row, Interactions, Types
    <3>2. interactions \subseteq Interactions
      BY DEF Types
    <3> QED
      BY <1>5, <3>1, <3>2 DEF Log
  <2>3. UNCHANGED <<chats, messages, logs, chunks, usage, lock, loaded, sequence, found>>
    BY <1>5 DEF Log
  <2> QED
    BY <2>1, <2>2, <2>3 DEF Types
<1>6. CASE Lock(r)
  <2>1. stage' \in [Requests -> Stages \cup Outcomes] /\ UNCHANGED <<kind, chat, about, before>>
    BY <1>6 DEF Lock, Stages, Outcomes
  <2>2. lock' \in [Chats -> Requests \cup {Nobody}]
    BY <1>6 DEF Lock, Types
  <2>3. sequence' \in [Requests -> Nat]
    <3>1. LastSequence(chat[r]) + 1 \in Nat
      BY LastNumber
    <3> QED
      BY <1>6, <3>1 DEF Lock, Types
  <2>4. UNCHANGED <<chats, interactions, messages, logs, chunks, usage, loaded, found>>
    BY <1>6 DEF Lock
  <2> QED
    BY <2>1, <2>2, <2>3, <2>4 DEF Types
<1>7. CASE Store(r)
  <2>1. stage' \in [Requests -> Stages \cup Outcomes] /\ UNCHANGED <<kind, chat, about, before>>
    BY <1>7 DEF Store, Stages, Outcomes
  <2>2. messages' \subseteq Messages
    <3>1. ASSUME chat[r] \in chats
          PROVE  Pair(r) \subseteq Messages
      <4>1. sequence[r] \in Nat /\ sequence[r] + 1 \in Nat /\ chat[r] \in Chats
        BY <3>1 DEF Types
      <4> QED
        BY <4>1 DEF Pair, Messages
    <3> QED
      BY <1>7, <3>1 DEF Store, Types
  <2>3. lock' \in [Chats -> Requests \cup {Nobody}]
    BY <1>7, UnlockedType DEF Store
  <2>4. UNCHANGED <<chats, interactions, logs, chunks, usage, loaded, sequence, found>>
    BY <1>7 DEF Store
  <2> QED
    BY <2>1, <2>2, <2>3, <2>4 DEF Types
<1> QED
  BY <1>1, <1>2, <1>3, <1>4, <1>5, <1>6, <1>7 DEF TurnStep

LEMMA StatusType ==
  ASSUME Types, NEW r \in Requests, NEW status \in {"processing", "completed", "failed"},
         SetStatus(r, status)
  PROVE  logs' \in [Requests -> {"none", "pending", "processing", "completed", "failed"}]
BY DEF Types, SetStatus

LEMMA IngestTypes ==
  ASSUME Types, Bounded, NEW r \in Requests, IngestStep(r)
  PROVE  Types'
<1> USE TransTypes, StatusType DEF tables, locals
<1>1. CASE Accept(r)
  <2>1. PICK c \in Known, f \in Files, next \in Stages \cup Outcomes :
          Begin(r, "upload", c, f) /\ Go(r, next)
    BY <1>1 DEF Accept, Stages, Outcomes
  <2>2. UNCHANGED <<chats, interactions, messages, logs, chunks, usage, lock, loaded, sequence,
                    found>>
    BY <1>1 DEF Accept
  <2> QED
    BY <2>1, <2>2, BeginTypes, KnownAreChats DEF Types
<1>2. CASE InsertLog(r)
  <2>1. logs' \in [Requests -> {"none", "pending", "processing", "completed", "failed"}]
    BY <1>2 DEF InsertLog, Types
  <2> QED
    BY <1>2, <2>1 DEF InsertLog, Types, Stages, Outcomes
<1>3. CASE Start(r)
  BY <1>3 DEF Start, Types, Stages, Outcomes
<1>4. CASE Index(r)
  BY <1>4 DEF Index, Types, Stages
<1>5. CASE Complete(r)
  BY <1>5 DEF Complete, Types, Stages
<1>6. CASE Number(r)
  <2>1. sequence' \in [Requests -> Nat]
    <3>1. LastSequence(chat[r]) + 1 \in Nat
      BY LastNumber
    <3> QED
      BY <1>6, <3>1 DEF Number, Types
  <2> QED
    BY <1>6, <2>1 DEF Number, Types, Stages
<1>7. CASE Note(r)
  <2>1. messages' \subseteq Messages
    <3>1. ASSUME chat[r] \in chats
          PROVE  [chat |-> chat[r], by |-> r, seq |-> sequence[r], role |-> "system"] \in Messages
      BY <3>1 DEF Messages, Types
    <3> QED
      BY <1>7, <3>1 DEF Note, Types
  <2>2. stage' \in [Requests -> Stages \cup Outcomes] /\ UNCHANGED <<kind, chat, about, before>>
    BY <1>7 DEF Note, Stages
  <2>3. UNCHANGED <<chats, interactions, logs, chunks, usage, lock, loaded, sequence, found>>
    BY <1>7 DEF Note
  <2> QED
    BY <2>1, <2>2, <2>3 DEF Types
<1>8. CASE Count(r)
  <2>1. Event("ingest_tokens", r) \in
          [kind : {"query", "chat_create", "ingest_tokens"}, by : Requests]
    BY DEF Event
  <2>2. stage' \in [Requests -> Stages \cup Outcomes] /\ UNCHANGED <<kind, chat, about, before>>
    BY <1>8 DEF Count, Stages, Outcomes
  <2>3. /\ usage' = usage \/ usage' = usage \cup {Event("ingest_tokens", r)}
        /\ UNCHANGED <<chats, interactions, messages, logs, chunks, lock, loaded, sequence, found>>
    BY <1>8 DEF Count
  <2> QED
    BY <2>1, <2>2, <2>3 DEF Types
<1>9. CASE Fail(r)
  BY <1>9 DEF Fail, Types, Outcomes
<1> QED
  BY <1>1, <1>2, <1>3, <1>4, <1>5, <1>6, <1>7, <1>8, <1>9 DEF IngestStep

LEMMA AdminTypes ==
  ASSUME Types, NEW r \in Requests, AdminStep(r)
  PROVE  Types'
<1> USE TransTypes DEF tables, locals
<1>1. CASE Look(r)
  <2>1. PICK title \in Titles, c \in Chats, next \in Stages \cup Outcomes :
          Begin(r, "create", c, title) /\ Go(r, next)
    <3>1. \A title : EmptyChats(title) \subseteq Chats
      BY DEF EmptyChats, Types
    <3>2. r \in Chats
      BY DEF Chats
    <3> QED
      BY <1>1, <3>1, <3>2 DEF Look, Stages, Outcomes
  <2>2. UNCHANGED <<chats, interactions, messages, logs, chunks, usage, lock, loaded, sequence,
                    found>>
    BY <1>1 DEF Look
  <2> QED
    BY <2>1, <2>2, BeginTypes DEF Types
<1>2. CASE Create(r)
  BY <1>2 DEF Create, Types, Stages, Chats
<1>3. CASE RecordCreate(r)
  <2>1. Event("chat_create", r) \in
          [kind : {"query", "chat_create", "ingest_tokens"}, by : Requests]
    BY DEF Event
  <2>2. stage' \in [Requests -> Stages \cup Outcomes] /\ UNCHANGED <<kind, chat, about, before>>
    BY <1>3 DEF RecordCreate, Outcomes
  <2>3. /\ usage' = usage \cup {Event("chat_create", r)}
        /\ UNCHANGED <<chats, interactions, messages, logs, chunks, lock, loaded, sequence, found>>
    BY <1>3 DEF RecordCreate
  <2> QED
    BY <2>1, <2>2, <2>3 DEF Types
<1>4. CASE Clear(r)
  <2>1. PICK k \in {"delete", "purge"}, c \in Chats \cup {Nobody},
             next \in Stages \cup Outcomes, rows \in SUBSET Rows :
          /\ Begin(r, k, c, Nobody) /\ Go(r, next)
          /\ found' = [found EXCEPT ![r] = rows]
    <3>1. \A c : Deleted(c) \subseteq Rows
      BY ChildrenAreRows
    <3>2. CASE \E c \in Known :
                 /\ Begin(r, "delete", c, Nobody)
                 /\ Go(r, IF c \in chats THEN "deleting" ELSE "missing")
                 /\ found' = [found EXCEPT ![r] = Deleted(c)]
      BY <3>1, <3>2, KnownAreChats DEF Stages, Outcomes
    <3>3. CASE /\ Begin(r, "purge", Nobody, Nobody)
               /\ Go(r, "deleting")
               /\ found' = [found EXCEPT ![r] =
                              (UNION {Deleted(c) : c \in chats})
                                \cup {<<"chat", c>> : c \in chats}]
      <4>1. (UNION {Deleted(c) : c \in chats}) \cup {<<"chat", c>> : c \in chats} \subseteq Rows
        <5>1. {"chat"} \X Chats \subseteq Rows
          BY DEF Rows
        <5>2. \A c \in chats : <<"chat", c>> \in {"chat"} \X Chats
          BY DEF Types
        <5>3. {<<"chat", c>> : c \in chats} \subseteq Rows
          BY <5>1, <5>2
        <5>4. UNION {Deleted(c) : c \in chats} \subseteq Rows
          BY <3>1
        <5> QED
          BY <5>3, <5>4
      <4> QED
        BY <3>3, <4>1 DEF Stages
    <3> QED
      BY <1>4, <3>2, <3>3 DEF Clear
  <2>2. UNCHANGED <<chats, interactions, messages, logs, chunks, usage, lock, loaded, sequence>>
    BY <1>4 DEF Clear
  <2>3. found' \in [Requests -> SUBSET Rows]
    BY <2>1 DEF Types
  <2> QED
    BY <2>1, <2>2, <2>3, BeginTypes DEF Types
<1>5. CASE Delete(r)
  <2>1. stage' \in [Requests -> Stages \cup Outcomes] /\ UNCHANGED <<kind, chat, about, before>>
    BY <1>5 DEF Delete, AfterDelete, Stages, Outcomes
  <2>2. /\ chats' \subseteq chats /\ interactions' \subseteq interactions
        /\ messages' \subseteq messages /\ chunks' \subseteq chunks
        /\ UNCHANGED <<usage, lock, loaded, sequence, found>>
    BY <1>5 DEF Delete
  <2>3. logs' \in [Requests -> {"none", "pending", "processing", "completed", "failed"}]
    BY <1>5 DEF Delete, Types
  <2> QED
    BY <2>1, <2>2, <2>3 DEF Types
<1>6. CASE Wipe(r)
  BY <1>6 DEF Wipe, Types, Outcomes
<1> QED
  BY <1>1, <1>2, <1>3, <1>4, <1>5, <1>6 DEF AdminStep

LEMMA TypesStep ==
  ASSUME Types, Bounded, [Next]_vars
  PROVE  Types'
<1>1. CASE UNCHANGED vars
  BY <1>1 DEF vars, tables, inputs, locals, Types
<1>2. ASSUME NEW r \in Requests, Crash(r)
      PROVE  Types'
  BY <1>2, TransTypes, UnlockedType DEF Crash, Types, locals, Outcomes
<1> QED
  BY <1>1, <1>2, TurnTypes, IngestTypes, AdminTypes DEF Next, Work, Finished


-----------------------------------------------------------------------------
(* What a step of request r changes *)

Same(f, g, r) == \A q \in Requests \ {r} : g[q] = f[q]

Moved(r, here, next) ==
  /\ stage[r] = here /\ stage'[r] = next /\ Same(stage, stage', r)
  /\ UNCHANGED <<kind, chat, about, before>>

Begins(r) ==
  /\ stage[r] = "new" /\ Same(stage, stage', r)
  /\ Same(kind, kind', r) /\ Same(chat, chat', r) /\ Same(about, about', r)
  /\ before'[r] = {s \in Requests : Ended(s)} /\ Same(before, before', r)
  /\ Same(found, found', r)
  /\ UNCHANGED <<chats, interactions, messages, logs, chunks, usage, lock, loaded, sequence>>

TurnBegins(r) ==
  /\ Begins(r) /\ kind'[r] \in {"query", "stream"} /\ chat'[r] \in Chats
  /\ stage'[r] \in {"refused", "missing", "loading", "charging"}
  /\ stage'[r] \in {"loading", "charging"} => Used("query") < MaxQueries
  /\ stage'[r] = "charging" => kind'[r] = "stream"

UploadBegins(r) ==
  /\ Begins(r) /\ kind'[r] = "upload" /\ chat'[r] \in Chats
  /\ stage'[r] \in {"refused", "missing", "inserting", "reused", "ambiguous"}
  /\ stage'[r] = "inserting" =>
       Used("ingest_tokens") < MaxTokens /\ Duplicates(chat'[r], about'[r]) = {}

CreationBegins(r) ==
  /\ Begins(r) /\ kind'[r] = "create" /\ chat'[r] \in Chats
  /\ stage'[r] \in {"refused", "reused", "creating"}
  /\ stage'[r] = "creating" =>
       Used("chat_create") < MaxCreates /\ Cardinality(chats) < MaxChats

DeletionBegins(r) ==
  /\ Begins(r)
  /\ \/ /\ kind'[r] = "delete" /\ chat'[r] \in Chats
        /\ stage'[r] \in {"missing", "deleting"} /\ found'[r] = Deleted(chat'[r])
     \/ /\ kind'[r] = "purge" /\ stage'[r] = "deleting"
        /\ found'[r] = (UNION {Deleted(c) : c \in chats}) \cup {<<"chat", c>> : c \in chats}

Unlocks(r) == \A c \in Chats : lock'[c] = IF lock[c] = r THEN Nobody ELSE lock[c]

\* Nothing is written.
Idles(r, here, next) ==
  /\ Moved(r, here, next) /\ Unlocks(r)
  /\ \/ next = "lost" /\ here \notin Outcomes \cup {"new"}
     \/ here = "running" /\ next \in {"logging", "failed"}
     \/ here \in {"logging", "inserting", "starting", "storing"} /\ next = "failed"
     \/ here \in {"indexing", "completing", "noting", "counting"} /\ next = "failing"
     \/ here = "deleting" /\ next = "failed" /\ Late(r) # {}
  /\ UNCHANGED <<chats, interactions, messages, logs, chunks, usage, loaded, sequence, found>>

Charges(r, k, here, next) ==
  /\ Moved(r, here, next) /\ Owes(k, r)
  /\ \/ here = "charging" /\ next = "running" /\ kind[r] = "query"
     \/ here = "charging" /\ next = "loading" /\ kind[r] # "query"
     \/ here \in {"recording", "counting"} /\ next = "done"
  /\ usage' = usage \cup {Event(k, r)}
  /\ UNCHANGED <<chats, interactions, messages, logs, chunks, lock, loaded, sequence, found>>

Loads(r, next) ==
  /\ Moved(r, "loading", next)
  /\ \/ next = "charging" /\ kind[r] = "query"
     \/ next \in {"running", "failed"} /\ kind[r] = "stream"
  /\ loaded'[r] = LoadedMemory(chat[r]) /\ Same(loaded, loaded', r)
  /\ UNCHANGED <<chats, interactions, messages, logs, chunks, usage, lock, sequence, found>>

Logs(r) ==
  /\ Moved(r, "logging", "locking") /\ chat[r] \in chats
  /\ interactions' = interactions \cup {Row(r)}
  /\ UNCHANGED <<chats, messages, logs, chunks, usage, lock, loaded, sequence, found>>

Takes(r) ==
  /\ Moved(r, "locking", "storing") /\ lock[chat[r]] = Nobody
  /\ chat[r] \in Chats => lock'[chat[r]] = r
  /\ \A c \in Chats : c # chat[r] => lock'[c] = lock[c]
  /\ sequence'[r] = LastSequence(chat[r]) + 1 /\ Same(sequence, sequence', r)
  /\ UNCHANGED <<chats, interactions, messages, logs, chunks, usage, loaded, found>>

Stores(r) ==
  /\ Moved(r, "storing", "done") /\ chat[r] \in chats
  /\ messages' = messages \cup Pair(r) /\ Unlocks(r)
  /\ UNCHANGED <<chats, interactions, logs, chunks, usage, loaded, sequence, found>>

Inserts(r) ==
  /\ \E next \in {"starting", "failed"} : Moved(r, "inserting", next)
  /\ chat[r] \in chats
  /\ logs'[r] = "pending" /\ Same(logs, logs', r)
  /\ UNCHANGED <<chats, interactions, messages, chunks, usage, lock, loaded, sequence, found>>

Reports(r, here, next, status) ==
  /\ Moved(r, here, next)
  /\ \/ here = "starting" /\ next = "indexing" /\ status = "processing"
     \/ here = "completing" /\ next = "numbering" /\ status = "completed"
     \/ here = "failing" /\ next = "failed" /\ status = "failed"
  /\ logs'[r] = IF logs[r] = "none" THEN "none" ELSE status
  /\ Same(logs, logs', r)
  /\ UNCHANGED <<chats, interactions, messages, chunks, usage, lock, loaded, sequence, found>>

Indexes(r) ==
  /\ Moved(r, "indexing", "completing") /\ chat[r] \in chats
  /\ chunks' = chunks \cup {r}
  /\ UNCHANGED <<chats, interactions, messages, logs, usage, lock, loaded, sequence, found>>

NumbersIt(r) ==
  /\ Moved(r, "numbering", "noting") /\ Same(sequence, sequence', r)
  /\ UNCHANGED <<chats, interactions, messages, logs, chunks, usage, lock, loaded, found>>

Notes(r) ==
  /\ Moved(r, "noting", "counting") /\ chat[r] \in chats
  /\ messages' = messages \cup
       {[chat |-> chat[r], by |-> r, seq |-> sequence[r], role |-> "system"]}
  /\ UNCHANGED <<chats, interactions, logs, chunks, usage, lock, loaded, sequence, found>>

Makes(r) ==
  /\ Moved(r, "creating", "recording")
  /\ chats' = chats \cup {r}
  /\ UNCHANGED <<interactions, messages, logs, chunks, usage, lock, loaded, sequence, found>>

Removes(r, next) ==
  /\ Moved(r, "deleting", next)
  /\ IF kind[r] = "purge" THEN next = "wiping" ELSE next = "done"
  /\ chats' = chats \ Cleared(r)
  /\ interactions' = {i \in interactions : i.chat \notin Cleared(r)}
  /\ messages' = {m \in messages : m.chat \notin Cleared(r)}
  /\ \A s \in Requests : logs'[s] = IF chat[s] \in Cleared(r) THEN "none" ELSE logs[s]
  /\ chunks' = {s \in chunks : chat[s] \notin Cleared(r)}
  /\ UNCHANGED <<usage, lock, loaded, sequence, found>>

Wipes(r) ==
  /\ Moved(r, "wiping", "done")
  /\ chunks' = {}
  /\ UNCHANGED <<chats, interactions, messages, logs, usage, lock, loaded, sequence, found>>

Step(r) ==
  \/ TurnBegins(r)
  \/ UploadBegins(r)
  \/ CreationBegins(r)
  \/ DeletionBegins(r)
  \/ \E here, next \in Stages \cup Outcomes : Idles(r, here, next)
  \/ \E k \in Quotas, here, next \in Stages \cup Outcomes : Charges(r, k, here, next)
  \/ \E next \in Stages \cup Outcomes : Loads(r, next)
  \/ Logs(r)
  \/ Takes(r)
  \/ Stores(r)
  \/ Inserts(r)
  \/ \E here, next \in Stages \cup Outcomes, status \in {"processing", "completed", "failed"} :
       Reports(r, here, next, status)
  \/ Indexes(r)
  \/ NumbersIt(r)
  \/ Notes(r)
  \/ Makes(r)
  \/ \E next \in Stages \cup Outcomes : Removes(r, next)
  \/ Wipes(r)

LEMMA Moves ==
  ASSUME Types, NEW r \in Requests, NEW here, NEW next, Trans(r, here, next)
  PROVE  Moved(r, here, next)
BY DEF Types, Trans, Go, Moved, Same, inputs

LEMMA Starts ==
  ASSUME Types, NEW r \in Requests, NEW k, NEW c, NEW a, NEW next,
         Begin(r, k, c, a), Go(r, next), Same(found, found', r),
         UNCHANGED <<tables, loaded, sequence>>
  PROVE  /\ Begins(r) /\ stage'[r] = next /\ kind'[r] = k /\ chat'[r] = c /\ about'[r] = a
<1>1. stage[r] = "new" /\ stage'[r] = next /\ Same(stage, stage', r)
  BY DEF Types, Begin, Go, Same
<1>2. /\ kind'[r] = k /\ Same(kind, kind', r)
      /\ chat'[r] = c /\ Same(chat, chat', r)
      /\ about'[r] = a /\ Same(about, about', r)
  BY DEF Types, Begin, Same
<1>3. before'[r] = {s \in Requests : Ended(s)} /\ Same(before, before', r)
  BY DEF Types, Begin, Same
<1> QED
  BY <1>1, <1>2, <1>3 DEF Begins, tables

\* Who is not storing has no lock.
LEMMA NothingLocked ==
  ASSUME Types, Owners, NEW r \in Requests, stage[r] # "storing",
         lock' = lock
  PROVE  Unlocks(r)
BY ChatAssumption DEF Owners, Unlocks, Types

LEMMA Unlocking ==
  ASSUME NEW r, lock' = Unlocked(r)
  PROVE  Unlocks(r)
BY DEF Unlocked, Unlocks


LEMMA UsedIsNumber ==
  ASSUME Bounded, NEW k
  PROVE  IsFiniteSet({e \in usage : e.kind = k}) /\ Used(k) \in Nat
<1>1. {e \in usage : e.kind = k} \in SUBSET usage /\ IsFiniteSet(usage)
  BY DEF Bounded
<1>2. IsFiniteSet({e \in usage : e.kind = k})
  BY <1>1, FS_Subset
<1> QED
  BY <1>2, FS_CardinalityType DEF Used

LEMMA TurnSteps ==
  ASSUME Types, Owners, Roles, Bounded, NEW r \in Requests, TurnStep(r)
  PROVE  Step(r)
<1> USE Moves DEF tables, locals
<1>1. CASE Admit(r)
  <2>1. PICK k \in {"query", "stream"}, c \in Known :
          /\ Begin(r, k, c, Nobody)
          /\ Go(r, IF QueryRefused THEN "refused"
                   ELSE IF c \notin chats THEN "missing"
                   ELSE IF k = "query" THEN "loading" ELSE "charging")
    BY <1>1 DEF Admit
  <2>2. UNCHANGED <<tables, loaded, sequence, found>>
    BY <1>1 DEF Admit
  <2>3. Same(found, found', r)
    BY <2>2 DEF Same
  <2>4. Begins(r) /\ kind'[r] = k /\ chat'[r] = c
    BY <2>1, <2>2, <2>3, Starts
  <2>5. stage'[r] = IF QueryRefused THEN "refused"
                    ELSE IF c \notin chats THEN "missing"
                    ELSE IF k = "query" THEN "loading" ELSE "charging"
    BY <2>1 DEF Go, Types
  <2>6. ~QueryRefused => Used("query") < MaxQueries
    <3>1. Used("query") \in Nat /\ MaxQueries \in Nat
      BY UsedIsNumber, ChatAssumption
    <3> QED
      BY <3>1 DEF QueryRefused
  <2>7. TurnBegins(r)
    BY <2>4, <2>5, <2>6, KnownAreChats DEF TurnBegins
  <2> QED
    BY <2>7 DEF Step
<1>2. CASE Charge(r)
  <2>1. Charges(r, "query", "charging", IF kind[r] = "query" THEN "running" ELSE "loading")
    BY <1>2 DEF Charge, Charges, Trans, Owes
  <2> QED
    BY <2>1 DEF Step, Quotas, Stages
<1>3. CASE Load(r)
  <2>1. loaded'[r] = LoadedMemory(chat[r]) /\ Same(loaded, loaded', r)
    BY <1>3 DEF Load, Same, Types
  <2>2. PICK next \in {"failed", "charging", "running"} :
          /\ Trans(r, "loading", next)
          /\ next = "charging" => kind[r] = "query"
          /\ next = "failed" => kind[r] = "stream"
          /\ next = "running" => kind[r] # "query"
    BY <1>3 DEF Load
  <2>3. kind[r] \in {"query", "stream"}
    BY <2>2 DEF Roles, Trans
  <2>4. Loads(r, next)
    BY <1>3, <2>1, <2>2, <2>3 DEF Load, Loads
  <2> QED
    BY <2>4 DEF Step, Stages, Outcomes
<1>4. CASE GraphEnds(r)
  <2>1. Idles(r, "running", "logging")
    BY <1>4, NothingLocked DEF GraphEnds, Idles, Trans
  <2> QED
    BY <2>1 DEF Step, Stages
<1>5. CASE GraphFails(r)
  <2>1. Idles(r, "running", "failed")
    BY <1>5, NothingLocked DEF GraphFails, Idles, Trans
  <2> QED
    BY <2>1 DEF Step, Stages, Outcomes
<1>6. CASE Log(r)
  <2>1. ASSUME chat[r] \in chats, Trans(r, "logging", "locking"),
               interactions' = interactions \cup {Row(r)}
        PROVE  Logs(r)
    BY <1>6, <2>1 DEF Log, Logs
  <2>2. ASSUME Trans(r, "logging", "failed"), interactions' = interactions
        PROVE  Idles(r, "logging", "failed")
    <3>1. Unlocks(r)
      BY <1>6, <2>2, NothingLocked DEF Log, Trans
    <3> QED
      BY <1>6, <2>2, <3>1 DEF Log, Idles
  <2> QED
    BY <1>6, <2>1, <2>2 DEF Log, Step, Stages, Outcomes
<1>7. CASE Lock(r)
  <2>1. /\ chat[r] \in Chats => lock'[chat[r]] = r
        /\ \A c \in Chats : c # chat[r] => lock'[c] = lock[c]
        /\ sequence'[r] = LastSequence(chat[r]) + 1 /\ Same(sequence, sequence', r)
    BY <1>7 DEF Lock, Same, Types
  <2>2. Takes(r)
    BY <1>7, <2>1 DEF Lock, Takes
  <2> QED
    BY <2>2 DEF Step
<1>8. CASE Store(r)
  <2>1. Unlocks(r)
    BY <1>8, Unlocking DEF Store
  <2>2. ASSUME chat[r] \in chats, messages' = messages \cup Pair(r), Trans(r, "storing", "done")
        PROVE  Stores(r)
    BY <1>8, <2>1, <2>2 DEF Store, Stores
  <2>3. ASSUME messages' = messages, Trans(r, "storing", "failed")
        PROVE  Idles(r, "storing", "failed")
    BY <1>8, <2>1, <2>3 DEF Store, Idles
  <2> QED
    BY <1>8, <2>2, <2>3 DEF Store, Step, Stages, Outcomes
<1> QED
  BY <1>1, <1>2, <1>3, <1>4, <1>5, <1>6, <1>7, <1>8 DEF TurnStep

LEMMA NoDuplicates ==
  ASSUME NEW c, NEW f, Cardinality(Duplicates(c, f)) = 0
  PROVE  Duplicates(c, f) = {}
<1>1. Duplicates(c, f) \in SUBSET Requests
  BY DEF Duplicates
<1>2. IsFiniteSet(Duplicates(c, f))
  BY <1>1, ChatAssumption, FS_Subset
<1> QED
  BY <1>2, FS_EmptySet

LEMMA IngestSteps ==
  ASSUME Types, Owners, Bounded, NEW r \in Requests, IngestStep(r)
  PROVE  Step(r)
<1> USE Moves DEF tables, locals
<1>1. CASE Accept(r)
  <2>1. PICK c \in Known, f \in Files, next \in {"missing", "refused", "inserting", "reused",
                                                  "ambiguous"} :
          /\ Begin(r, "upload", c, f) /\ Go(r, next)
          /\ next = "inserting" => ~IngestRefused /\ Cardinality(Duplicates(c, f)) = 0
    <3>1. PICK c \in Known, f \in Files :
          /\ Begin(r, "upload", c, f)
          /\ \/ c \notin chats /\ Go(r, "missing")
             \/ c \in chats /\ Go(r, "refused")
             \/ /\ c \in chats /\ ~IngestRefused
                /\ Go(r, CASE Cardinality(Duplicates(c, f)) = 0 -> "inserting"
                           [] Cardinality(Duplicates(c, f)) = 1 -> "reused"
                           [] OTHER                             -> "ambiguous")
      BY <1>1 DEF Accept
    <3>2. CASE Go(r, "missing") \/ Go(r, "refused")
      BY <3>1, <3>2
    <3>3. CASE /\ ~IngestRefused
               /\ Go(r, CASE Cardinality(Duplicates(c, f)) = 0 -> "inserting"
                          [] Cardinality(Duplicates(c, f)) = 1 -> "reused"
                          [] OTHER                             -> "ambiguous")
      <4>1. CASE Cardinality(Duplicates(c, f)) = 0
        <5>1. Go(r, "inserting")
          BY <3>3, <4>1
        <5> QED
          BY <3>1, <3>3, <4>1, <5>1
      <4>2. CASE Cardinality(Duplicates(c, f)) # 0
        <5>1. Go(r, "reused") \/ Go(r, "ambiguous")
          BY <3>3, <4>2
        <5> QED
          BY <3>1, <5>1
      <4> QED
        BY <4>1, <4>2
    <3> QED
      BY <3>1, <3>2, <3>3
  <2>2. UNCHANGED <<tables, loaded, sequence, found>>
    BY <1>1 DEF Accept
  <2>3. Same(found, found', r)
    BY <2>2 DEF Same
  <2>4. Begins(r) /\ kind'[r] = "upload" /\ chat'[r] = c /\ about'[r] = f /\ stage'[r] = next
    BY <2>1, <2>2, <2>3, Starts
  <2>5. next = "inserting" => Used("ingest_tokens") < MaxTokens /\ Duplicates(c, f) = {}
    <3>1. Used("ingest_tokens") \in Nat /\ MaxTokens \in Nat
      BY UsedIsNumber, ChatAssumption
    <3>2. ~IngestRefused => Used("ingest_tokens") < MaxTokens
      BY <3>1 DEF IngestRefused
    <3> QED
      BY <2>1, <3>2, NoDuplicates
  <2>6. UploadBegins(r)
    BY <2>1, <2>4, <2>5, KnownAreChats DEF UploadBegins
  <2> QED
    BY <2>6 DEF Step
<1>2. CASE InsertLog(r)
  <2>1. ASSUME chat[r] \in chats, NEW next \in {"starting", "failed"},
               Trans(r, "inserting", next), logs' = [logs EXCEPT ![r] = "pending"]
        PROVE  Inserts(r)
    <3>1. logs'[r] = "pending" /\ Same(logs, logs', r)
      BY <2>1 DEF Types, Same
    <3> QED
      BY <1>2, <2>1, <3>1 DEF InsertLog, Inserts
  <2>2. ASSUME Trans(r, "inserting", "failed"), logs' = logs
        PROVE  Idles(r, "inserting", "failed")
    <3>1. Unlocks(r)
      BY <1>2, <2>2, NothingLocked DEF InsertLog, Trans
    <3> QED
      BY <1>2, <2>2, <3>1 DEF InsertLog, Idles
  <2> QED
    BY <1>2, <2>1, <2>2 DEF InsertLog, Step, Stages, Outcomes
<1>3. ASSUME NEW status \in {"processing", "completed", "failed"}, SetStatus(r, status)
      PROVE  /\ logs'[r] = IF logs[r] = "none" THEN "none" ELSE status
             /\ Same(logs, logs', r)
  BY <1>3 DEF SetStatus, Types, Same
<1>4. CASE Start(r)
  <2>1. ASSUME Trans(r, "starting", "indexing"), SetStatus(r, "processing")
        PROVE  Reports(r, "starting", "indexing", "processing")
    BY <1>3, <1>4, <2>1 DEF Start, Reports
  <2>2. ASSUME Trans(r, "starting", "failed"), logs' = logs
        PROVE  Idles(r, "starting", "failed")
    <3>1. Unlocks(r)
      BY <1>4, <2>2, NothingLocked DEF Start, Trans
    <3> QED
      BY <1>4, <2>2, <3>1 DEF Start, Idles
  <2> QED
    BY <1>4, <2>1, <2>2 DEF Start, Step, Stages, Outcomes
<1>5. CASE Index(r)
  <2>1. CASE Trans(r, "indexing", "completing")
    <3>1. stage'[r] = "completing"
      BY <2>1 DEF Trans, Go, Types
    <3>2. ~Trans(r, "indexing", "failing")
      BY <3>1 DEF Trans, Go, Types
    <3>3. Indexes(r)
      BY <1>5, <2>1, <3>2 DEF Index, Indexes
    <3> QED
      BY <3>3 DEF Step
  <2>2. CASE Trans(r, "indexing", "failing") /\ chunks' = chunks
    <3>1. Unlocks(r)
      BY <1>5, <2>2, NothingLocked DEF Index, Trans
    <3>2. Idles(r, "indexing", "failing")
      BY <1>5, <2>2, <3>1 DEF Index, Idles
    <3> QED
      BY <3>2 DEF Step, Stages
  <2> QED
    BY <1>5, <2>1, <2>2 DEF Index
<1>6. CASE Complete(r)
  <2>1. ASSUME Trans(r, "completing", "numbering"), SetStatus(r, "completed")
        PROVE  Reports(r, "completing", "numbering", "completed")
    BY <1>3, <1>6, <2>1 DEF Complete, Reports
  <2>2. ASSUME Trans(r, "completing", "failing"), logs' = logs
        PROVE  Idles(r, "completing", "failing")
    <3>1. Unlocks(r)
      BY <1>6, <2>2, NothingLocked DEF Complete, Trans
    <3> QED
      BY <1>6, <2>2, <3>1 DEF Complete, Idles
  <2> QED
    BY <1>6, <2>1, <2>2 DEF Complete, Step, Stages, Outcomes
<1>7. CASE Number(r)
  <2>1. Same(sequence, sequence', r)
    BY <1>7 DEF Number, Types, Same
  <2>2. NumbersIt(r)
    BY <1>7, <2>1 DEF Number, NumbersIt
  <2> QED
    BY <2>2 DEF Step
<1>8. CASE Note(r)
  <2>1. ASSUME chat[r] \in chats, Trans(r, "noting", "counting"),
               messages' = messages \cup
                 {[chat |-> chat[r], by |-> r, seq |-> sequence[r], role |-> "system"]}
        PROVE  Notes(r)
    BY <1>8, <2>1 DEF Note, Notes
  <2>2. ASSUME Trans(r, "noting", "failing"), messages' = messages
        PROVE  Idles(r, "noting", "failing")
    <3>1. Unlocks(r)
      BY <1>8, <2>2, NothingLocked DEF Note, Trans
    <3> QED
      BY <1>8, <2>2, <3>1 DEF Note, Idles
  <2> QED
    BY <1>8, <2>1, <2>2 DEF Note, Step, Stages
<1>9. CASE Count(r)
  <2>1. ASSUME Trans(r, "counting", "done"), usage' = usage \cup {Event("ingest_tokens", r)}
        PROVE  Charges(r, "ingest_tokens", "counting", "done")
    BY <1>9, <2>1 DEF Count, Charges, Trans, Owes
  <2>2. ASSUME Trans(r, "counting", "failing"), usage' = usage
        PROVE  Idles(r, "counting", "failing")
    <3>1. Unlocks(r)
      BY <1>9, <2>2, NothingLocked DEF Count, Trans
    <3> QED
      BY <1>9, <2>2, <3>1 DEF Count, Idles
  <2> QED
    BY <1>9, <2>1, <2>2 DEF Count, Step, Stages, Outcomes, Quotas
<1>10. CASE Fail(r)
  <2>1. Reports(r, "failing", "failed", "failed")
    BY <1>3, <1>10 DEF Fail, Reports
  <2> QED
    BY <2>1 DEF Step, Stages, Outcomes
<1> QED
  BY <1>1, <1>2, <1>4, <1>5, <1>6, <1>7, <1>8, <1>9, <1>10 DEF IngestStep

LEMMA AdminSteps ==
  ASSUME Types, Owners, Bounded, Roles, NEW r \in Requests, AdminStep(r)
  PROVE  Step(r)
<1> USE Moves DEF tables, locals
<1>1. CASE Look(r)
  <2>1. PICK c \in Chats, title \in Titles, next \in {"reused", "refused", "creating"} :
          /\ Begin(r, "create", c, title) /\ Go(r, next)
          /\ next = "creating" =>
               ~(Cardinality(chats) >= MaxChats) /\ ~(Used("chat_create") >= MaxCreates)
    <3>1. \A title : EmptyChats(title) \subseteq Chats
      BY DEF EmptyChats, Types
    <3>2. r \in Chats
      BY DEF Chats
    <3> QED
      BY <1>1, <3>1, <3>2 DEF Look
  <2>2. UNCHANGED <<tables, loaded, sequence, found>>
    BY <1>1 DEF Look
  <2>3. Same(found, found', r)
    BY <2>2 DEF Same
  <2>4. Begins(r) /\ kind'[r] = "create" /\ chat'[r] = c /\ stage'[r] = next
    BY <2>1, <2>2, <2>3, Starts
  <2>5. next = "creating" => Used("chat_create") < MaxCreates /\ Cardinality(chats) < MaxChats
    <3>1. Used("chat_create") \in Nat /\ MaxCreates \in Nat /\ MaxChats \in Nat
      BY UsedIsNumber, ChatAssumption
    <3>2. Cardinality(chats) \in Nat
      BY FS_CardinalityType DEF Bounded
    <3> QED
      BY <2>1, <3>1, <3>2
  <2>6. CreationBegins(r)
    BY <2>1, <2>4, <2>5 DEF CreationBegins
  <2> QED
    BY <2>6 DEF Step
<1>2. CASE Create(r)
  <2>1. Makes(r)
    BY <1>2 DEF Create, Makes
  <2> QED
    BY <2>1 DEF Step
<1>3. CASE RecordCreate(r)
  <2>1. Charges(r, "chat_create", "recording", "done")
    BY <1>3 DEF RecordCreate, Charges, Trans, Owes
  <2> QED
    BY <2>1 DEF Step, Stages, Outcomes, Quotas
<1>4. CASE Clear(r)
  <2>1. UNCHANGED <<tables, loaded, sequence>>
    BY <1>4 DEF Clear
  <2>2. ASSUME NEW rows, found' = [found EXCEPT ![r] = rows]
        PROVE  found'[r] = rows /\ Same(found, found', r)
    BY <2>2 DEF Types, Same
  <2>3. CASE \E c \in Known :
               /\ Begin(r, "delete", c, Nobody)
               /\ Go(r, IF c \in chats THEN "deleting" ELSE "missing")
               /\ found' = [found EXCEPT ![r] = Deleted(c)]
    <3>1. PICK c \in Known, next \in {"deleting", "missing"} :
               /\ Begin(r, "delete", c, Nobody) /\ Go(r, next)
               /\ found' = [found EXCEPT ![r] = Deleted(c)]
      BY <2>3
    <3>2. Begins(r) /\ stage'[r] = next /\ kind'[r] = "delete" /\ chat'[r] = c
      BY <2>1, <2>2, <3>1, Starts
    <3>3. found'[r] = Deleted(chat'[r])
      BY <2>2, <3>1, <3>2
    <3>4. DeletionBegins(r)
      BY <3>1, <3>2, <3>3, KnownAreChats DEF DeletionBegins
    <3> QED
      BY <3>4 DEF Step
  <2>4. CASE /\ Begin(r, "purge", Nobody, Nobody) /\ Go(r, "deleting")
             /\ found' = [found EXCEPT ![r] = (UNION {Deleted(c) : c \in chats})
                                                \cup {<<"chat", c>> : c \in chats}]
    <3>1. Begins(r) /\ stage'[r] = "deleting" /\ kind'[r] = "purge"
      BY <2>1, <2>2, <2>4, Starts
    <3>2. found'[r] = (UNION {Deleted(c) : c \in chats}) \cup {<<"chat", c>> : c \in chats}
      BY <2>2, <2>4
    <3>3. DeletionBegins(r)
      BY <3>1, <3>2 DEF DeletionBegins
    <3> QED
      BY <3>3 DEF Step
  <2> QED
    BY <1>4, <2>3, <2>4 DEF Clear
<1>5. CASE Delete(r)
  <2>1. CASE Trans(r, "deleting", "failed") /\ Late(r) # {} /\ UNCHANGED <<tables, locals>>
    <3>1. Unlocks(r)
      BY <2>1, NothingLocked DEF Trans
    <3>2. Idles(r, "deleting", "failed")
      BY <2>1, <3>1 DEF Idles
    <3> QED
      BY <3>2 DEF Step, Stages, Outcomes
  <2>2. CASE /\ Trans(r, "deleting", AfterDelete(r))
             /\ chats' = chats \ Cleared(r)
             /\ interactions' = {i \in interactions : i.chat \notin Cleared(r)}
             /\ messages' = {m \in messages : m.chat \notin Cleared(r)}
             /\ logs' = [s \in Requests |-> IF chat[s] \in Cleared(r) THEN "none" ELSE logs[s]]
             /\ chunks' = {s \in chunks : chat[s] \notin Cleared(r)}
             /\ UNCHANGED <<usage, lock, locals>>
    <3>1. \A s \in Requests : logs'[s] = IF chat[s] \in Cleared(r) THEN "none" ELSE logs[s]
      BY <2>2
    <3>2. Removes(r, AfterDelete(r))
      BY <2>2, <3>1 DEF Removes, AfterDelete
    <3> QED
      BY <3>2 DEF Step, Stages, Outcomes, AfterDelete
  <2> QED
    BY <1>5, <2>1, <2>2 DEF Delete
<1>6. CASE Wipe(r)
  <2>1. Wipes(r)
    BY <1>6 DEF Wipe, Wipes
  <2> QED
    BY <2>1 DEF Step
<1> QED
  BY <1>1, <1>2, <1>3, <1>4, <1>5, <1>6 DEF AdminStep

LEMMA Steps ==
  ASSUME Types, Owners, Bounded, Roles, [Next]_vars
  PROVE  (\E r \in Requests : Step(r)) \/ UNCHANGED vars
<1>1. ASSUME NEW r \in Requests, Crash(r)
      PROVE  Step(r)
  <2>1. Moved(r, stage[r], "lost") /\ Unlocks(r)
    BY <1>1, Moves, Unlocking DEF Crash
  <2>2. stage[r] \in Stages \cup Outcomes /\ "lost" \in Stages \cup Outcomes
    BY DEF Types, Outcomes
  <2>3. Idles(r, stage[r], "lost")
    BY <1>1, <2>1 DEF Crash, Active, Idles, locals
  <2> QED
    BY <2>2, <2>3 DEF Step
<1> QED
  BY <1>1, TurnSteps, IngestSteps, AdminSteps DEF Next, Work, Finished

-----------------------------------------------------------------------------
(* What stays as it is *)

\* All that a step can be.
LEMMA Frame ==
  ASSUME NEW r \in Requests, Step(r)
  PROVE  /\ \/ Begins(r)
            \/ \E here \in (Stages \cup Outcomes) \ (Outcomes \cup {"new"}),
                  next \in Stages \cup Outcomes : next # "new" /\ Moved(r, here, next)
         /\ chats' = chats \/ Makes(r) \/ \E next : Removes(r, next)
         /\ \/ interactions' = interactions
            \/ Logs(r)
            \/ \E next : Removes(r, next)
         /\ \/ messages' = messages \/ Notes(r)
            \/ Stores(r)
            \/ \E next : Removes(r, next)
         /\ \/ logs' = logs \/ Inserts(r)
            \/ \E here, next, status : Reports(r, here, next, status)
            \/ \E next : Removes(r, next)
         /\ chunks' = chunks \/ Indexes(r) \/ Wipes(r) \/ \E next : Removes(r, next)
         /\ usage' = usage \/ \E k \in Quotas : \E here, next : Charges(r, k, here, next)
         /\ \/ \A c \in Chats : lock'[c] = lock[c]
            \/ Unlocks(r)
            \/ Takes(r)
         /\ loaded' = loaded \/ \E next : Loads(r, next)
         /\ Same(sequence, sequence', r)
         /\ Same(found, found', r)
<1>1. CASE TurnBegins(r) \/ UploadBegins(r) \/ CreationBegins(r) \/ DeletionBegins(r)
  BY <1>1 DEF TurnBegins, UploadBegins, CreationBegins, DeletionBegins, Begins, Same
<1>2. ASSUME NEW here \in Stages \cup Outcomes, NEW next \in Stages \cup Outcomes,
             Idles(r, here, next)
      PROVE  /\ here \notin Outcomes \cup {"new"} /\ next # "new" /\ Moved(r, here, next)
             /\ Unlocks(r)
             /\ UNCHANGED <<chats, interactions, messages, logs, chunks, usage, loaded, sequence,
                            found>>
  BY <1>2 DEF Idles, Outcomes
<1>3. CASE \E here, next \in Stages \cup Outcomes : Idles(r, here, next)
  BY <1>2, <1>3 DEF Same
<1>4. CASE \E k \in Quotas, here, next \in Stages \cup Outcomes : Charges(r, k, here, next)
  BY <1>4 DEF Charges, Same, Outcomes
<1>5. CASE \E next \in Stages \cup Outcomes : Loads(r, next)
  BY <1>5 DEF Loads, Same, Stages, Outcomes
<1>6. CASE Logs(r)
  BY <1>6 DEF Logs, Moved, Same, Stages, Outcomes
<1>7. CASE Takes(r)
  BY <1>7 DEF Takes, Moved, Same, Stages, Outcomes
<1>8. CASE Stores(r)
  BY <1>8 DEF Stores, Moved, Same, Stages, Outcomes
<1>9. CASE Inserts(r) \/ Indexes(r) \/ NumbersIt(r) \/ Notes(r) \/ Makes(r) \/ Wipes(r)
  <2>1. PICK here \in Stages, next \in Stages \cup Outcomes :
          next # "new" /\ here # "new" /\ Moved(r, here, next)
    BY <1>9 DEF Inserts, Indexes, NumbersIt, Notes, Makes, Wipes, Stages, Outcomes
  <2>2. here \notin Outcomes
    BY <2>1 DEF Stages, Outcomes
  <2> QED
    BY <1>9, <2>1, <2>2 DEF Inserts, Indexes, NumbersIt, Notes, Makes, Wipes, Same
<1>10. CASE \E here, next \in Stages \cup Outcomes,
               status \in {"processing", "completed", "failed"} :
              Reports(r, here, next, status)
  BY <1>10 DEF Reports, Same, Outcomes
<1>11. CASE \E next \in Stages \cup Outcomes : Removes(r, next)
  BY <1>11 DEF Removes, Same, Stages, Outcomes
<1> QED
  BY <1>1, <1>3, <1>4, <1>5, <1>6, <1>7, <1>8, <1>9, <1>10, <1>11 DEF Step

\* Who has ended stays so; who has begun keeps what it began with.
LEMMA History ==
  ASSUME Types, Past, NEW r \in Requests, Step(r)
  PROVE  /\ \A s \in Requests :
              /\ s # r => stage'[s] = stage[s]
              /\ Ended(s) => s # r
              /\ stage'[r] # "new"
              /\ s # r \/ stage[s] # "new" =>
                   /\ kind'[s] = kind[s] /\ chat'[s] = chat[s] /\ about'[s] = about[s]
                   /\ before'[s] = before[s]
              /\ stage[r] = "new" => before'[r] = {t \in Requests : Ended(t)}
         /\ Past'
<1>1. CASE Begins(r)
  <2>1. ~Ended(r)
    BY <1>1 DEF Begins, Ended, Outcomes
  <2>2. stage'[r] # "new"
    <3>1. \A k, here, next : ~Charges(r, k, here, next)
      BY <1>1 DEF Begins, Charges, Moved
    <3> QED
      BY <1>1, <3>1
      DEF Step, Begins, TurnBegins, UploadBegins, CreationBegins, DeletionBegins, Idles, Loads,
           Logs, Takes, Stores, Inserts, Reports, Indexes, NumbersIt, Notes, Makes, Removes, Wipes,
           Moved
  <2>3. \A s \in Requests : Ended(s) => Ended(s)'
    BY <1>1, <2>1 DEF Begins, Same, Ended
  <2>4. \A s \in Requests \ {r} : kind'[s] = kind[s] /\ chat'[s] = chat[s]
                                   /\ about'[s] = about[s] /\ before'[s] = before[s]
                                   /\ stage'[s] = stage[s]
    BY <1>1 DEF Begins, Same
  <2>5. before'[r] = {t \in Requests : Ended(t)} /\ stage[r] = "new"
    BY <1>1 DEF Begins
  <2>6. Past'
    <3> SUFFICES ASSUME NEW s \in Requests
                 PROVE  /\ \A t \in before'[s] : Ended(t)'
                        /\ stage'[s] = "new" => kind'[s] = "none" /\ before'[s] = {}
      BY DEF Past
    <3>1. CASE s = r
      BY <2>2, <2>3, <2>5, <3>1
    <3>2. CASE s # r
      <4>1. \A t \in before[s] : t \in Requests
        BY DEF Types
      <4> QED
        BY <2>3, <2>4, <3>2, <4>1 DEF Past
    <3> QED
      BY <3>1, <3>2
  <2> QED
    BY <2>1, <2>2, <2>4, <2>5, <2>6
<1>2. ASSUME NEW here \in (Stages \cup Outcomes) \ (Outcomes \cup {"new"}),
             NEW next, next # "new", Moved(r, here, next)
      PROVE  /\ stage[r] \notin Outcomes \cup {"new"} /\ stage'[r] # "new"
             /\ Same(stage, stage', r) /\ UNCHANGED <<kind, chat, about, before>>
  BY <1>2 DEF Moved
<1>3. ASSUME /\ stage[r] \notin Outcomes \cup {"new"} /\ stage'[r] # "new"
             /\ Same(stage, stage', r) /\ UNCHANGED <<kind, chat, about, before>>
      PROVE  Past' /\ ~Ended(r)
  BY <1>3 DEF Past, Ended, Same, Types
<1>4. Begins(r) \/ (/\ stage[r] \notin Outcomes \cup {"new"} /\ stage'[r] # "new"
                   /\ Same(stage, stage', r) /\ UNCHANGED <<kind, chat, about, before>>)
  BY <1>2, Frame
<1> QED
  BY <1>1, <1>3, <1>4 DEF Same

LEMMA Overlapping ==
  ASSUME Types, Past, NEW r \in Requests, Step(r), NEW s \in Requests, NEW t \in Requests,
         stage[s] # "new", stage[t] # "new"
  PROVE  Overlap(s, t)' <=> Overlap(s, t)
<1>1. before'[s] = before[s] /\ before'[t] = before[t]
  BY History
<1> QED
  BY <1>1 DEF Overlap

LEMMA Beside ==
  ASSUME Past, NEW s \in Requests, NEW t \in Requests, s # t, ~Ended(s), ~Ended(t)
  PROVE  Overlap(s, t)
BY DEF Past, Overlap

LEMMA BesideNext ==
  ASSUME Past', NEW s \in Requests, NEW t \in Requests, s # t, ~Ended(s)', ~Ended(t)'
  PROVE  Overlap(s, t)'
BY DEF Past, Overlap

\* Who begins does so beside everybody who has not ended.
LEMMA Newcomer ==
  ASSUME Types, Past, NEW r \in Requests, Step(r), stage[r] = "new",
         NEW s \in Requests, s # r, ~Ended(s)
  PROVE  Overlap(s, r)' /\ Overlap(r, s)'
<1>1. before'[r] = {t \in Requests : Ended(t)} /\ before'[s] = before[s]
  BY History
<1>2. r \notin before[s]
  BY DEF Past, Ended, Outcomes
<1> QED
  BY <1>1, <1>2 DEF Overlap

LEMMA Others ==
  ASSUME NEW r \in Requests, Step(r), NEW q \in Requests, q # r
  PROVE  /\ logs'[q] = logs[q] \/ logs'[q] = "none"
         /\ q \in chunks' => q \in chunks
         /\ q \in chats' => q \in chats
         /\ sequence'[q] = sequence[q] /\ found'[q] = found[q] /\ loaded'[q] = loaded[q]
<1>1. logs'[q] = logs[q] \/ logs'[q] = "none"
  BY Frame DEF Inserts, Reports, Removes, Same
<1>2. q \in chunks' => q \in chunks
  BY Frame DEF Indexes, Wipes, Removes
<1>3. q \in chats' => q \in chats
  BY Frame DEF Makes, Removes
<1>4. sequence'[q] = sequence[q] /\ found'[q] = found[q]
  BY Frame DEF Same
<1>5. loaded'[q] = loaded[q]
  BY Frame DEF Loads, Same
<1> QED
  BY <1>1, <1>2, <1>3, <1>4, <1>5

\* Only a deletion takes anything away.
LEMMA Growth ==
  ASSUME NEW r \in Requests, Step(r), \A next : ~Removes(r, next)
  PROVE  /\ chats \subseteq chats' /\ interactions \subseteq interactions'
         /\ messages \subseteq messages'
         /\ \A q \in Requests : logs'[q] # "none" => logs[q] # "none" \/ (q = r /\ Inserts(r))
         /\ \A q \in Requests : logs[q] # "none" => logs'[q] # "none"
<1>1. chats \subseteq chats' /\ interactions \subseteq interactions' /\ messages \subseteq messages'
  BY Frame DEF Makes, Logs, Notes, Stores
<1>2. ASSUME NEW q \in Requests
      PROVE  logs'[q] # "none" => logs[q] # "none" \/ (q = r /\ Inserts(r))
  BY Frame DEF Inserts, Reports, Same
<1>3. ASSUME NEW q \in Requests
      PROVE  logs[q] # "none" => logs'[q] # "none"
  BY Frame DEF Inserts, Reports, Same
<1> QED
  BY <1>1, <1>2, <1>3

-----------------------------------------------------------------------------
(* Roles, keys and locks *)

LEMMA RolesStep ==
  ASSUME Types, Past, Roles, NEW r \in Requests, Step(r)
  PROVE  Roles'
<1> SUFFICES ASSUME NEW q \in Requests
             PROVE
    (/\ stage[q] \in {"loading", "charging", "running", "logging", "locking", "storing"}
          => kind[q] \in {"query", "stream"}
     /\ stage[q] \in {"inserting", "starting", "indexing", "completing", "numbering", "noting",
                      "counting", "failing"} => kind[q] = "upload"
     /\ stage[q] \in {"creating", "recording"} => kind[q] = "create"
     /\ stage[q] = "deleting" => kind[q] \in {"delete", "purge"}
     /\ stage[q] = "wiping" => kind[q] = "purge"
     /\ kind[q] \in {"query", "stream", "upload", "create", "delete"} => chat[q] \in Chats
     /\ logs[q] # "none" => kind[q] = "upload" /\ stage[q] # "inserting"
     /\ q \in chunks => kind[q] = "upload" /\ stage[q] \notin {"inserting", "starting", "indexing"}
     /\ q \in chats => stage[q] \notin {"new", "creating"})'
  BY DEF Roles
<1>1. CASE q # r
  <2>1. stage'[q] = stage[q] /\ kind'[q] = kind[q] /\ chat'[q] = chat[q]
    BY <1>1, History
  <2> QED
    BY <1>1, <2>1, Others DEF Roles
<1>2. CASE q = r
  <2>1. CASE Begins(r)
    <3>1. logs[r] = "none" /\ r \notin chunks /\ r \notin chats
      BY <2>1 DEF Begins, Roles, Past
    <3>2. TurnBegins(r) \/ UploadBegins(r) \/ CreationBegins(r) \/ DeletionBegins(r)
      BY <2>1 DEF Begins, Step, Idles, Charges, Loads, Logs, Takes, Stores, Inserts, Reports,
                  Indexes, NumbersIt, Notes, Makes, Removes, Wipes, Moved, Outcomes
    <3> QED
      BY <1>2, <3>1, <3>2 DEF Begins, TurnBegins, UploadBegins, CreationBegins, DeletionBegins
  <2>2. CASE ~Begins(r)
    <3> QED
      BY <1>2, <2>2
      DEF Roles, Step, TurnBegins, UploadBegins, CreationBegins, DeletionBegins, Idles, Charges,
          Loads, Logs, Takes, Stores, Inserts, Reports, Indexes, NumbersIt, Notes, Makes, Removes,
          Wipes, Moved, Owes, Outcomes
  <2> QED
    BY <2>1, <2>2
<1> QED
  BY <1>1, <1>2

LEMMA KeysStep ==
  ASSUME Types, Past, Roles, ForeignKeys, NEW r \in Requests, Step(r)
  PROVE  ForeignKeys'
<1>1. logs[r] # "none" \/ r \in chunks => stage[r] # "new"
  BY DEF Past, Roles
<1>2. \A q \in Requests : logs[q] # "none" \/ q \in chunks => chat'[q] = chat[q]
  BY <1>1, History
<1>3. CASE \E next : Removes(r, next)
  <2>1. \A q \in Requests : logs'[q] # "none" => logs[q] # "none" /\ chat[q] \notin Cleared(r)
    BY <1>3 DEF Removes
  <2>2. chunks \subseteq Requests
    BY DEF Types
  <2>3. /\ chats' = chats \ Cleared(r)
        /\ \A i \in interactions' : i \in interactions /\ i.chat \notin Cleared(r)
        /\ \A m \in messages' : m \in messages /\ m.chat \notin Cleared(r)
        /\ \A q \in chunks' : q \in chunks /\ chat[q] \notin Cleared(r)
    BY <1>3 DEF Removes
  <2> QED
    BY <1>2, <2>1, <2>2, <2>3 DEF ForeignKeys
<1>4. CASE \A next : ~Removes(r, next)
  <2>1. chats \subseteq chats'
    BY <1>4, Growth
  <2>2. \A i \in interactions' : i \in interactions \/ i.chat \in chats
    BY <1>4, Frame DEF Logs, Row
  <2>3. \A m \in messages' : m \in messages \/ m.chat \in chats
    BY <1>4, Frame DEF Notes, Stores, Pair
  <2>4. \A q \in chunks' : q \in chunks \/ (q = r /\ Indexes(r))
    BY <1>4, Frame DEF Indexes, Wipes
  <2>5. Indexes(r) \/ Inserts(r) => chat'[r] \in chats
    BY DEF Indexes, Inserts, Moved
  <2>6. \A q \in chunks' : chat'[q] \in chats'
    BY <1>2, <2>1, <2>4, <2>5 DEF ForeignKeys, Types
  <2>7. \A q \in Requests : logs'[q] # "none" => logs[q] # "none" \/ (q = r /\ Inserts(r))
    BY <1>4, Growth
  <2>8. \A q \in Requests : logs'[q] # "none" => chat'[q] \in chats'
    BY <1>2, <2>1, <2>5, <2>7 DEF ForeignKeys
  <2> QED
    BY <2>1, <2>2, <2>3, <2>6, <2>8 DEF ForeignKeys
<1> QED
  BY <1>3, <1>4

LEMMA LocksStep ==
  ASSUME Types, Past, Roles, Owners, Locks, NEW r \in Requests, Step(r)
  PROVE  Owners' /\ Locks'
<1> DEFINE Storing(q) == stage[q] = "storing"
<1>1. \A q \in Requests : Storing(q) => chat[q] \in Chats
  BY DEF Roles
<1>2. \A c \in Chats : lock[c] # Nobody =>
        lock[c] \in Requests /\ Storing(lock[c]) /\ chat[lock[c]] = c
  BY DEF Owners, Types
<1>3. \A q \in Requests \ {r} : stage'[q] = stage[q] /\ chat'[q] = chat[q]
  BY History
<1>4. CASE Takes(r)
  <2>1. /\ lock[chat[r]] = Nobody /\ chat[r] \in Chats /\ chat'[r] = chat[r]
        /\ lock'[chat[r]] = r /\ \A c \in Chats : c # chat[r] => lock'[c] = lock[c]
        /\ stage'[r] = "storing" /\ stage[r] = "locking"
    BY <1>4 DEF Takes, Moved, Roles
  <2>2. \A q \in Requests : Storing(q) => lock[chat[q]] = q
    BY DEF Locks
  <2>3. Locks'
    <3> SUFFICES ASSUME NEW q \in Requests, stage'[q] = "storing"
                 PROVE  lock'[chat'[q]] = q
      BY DEF Locks
    <3>1. CASE q = r
      BY <2>1, <3>1
    <3>2. CASE q # r
      BY <1>1, <1>3, <2>1, <2>2, <3>2, ChatAssumption
    <3> QED
      BY <3>1, <3>2
  <2>4. Owners'
    <3> SUFFICES ASSUME NEW c \in Chats, lock'[c] # Nobody
                 PROVE  stage'[lock'[c]] = "storing" /\ chat'[lock'[c]] = c
      BY DEF Owners
    <3>1. CASE c = chat[r]
      BY <2>1, <3>1
    <3>2. CASE c # chat[r]
      BY <1>2, <1>3, <2>1, <3>2
    <3> QED
      BY <3>1, <3>2
  <2> QED
    BY <2>3, <2>4
<1>5. CASE ~Takes(r)
  <2>1. ~(stage'[r] = "storing")
    BY <1>5 DEF Step, TurnBegins, UploadBegins, CreationBegins, DeletionBegins, Idles, Charges,
          Loads, Logs, Stores, Inserts, Reports, Indexes, NumbersIt, Notes, Makes, Removes, Wipes,
          Moved
  <2>2. stage[r] = "storing" => Unlocks(r)
    BY <1>5 DEF Step, TurnBegins, UploadBegins, CreationBegins, DeletionBegins, Begins, Idles,
          Charges, Loads, Logs, Stores, Inserts, Reports, Indexes, NumbersIt, Notes, Makes,
          Removes, Wipes, Moved
  <2>3. Unlocks(r) \/ (\A c \in Chats : lock'[c] = lock[c] /\ lock[c] # r)
    BY <1>2, <1>5, <2>2, Frame, ChatAssumption
  <2>4. \A c \in Chats : lock'[c] = IF lock[c] = r THEN Nobody ELSE lock[c]
    BY <2>3 DEF Unlocks
  <2>5. Locks'
    BY <1>1, <1>3, <2>1, <2>4 DEF Locks
  <2>6. Owners'
    BY <1>2, <1>3, <2>4 DEF Owners
  <2> QED
    BY <2>5, <2>6
<1> QED
  BY <1>4, <1>5

-----------------------------------------------------------------------------
(* Numbers of messages *)

LEMMA PairsAreTurns ==
  ASSUME Types, NEW r \in Requests, chat[r] \in chats
  PROVE  \A m \in Pair(r) :
           /\ m.by = r /\ m.chat = chat[r] /\ m.seq \in Nat /\ m.role # "system"
           /\ m.role = "user" => m.seq = sequence[r]
           /\ m.role = "assistant" => m.seq = sequence[r] + 1
           /\ m = [chat |-> chat[r], by |-> r, seq |-> m.seq, role |-> m.role]
           /\ m.role \in {"user", "assistant"}
BY DEF Types, Pair

LEMMA NumbersStep ==
  ASSUME Types, Past, Roles, Locks, Bounded, Numbers, TurnsKeepTheirNumbers,
         NEW r \in Requests, Step(r)
  PROVE  Numbers' /\ TurnsKeepTheirNumbers'
<1>1. \A m \in TurnMessages : m \in messages /\ m.by \in Requests /\ m.seq \in Nat
  BY DEF TurnMessages, Types, Messages
<1>2. \A m \in TurnMessages : m.by # r /\ stage'[m.by] = "done"
  <2>1. \A m \in TurnMessages : stage[m.by] = "done" /\ Ended(m.by)
    BY DEF Numbers, Ended, Outcomes
  <2> QED
    BY <1>1, <2>1, History
<1>3. \A q \in Requests \ {r} : /\ stage'[q] = stage[q] /\ chat'[q] = chat[q]
                                /\ sequence'[q] = sequence[q]
  BY History, Others
<1>4. CASE Stores(r)
  <2>1. /\ stage[r] = "storing" /\ stage'[r] = "done" /\ chat[r] \in chats
        /\ messages' = messages \cup Pair(r)
    BY <1>4 DEF Stores, Moved
  <2>2. \A m \in TurnMessages' : m \in TurnMessages \/ m \in Pair(r)
    BY <2>1 DEF TurnMessages
  <2>3. \A m \in Pair(r) :
           /\ m.by = r /\ m.chat = chat[r] /\ m.seq \in Nat
           /\ m.role = "user" => m.seq = sequence[r]
           /\ m.role = "assistant" => m.seq = sequence[r] + 1
           /\ m = [chat |-> chat[r], by |-> r, seq |-> m.seq, role |-> m.role]
           /\ m.role \in {"user", "assistant"}
    BY <2>1, PairsAreTurns
  <2>4. Numbers'
    <3>1. ASSUME NEW m \in TurnMessages'
          PROVE  stage'[m.by] = "done"
      BY <1>2, <2>1, <2>2, <2>3, <3>1
    <3>2. ASSUME NEW q \in Requests, NEW m \in TurnMessages',
                 stage'[q] = "storing", m.chat = chat'[q]
          PROVE  m.seq < sequence'[q]
      <4>1. q # r
        BY <2>1, <3>2
      <4>2. stage[q] = "storing" /\ m.chat = chat[q] /\ sequence'[q] = sequence[q]
        BY <1>3, <3>2, <4>1
      <4>3. chat[q] # chat[r]
        BY <2>1, <4>1, <4>2 DEF Locks
      <4>4. m \in TurnMessages
        BY <2>2, <2>3, <4>2, <4>3
      <4> QED
        BY <4>2, <4>4 DEF Numbers
    <3> QED
      BY <3>1, <3>2 DEF Numbers
  <2>5. TurnsKeepTheirNumbers'
    <3> SUFFICES ASSUME NEW m \in TurnMessages', NEW n \in TurnMessages'
                 PROVE  /\ m.chat = n.chat /\ m.seq = n.seq => m = n
                        /\ m.by = n.by /\ m.role = "user" /\ n.role = "assistant"
                             => n.seq = m.seq + 1
      BY DEF TurnsKeepTheirNumbers
    <3>1. sequence[r] \in Nat
      BY DEF Types
    <3>2. \A o \in TurnMessages : o.chat = chat[r] => o.seq < sequence[r]
      BY <2>1 DEF Numbers
    <3>3. CASE m \in TurnMessages /\ n \in TurnMessages
      BY <3>3 DEF TurnsKeepTheirNumbers
    <3>4. CASE m \in Pair(r) /\ n \in Pair(r)
      <4>1. m.role # n.role => m.seq # n.seq
        BY <2>3, <3>1, <3>4
      <4>2. m.role = n.role => m.seq = n.seq
        BY <2>3, <3>4
      <4>3. m.seq = n.seq => m = n
        BY <2>3, <3>4, <4>1
      <4>4. m.role = "user" /\ n.role = "assistant" => n.seq = m.seq + 1
        BY <2>3, <3>1, <3>4
      <4> QED
        BY <4>3, <4>4
    <3>5. CASE (m \in TurnMessages /\ n \in Pair(r)) \/ (m \in Pair(r) /\ n \in TurnMessages)
      <4>1. m.by # n.by
        BY <1>2, <2>3, <3>5
      <4>2. \A o \in Pair(r) : o.seq >= sequence[r]
        BY <2>3, <3>1
      <4>3. ~(m.chat = n.chat /\ m.seq = n.seq)
        BY <1>1, <2>3, <3>1, <3>2, <3>5, <4>2
      <4> QED
        BY <4>1, <4>3
    <3> QED
      BY <2>2, <3>3, <3>4, <3>5
  <2> QED
    BY <2>4, <2>5
<1>5. CASE ~Stores(r)
  <2>1. TurnMessages' \subseteq TurnMessages
    <3>1. CASE messages' = messages \/ \E next : Removes(r, next)
      BY <3>1 DEF TurnMessages, Removes
    <3>2. CASE Notes(r)
      BY <3>2 DEF TurnMessages, Notes
    <3> QED
      BY <1>5, <3>1, <3>2, Frame
  <2>2. TurnsKeepTheirNumbers'
    BY <2>1 DEF TurnsKeepTheirNumbers
  <2>3. \A m \in TurnMessages' : stage'[m.by] = "done"
    BY <1>2, <2>1
  <2>4. ASSUME NEW q \in Requests, NEW m \in TurnMessages',
               stage'[q] = "storing", m.chat = chat'[q]
        PROVE  m.seq < sequence'[q]
    <3>1. CASE q = r
      <4>1. Takes(r)
        BY <1>5, <2>4, <3>1 DEF Step, TurnBegins, UploadBegins, CreationBegins, DeletionBegins,
          Idles, Charges, Loads, Logs, Stores, Inserts, Reports, Indexes, NumbersIt, Notes, Makes,
          Removes, Wipes, Moved
      <4>2. sequence'[r] = LastSequence(chat[r]) + 1 /\ chat'[r] = chat[r]
        BY <4>1 DEF Takes, Moved
      <4>3. LastSequence(chat[r]) \in Nat /\ m.seq <= LastSequence(chat[r]) /\ m.seq \in Nat
        BY <1>1, <2>1, <2>4, <3>1, <4>2, LastNumber
      <4> QED
        BY <3>1, <4>2, <4>3
    <3>2. CASE q # r
      BY <1>3, <2>1, <2>4, <3>2 DEF Numbers
    <3> QED
      BY <3>1, <3>2
  <2> QED
    BY <2>2, <2>3, <2>4 DEF Numbers
<1> QED
  BY <1>4, <1>5

-----------------------------------------------------------------------------
(* Rows and what they remember *)

LEMMA RowsAreTyped ==
  ASSUME Types
  PROVE  \A i \in interactions : i.by \in Requests /\ i.at \in Nat /\ i.chat \in Chats
BY DEF Types, Interactions

\* The rows of others are kept or, with all rows of their chat, deleted.
LEMMA OldRows ==
  ASSUME NEW r \in Requests, Step(r), ~Logs(r)
  PROVE  /\ interactions' \subseteq interactions
         /\ \A i \in interactions', k \in interactions : k.chat = i.chat => k \in interactions'
BY Frame DEF Removes

LEMMA NewRow ==
  ASSUME Types, Bounded, Past, Places, NEW r \in Requests, Logs(r)
  PROVE  /\ interactions' = interactions \cup {Row(r)}
         /\ Row(r).by = r /\ Row(r).chat = chat[r]
         /\ Row(r).memory = Merged(r)
         /\ Row(r).at \in Nat /\ Row(r).at > 0
         /\ \A i \in interactions : i.chat = chat[r] => i.at < Row(r).at
         /\ \A q \in Requests : r \notin before[q]
         /\ \A i \in interactions : i.by # r
         /\ stage'[r] = "locking" /\ stage[r] = "logging" /\ chat'[r] = chat[r]
<1>1. /\ interactions' = interactions \cup {Row(r)}
      /\ stage'[r] = "locking" /\ stage[r] = "logging" /\ chat'[r] = chat[r]
  BY DEF Logs, Moved
<1>2. /\ Row(r).by = r /\ Row(r).chat = chat[r]
      /\ Row(r).memory = Merged(r) /\ Row(r).at = LastPlace(chat[r]) + 1
  BY DEF Row
<1>3. /\ LastPlace(chat[r]) \in Nat
      /\ \A i \in interactions : i.at \in Nat /\ (i.chat = chat[r] => i.at <= LastPlace(chat[r]))
  BY LastRow, RowsAreTyped
<1>4. LastPlace(chat[r]) + 1 > 0 /\ LastPlace(chat[r]) + 1 \in Nat
      /\ \A i \in interactions : i.chat = chat[r] => i.at < LastPlace(chat[r]) + 1
  BY <1>3
<1>5. \A q \in Requests : r \notin before[q]
  BY <1>1 DEF Past, Ended, Outcomes
<1>6. \A i \in interactions : i.by # r
  BY <1>1 DEF Places
<1> QED
  BY <1>1, <1>2, <1>4, <1>5, <1>6

LEMMA PlacesStep ==
  ASSUME Types, Past, Bounded, Places, NEW r \in Requests, Step(r)
  PROVE  Places'
<1> DEFINE Early == {"new", "loading", "charging", "running", "logging"}
<1>1. \A i \in interactions : i.by \in Requests /\ i.at \in Nat /\ stage[i.by] \notin Early
  BY RowsAreTyped DEF Places
<1>2. \A q \in Requests : stage[q] \notin Early => stage'[q] \notin Early /\ before'[q] = before[q]
  <2>1. stage[r] \notin Early => stage'[r] \notin Early
    BY DEF Step, TurnBegins, UploadBegins, CreationBegins, DeletionBegins, Begins, Idles, Charges,
           Loads, Logs, Takes, Stores, Inserts, Reports, Indexes, NumbersIt, Notes, Makes,
           Removes, Wipes, Moved, Outcomes
  <2> QED
    BY <2>1, History
<1> HIDE DEF Early
<1>3. CASE ~Logs(r)
  <2>1. interactions' \subseteq interactions
    BY <1>3, OldRows
  <2>2. \A i \in interactions' : /\ i.at > 0 /\ i.by \in i.memory
                                 /\ stage'[i.by] \notin Early /\ before'[i.by] = before[i.by]
    BY <1>1, <1>2, <2>1 DEF Places
  <2> QED
    BY <2>1, <2>2 DEF Places, Early
<1>4. ASSUME Logs(r)
      PROVE  Places'
  <2> DEFINE row == Row(r)
  <2>1. /\ interactions' = interactions \cup {row}
        /\ row.by = r /\ row.chat = chat[r] /\ row.memory = Merged(r)
        /\ row.at \in Nat /\ row.at > 0
        /\ \A i \in interactions : i.chat = chat[r] => i.at < row.at
        /\ \A q \in Requests : r \notin before[q]
        /\ \A i \in interactions : i.by # r
        /\ stage'[r] = "locking"
    BY <1>4, NewRow
  <2>2. before' = before
    BY <1>4 DEF Logs, Moved
  <2> HIDE DEF row
  <2>3. ASSUME NEW i \in interactions'
        PROVE  /\ i.at > 0 /\ i.by \in i.memory
               /\ stage'[i.by] \notin Early
    <3>1. CASE i \in interactions
      BY <1>1, <1>2, <3>1 DEF Places
    <3>2. CASE i = row
      BY <2>1, <3>2 DEF Merged, Early
    <3> QED
      BY <2>1, <2>3, <3>1, <3>2
  <2>4. ASSUME NEW i \in interactions', NEW j \in interactions'
        PROVE  /\ i.by = j.by => i = j
               /\ i.chat = j.chat /\ i.at = j.at => i = j
               /\ i.chat = j.chat /\ i.by \in before[j.by] => i.at < j.at
    <3>1. CASE i \in interactions /\ j \in interactions
      BY <3>1 DEF Places
    <3>2. CASE i = row /\ j = row
      BY <2>1, <3>2
    <3>3. CASE i = row /\ j \in interactions
      BY <1>1, <2>1, <3>3
    <3>4. CASE i \in interactions /\ j = row
      BY <1>1, <2>1, <3>4
    <3> QED
      BY <2>1, <2>4, <3>1, <3>2, <3>3, <3>4
  <2> QED
    BY <2>2, <2>3, <2>4 DEF Places, Early
<1> QED
  BY <1>3, <1>4

LEMMA LoadedRows ==
  ASSUME Types, Past, Bounded, Places, MemoryForgetsOnlyOverlaps,
         NEW r \in Requests, NEW i \in interactions, i.chat = chat[r]
  PROVE  i.by \in LoadedMemory(chat[r]) \/ Hidden(i)
<1>1. \A j \in interactions : j.by \in Requests /\ j.at \in Nat /\ j.at > 0
  BY RowsAreTyped DEF Places
<1>2. PICK n \in interactions : n.chat = chat[r] /\ n.at = LastPlace(chat[r])
  BY <1>1, LastRow
<1>3. i.at <= n.at
  BY <1>2, LastRow
<1>4. n.memory \subseteq LoadedMemory(chat[r])
  BY <1>2 DEF LoadedMemory, InteractionsOf
<1>5. CASE n = i
  BY <1>4, <1>5 DEF Places
<1>6. CASE n # i
  <2>1. i.at < n.at
    <3>1. i.at # n.at
      BY <1>2, <1>6 DEF Places
    <3> QED
      BY <1>1, <1>3, <3>1
  <2>2. CASE i.by \in before[n.by]
    <3>1. i.chat = n.chat
      BY <1>2
    <3>2. i.by \in n.memory \/ Hidden(i)
      BY <1>6, <2>2, <3>1 DEF MemoryForgetsOnlyOverlaps, Hidden
    <3> QED
      BY <1>4, <3>2
  <2>3. CASE i.by \notin before[n.by]
    <3>1. i.by # n.by
      BY <1>6 DEF Places
    <3>2. n.by \notin before[i.by]
      <4>1. n.by \in before[i.by] => n.at < i.at
        BY <1>2 DEF Places
      <4> QED
        BY <1>1, <2>1, <4>1
    <3>3. Overlap(n.by, i.by)
      BY <2>3, <3>1, <3>2 DEF Overlap
    <3> QED
      BY <1>2, <2>1, <3>3 DEF Hidden
  <2> QED
    BY <2>2, <2>3
<1> QED
  BY <1>5, <1>6

LEMMA MemoryStep ==
  ASSUME Types, Past, Roles, Bounded, Places, Remembered, MemoryForgetsOnlyOverlaps,
         NEW r \in Requests, Step(r)
  PROVE  Remembered' /\ MemoryForgetsOnlyOverlaps'
<1>1. \A i \in interactions : i.by \in Requests /\ i.at \in Nat /\ stage[i.by] # "new"
  BY RowsAreTyped DEF Places
<1>2. \A i, k \in interactions : Overlap(k.by, i.by)' <=> Overlap(k.by, i.by)
  <2> SUFFICES ASSUME NEW i \in interactions, NEW k \in interactions
               PROVE  Overlap(k.by, i.by)' <=> Overlap(k.by, i.by)
    OBVIOUS
  <2>1. before'[k.by] = before[k.by] /\ before'[i.by] = before[i.by]
    BY <1>1, History
  <2> QED
    BY <2>1 DEF Overlap
<1>3. \A i \in interactions : before'[i.by] = before[i.by]
  BY <1>1, History
<1>4. CASE ~Logs(r)
  <2>1. /\ interactions' \subseteq interactions
        /\ \A i \in interactions', k \in interactions : k.chat = i.chat => k \in interactions'
    BY <1>4, OldRows
  <2>2. MemoryForgetsOnlyOverlaps'
    <3> SUFFICES ASSUME NEW i \in interactions', NEW j \in interactions', i.chat = j.chat,
                        i.by \in before'[j.by], i.by \notin j.memory
                 PROVE  \E k \in interactions' :
                          /\ k.chat = i.chat /\ i.at < k.at /\ k.at < j.at
                          /\ Overlap(k.by, i.by)'
      BY DEF MemoryForgetsOnlyOverlaps
    <3>1. PICK k \in interactions :
                          /\ k.chat = i.chat /\ i.at < k.at /\ k.at < j.at
                          /\ Overlap(k.by, i.by)
      BY <1>3, <2>1 DEF MemoryForgetsOnlyOverlaps
    <3> QED
      BY <1>2, <2>1, <3>1
  <2>3. ASSUME NEW i \in interactions', Hidden(i)
        PROVE  Hidden(i)'
    <3>1. PICK k \in interactions :
            k.chat = i.chat /\ i.at < k.at /\ Overlap(k.by, i.by)
      BY <2>3 DEF Hidden
    <3>2. k \in interactions' /\ Overlap(k.by, i.by)'
      BY <1>2, <2>1, <3>1
    <3> QED
      BY <3>1, <3>2 DEF Hidden
  <2>4. ASSUME NEW q \in Requests, NEW i \in interactions', Remembers(q)', i.chat = chat'[q],
               i.by \in before'[q]
        PROVE  i.by \in loaded'[q] \/ Hidden(i)
    <3>1. CASE q # r
      <4>1. Remembers(q) /\ chat'[q] = chat[q] /\ before'[q] = before[q] /\ loaded'[q] = loaded[q]
        <5>1. stage'[q] = stage[q] /\ kind'[q] = kind[q] /\ chat'[q] = chat[q]
              /\ before'[q] = before[q]
          BY <3>1, History
        <5> QED
          BY <2>4, <3>1, <5>1, Others DEF Remembers
      <4> QED
        BY <2>1, <2>4, <4>1 DEF Remembered
    <3>2. CASE q = r /\ ~\E next : Loads(r, next)
      <4>1. Remembers(r) /\ ~Begins(r)
        BY <2>4, <3>2
        DEF Remembers, Step, TurnBegins, UploadBegins, CreationBegins, DeletionBegins, Begins,
            Idles, Charges, Logs, Takes, Stores, Inserts, Reports, Indexes, NumbersIt, Notes,
            Makes, Removes, Wipes, Moved, Outcomes
      <4>2. loaded' = loaded /\ chat'[r] = chat[r] /\ before'[r] = before[r]
        BY <3>2, <4>1, Frame DEF Moved
      <4> QED
        BY <2>1, <2>4, <3>2, <4>1, <4>2 DEF Remembered
    <3>3. CASE q = r /\ \E next : Loads(r, next)
      <4>1. loaded'[r] = LoadedMemory(chat[r]) /\ chat'[r] = chat[r]
        BY <3>3 DEF Loads, Moved
      <4> QED
        BY <2>1, <2>4, <3>3, <4>1, LoadedRows
    <3> QED
      BY <3>1, <3>2, <3>3
  <2>5. Remembered'
    BY <2>3, <2>4 DEF Remembered
  <2> QED
    BY <2>2, <2>5
<1>5. ASSUME Logs(r)
      PROVE  Remembered' /\ MemoryForgetsOnlyOverlaps'
  <2> DEFINE row == Row(r)
  <2>1. /\ interactions' = interactions \cup {row}
        /\ row.by = r /\ row.chat = chat[r] /\ row.memory = Merged(r)
        /\ row.at \in Nat
        /\ \A i \in interactions : i.chat = chat[r] => i.at < row.at
        /\ \A q \in Requests : r \notin before[q]
        /\ stage'[r] = "locking" /\ stage[r] = "logging"
    BY <1>5, NewRow
  <2>2. UNCHANGED <<kind, chat, before, loaded>>
    BY <1>5 DEF Logs, Moved
  <2> HIDE DEF row
  <2>3. ASSUME NEW i \in interactions, Hidden(i)
        PROVE  Hidden(i)'
    BY <1>2, <2>1, <2>3 DEF Hidden
  <2>4. Remembered'
    <3> SUFFICES ASSUME NEW q \in Requests, NEW i \in interactions', Remembers(q)',
                        i.chat = chat[q], i.by \in before[q]
                 PROVE  i.by \in loaded[q] \/ Hidden(i)'
      BY <2>2 DEF Remembered
    <3>1. q # r
      BY <2>1 DEF Remembers
    <3>2. Remembers(q)
      <4>1. stage'[q] = stage[q]
        BY <3>1, History
      <4> QED
        BY <2>2, <4>1 DEF Remembers
    <3>3. i \in interactions
      BY <2>1
    <3> QED
      BY <2>3, <3>2, <3>3 DEF Remembered
  <2>5. MemoryForgetsOnlyOverlaps'
    <3> SUFFICES ASSUME NEW i \in interactions', NEW j \in interactions', i.chat = j.chat,
                        i.by \in before[j.by], i.by \notin j.memory
                 PROVE  \E k \in interactions' :
                          /\ k.chat = i.chat /\ i.at < k.at /\ k.at < j.at
                          /\ Overlap(k.by, i.by)'
      BY <2>2 DEF MemoryForgetsOnlyOverlaps
    <3>1. i \in interactions
      <4>1. i = row => FALSE
        BY <1>1, <2>1
      <4> QED
        BY <2>1, <4>1
    <3>2. CASE j \in interactions
      <4>1. PICK k \in interactions :
                          /\ k.chat = i.chat /\ i.at < k.at /\ k.at < j.at
                          /\ Overlap(k.by, i.by)
        BY <3>1, <3>2 DEF MemoryForgetsOnlyOverlaps
      <4> QED
        BY <1>2, <2>1, <3>1, <4>1
    <3>3. CASE j = row
      <4>1. Remembers(r) /\ i.chat = chat[r] /\ i.by \in before[r] /\ i.by \notin Merged(r)
        BY <2>1, <3>3 DEF Remembers
      <4>2. Hidden(i)
        BY <3>1, <4>1 DEF Remembered, Merged
      <4>3. PICK k \in interactions :
            k.chat = i.chat /\ i.at < k.at /\ Overlap(k.by, i.by)
        BY <4>2 DEF Hidden
      <4>4. k.at < j.at
        BY <2>1, <3>3, <4>1, <4>3
      <4> QED
        BY <1>2, <2>1, <3>1, <4>3, <4>4
    <3> QED
      BY <2>1, <3>2, <3>3
  <2> QED
    BY <2>4, <2>5
<1> QED
  BY <1>4, <1>5

-----------------------------------------------------------------------------
(* Uploads, deletions and purges *)

\* A request that has ended before another began takes no step.
LEMMA Earlier ==
  ASSUME Types, Past, NEW r \in Requests, Step(r), NEW p \in Requests, NEW q \in before[p]
  PROVE  /\ q \in Requests /\ q # r /\ stage[q] # "new"
         /\ stage'[q] = stage[q] /\ kind'[q] = kind[q] /\ chat'[q] = chat[q]
         /\ about'[q] = about[q]
         /\ logs'[q] = logs[q] \/ logs'[q] = "none"
<1>1. q \in Requests /\ Ended(q)
  BY DEF Past, Types
<1>2. stage[q] # "new"
  BY <1>1 DEF Ended, Outcomes
<1> QED
  BY <1>1, <1>2, History, Others

LEMMA PurgedStep ==
  ASSUME Types, Past, Roles, ForeignKeys, Purged, NEW r \in Requests, Step(r)
  PROVE  Purged'
<1> SUFFICES ASSUME NEW p \in Requests, NEW q \in Requests, q \in before'[p]
             PROVE  /\ stage'[p] = "deleting" /\ kind'[p] = "purge" /\ logs'[q] # "none"
                         => chat'[q] \in Cleared(p)'
                    /\ stage'[p] = "wiping" => logs'[q] = "none"
  BY DEF Purged
<1>1. CASE p # r
  <2>1. /\ stage'[p] = stage[p] /\ kind'[p] = kind[p] /\ chat'[p] = chat[p]
        /\ before'[p] = before[p] /\ found'[p] = found[p]
    BY <1>1, History, Others
  <2>2. Cleared(p)' = Cleared(p)
    BY <2>1 DEF Cleared
  <2>3. chat'[q] = chat[q] /\ (logs'[q] = logs[q] \/ logs'[q] = "none")
    BY <2>1, Earlier
  <2> QED
    BY <2>1, <2>2, <2>3 DEF Purged
<1>2. CASE p = r /\ stage[r] = "new"
  <2>1. before'[r] = {t \in Requests : Ended(t)} /\ q # r /\ chat'[q] = chat[q]
    BY <1>2, History
  <2>2. CASE DeletionBegins(r)
    <3>1. logs' = logs /\ stage'[r] \in {"missing", "deleting"}
      BY <2>2 DEF DeletionBegins, Begins
    <3>2. ASSUME kind'[r] = "purge", logs[q] # "none"
          PROVE  chat[q] \in Cleared(r)'
      <4>1. <<"chat", chat[q]>> \in found'[r]
        BY <2>2, <3>2 DEF DeletionBegins, ForeignKeys
      <4> QED
        BY <3>2, <4>1 DEF Cleared
    <3> QED
      BY <1>2, <2>1, <3>1, <3>2
  <2>3. CASE TurnBegins(r) \/ UploadBegins(r) \/ CreationBegins(r)
    BY <1>2, <2>3 DEF TurnBegins, UploadBegins, CreationBegins
  <2>4. TurnBegins(r) \/ UploadBegins(r) \/ CreationBegins(r) \/ DeletionBegins(r)
    BY <1>2 DEF Step, Idles, Charges, Loads, Logs, Takes, Stores, Inserts, Reports,
                  Indexes, NumbersIt, Notes, Makes, Removes, Wipes, Moved, Outcomes
  <2> QED
    BY <2>2, <2>3, <2>4
<1>3. CASE p = r /\ stage[r] # "new"
  <2>1. before'[r] = before[r] /\ kind'[r] = kind[r]
    BY <1>3, History
  <2>2. stage'[r] # "deleting"
    BY <1>3 DEF Step, TurnBegins, UploadBegins, CreationBegins, DeletionBegins, Begins, Idles,
          Charges, Loads, Logs, Takes, Stores, Inserts, Reports, Indexes, NumbersIt, Notes, Makes,
          Removes, Wipes, Moved
  <2>3. ASSUME stage'[r] = "wiping"
        PROVE  logs'[q] = "none"
    <3>1. Removes(r, "wiping")
      BY <1>3, <2>3 DEF Step, TurnBegins, UploadBegins, CreationBegins, DeletionBegins, Begins,
          Idles, Charges, Loads, Logs, Takes, Stores, Inserts, Reports, Indexes, NumbersIt, Notes,
          Makes, Removes, Wipes, Moved
    <3>2. stage[r] = "deleting" /\ kind[r] = "purge"
      BY <3>1 DEF Removes, Moved
    <3>3. logs[q] # "none" => chat[q] \in Cleared(r)
      BY <1>3, <2>1, <3>2 DEF Purged
    <3> QED
      BY <3>1, <3>3 DEF Removes
  <2> QED
    BY <1>3, <2>2, <2>3
<1> QED
  BY <1>1, <1>2, <1>3

LEMMA IndexedStep ==
  ASSUME Types, Past, Roles, Purged, Indexed, NEW r \in Requests, Step(r)
  PROVE  Indexed'
<1> SUFFICES ASSUME NEW q \in Requests,
                    (stage'[q] = "completing" /\ logs'[q] # "none") \/ logs'[q] = "completed"
             PROVE  q \in chunks' \/ \E p \in Requests : kind'[p] = "purge" /\ Overlap(p, q)'
  BY DEF Indexed
<1>1. ASSUME NEW p \in Requests, kind[p] = "purge", Overlap(p, q), logs[q] # "none"
      PROVE  kind'[p] = "purge" /\ Overlap(p, q)'
  <2>1. stage[p] # "new" /\ stage[q] # "new"
    BY <1>1 DEF Past, Roles
  <2> QED
    BY <1>1, <2>1, History, Overlapping
<1>2. CASE Indexes(r) /\ q = r
  BY <1>2 DEF Indexes
<1>3. CASE ~(Indexes(r) /\ q = r)
  <2>1. (stage[q] = "completing" /\ logs[q] # "none") \/ logs[q] = "completed"
    <3>1. CASE q # r
      <4>1. stage'[q] = stage[q] /\ (logs'[q] = logs[q] \/ logs'[q] = "none")
        BY <3>1, History, Others
      <4> QED
        BY <4>1
    <3>2. CASE q = r
      BY <1>3, <3>2 DEF Step, TurnBegins, UploadBegins, CreationBegins, DeletionBegins, Begins,
          Idles, Charges, Loads, Logs, Takes, Stores, Inserts, Reports, Indexes, NumbersIt, Notes,
          Makes, Removes, Wipes, Moved
    <3> QED
      BY <3>1, <3>2
  <2>2. logs[q] # "none" /\ kind[q] = "upload" /\ logs'[q] # "none"
    BY <2>1 DEF Roles
  <2>3. CASE q \notin chunks
    BY <1>1, <2>1, <2>2, <2>3 DEF Indexed
  <2>4. CASE q \in chunks /\ ~Wipes(r)
    <3>1. q \in chunks'
      BY <2>2, <2>4, Frame DEF Indexes, Removes
    <3> QED
      BY <3>1
  <2>5. CASE q \in chunks /\ Wipes(r)
    <3>1. stage[r] = "wiping" /\ kind[r] = "purge"
      BY <2>5 DEF Wipes, Moved, Roles
    <3>2. q # r /\ ~Ended(r)
      BY <2>2, <3>1 DEF Ended, Outcomes
    <3>3. q \notin before[r]
      BY <2>2, <3>1 DEF Purged
    <3>4. r \notin before[q]
      BY <3>2 DEF Past
    <3>5. Overlap(r, q)
      BY <3>2, <3>3, <3>4 DEF Overlap
    <3> QED
      BY <1>1, <2>2, <3>1, <3>5
  <2> QED
    BY <2>3, <2>4, <2>5
<1> QED
  BY <1>2, <1>3

LEMMA CopiesStep ==
  ASSUME Types, Past, Roles, Copies, NEW r \in Requests, Step(r)
  PROVE  Copies'
<1> SUFFICES ASSUME NEW q \in Requests, NEW s \in Requests,
                    q \in before'[s], about'[q] = about'[s], chat'[q] = chat'[s],
                    stage'[s] \in {"inserting", "starting", "indexing"} \/ s \in chunks'
             PROVE  logs'[q] # "completed"
  BY DEF Copies
<1>1. CASE s # r
  <2>1. stage'[s] = stage[s] /\ chat'[s] = chat[s] /\ about'[s] = about[s]
        /\ before'[s] = before[s] /\ (s \in chunks' => s \in chunks)
    BY <1>1, History, Others
  <2>2. chat'[q] = chat[q] /\ about'[q] = about[q] /\ (logs'[q] = logs[q] \/ logs'[q] = "none")
    BY <2>1, Earlier
  <2> QED
    BY <2>1, <2>2 DEF Copies
<1>2. CASE s = r /\ stage[r] = "new"
  <2>1. TurnBegins(r) \/ UploadBegins(r) \/ CreationBegins(r) \/ DeletionBegins(r)
    BY <1>2 DEF Step, Idles, Charges, Loads, Logs, Takes, Stores, Inserts, Reports,
                  Indexes, NumbersIt, Notes, Makes, Removes, Wipes, Moved, Outcomes
  <2>2. Begins(r)
    BY <2>1 DEF TurnBegins, UploadBegins, CreationBegins, DeletionBegins
  <2>3. q # r /\ chat'[q] = chat[q] /\ about'[q] = about[q]
    BY <1>2, History
  <2>4. r \notin chunks' /\ logs' = logs
    BY <1>2, <2>2 DEF Begins, Roles, Past
  <2>5. stage'[r] = "inserting" /\ UploadBegins(r)
    BY <1>2, <2>1, <2>4 DEF TurnBegins, UploadBegins, CreationBegins, DeletionBegins
  <2>6. Duplicates(chat'[r], about'[r]) = {}
    BY <2>5 DEF UploadBegins
  <2> QED
    BY <1>2, <2>3, <2>4, <2>6 DEF Duplicates
<1>3. CASE s = r /\ stage[r] # "new"
  <2>1. chat'[s] = chat[s] /\ about'[s] = about[s] /\ before'[s] = before[s]
    BY <1>3, History
  <2>2. chat'[q] = chat[q] /\ about'[q] = about[q] /\ (logs'[q] = logs[q] \/ logs'[q] = "none")
    BY <2>1, Earlier
  <2>3. stage[r] \in {"inserting", "starting", "indexing"} \/ r \in chunks
    BY <1>3 DEF Step, TurnBegins, UploadBegins, CreationBegins, DeletionBegins, Begins, Idles,
          Charges, Loads, Logs, Takes, Stores, Inserts, Reports, Indexes, NumbersIt, Notes, Makes,
          Removes, Wipes, Moved
  <2> QED
    BY <1>3, <2>1, <2>2, <2>3 DEF Copies
<1> QED
  BY <1>1, <1>2, <1>3

\* A new row is of a turn or an upload that is under way.
LEMMA NewChildren ==
  ASSUME Types, Past, Roles, NEW r \in Requests, Step(r), NEW c, NEW row \in Children(c)'
  PROVE  row \in Children(c) \/ (kind[r] \in {"query", "stream", "upload"} /\ ~Ended(r))
<1> SUFFICES ASSUME ~(kind[r] \in {"query", "stream", "upload"} /\ ~Ended(r))
             PROVE  row \in Children(c)
  OBVIOUS
<1>1. /\ ~Logs(r)
      /\ ~Stores(r)
      /\ ~Notes(r) /\ ~Inserts(r)
  BY DEF Logs, Stores, Notes, Inserts, Moved, Roles, Ended, Outcomes
<1>2. interactions' \subseteq interactions
  BY <1>1, OldRows
<1>3. messages' \subseteq messages
  BY <1>1, Frame DEF Removes
<1>4. ASSUME NEW q \in Requests, logs'[q] # "none"
      PROVE  logs[q] # "none" /\ chat'[q] = chat[q]
  <2>1. logs[q] # "none"
    <3>1. q # r => logs[q] # "none"
      BY <1>4, Others
    <3>2. logs[r] = "none" => logs'[r] = "none"
      BY <1>1, Frame DEF Reports, Removes
    <3> QED
      BY <1>4, <3>1, <3>2
  <2>2. stage[q] # "new"
    BY <2>1 DEF Past, Roles
  <2> QED
    BY <2>1, <2>2, History
<1>5. \/ \E m \in messages' : m.chat = c /\ row = <<"message", m>>
      \/ \E i \in interactions' : i.chat = c /\ row = <<"turn", i>>
      \/ \E q \in Requests : logs'[q] # "none" /\ chat'[q] = c /\ row = <<"log", q>>
  BY DEF Children
<1> QED
  BY <1>2, <1>3, <1>4, <1>5 DEF Children

LEMMA LatenessStep ==
  ASSUME Types, Past, Roles, ForeignKeys, Lateness, NEW r \in Requests, Step(r)
  PROVE  Lateness'
<1> SUFFICES ASSUME NEW d \in Requests, stage'[d] = "deleting", Late(d)' # {}
             PROVE  \E w \in Requests : kind'[w] \in {"query", "stream", "upload"} /\ Overlap(d, w)'
  BY DEF Lateness
<1>1. CASE d # r
  <2>1. /\ stage[d] = "deleting" /\ ~Ended(d) /\ kind'[d] = kind[d] /\ chat'[d] = chat[d]
        /\ found'[d] = found[d]
    BY <1>1, History, Others DEF Ended, Outcomes
  <2>2. Cleared(d)' = Cleared(d)
    BY <2>1 DEF Cleared
  <2>3. ASSUME NEW w \in Requests, kind[w] \in {"query", "stream", "upload"}, Overlap(d, w)
        PROVE  kind'[w] \in {"query", "stream", "upload"} /\ Overlap(d, w)'
    <3>1. stage[w] # "new" /\ stage[d] # "new"
      BY <2>1, <2>3 DEF Past
    <3> QED
      BY <2>3, <3>1, History, Overlapping
  <2>4. CASE Late(d) # {}
    BY <2>1, <2>3, <2>4 DEF Lateness
  <2>5. CASE Late(d) = {}
    <3>1. PICK row, c : c \in Cleared(d) /\ row \in Children(c)' /\ row \notin found[d]
      BY <2>1, <2>2 DEF Late
    <3>2. row \in Children(c) => c \in chats
      BY DEF Children, ForeignKeys
    <3>3. row \notin Children(c)
      BY <2>5, <3>1, <3>2 DEF Late
    <3>4. kind[r] \in {"query", "stream", "upload"} /\ ~Ended(r)
      BY <3>1, <3>3, NewChildren
    <3>5. Overlap(d, r)
      BY <1>1, <2>1, <3>4, Beside
    <3> QED
      BY <2>3, <3>4, <3>5
  <2> QED
    BY <2>4, <2>5
<1>2. CASE d = r
  <2>1. DeletionBegins(r)
    BY <1>2 DEF Step, TurnBegins, UploadBegins, CreationBegins, Idles,
          Charges, Loads, Logs, Takes, Stores, Inserts, Reports, Indexes, NumbersIt, Notes,
          Makes, Removes, Wipes, Moved
  <2>2. UNCHANGED <<chats, interactions, messages, logs>> /\ stage[r] = "new"
    BY <2>1 DEF DeletionBegins, Begins
  <2>3. \A q \in Requests : logs[q] # "none" => chat'[q] = chat[q]
    <3>1. logs[r] = "none"
      BY <2>2 DEF Past, Roles
    <3> QED
      BY <3>1, History
  <2>4. \A c : Children(c)' = Children(c)
    BY <2>2, <2>3 DEF Children
  <2>5. \A c \in Cleared(r)' \cap chats : Children(c) \subseteq found'[r]
    <3>1. CASE kind'[r] = "delete"
      <4>1. Cleared(r)' = {chat'[r]} /\ found'[r] = Deleted(chat'[r])
        BY <2>1, <3>1 DEF DeletionBegins, Cleared
      <4> QED
        BY <4>1, ChildrenAreRows
    <3>2. CASE kind'[r] = "purge"
      <4>1. found'[r] = (UNION {Deleted(c) : c \in chats}) \cup {<<"chat", c>> : c \in chats}
        BY <2>1, <3>2 DEF DeletionBegins
      <4>2. \A c : Deleted(c) = Children(c)
        BY ChildrenAreRows
      <4> QED
        BY <4>1, <4>2
    <3> QED
      BY <2>1, <3>1, <3>2 DEF DeletionBegins
  <2>6. Late(r)' = {}
    <3>1. Late(r)' = (UNION {Children(c)' : c \in Cleared(r)' \cap chats'}) \ found'[r]
      BY DEF Late
    <3> QED
      BY <2>2, <2>4, <2>5, <3>1
  <2> QED
    BY <1>2, <2>6
<1> QED
  BY <1>1, <1>2

LEMMA FailuresStep ==
  ASSUME Types, Past, Roles, Lateness, DeletionFailsOnlyByOverlap, NEW r \in Requests, Step(r)
  PROVE  DeletionFailsOnlyByOverlap'
<1> SUFFICES ASSUME NEW d \in Requests, kind'[d] \in {"delete", "purge"}, stage'[d] = "failed"
             PROVE  \E w \in Requests : kind'[w] \in {"query", "stream", "upload"} /\ Overlap(d, w)'
  BY DEF DeletionFailsOnlyByOverlap
<1>1. ASSUME NEW w \in Requests, kind[w] \in {"query", "stream", "upload"}, Overlap(d, w),
             stage[d] # "new"
      PROVE  kind'[w] \in {"query", "stream", "upload"} /\ Overlap(d, w)'
  <2>1. stage[w] # "new"
    BY <1>1 DEF Past
  <2> QED
    BY <1>1, <2>1, History, Overlapping
<1>2. CASE d # r
  <2>1. stage[d] = "failed" /\ kind[d] \in {"delete", "purge"}
    BY <1>2, History
  <2> QED
    BY <1>1, <2>1 DEF DeletionFailsOnlyByOverlap
<1>3. CASE d = r
  <2>1. stage[r] = "deleting" /\ Late(r) # {}
    <3>1. CASE stage[r] = "new"
      BY <1>3, <3>1 DEF Step, TurnBegins, UploadBegins, CreationBegins, DeletionBegins, Idles,
          Charges, Loads, Logs, Takes, Stores, Inserts, Reports, Indexes, NumbersIt, Notes,
          Makes, Removes, Wipes, Moved
    <3>2. CASE stage[r] # "new"
      <4>1. kind[r] \in {"delete", "purge"}
        BY <1>3, <3>2, History
      <4>2. stage[r] \notin {"loading", "charging", "running", "logging", "locking", "storing",
                     "inserting", "starting", "indexing", "completing", "numbering", "noting",
                     "counting", "failing"}
        BY <4>1 DEF Roles
      <4> QED
        BY <1>3, <3>2, <4>2
        DEF Step, TurnBegins, UploadBegins, CreationBegins, DeletionBegins, Begins, Idles,
          Charges, Loads, Logs, Takes, Stores, Inserts, Reports, Indexes, NumbersIt, Notes,
          Makes, Removes, Wipes, Moved
    <3> QED
      BY <3>1, <3>2
  <2> QED
    BY <1>1, <1>3, <2>1 DEF Lateness
<1> QED
  BY <1>2, <1>3

LEMMA SettlingStep ==
  ASSUME Types, Past, Roles, Settling, NEW r \in Requests, Step(r)
  PROVE  Settling'
<1>1. ASSUME NEW q \in Requests, Event("ingest_tokens", q) \in usage'
      PROVE  stage'[q] = "done"
  <2>1. CASE Event("ingest_tokens", q) \in usage
    <3>1. stage[q] = "done"
      BY <2>1 DEF Settling
    <3>2. q # r
      BY <3>1 DEF Step, TurnBegins, UploadBegins, CreationBegins, DeletionBegins, Begins, Idles,
          Charges, Loads, Logs, Takes, Stores, Inserts, Reports, Indexes, NumbersIt, Notes,
          Makes, Removes, Wipes, Moved, Outcomes
    <3> QED
      BY <3>1, <3>2, History
  <2>2. CASE Event("ingest_tokens", q) \notin usage
    <3>1. PICK k, here, next : Charges(r, k, here, next)
      BY <1>1, <2>2, Frame
    <3>2. Event("ingest_tokens", q) = Event(k, r)
      BY <1>1, <2>2, <3>1 DEF Charges
    <3>3. k = "ingest_tokens" /\ q = r
      BY <3>2 DEF Event
    <3> QED
      BY <3>1, <3>3 DEF Charges, Owes, Moved
  <2> QED
    BY <2>1, <2>2
<1>2. ASSUME NEW q \in Requests, logs'[q] = "pending"
      PROVE  q \notin chunks'
  <2>1. CASE q # r
    <3>1. logs[q] = "pending" /\ (q \in chunks' => q \in chunks)
      BY <1>2, <2>1, Others
    <3> QED
      BY <3>1 DEF Settling
  <2>2. CASE q = r /\ Inserts(r)
    BY <2>2 DEF Inserts, Moved, Roles
  <2>3. CASE q = r /\ ~Inserts(r)
    <3>1. logs[r] = "pending"
      BY <1>2, <2>3, Frame DEF Reports, Removes
    <3>2. r \notin chunks /\ kind[r] = "upload"
      BY <3>1 DEF Settling, Roles
    <3>3. ~Indexes(r)
      BY <3>1, <3>2 DEF Settling, Indexes, Moved
    <3> QED
      BY <2>3, <3>2, <3>3, Frame DEF Removes, Wipes
  <2> QED
    BY <2>1, <2>2, <2>3
<1>3. ASSUME NEW q \in Requests, kind'[q] = "upload"
      PROVE
    (/\ stage[q] \in {"inserting", "refused", "missing", "reused", "ambiguous"} => logs[q] = "none"
     /\ stage[q] = "starting" => logs[q] \in {"none", "pending"}
     /\ stage[q] \in {"indexing", "completing", "failing"} => logs[q] # "pending"
     /\ stage[q] \in {"numbering", "noting", "counting", "done"} =>
          logs[q] \in {"none", "completed"}
     /\ stage[q] = "failed" => logs[q] \in {"none", "pending", "failed"})'
  <2>1. CASE q # r
    <3>1. stage'[q] = stage[q] /\ kind[q] = "upload" /\ (logs'[q] = logs[q] \/ logs'[q] = "none")
      BY <1>3, <2>1, History, Others
    <3> QED
      BY <3>1 DEF Settling
  <2>2. CASE q = r /\ stage[r] = "new"
    <3>1. logs[r] = "none"
      BY <2>2 DEF Past, Roles
    <3>2. logs'[r] = "none"
      BY <2>2, <3>1 DEF Step, TurnBegins, UploadBegins, CreationBegins, DeletionBegins, Begins,
          Idles, Charges, Loads, Logs, Takes, Stores, Inserts, Reports, Indexes, NumbersIt, Notes,
          Makes, Removes, Wipes, Moved
    <3> QED
      BY <2>2, <3>2
  <2>3. CASE q = r /\ stage[r] # "new"
    <3>1. kind[r] = "upload"
      BY <1>3, <2>3, History
    <3>2. stage[r] \notin {"loading", "charging", "running", "logging", "locking", "storing",
                           "creating", "recording", "deleting", "wiping"}
      BY <3>1 DEF Roles
    <3>3. /\ stage[r] = "inserting" => logs[r] = "none"
          /\ stage[r] = "starting" => logs[r] \in {"none", "pending"}
          /\ stage[r] \in {"indexing", "completing", "failing"} => logs[r] # "pending"
          /\ stage[r] \in {"numbering", "noting", "counting", "done"} =>
               logs[r] \in {"none", "completed"}
      BY <3>1 DEF Settling
    <3>4. logs[r] \in {"none", "pending", "processing", "completed", "failed"}
      BY DEF Types
    <3> QED
      BY <2>3, <3>2, <3>3, <3>4
      DEF Step, TurnBegins, UploadBegins, CreationBegins, DeletionBegins, Begins, Idles,
          Charges, Loads, Logs, Takes, Stores, Inserts, Reports, Indexes, NumbersIt, Notes,
          Makes, Removes, Wipes, Moved, Outcomes
  <2> QED
    BY <2>1, <2>2, <2>3
<1> QED
  BY <1>1, <1>2, <1>3 DEF Settling

-----------------------------------------------------------------------------
(* Budgets *)

LEMMA UsedAfter ==
  ASSUME Bounded, NEW k, NEW r, NEW j, usage' = usage \cup {Event(k, r)}
  PROVE  /\ j # k => Used(j)' = Used(j)
         /\ Used(k)' <= Used(k) + 1 /\ Used(k)' \in Nat /\ Used(k) \in Nat
<1> DEFINE Before(i) == {e \in usage : e.kind = i}
           After(i)  == {e \in usage' : e.kind = i}
<1>1. j # k => After(j) = Before(j)
  BY DEF Event
<1>2. After(k) = Before(k) \cup {Event(k, r)}
  BY DEF Event
<1>3. IsFiniteSet(Before(k)) /\ Cardinality(Before(k)) \in Nat
  BY UsedIsNumber DEF Used
<1>4. Used(k) = Cardinality(Before(k)) /\ Used(j) = Cardinality(Before(j))
      /\ Used(k)' = Cardinality(After(k)) /\ Used(j)' = Cardinality(After(j))
  BY DEF Used
<1> HIDE DEF Before, After
<1>5. /\ IsFiniteSet(Before(k) \cup {Event(k, r)})
      /\ Cardinality(Before(k) \cup {Event(k, r)}) =
           IF Event(k, r) \in Before(k) THEN Cardinality(Before(k)) ELSE Cardinality(Before(k)) + 1
  BY <1>3, FS_AddElement
<1>6. Cardinality(After(k)) <= Cardinality(Before(k)) + 1 /\ Cardinality(After(k)) \in Nat
  BY <1>2, <1>3, <1>5
<1> QED
  BY <1>1, <1>3, <1>4, <1>6

LEMMA Limits ==
  ASSUME NEW k \in Quotas
  PROVE  Limit(k) \in Nat
BY ChatAssumption DEF Quotas, Limit

Overruns ==
  \A k \in Quotas : Used(k) > Limit(k) =>
    \E e, f \in usage : e.kind = k /\ f.kind = k /\ Overlap(e.by, f.by)

LEMMA BudgetsStep ==
  ASSUME Types, Past, Bounded, Budgets, Overruns, NEW r \in Requests, Step(r)
  PROVE  Budgets' /\ Overruns'
<1>1. \A e \in usage : e.by \in Requests /\ stage[e.by] # "new"
  BY DEF Types, Budgets
<1>2. \A e, f \in usage : Overlap(e.by, f.by) => Overlap(e.by, f.by)'
  BY <1>1, Overlapping
<1>3. \A e \in usage : \A q \in Requests :
        stage[q] # "new" /\ Overlap(e.by, q) => Overlap(e.by, q)'
  BY <1>1, Overlapping
<1>4. \A e \in usage : stage'[e.by] # "new"
  BY <1>1, History
<1>5. ASSUME NEW k \in Quotas, NEW q \in Requests \ {r}, Owes(k, q)'
      PROVE  /\ stage[q] # "new" /\ ~Ended(q)
             /\ Used(k) < Limit(k) \/ \E e \in usage : e.kind = k /\ Overlap(e.by, q)'
  <2>1. Owes(k, q)
    <3>1. stage'[q] = stage[q] /\ (stage[q] # "new" => kind'[q] = kind[q])
      BY History
    <3>2. stage'[q] # "new"
      BY <1>5 DEF Owes
    <3> QED
      BY <1>5, <3>1, <3>2 DEF Owes
  <2>2. stage[q] # "new" /\ ~Ended(q)
    BY <2>1 DEF Owes, Ended, Outcomes
  <2> QED
    BY <1>3, <2>1, <2>2 DEF Budgets
<1>6. CASE usage' = usage
  <2>1. \A k : Used(k)' = Used(k)
    BY <1>6 DEF Used
  <2>2. Overruns'
    BY <1>2, <1>6, <2>1 DEF Overruns, Limit
  <2>3. ASSUME NEW k \in Quotas, Owes(k, r)', stage[r] # "new"
        PROVE  Used(k)' < Limit(k) \/ \E e \in usage' : e.kind = k /\ Overlap(e.by, r)'
    <3>1. Owes(k, r)
      <4>1. kind'[r] = kind[r]
        BY <2>3, History
      <4>2. ASSUME NEW j \in Quotas, NEW here, NEW next, Charges(r, j, here, next)
            PROVE  Owes(k, r)
        BY <2>3, <4>1, <4>2 DEF Charges, Owes, Moved
      <4> QED
        BY <2>3, <4>1, <4>2
        DEF Owes, Step, TurnBegins, UploadBegins, CreationBegins, DeletionBegins, Begins, Idles,
            Loads, Logs, Takes, Stores, Inserts, Reports, Indexes, NumbersIt, Notes, Makes,
            Removes, Wipes, Moved
    <3> QED
      BY <1>3, <1>6, <2>1, <2>3, <3>1 DEF Budgets
  <2>4. ASSUME NEW k \in Quotas, Owes(k, r)', stage[r] = "new"
        PROVE  Used(k) < Limit(k)
    <3>1. TurnBegins(r) \/ UploadBegins(r) \/ CreationBegins(r) \/ DeletionBegins(r)
      BY <2>4 DEF Step, Idles, Charges, Loads, Logs, Takes, Stores, Inserts, Reports,
                  Indexes, NumbersIt, Notes, Makes, Removes, Wipes, Moved, Outcomes
    <3> QED
      BY <2>4, <3>1 DEF Owes, Limit, TurnBegins, UploadBegins, CreationBegins, DeletionBegins
  <2>5. ASSUME NEW k \in Quotas, NEW q \in Requests, Owes(k, q)'
        PROVE  Used(k)' < Limit(k) \/ \E e \in usage' : e.kind = k /\ Overlap(e.by, q)'
    <3>1. CASE q = r
      BY <2>1, <2>3, <2>4, <2>5, <3>1
    <3>2. CASE q # r
      BY <1>5, <1>6, <2>1, <2>5, <3>2
    <3> QED
      BY <3>1, <3>2
  <2>6. Budgets'
    BY <1>4, <1>6, <2>5 DEF Budgets, Limit
  <2> QED
    BY <2>2, <2>6
<1>7. ASSUME NEW k \in Quotas, NEW here, NEW next, Charges(r, k, here, next)
      PROVE  Budgets' /\ Overruns'
  <2>1. /\ usage' = usage \cup {Event(k, r)} /\ Owes(k, r) /\ kind'[r] = kind[r]
        /\ Event(k, r).kind = k /\ Event(k, r).by = r
    BY <1>7 DEF Charges, Moved, Event
  <2>2. stage[r] # "new" /\ ~Ended(r)
    BY <2>1 DEF Owes, Ended, Outcomes
  <2>3. Used(k) < Limit(k) \/ \E e \in usage : e.kind = k /\ Overlap(e.by, r)
    BY <2>1 DEF Budgets
  <2>4. /\ \A j : j # k => Used(j)' = Used(j)
        /\ Used(k)' <= Used(k) + 1 /\ Used(k)' \in Nat /\ Used(k) \in Nat
    BY <2>1, UsedAfter
  <2>5. Overruns'
    <3> SUFFICES ASSUME NEW j \in Quotas, Used(j)' > Limit(j)
                 PROVE  \E e, f \in usage' : e.kind = j /\ f.kind = j /\ Overlap(e.by, f.by)'
      BY DEF Overruns, Limit
    <3>1. CASE j # k
      BY <1>2, <2>1, <2>4, <3>1 DEF Overruns
    <3>2. CASE j = k
      <4>1. ~(Used(k) < Limit(k))
        <5>1. Limit(k) \in Nat
          BY Limits
        <5> QED
          BY <2>4, <3>2, <5>1
      <4>2. PICK e \in usage : e.kind = k /\ Overlap(e.by, r)
        BY <2>3, <4>1
      <4>3. Overlap(e.by, r)'
        BY <1>3, <2>2, <4>2
      <4> QED
        BY <2>1, <3>2, <4>2, <4>3
    <3> QED
      BY <3>1, <3>2
  <2>6. \A j : ~Owes(j, r)'
    BY <1>7, <2>1 DEF Charges, Moved, Owes
  <2>7. ASSUME NEW j \in Quotas, NEW q \in Requests, Owes(j, q)'
        PROVE  Used(j)' < Limit(j) \/ \E e \in usage' : e.kind = j /\ Overlap(e.by, q)'
    <3>1. q # r
      BY <2>6, <2>7
    <3>2. /\ stage[q] # "new" /\ ~Ended(q)
          /\ Used(j) < Limit(j) \/ \E e \in usage : e.kind = j /\ Overlap(e.by, q)'
      BY <1>5, <2>7, <3>1
    <3>3. CASE j # k
      BY <2>1, <2>4, <3>2, <3>3
    <3>4. CASE j = k
      <4>1. Overlap(r, q)
        BY <2>2, <3>1, <3>2, Beside
      <4>2. Overlap(r, q)'
        BY <2>2, <3>2, <4>1, Overlapping
      <4> QED
        BY <2>1, <3>4, <4>2
    <3> QED
      BY <3>3, <3>4
  <2>8. \A e \in usage' : stage'[e.by] # "new"
    BY <1>4, <2>1, History
  <2> QED
    BY <2>5, <2>7, <2>8 DEF Budgets, Limit
<1> QED
  BY <1>6, <1>7, Frame

-----------------------------------------------------------------------------
(* The number of chats *)

LEMMA OneLess ==
  ASSUME NEW C, NEW r, IsFiniteSet(C), r \in C, Cardinality(C \ {r}) < MaxChats
  PROVE  Cardinality(C) <= MaxChats
<1>1. Cardinality(C \ {r}) = Cardinality(C) - 1
  BY FS_RemoveElement
<1>2. Cardinality(C) \in Nat /\ MaxChats \in Nat
  BY FS_CardinalityType, ChatAssumption
<1> QED
  BY <1>1, <1>2

LEMMA FewerChats ==
  ASSUME Bounded, NEW C \in SUBSET chats, Cardinality(chats) < MaxChats
  PROVE  Cardinality(C) < MaxChats
<1>1. IsFiniteSet(chats) /\ Cardinality(C) <= Cardinality(chats) /\ IsFiniteSet(C)
  BY FS_Subset DEF Bounded
<1>2. Cardinality(C) \in Nat /\ Cardinality(chats) \in Nat /\ MaxChats \in Nat
  BY <1>1, FS_CardinalityType, ChatAssumption
<1> QED
  BY <1>1, <1>2

LEMMA ChatLimitsStep ==
  ASSUME Types, Past, Roles, Bounded, ChatLimits, NEW r \in Requests, Step(r)
  PROVE  ChatLimits'
<1>1. \A s \in chats \ Home : s \in Requests /\ stage[s] # "new"
  BY DEF Types, Chats, Roles
<1>2. \A s, t \in chats \ Home : Overlap(s, t)' <=> Overlap(s, t)
  BY <1>1, Overlapping
<1>3. \A C \in SUBSET chats : Apart(C)' => Apart(C)
  BY <1>2 DEF Apart
<1>4. ASSUME NEW q \in Requests \ {r}, stage'[q] = "creating", NEW C \in SUBSET chats, Apart(C)',
             \A s \in C \ Home : ~Overlap(s, q)'
      PROVE  Cardinality(C) < MaxChats
  <2>1. stage[q] = "creating" /\ stage[q] # "new"
    BY <1>4, History
  <2>2. \A s \in C \ Home : ~Overlap(s, q)
    <3> SUFFICES ASSUME NEW s \in C \ Home
                 PROVE  ~Overlap(s, q)
      OBVIOUS
    <3>1. s \in Requests /\ stage[s] # "new"
      BY <1>1
    <3>2. ~Overlap(s, q)'
      BY <1>4
    <3> QED
      BY <2>1, <3>1, <3>2, Overlapping
  <2>3. Apart(C)
    BY <1>3, <1>4
  <2> QED
    BY <2>1, <2>2, <2>3 DEF ChatLimits
<1>5. CASE chats' \subseteq chats
  <2>1. ASSUME NEW C \in SUBSET chats', Apart(C)'
        PROVE  Cardinality(C) <= MaxChats
    BY <1>3, <1>5, <2>1 DEF ChatLimits
  <2>2. ASSUME NEW q \in Requests, NEW C \in SUBSET chats', stage'[q] = "creating", Apart(C)',
               \A s \in C \ Home : ~Overlap(s, q)'
        PROVE  Cardinality(C) < MaxChats
    <3>1. CASE q = r
      <4>1. CreationBegins(r)
        BY <2>2, <3>1 DEF Step, TurnBegins, UploadBegins, DeletionBegins, Idles,
          Charges, Loads, Logs, Takes, Stores, Inserts, Reports, Indexes, NumbersIt, Notes,
          Makes, Removes, Wipes, Moved
      <4>2. Cardinality(chats) < MaxChats
        BY <2>2, <3>1, <4>1 DEF CreationBegins
      <4> QED
        BY <1>5, <2>2, <4>2, FewerChats
    <3>2. CASE q # r
      BY <1>4, <1>5, <2>2, <3>2
    <3> QED
      BY <3>1, <3>2
  <2> QED
    BY <2>1, <2>2 DEF ChatLimits
<1>6. CASE Makes(r)
  <2>1. chats' = chats \cup {r} /\ stage[r] = "creating" /\ stage'[r] = "recording"
    BY <1>6 DEF Makes, Moved
  <2>2. r \notin Home /\ stage[r] # "new" /\ ~Ended(r)
    BY <2>1, ChatAssumption DEF Ended, Outcomes
  <2>3. ASSUME NEW C \in SUBSET chats', Apart(C)'
        PROVE  Cardinality(C) <= MaxChats
    <3>1. CASE r \notin C
      <4>1. C \in SUBSET chats
        BY <2>1, <3>1
      <4> QED
        BY <1>3, <2>3, <4>1 DEF ChatLimits
    <3>2. CASE r \in C
      <4>1. C \ {r} \in SUBSET chats
        BY <2>1
      <4>2. Apart(C \ {r})'
        BY <2>3 DEF Apart
      <4>3. Apart(C \ {r})
        BY <1>3, <4>1, <4>2
      <4>4. \A s \in (C \ {r}) \ Home : ~Overlap(s, r)
        <5> SUFFICES ASSUME NEW s \in (C \ {r}) \ Home
                     PROVE  ~Overlap(s, r)
          OBVIOUS
        <5>1. s \in Requests /\ stage[s] # "new"
          BY <1>1, <4>1
        <5>2. ~Overlap(s, r)'
          BY <2>2, <2>3, <3>2 DEF Apart
        <5> QED
          BY <2>2, <5>1, <5>2, Overlapping
      <4>5. Cardinality(C \ {r}) < MaxChats
        BY <2>1, <4>1, <4>3, <4>4 DEF ChatLimits
      <4>6. IsFiniteSet(C)
        <5>1. IsFiniteSet(chats \cup {r})
          BY FS_AddElement DEF Bounded
        <5> QED
          BY <2>1, <5>1, FS_Subset
      <4> QED
        BY <3>2, <4>5, <4>6, OneLess
    <3> QED
      BY <3>1, <3>2
  <2>4. ASSUME NEW q \in Requests, NEW C \in SUBSET chats', stage'[q] = "creating", Apart(C)',
               \A s \in C \ Home : ~Overlap(s, q)'
        PROVE  Cardinality(C) < MaxChats
    <3>1. q # r
      BY <2>1, <2>4
    <3>2. stage[q] # "new" /\ ~Ended(q)
      <4>1. stage[q] = "creating"
        BY <2>4, <3>1, History
      <4> QED
        BY <4>1 DEF Ended, Outcomes
    <3>3. Overlap(r, q)'
      <4>1. Overlap(r, q)
        BY <2>2, <3>1, <3>2, Beside
      <4> QED
        BY <2>2, <3>2, <4>1, Overlapping
    <3>4. r \notin C
      BY <2>2, <2>4, <3>3
    <3>5. C \in SUBSET chats
      BY <2>1, <3>4
    <3> QED
      BY <1>4, <2>4, <3>1, <3>5
  <2> QED
    BY <2>3, <2>4 DEF ChatLimits
<1>7. (\E next : Removes(r, next)) => chats' \subseteq chats
  BY DEF Removes
<1> QED
  BY <1>5, <1>6, <1>7, Frame

LEMMA NoMoreChats ==
  ASSUME ChatLimits, Cardinality(chats) > MaxChats, Bounded
  PROVE  \E r, s \in chats \ Home : Overlap(r, s)
<1>1. Cardinality(chats) \in Nat /\ MaxChats \in Nat
  BY FS_CardinalityType, ChatAssumption DEF Bounded
<1>2. ~Apart(chats)
  <2>1. chats \in SUBSET chats
    OBVIOUS
  <2>2. Apart(chats) => Cardinality(chats) <= MaxChats
    BY <2>1 DEF ChatLimits
  <2> QED
    BY <1>1, <2>2
<1> QED
  BY <1>2 DEF Apart

LEMMA BoundedStep ==
  ASSUME Types, Bounded, NEW r \in Requests, Step(r)
  PROVE  Bounded'
<1>1. IsFiniteSet(usage')
  <2>1. \A k : IsFiniteSet(usage \cup {Event(k, r)})
    BY FS_AddElement DEF Bounded
  <2>2. usage' = usage \/ \E k : usage' = usage \cup {Event(k, r)}
    BY Frame DEF Charges
  <2> QED
    BY <2>1, <2>2 DEF Bounded
<1>2. IsFiniteSet(chats')
  <2>1. IsFiniteSet(chats \cup {r}) /\ IsFiniteSet(chats)
    BY FS_AddElement DEF Bounded
  <2>2. chats' \in SUBSET (chats \cup {r})
    BY Frame DEF Makes, Removes
  <2> QED
    BY <2>1, <2>2, FS_Subset
<1>3. PICK n \in Nat : (\A m \in messages : m.seq <= n) /\ (\A i \in interactions : i.at <= n)
  BY DEF Bounded
<1> DEFINE b == n + sequence[r] + LastPlace(chat[r]) + 1
<1>4. sequence[r] \in Nat /\ LastPlace(chat[r]) \in Nat
  BY LastRow DEF Types
<1>5. /\ b \in Nat /\ n <= b /\ sequence[r] <= b /\ sequence[r] + 1 <= b
      /\ LastPlace(chat[r]) + 1 <= b
      /\ \A x \in Nat : x <= n => x <= b
  BY <1>3, <1>4
<1> HIDE DEF b
<1>6. ASSUME NEW m \in messages'
      PROVE  m.seq <= b
  <2>1. \A o \in messages : o.seq \in Nat /\ o.seq <= b
    BY <1>3, <1>5 DEF Types, Messages
  <2>2. \A o \in Pair(r) : o.seq = sequence[r] \/ o.seq = sequence[r] + 1
    BY DEF Pair
  <2>3. m \in messages \/ m \in Pair(r)
        \/ m = [chat |-> chat[r], by |-> r, seq |-> sequence[r], role |-> "system"]
    BY Frame DEF Notes, Stores, Removes
  <2> QED
    BY <1>5, <2>1, <2>2, <2>3
<1>7. ASSUME NEW i \in interactions'
      PROVE  i.at <= b
  <2>1. \A o \in interactions : o.at \in Nat /\ o.at <= b
    BY <1>3, <1>5, RowsAreTyped
  <2>2. i \in interactions \/ i.at = LastPlace(chat[r]) + 1
    BY Frame DEF Logs, Row, Removes
  <2> QED
    BY <1>5, <2>1, <2>2
<1> QED
  BY <1>1, <1>2, <1>5, <1>6, <1>7 DEF Bounded

-----------------------------------------------------------------------------
(* The invariant *)

LEMMA WorkInit ==
  ASSUME Init
  PROVE  WorkInv
<1> USE DEF Init
<1>1. Types
  BY DEF Types, Chats, Stages, Outcomes
<1>2. ForeignKeys /\ Owners
  BY DEF ForeignKeys, Owners
<1>3. Past /\ Roles /\ Locks
  <2>1. \A r \in Requests : r \notin chats
    BY ChatAssumption
  <2> QED
    BY <2>1 DEF Past, Roles, Locks
<1>4. Numbers /\ Places /\ Remembered /\ TurnsKeepTheirNumbers /\ MemoryForgetsOnlyOverlaps
  BY DEF Numbers, Places, Remembered, TurnsKeepTheirNumbers, MemoryForgetsOnlyOverlaps,
         TurnMessages
<1>5. Purged /\ Indexed /\ Copies /\ Lateness /\ Settling /\ DeletionFailsOnlyByOverlap
  BY DEF Purged, Indexed, Copies, Lateness, Settling, DeletionFailsOnlyByOverlap
<1>6. Budgets
  BY DEF Budgets, Owes
<1>7. Bounded
  <2>1. IsFiniteSet(usage) /\ IsFiniteSet(chats)
    BY FS_EmptySet, ChatAssumption
  <2> QED
    BY <2>1 DEF Bounded
<1>8. ChatLimits
  <2>1. ASSUME NEW C \in SUBSET chats
        PROVE  Cardinality(C) <= MaxChats
    <3>1. IsFiniteSet(Home) /\ Cardinality(C) <= Cardinality(Home) /\ IsFiniteSet(C)
      BY ChatAssumption, FS_Subset
    <3>2. Cardinality(C) \in Nat /\ Cardinality(Home) \in Nat /\ MaxChats \in Nat
      BY <3>1, FS_CardinalityType, ChatAssumption
    <3>3. Cardinality(Home) <= MaxChats
      BY ChatAssumption
    <3> QED
      BY <3>1, <3>2, <3>3
  <2> QED
    BY <2>1 DEF ChatLimits
<1>9. OverrunNeedsOverlap
  <2>1. \A k \in Quotas : ~(Used(k) > Limit(k))
    <3> SUFFICES ASSUME NEW k \in Quotas
                 PROVE  ~(Used(k) > Limit(k))
      OBVIOUS
    <3>1. {e \in usage : e.kind = k} = {}
      OBVIOUS
    <3>2. Used(k) = 0
      BY <3>1, FS_EmptySet DEF Used
    <3> QED
      BY <3>2, Limits
  <2> QED
    BY <1>7, <1>8, <2>1, NoMoreChats DEF OverrunNeedsOverlap, Quotas
<1> QED
  BY <1>1, <1>2, <1>3, <1>4, <1>5, <1>6, <1>7, <1>8, <1>9 DEF WorkInv, TypeOK

LEMMA WorkNext ==
  ASSUME WorkInv, [Next]_vars
  PROVE  WorkInv'
<1> USE DEF WorkInv, TypeOK
<1>1. CASE UNCHANGED vars
  <2> USE <1>1 DEF vars, tables, inputs, locals
  <2>1. /\ \A s, t : Overlap(s, t)' <=> Overlap(s, t)
        /\ \A k : Used(k)' = Used(k)
        /\ \A d : Cleared(d)' = Cleared(d) /\ Late(d)' = Late(d)
    BY DEF Overlap, Used, Cleared, Late, Children
  <2>2. TypeOK' /\ Past' /\ Roles' /\ Locks'
    BY DEF Types, ForeignKeys, Owners, Past, Roles, Locks, Ended
  <2>3. Numbers' /\ Places' /\ Remembered'
    BY <2>1 DEF Numbers, Places, Remembered, Remembers, Hidden, TurnMessages
  <2>4. Purged' /\ Indexed' /\ Copies' /\ Lateness' /\ Settling'
    BY <2>1 DEF Purged, Indexed, Copies, Lateness, Settling
  <2>5. Budgets' /\ ChatLimits' /\ Bounded'
    BY <2>1 DEF Budgets, Owes, Limit, ChatLimits, Apart, Bounded
  <2>6. /\ TurnsKeepTheirNumbers' /\ MemoryForgetsOnlyOverlaps'
        /\ OverrunNeedsOverlap' /\ DeletionFailsOnlyByOverlap'
    BY <2>1 DEF TurnsKeepTheirNumbers, TurnMessages, MemoryForgetsOnlyOverlaps,
                OverrunNeedsOverlap, Limit, DeletionFailsOnlyByOverlap
  <2> QED
    BY <2>2, <2>3, <2>4, <2>5, <2>6
<1>2. ASSUME NEW r \in Requests, Step(r)
      PROVE  WorkInv'
  <2>1. Types'
    BY TypesStep
  <2>2. ForeignKeys' /\ Owners' /\ Locks' /\ Roles' /\ Past'
    BY <1>2, KeysStep, LocksStep, RolesStep, History
  <2>3. Numbers' /\ TurnsKeepTheirNumbers'
    BY <1>2, NumbersStep
  <2>4. Places' /\ Remembered' /\ MemoryForgetsOnlyOverlaps'
    BY <1>2, PlacesStep, MemoryStep
  <2>5. Purged' /\ Indexed' /\ Copies' /\ Lateness' /\ DeletionFailsOnlyByOverlap' /\ Settling'
    BY <1>2, PurgedStep, IndexedStep, CopiesStep, LatenessStep, FailuresStep, SettlingStep
  <2>6. Overruns
    BY DEF OverrunNeedsOverlap, Overruns, Quotas
  <2>7. Budgets' /\ Overruns' /\ ChatLimits' /\ Bounded'
    BY <1>2, <2>6, BudgetsStep, ChatLimitsStep, BoundedStep
  <2>8. OverrunNeedsOverlap'
    <3>1. Cardinality(chats') > MaxChats => \E q, s \in chats' \ Home : Overlap(q, s)'
      <4>1. Cardinality(chats') \in Nat /\ MaxChats \in Nat
        BY <2>7, FS_CardinalityType, ChatAssumption DEF Bounded
      <4>2. Apart(chats)' => Cardinality(chats') <= MaxChats
        BY <2>7 DEF ChatLimits
      <4> QED
        BY <4>1, <4>2 DEF Apart
    <3> QED
      BY <2>7, <3>1 DEF OverrunNeedsOverlap, Overruns, Quotas
  <2> QED
    BY <2>1, <2>2, <2>3, <2>4, <2>5, <2>7, <2>8
<1> QED
  BY <1>1, <1>2, Steps

\* The inductive invariant of ChatWork.
THEOREM WorkInvariant == Spec => []WorkInv
BY WorkInit, WorkNext, PTL DEF Spec

-----------------------------------------------------------------------------
(* What follows from it *)

(***************************************************************************)
(* The tables and the requests have their types, no row outlives its chat, *)
(* and the advisory lock of a chat is held by a turn that is storing its   *)
(* messages there (message_models.py's foreign keys, _store_messages).     *)
(***************************************************************************)
THEOREM WorkTypes == Spec => []TypeOK
<1>1. WorkInv => TypeOK
  BY DEF WorkInv
<1> QED
  BY <1>1, WorkInvariant, PTL

(***************************************************************************)
(* However turns, uploads and deletions interleave, no two messages of a   *)
(* chat's turns get the same number, and an answer has the number after    *)
(* its question's (_store_messages).                                       *)
(***************************************************************************)
THEOREM TurnNumbers == Spec => []TurnsKeepTheirNumbers
<1>1. WorkInv => TurnsKeepTheirNumbers
  BY DEF WorkInv
<1> QED
  BY <1>1, WorkInvariant, PTL

(***************************************************************************)
(* A turn's memory holds every turn that was saved before it began, except *)
(* where a row in between belongs to a turn that overlapped the forgotten  *)
(* one (_load_prior_evidence_state, _log_interaction).                     *)
(***************************************************************************)
THEOREM MemoryLosesOnlyOverlaps == Spec => []MemoryForgetsOnlyOverlaps
<1>1. WorkInv => MemoryForgetsOnlyOverlaps
  BY DEF WorkInv
<1> QED
  BY <1>1, WorkInvariant, PTL

(***************************************************************************)
(* A quota or the number of chats is exceeded only by requests of which    *)
(* two overlapped: the checks are sound one after another                  *)
(* (enforce_query_rate, enforce_ingest_budget, create_chat).               *)
(***************************************************************************)
THEOREM OverrunsOverlap == Spec => []OverrunNeedsOverlap
<1>1. WorkInv => OverrunNeedsOverlap
  BY DEF WorkInv
<1> QED
  BY <1>1, WorkInvariant, PTL

(***************************************************************************)
(* A row that says completed has its chunks, unless a purge overlapped     *)
(* (_run_ingestion, purge_all_chats).                                      *)
(***************************************************************************)
THEOREM CompletedHaveChunks == Spec => []CompletedIsIndexed
<1>1. WorkInv => CompletedIsIndexed
  BY DEF WorkInv, Indexed, CompletedIsIndexed
<1> QED
  BY <1>1, WorkInvariant, PTL

(***************************************************************************)
(* No upload that begins after the completion of the same file puts its    *)
(* chunks into the chat again (upload's look for an existing row).         *)
(***************************************************************************)
THEOREM CopiesOverlap == Spec => []CopiesNeedOverlap
<1>1. WorkInv => CopiesNeedOverlap
  BY DEF WorkInv, TypeOK, Types, Copies, CopiesNeedOverlap
<1> QED
  BY <1>1, WorkInvariant, PTL

(***************************************************************************)
(* A deletion or a purge that fails did so because of a turn or an upload  *)
(* that overlapped it (_delete_chat_children).                             *)
(***************************************************************************)
THEOREM DeletionsFailByOverlap == Spec => []DeletionFailsOnlyByOverlap
<1>1. WorkInv => DeletionFailsOnlyByOverlap
  BY DEF WorkInv
<1> QED
  BY <1>1, WorkInvariant, PTL

(***************************************************************************)
(* The row of an upload that is over, however it ended: pending only if    *)
(* nothing was indexed and it failed or died on the way, processing if the  *)
(* worker died, and charged for only if completed (_run_ingestion, its     *)
(* except branch, and its statements before the try).                      *)
(***************************************************************************)
THEOREM StatusesTellTheOutcome == Spec => []StatusTellsTheOutcome
<1>1. ASSUME WorkInv
      PROVE  StatusTellsTheOutcome
  <2>1. ASSUME NEW r \in Requests, kind[r] = "upload", Ended(r)
        PROVE  /\ logs[r] = "pending" => stage[r] \in {"failed", "lost"} /\ r \notin chunks
               /\ logs[r] = "processing" => stage[r] = "lost"
               /\ Event("ingest_tokens", r) \in usage => logs[r] \in {"completed", "none"}
    BY <1>1, <2>1 DEF WorkInv, Settling, Ended, Outcomes
  <2> QED
    BY <2>1 DEF StatusTellsTheOutcome
<1> QED
  BY <1>1, WorkInvariant, PTL

(***************************************************************************)
(* No step, a purge included, takes a row out of the ledger of the quotas  *)
(* (record_usage, purge_all_chats).                                        *)
(***************************************************************************)
THEOREM LedgerGrows == Spec => LedgerIsKept
<1>1. ASSUME WorkInv, [Next]_vars
      PROVE  [usage \subseteq usage']_vars
  <2>1. CASE UNCHANGED vars
    BY <2>1
  <2>2. ASSUME NEW r \in Requests, Step(r)
        PROVE  usage \subseteq usage'
    BY <2>2, Frame DEF Charges
  <2> QED
    BY <1>1, <2>1, <2>2, Steps DEF WorkInv, TypeOK
<1> QED
  BY <1>1, WorkInvariant, PTL DEF Spec, LedgerIsKept
=============================================================================
