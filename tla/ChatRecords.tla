----------------------------- MODULE ChatRecords -----------------------------
(***************************************************************************)
(* The tables that hold one user's chats (agent/models.py,                 *)
(* agent/message_models.py, documents/models.py, auth/models.py), and the  *)
(* requests that read and write them.  Every statement of a handler that   *)
(* can meet another request is a step of its own; a SELECT sees committed  *)
(* rows (PostgreSQL's read committed).  The modules ChatTurns, Ingestion   *)
(* and ChatAdmin hold the handlers; ChatWork puts them together.           *)
(***************************************************************************)
EXTENDS Integers, FiniteSets, FiniteSetsExt

CONSTANTS
  Requests,     (* each is made at most once                                  *)
  Nobody,
  Home,         (* chats that exist at the start                              *)
  Files,        (* what is uploaded, told apart by file_hash; a file costs 1  *)
  Titles,       (* that new chats are asked for with                           *)
  HomeTitle,    (* of the chats that exist at the start                        *)
  Kinds,        (* which requests are made                                    *)
  MaxQueries,   (* MAX_QUERIES_PER_HOUR                                       *)
  MaxChats,     (* MAX_CHATS_PER_USER                                         *)
  MaxCreates,   (* MAX_CHAT_CREATES_PER_HOUR                                  *)
  MaxTokens     (* MAX_INGEST_TOKENS_PER_DAY                                  *)

ASSUME ChatAssumption ==
  /\ Nobody \notin Requests \cup Home
  /\ Requests \cap Home = {}
  /\ IsFiniteSet(Requests) /\ IsFiniteSet(Home)
  /\ Kinds \subseteq {"query", "stream", "upload", "create", "delete", "purge"}
  /\ {MaxQueries, MaxChats, MaxCreates, MaxTokens} \subseteq Nat
  /\ Cardinality(Home) <= MaxChats

VARIABLES
  chats,         (* those that exist; one made by request r is called r       *)
  interactions,  (* rows of agents                                            *)
  messages,      (* rows of chat_messages                                     *)
  logs,          (* ingestion_logs: the status of each upload's row           *)
  chunks,        (* uploads whose chunks are in document_chunks               *)
  usage,         (* usage_events of the running window                        *)
  lock,          (* who holds a chat's advisory lock                          *)
  kind, stage,   (* of a request: what it is, and what it does next           *)
  chat,          (* the chat it is about                                      *)
  about,         (* the file of an upload, the title of a new chat            *)
  before,        (* requests that had ended when it began (history)           *)
  loaded,        (* a turn: the memory it loaded                              *)
  sequence,      (* the sequence number it will use                           *)
  found          (* a deletion: the rows it has deleted and not committed     *)

tables == <<chats, interactions, messages, logs, chunks, usage, lock>>
inputs == <<kind, chat, about, before>>
locals == <<loaded, sequence, found>>
vars   == <<tables, inputs, stage, locals>>

-----------------------------------------------------------------------------
(* Values *)

Chats == Home \cup Requests

Stages == {"new", "loading", "charging", "running", "logging", "locking",
           "storing", "inserting", "starting", "indexing", "completing",
           "numbering", "noting", "counting", "failing", "creating", "recording",
           "deleting", "wiping"}

\* A 200, 429, 404 or 500; an existing row returned instead of a new one; two of
\* them where one was expected; the worker died.
Outcomes == {"done", "refused", "missing", "failed", "reused", "ambiguous", "lost"}

\* Which turns a memory was built from.  A row's place among those of its chat
\* stands for created_at.
Interactions == [chat : Chats, by : Requests, at : Nat, memory : SUBSET Requests]
Messages == [chat : Chats, by : Requests, seq : Nat,
             role : {"user", "assistant", "system"}]
Rows == ({"message"} \X Messages) \cup ({"turn"} \X Interactions)
          \cup ({"log"} \X Requests) \cup ({"chat"} \X Chats)

ForeignKeys ==
  /\ \A i \in interactions : i.chat \in chats
  /\ \A m \in messages : m.chat \in chats
  /\ \A r \in chunks : chat[r] \in chats
  /\ \A r \in Requests : logs[r] # "none" => chat[r] \in chats

\* The lock belongs to who is storing.
Owners ==
  \A c \in Chats : lock[c] # Nobody =>
    stage[lock[c]] = "storing" /\ chat[lock[c]] = c

Types ==
  /\ chats \subseteq Chats
  /\ interactions \subseteq Interactions
  /\ messages \subseteq Messages
  /\ logs \in [Requests -> {"none", "pending", "processing", "completed", "failed"}]
  /\ chunks \subseteq Requests
  /\ usage \subseteq [kind : {"query", "chat_create", "ingest_tokens"}, by : Requests]
  /\ lock \in [Chats -> Requests \cup {Nobody}]
  /\ kind \in [Requests -> Kinds \cup {"none"}]
  /\ stage \in [Requests -> Stages \cup Outcomes]
  /\ chat \in [Requests -> Chats \cup {Nobody}]
  /\ about \in [Requests -> Files \cup Titles \cup {Nobody}]
  /\ before \in [Requests -> SUBSET Requests]
  /\ loaded \in [Requests -> SUBSET Requests]
  /\ sequence \in [Requests -> Nat]
  /\ found \in [Requests -> SUBSET Rows]

TypeOK == Types /\ ForeignKeys /\ Owners

Init ==
  /\ chats = Home
  /\ interactions = {}
  /\ messages = {}
  /\ logs = [r \in Requests |-> "none"]
  /\ chunks = {}
  /\ usage = {}
  /\ lock = [c \in Chats |-> Nobody]
  /\ kind = [r \in Requests |-> "none"]
  /\ stage = [r \in Requests |-> "new"]
  /\ chat = [r \in Requests |-> Nobody]
  /\ about = [r \in Requests |-> Nobody]
  /\ before = [r \in Requests |-> {}]
  /\ loaded = [r \in Requests |-> {}]
  /\ sequence = [r \in Requests |-> 0]
  /\ found = [r \in Requests |-> {}]

-----------------------------------------------------------------------------
(* Requests *)

Ended(r)  == stage[r] \in Outcomes
Active(r) == stage[r] \notin Outcomes \cup {"new"}

Overlap(r, s) == r # s /\ r \notin before[s] /\ s \notin before[r]

\* A chat the client has seen; it may be deleted by now.
Known == Home \cup {r \in Requests : kind[r] = "create" /\ stage[r] = "done"}

Begin(r, k, c, a) ==
  /\ stage[r] = "new"
  /\ k \in Kinds
  /\ kind' = [kind EXCEPT ![r] = k]
  /\ chat' = [chat EXCEPT ![r] = c]
  /\ about' = [about EXCEPT ![r] = a]
  /\ before' = [before EXCEPT ![r] = {s \in Requests : Ended(s)}]

Go(r, next) == stage' = [stage EXCEPT ![r] = next]

\* From one stage to another, the request's inputs being what they are.
Trans(r, here, next) == stage[r] = here /\ Go(r, next) /\ UNCHANGED inputs

-----------------------------------------------------------------------------
(* Queries *)

\* count_events_in_last; every ingested file costs 1, so also sum_usage_in_last.
Used(k) == Cardinality({e \in usage : e.kind = k})

Event(k, r) == [kind |-> k, by |-> r]

\* Mutant of QueryRefused: one more is let through.
QueryRefusedLate == Used("query") > MaxQueries

\* enforce_query_rate.
QueryRefused == Used("query") >= MaxQueries

\* enforce_ingest_budget.
IngestRefused == Used("ingest_tokens") + 1 > MaxTokens

LastSequence(c) == Max({m.seq : m \in {n \in messages : n.chat = c}} \cup {0})

TitleOf(c) == IF c \in Home THEN HomeTitle ELSE about[c]

Empty(c) == \A m \in messages : m.chat # c

EmptyChats(title) == {c \in chats : TitleOf(c) = title /\ Empty(c)}

\* The rows whose foreign key is the chat, document_chunks aside.
Children(c) ==
  {<<"message", m>> : m \in {n \in messages : n.chat = c}}
    \cup {<<"turn", i>> : i \in {j \in interactions : j.chat = c}}
    \cup {<<"log", r>> : r \in {s \in Requests : logs[s] # "none" /\ chat[s] = c}}

\* A deletion holds the row until it commits.
LogIsFree(r) ==
  \A d \in Requests : stage[d] = "deleting" => <<"log", r>> \notin found[d]
=============================================================================
