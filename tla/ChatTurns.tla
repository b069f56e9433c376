------------------------------ MODULE ChatTurns ------------------------------
(***************************************************************************)
(* The turns of a chat, with (query_agent_stream) and without (query_agent)*)
(* streaming: what they load before the graph runs and save after it.  The *)
(* graph is AgentGraph and the stream QueryStream; here they only end.     *)
(***************************************************************************)
EXTENDS ChatRecords

\* enforce_query_rate and _verify_chat_ownership.
Admit(r) ==
  /\ \E k \in {"query", "stream"}, c \in Known :
       /\ Begin(r, k, c, Nobody)
       /\ Go(r, IF QueryRefused THEN "refused"
                ELSE IF c \notin chats THEN "missing"
                ELSE IF k = "query" THEN "loading" ELSE "charging")
  /\ UNCHANGED <<tables, locals>>

\* record_usage; a stream has not loaded anything yet.
Charge(r) ==
  /\ Trans(r, "charging", IF kind[r] = "query" THEN "running" ELSE "loading")
  /\ usage' = usage \cup {Event("query", r)}
  /\ UNCHANGED <<chats, interactions, messages, logs, chunks, lock, locals>>

InteractionsOf(c) == {i \in interactions : i.chat = c}

LastPlace(c) == Max({i.at : i \in InteractionsOf(c)} \cup {0})

\* _load_prior_evidence_state: of the newest interaction, whatever it holds.
LoadedMemory(c) ==
  UNION {i.memory : i \in {j \in InteractionsOf(c) : j.at = LastPlace(c)}}

\* A stream looks once more whether the chat is there.
Load(r) ==
  LET next == IF kind[r] = "query" THEN "charging" ELSE "running"
  IN  /\ Trans(r, "loading",
               IF kind[r] = "stream" /\ chat[r] \notin chats THEN "failed" ELSE next)
      /\ loaded' = [loaded EXCEPT ![r] = LoadedMemory(chat[r])]
      /\ UNCHANGED <<tables, sequence, found>>

GraphEnds(r) ==
  /\ Trans(r, "running", "logging")
  /\ UNCHANGED <<tables, locals>>

\* A timeout or an exception.  A stream saves nothing either: its except branch
\* raises before it gets there (Break in QueryStream).
GraphFails(r) ==
  /\ Trans(r, "running", "failed")
  /\ UNCHANGED <<tables, locals>>

\* Mutant of Merged: the turn's own evidence state is saved as it is.
OwnMemory(r) == {r}

\* _finalize_evidence_state merges what was loaded when the turn began.
Merged(r) == loaded[r] \cup {r}

Row(r) ==
  [chat |-> chat[r], by |-> r, at |-> LastPlace(chat[r]) + 1, memory |-> Merged(r)]

\* _log_interaction.  Its failure is swallowed, but then the same session cannot store.
Log(r) ==
  /\ \/ /\ chat[r] \in chats
        /\ Trans(r, "logging", "locking")
        /\ interactions' = interactions \cup {Row(r)}
     \/ Trans(r, "logging", "failed") /\ UNCHANGED interactions
  /\ UNCHANGED <<chats, messages, logs, chunks, usage, lock, locals>>

\* Mutant of Lock: pg_advisory_xact_lock is not taken.
LockNothing(r) ==
  /\ Trans(r, "locking", "storing")
  /\ sequence' = [sequence EXCEPT ![r] = LastSequence(chat[r]) + 1]
  /\ UNCHANGED <<tables, loaded, found>>

\* pg_advisory_xact_lock, then the last sequence number.
Lock(r) ==
  /\ Trans(r, "locking", "storing")
  /\ lock[chat[r]] = Nobody
  /\ lock' = [lock EXCEPT ![chat[r]] = r]
  /\ sequence' = [sequence EXCEPT ![r] = LastSequence(chat[r]) + 1]
  /\ UNCHANGED <<chats, interactions, messages, logs, chunks, usage, loaded, found>>

Pair(r) ==
  {[chat |-> chat[r], by |-> r, seq |-> sequence[r], role |-> "user"],
   [chat |-> chat[r], by |-> r, seq |-> sequence[r] + 1, role |-> "assistant"]}

Unlocked(r) == [c \in Chats |-> IF lock[c] = r THEN Nobody ELSE lock[c]]

\* The two messages and the commit, which releases the lock.
Store(r) ==
  /\ \/ /\ chat[r] \in chats
        /\ Trans(r, "storing", "done")
        /\ messages' = messages \cup Pair(r)
     \/ Trans(r, "storing", "failed") /\ UNCHANGED messages
  /\ lock' = Unlocked(r)
  /\ UNCHANGED <<chats, interactions, logs, chunks, usage, locals>>

TurnStep(r) ==
  \/ Admit(r)
  \/ Charge(r)
  \/ Load(r)
  \/ GraphEnds(r)
  \/ GraphFails(r)
  \/ Log(r)
  \/ Lock(r)
  \/ Store(r)
=============================================================================
