------------------------------- MODULE ChatWork -------------------------------
(***************************************************************************)
(* The chats of one user under concurrent requests: turns, uploads and     *)
(* their background tasks, new chats, deletions.                           *)
(***************************************************************************)
EXTENDS ChatTurns, Ingestion, ChatAdmin

\* The worker dies, or a handler's own cleanup fails: what was committed stays, the
\* open transaction is rolled back, and nobody takes the request up again.
Crash(r) ==
  /\ Active(r)
  /\ Trans(r, stage[r], "lost")
  /\ lock' = Unlocked(r)
  /\ UNCHANGED <<chats, interactions, messages, logs, chunks, usage, locals>>

Work(r) == TurnStep(r) \/ IngestStep(r) \/ AdminStep(r)

\* Every request has been made and has ended.
Finished == (\A r \in Requests : Ended(r)) /\ UNCHANGED vars

Next == (\E r \in Requests : Work(r) \/ Crash(r)) \/ Finished

Spec == Init /\ [][Next]_vars

-----------------------------------------------------------------------------
(* Properties *)

TurnMessages == {m \in messages : m.role # "system"}

(***************************************************************************)
(* The messages of a chat's turns never share a number, and the answer     *)
(* follows its question: histories are ordered by it.  (_store_messages)   *)
(***************************************************************************)
TurnsKeepTheirNumbers ==
  \A m, n \in TurnMessages :
    /\ m.chat = n.chat /\ m.seq = n.seq => m = n
    /\ m.by = n.by /\ m.role = "user" /\ n.role = "assistant" => n.seq = m.seq + 1

(***************************************************************************)
(* What a turn remembers: every turn that was saved before it began,       *)
(* unless a row saved in between belongs to a turn that ran beside the     *)
(* forgotten one.                                                          *)
(***************************************************************************)
MemoryForgetsOnlyOverlaps ==
  \A i, j \in interactions :
    i.chat = j.chat /\ i.by \in before[j.by]
    => \/ i.by \in j.memory
       \/ \E k \in interactions :
            /\ k.chat = i.chat /\ i.at < k.at /\ k.at < j.at
            /\ Overlap(k.by, i.by)

Limit(k) == CASE k = "query"         -> MaxQueries
              [] k = "chat_create"   -> MaxCreates
              [] k = "ingest_tokens" -> MaxTokens

(***************************************************************************)
(* Budgets are checked first and charged later, so they can be overrun;    *)
(* but only by requests that overlap.  The same of the number of chats.    *)
(***************************************************************************)
OverrunNeedsOverlap ==
  /\ \A k \in {"query", "chat_create", "ingest_tokens"} :
       Used(k) > Limit(k) =>
         \E e, f \in usage : e.kind = k /\ f.kind = k /\ Overlap(e.by, f.by)
  /\ Cardinality(chats) > MaxChats =>
       \E r, s \in chats \ Home : Overlap(r, s)

(***************************************************************************)
(* An ingestion that is reported as completed has its chunks in the store, *)
(* whatever is deleted meanwhile, unless a purge ran beside it: the purge  *)
(* wipes the chunks of chats it has not listed.                            *)
(***************************************************************************)
CompletedIsIndexed ==
  \A r \in Requests : logs[r] = "completed" =>
    \/ r \in chunks
    \/ \E p \in Requests : kind[p] = "purge" /\ Overlap(p, r)

(***************************************************************************)
(* A file is in a chat twice only if its uploads overlapped, or the first  *)
(* is not on record as completed.                                          *)
(***************************************************************************)
CopiesNeedOverlap ==
  \A r, s \in chunks :
    about[r] = about[s] /\ chat[r] = chat[s] /\ r \in before[s]
      => logs[r] # "completed"

(***************************************************************************)
(* The children are deleted before their chats: a deletion fails only if a *)
(* writer of the chat ran beside it.                                       *)
(***************************************************************************)
DeletionFailsOnlyByOverlap ==
  \A d \in Requests :
    kind[d] \in {"delete", "purge"} /\ stage[d] = "failed" =>
      \E w \in Requests : kind[w] \in {"query", "stream", "upload"} /\ Overlap(d, w)

(***************************************************************************)
(* The ledger of the quotas only grows: no deletion or purge buys a new    *)
(* allowance (the comment of purge_all_chats says why).                    *)
(***************************************************************************)
LedgerIsKept == [][usage \subseteq usage']_vars

(***************************************************************************)
(* What the row of an upload that is over says of it, whichever step       *)
(* failed or was cut short: a row left at pending (its task raised before  *)
(* the try, or was never made) has no chunks behind it; one left at        *)
(* processing is a dead worker's; and only a row that says completed, or   *)
(* was deleted, has been charged for.  (_run_ingestion)                    *)
(***************************************************************************)
StatusTellsTheOutcome ==
  \A r \in Requests :
    kind[r] = "upload" /\ Ended(r) =>
      /\ logs[r] = "pending" => stage[r] \in {"failed", "lost"} /\ r \notin chunks
      /\ logs[r] = "processing" => stage[r] = "lost"
      /\ Event("ingest_tokens", r) \in usage => logs[r] \in {"completed", "none"}

-----------------------------------------------------------------------------
(* Statements of the documents that the code does not keep; see the README *)

(***************************************************************************)
(* All writers of a chat are serialized: no two messages of it, of turns   *)
(* or of ingestions, share a number.                                       *)
(***************************************************************************)
WritersAreSerialized ==
  \A m, n \in messages : m.chat = n.chat /\ m.seq = n.seq => m = n

(***************************************************************************)
(* Re-uploads reuse existing chunks (docs/TECHNICAL_DEEP_DIVE.md:178):     *)
(* that a file is on record already is no reason to fail.  (upload)        *)
(***************************************************************************)
ReuploadsAreServed == \A r \in Requests : stage[r] # "ambiguous"
=============================================================================
