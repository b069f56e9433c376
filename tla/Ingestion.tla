------------------------------ MODULE Ingestion ------------------------------
(***************************************************************************)
(* Uploads (documents/router.py): the request that accepts a file, and the *)
(* background task that indexes it.  Extraction, chunking and embedding    *)
(* have one outcome each, success or an exception.                         *)
(***************************************************************************)
EXTENDS ChatRecords

\* Mutant of Duplicates: the rows that are not finished, the test being negated.
UnfinishedDuplicates(c, f) ==
  {s \in Requests : chat[s] = c /\ about[s] = f
                      /\ logs[s] \in {"pending", "processing"}}

\* The completed rows of the same file in the same chat.
Duplicates(c, f) ==
  {s \in Requests : chat[s] = c /\ about[s] = f /\ logs[s] = "completed"}

\* The checks of upload: ownership, an unreadable or too large file, the budget, and
\* an earlier upload.  Two of them are one too many for scalar_one_or_none.
Accept(r) ==
  /\ \E c \in Known, f \in Files :
       /\ Begin(r, "upload", c, f)
       /\ \/ c \notin chats /\ Go(r, "missing")
          \/ c \in chats /\ Go(r, "refused")
          \/ /\ c \in chats /\ ~IngestRefused
             /\ Go(r, CASE Cardinality(Duplicates(c, f)) = 0 -> "inserting"
                        [] Cardinality(Duplicates(c, f)) = 1 -> "reused"
                        [] OTHER                             -> "ambiguous")
  /\ UNCHANGED <<tables, locals>>

\* The row, the stored original (whose failure changes nothing here), the reply.  A
\* refresh that fails leaves the row to nobody: the task is not made yet.
InsertLog(r) ==
  /\ \/ /\ chat[r] \in chats
        /\ \E next \in {"starting", "failed"} : Trans(r, "inserting", next)
        /\ logs' = [logs EXCEPT ![r] = "pending"]
     \/ Trans(r, "inserting", "failed") /\ UNCHANGED logs
  /\ UNCHANGED <<chats, interactions, messages, chunks, usage, lock, locals>>

\* A row that a deletion has taken away is not written.
SetStatus(r, status) ==
  /\ LogIsFree(r)
  /\ logs' = [logs EXCEPT ![r] = IF @ = "none" THEN @ ELSE status]

\* Its exception is nobody's: the try of _run_ingestion comes after it.
Start(r) ==
  /\ \/ Trans(r, "starting", "indexing") /\ SetStatus(r, "processing")
     \/ Trans(r, "starting", "failed") /\ UNCHANGED logs
  /\ UNCHANGED <<chats, interactions, messages, chunks, usage, lock, locals>>

\* full_pipeline: all chunks of the file in one commit, or an exception.
Index(r) ==
  /\ \/ /\ chat[r] \in chats
        /\ Trans(r, "indexing", "completing")
        /\ chunks' = chunks \cup {r}
     \/ Trans(r, "indexing", "failing") /\ UNCHANGED chunks
  /\ UNCHANGED <<chats, interactions, messages, logs, usage, lock, locals>>

Complete(r) ==
  /\ \/ Trans(r, "completing", "numbering") /\ SetStatus(r, "completed")
     \/ Trans(r, "completing", "failing") /\ UNCHANGED logs
  /\ UNCHANGED <<chats, interactions, messages, chunks, usage, lock, locals>>

\* _record_ingest_message reads the last number and takes no lock.  An exception
\* here leads where Note's does and leaves the same behind.
Number(r) ==
  /\ Trans(r, "numbering", "noting")
  /\ sequence' = [sequence EXCEPT ![r] = LastSequence(chat[r]) + 1]
  /\ UNCHANGED <<tables, loaded, found>>

Note(r) ==
  /\ \/ /\ chat[r] \in chats
        /\ Trans(r, "noting", "counting")
        /\ messages' = messages \cup
             {[chat |-> chat[r], by |-> r, seq |-> sequence[r], role |-> "system"]}
     \/ Trans(r, "noting", "failing") /\ UNCHANGED messages
  /\ UNCHANGED <<chats, interactions, logs, chunks, usage, lock, locals>>

Count(r) ==
  /\ \/ /\ Trans(r, "counting", "done")
        /\ usage' = usage \cup {Event("ingest_tokens", r)}
     \/ Trans(r, "counting", "failing") /\ UNCHANGED usage
  /\ UNCHANGED <<chats, interactions, messages, logs, chunks, lock, locals>>

\* Mutant of Fail: the error is logged and the row is left as it is.
FailSilently(r) ==
  /\ Trans(r, "failing", "failed")
  /\ UNCHANGED <<tables, locals>>

\* The except branch, for whatever raised; it does not ask what was done already.
Fail(r) ==
  /\ Trans(r, "failing", "failed")
  /\ SetStatus(r, "failed")
  /\ UNCHANGED <<chats, interactions, messages, chunks, usage, lock, locals>>

IngestStep(r) ==
  \/ Accept(r)
  \/ InsertLog(r)
  \/ Start(r)
  \/ Index(r)
  \/ Complete(r)
  \/ Number(r)
  \/ Note(r)
  \/ Count(r)
  \/ Fail(r)
=============================================================================
