------------------------------ MODULE ChatAdmin ------------------------------
(***************************************************************************)
(* Making, deleting and purging chats (agent/router.py).                   *)
(***************************************************************************)
EXTENDS ChatRecords

\* create_chat: an empty chat of that title is returned (the newest); else the limits.
Look(r) ==
  /\ \E title \in Titles :
       IF EmptyChats(title) # {}
       THEN /\ \E c \in EmptyChats(title) : Begin(r, "create", c, title)
            /\ Go(r, "reused")
       ELSE /\ Begin(r, "create", r, title)
            /\ Go(r, IF \/ Cardinality(chats) >= MaxChats
                        \/ Used("chat_create") >= MaxCreates
                     THEN "refused" ELSE "creating")
  /\ UNCHANGED <<tables, locals>>

Create(r) ==
  /\ Trans(r, "creating", "recording")
  /\ chats' = chats \cup {r}
  /\ UNCHANGED <<interactions, messages, logs, chunks, usage, lock, locals>>

RecordCreate(r) ==
  /\ Trans(r, "recording", "done")
  /\ usage' = usage \cup {Event("chat_create", r)}
  /\ UNCHANGED <<chats, interactions, messages, logs, chunks, lock, locals>>

\* What a deletion is about: the chat, or all chats that a purge has listed.
Cleared(r) ==
  IF kind[r] = "delete" THEN {chat[r]}
                        ELSE {row[2] : row \in {f \in found[r] : f[1] = "chat"}}

\* Mutant of Deleted: ingestion_logs are forgotten.
DeletedWithoutLogs(c) == {row \in Children(c) : row[1] \in {"message", "turn"}}

\* The rows that _delete_chat_children deletes.
Deleted(c) == {row \in Children(c) : row[1] \in {"message", "turn", "log"}}

\* In a transaction that is not committed.
Clear(r) ==
  /\ stage[r] = "new"
  /\ \/ \E c \in Known :
          /\ Begin(r, "delete", c, Nobody)
          /\ Go(r, IF c \in chats THEN "deleting" ELSE "missing")
          /\ found' = [found EXCEPT ![r] = Deleted(c)]
     \/ /\ Begin(r, "purge", Nobody, Nobody)
        /\ Go(r, "deleting")
        /\ found' = [found EXCEPT ![r] =
                       (UNION {Deleted(c) : c \in chats})
                         \cup {<<"chat", c>> : c \in chats}]
  /\ UNCHANGED <<tables, loaded, sequence>>

\* Rows of those chats that were committed meanwhile.
Late(r) == (UNION {Children(c) : c \in Cleared(r) \cap chats}) \ found[r]

\* Mutant of AfterDelete: the cleanup of one chat is called without the chat.
AfterAnyDelete(r) == "wiping"

\* One chat's chunks are gone with it already.
AfterDelete(r) == IF kind[r] = "purge" THEN "wiping" ELSE "done"

\* The chats themselves.  A late message or log meets its foreign key; a late
\* interaction too, unless the ORM's cascade saw it.  Chunks go with the chat.
Delete(r) ==
  \/ /\ \A row \in Late(r) : row[1] = "turn"
     /\ Trans(r, "deleting", AfterDelete(r))
     /\ chats' = chats \ Cleared(r)
     /\ interactions' = {i \in interactions : i.chat \notin Cleared(r)}
     /\ messages' = {m \in messages : m.chat \notin Cleared(r)}
     /\ logs' = [s \in Requests |->
                   IF chat[s] \in Cleared(r) THEN "none" ELSE logs[s]]
     /\ chunks' = {s \in chunks : chat[s] \notin Cleared(r)}
     /\ UNCHANGED <<usage, lock, locals>>
  \/ /\ Late(r) # {}
     /\ Trans(r, "deleting", "failed")
     /\ UNCHANGED <<tables, locals>>

\* Mutant of Wipe: the usage rows of the user go too.
WipeUsage(r) ==
  /\ Trans(r, "wiping", "done")
  /\ chunks' = {}
  /\ usage' = {}
  /\ UNCHANGED <<chats, interactions, messages, logs, lock, locals>>

\* delete_chunks_for_chat without a chat: every chunk of the user, of any chat.
Wipe(r) ==
  /\ Trans(r, "wiping", "done")
  /\ chunks' = {}
  /\ UNCHANGED <<chats, interactions, messages, logs, usage, lock, locals>>

AdminStep(r) ==
  \/ Look(r)
  \/ Create(r)
  \/ RecordCreate(r)
  \/ Clear(r)
  \/ Delete(r)
  \/ Wipe(r)
=============================================================================
