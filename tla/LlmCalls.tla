------------------------------- MODULE LlmCalls -------------------------------
(***************************************************************************)
(* The model calls of one turn: which clients it may use, by the keys of   *)
(* the user and of the server (resolve_llms), and how each of its calls    *)
(* walks the chain of clients until one answers (_llm_with_fallback,       *)
(* _structured_invoke, _invoke_chat), traced on the way (record_llm_call). *)
(* A model answers, fails, or hangs; what it says is not modelled.         *)
(***************************************************************************)
EXTENDS Integers, Sequences, FiniteSetsExt

CONSTANT PlannerAttempts   (* max_attempts of the planner *)

ASSUME CallsAssumption == PlannerAttempts \in Nat \ {0}

VARIABLES
  server,      \* families with a usable key in the environment
  rows,        \* providers with a usable key in the user's settings
  pref, creds, \* of the turn: the provider asked for, the keys it was given
  builds,      \* whether clients for the user's Google or custom key can be built
  clients,     \* what resolve_llms makes of them, in every node the same
  role,        \* the call it is making
  chain, at,   \* the clients of that call, the one being tried
  phase,       \* of that attempt
  hung,        \* a thread that was given up is still waiting for its model
  pending      \* a trace row waits for a trace worker

keys == <<pref, creds, builds>>
turn == <<keys, clients>>
call == <<role, chain, at, phase>>
vars == <<server, rows, turn, call, hung, pending>>

-----------------------------------------------------------------------------
(* Clients *)

Families  == {"openrouter", "google", "groq"}
Providers == Families \cup {"custom"}

\* main: of the bundle; alt: of its alternatives; spare: of the configured
\* fallbacks; light: for small talk.
Clients == [provider : Providers, owner : {"user", "server"},
            variant : {"main", "alt", "spare", "light"}]

Roles == {"planner", "compute", "generator", "conversational", "verifier"}

TypeOK ==
  /\ server \subseteq Families
  /\ rows \subseteq Providers /\ creds \subseteq Providers
  /\ builds \in BOOLEAN
  /\ pref \in Providers \cup {"auto"}
  /\ role \in Roles \cup {"idle", "begun", "resolved", "over", "crashed"}
  /\ {clients, chain} \subseteq Seq(Clients)
  /\ at \in 0..Len(chain)
  /\ phase \in {"none", "structured", "raw", "chat", "late", "leaving"}
  /\ hung \in BOOLEAN /\ pending \in BOOLEAN
  /\ phase = "none" <=> role \notin Roles

Init ==
  /\ server \in SUBSET Families
  /\ rows = {}
  /\ pref = "auto" /\ creds = {} /\ builds = TRUE
  /\ role = "idle"
  /\ clients = <<>> /\ chain = <<>> /\ at = 0 /\ phase = "none"
  /\ hung = FALSE /\ pending = FALSE

Client(p, owner, variant) == [provider |-> p, owner |-> owner, variant |-> variant]

\* Mutant of Owner: the server's key is preferred.
OwnerServer(p) == IF p \in server THEN "server" ELSE "user"

\* _pick_key: the user's key if it is usable, else the server's.
Owner(p) == IF p \in creds THEN "user" ELSE "server"

\* A Google bundle that cannot be built leaves the server's, if there is one.
OwnerOf(p) == IF p = "google" /\ ~builds THEN "server" ELSE Owner(p)

Usable(p) ==
  \/ p \in server
  \/ p \in creds /\ (p \in {"google", "custom"} => builds)

Bundle(p, variant) == IF Usable(p) THEN <<Client(p, OwnerOf(p), variant)>> ELSE <<>>

Main(p) == Bundle(p, "main")
Alt(p)  == Bundle(p, "alt")

Google     == Main("google") \o Alt("google")
OpenRouter == Main("openrouter") \o Alt("openrouter")

\* Groq, Google, OpenRouter: whoever has a key.  The primary is among its own
\* fallbacks: _uniq_llms drops what a list of fallbacks has twice (none of these has) or
\* has no client for, and does not see the primary.
AutoChain ==
  LET all == Main("groq") \o Main("google") \o Main("openrouter")
  IN  IF all = <<>> THEN <<>>
      ELSE <<Head(all)>> \o Google \o OpenRouter \o Main("groq")

\* Whether the provider asked for can be used; if not, auto.
Served == pref # "auto" /\ Usable(pref)

\* resolve_llms.  For Google no planner is given, which is a TypeError.
Resolved ==
  IF ~Served THEN AutoChain
  ELSE CASE pref = "custom"     -> Main("custom") \o Main("openrouter") \o Main("google")
                                   \o Main("groq")
         [] pref = "openrouter" -> Main("openrouter") \o Bundle("openrouter", "spare")
                                   \o Main("google") \o Main("groq")
         [] pref = "groq"       -> Main("groq") \o Google \o OpenRouter
         [] OTHER               -> <<>>

\* max_attempts cuts the planner's chain; small talk starts with the light model.
ChainFor(r) ==
  CASE r = "planner" -> SubSeq(clients, 1, Min({PlannerAttempts, Len(clients)}))
    [] r = "conversational" /\ Served /\ pref = "openrouter"
         -> Bundle("openrouter", "light") \o clients
    [] OTHER -> clients

-----------------------------------------------------------------------------
(* Calls *)

\* upsert_provider and delete_provider, as far as the turn's keys go; what is stored
\* once a turn has begun does not reach it.
Store(p) ==
  /\ role = "idle"
  /\ rows' \in {rows \cup {p}, rows \ {p}}
  /\ UNCHANGED <<server, turn, call, hung, pending>>

FirstPhase(r) == IF r \in {"generator", "conversational"} THEN "chat" ELSE "structured"

Call(r) == role' = r /\ chain' = ChainFor(r) /\ at' = 1 /\ phase' = FirstPhase(r)

\* The keys are decrypted once, when the query arrives.
Begin ==
  /\ role = "idle"
  /\ pref' \in Providers \cup {"auto"}
  /\ creds' = rows
  /\ builds' \in {TRUE, {"google", "custom"} \cap rows = {}}
  /\ role' = "begun"
  /\ UNCHANGED <<server, rows, clients, chain, at, phase, hung, pending>>

\* The first node that resolves the clients: without any it raises.
Resolve ==
  /\ role = "begun"
  /\ clients' = Resolved
  /\ role' = IF Resolved = <<>> THEN "crashed" ELSE "resolved"
  /\ UNCHANGED <<server, rows, keys, chain, at, phase, hung, pending>>

\* Clarifications and fast paths end the turn early.
Follows ==
  {<<"resolved", "planner">>, <<"planner", "compute">>, <<"planner", "generator">>,
   <<"planner", "conversational">>, <<"compute", "generator">>, <<"generator", "verifier">>}

\* A call that raised has a default in its node: the turn goes on as if it answered.
NextCall ==
  /\ role = "resolved" \/ phase = "leaving"
  /\ \/ \E step \in Follows : step[1] = role /\ Call(step[2])
     \/ /\ role \in {"planner", "generator", "conversational", "verifier"}
        /\ role' = "over" /\ chain' = <<>> /\ at' = 0 /\ phase' = "none"
  /\ UNCHANGED <<server, rows, turn, hung, pending>>

\* Mutant of MayTrace: the row is written by who records it.
MayTraceBlocking == ~pending

\* record_llm_call only submits the row.
MayTrace == TRUE

\* An attempt is over: it is traced, and if it failed the next client is tried.
EndAttempt(failed) ==
  /\ MayTrace
  /\ pending' = TRUE
  /\ IF failed /\ at < Len(chain)
     THEN at' = at + 1 /\ phase' = FirstPhase(role)
     ELSE phase' = "leaving" /\ UNCHANGED at
  /\ UNCHANGED <<server, rows, turn, role, chain, hung>>

Answers ==
  /\ phase \in {"structured", "raw", "chat"}
  /\ EndAttempt(FALSE)

\* Empty or malformed structured output is asked for again, as raw JSON.
StructuredFails ==
  /\ phase = "structured"
  /\ phase' = "raw"
  /\ UNCHANGED <<server, rows, turn, role, chain, at, hung, pending>>

Fails ==
  /\ phase \in {"raw", "chat"}
  /\ EndAttempt(TRUE)

\* The time is up: the result is waited for no longer, its thread goes on.
GiveUp ==
  /\ phase \in {"structured", "raw"}
  /\ phase' = "late"
  /\ hung' = TRUE
  /\ UNCHANGED <<server, rows, turn, role, chain, at, pending>>

\* Mutant of MayLeave: the executor is left with shutdown(wait=True).
MayLeaveWaiting == ~hung

\* shutdown(wait=False).
MayLeave == TRUE

\* A raw attempt is not made after a structured one that was too slow.
LeaveLate ==
  /\ phase = "late" /\ MayLeave
  /\ EndAttempt(TRUE)

\* The model that nobody waits for answers at last.
LateAnswer ==
  /\ hung
  /\ hung' = FALSE
  /\ UNCHANGED <<server, rows, turn, call, pending>>

\* A trace worker writes the rows that wait, or drops them.
Trace ==
  /\ pending
  /\ pending' = FALSE
  /\ UNCHANGED <<server, rows, turn, call, hung>>

-----------------------------------------------------------------------------
Work == Resolve \/ Answers \/ StructuredFails \/ Fails \/ GiveUp \/ LeaveLate \/ NextCall

Finished == role \in {"over", "crashed"} /\ UNCHANGED vars

Next ==
  \/ \E p \in Providers : Store(p)
  \/ Begin
  \/ Work
  \/ LateAnswer
  \/ Trace
  \/ Finished

\* A structured attempt has a timeout, a chat attempt that of its HTTP client.
\* Nothing is assumed of hung models and of the trace workers' database.
Fairness == WF_vars(Work)

Spec == Init /\ [][Next]_vars /\ Fairness

-----------------------------------------------------------------------------
(* Properties *)

Trying == chain[at]

(***************************************************************************)
(* Who has stored a usable key for a provider pays with it: the server's   *)
(* key for that provider is used only if the user's clients could not be   *)
(* built; and a provider that was asked for and can be used is the first   *)
(* to be tried.  (resolve_llms, _pick_key)                                 *)
(***************************************************************************)
OwnKeysComeFirst ==
  role \in Roles =>
    /\ Trying.owner = "server" =>
         Trying.provider \notin creds \/ (Trying.provider = "google" /\ ~builds)
    /\ Trying.owner = "user" => Trying.provider \in creds
    /\ pref # "auto" /\ Usable(pref) => Head(chain).provider = pref

(***************************************************************************)
(* A turn that has begun comes to its end whatever its models do: one that *)
(* hangs for ever holds up neither the next one nor the answer, and a      *)
(* database that takes no traces does not either.                          *)
(***************************************************************************)
TurnsEnd == role = "begun" ~> role \in {"over", "crashed"}

-----------------------------------------------------------------------------
(* Statements of the documents that the code does not keep; see the README *)

(***************************************************************************)
(* Google AI is one of the providers that can be asked for                 *)
(* (docs/TECHNICAL_DEEP_DIVE.md:264): a turn finds no client only if there *)
(* is no usable key.  (resolve_llms)                                       *)
(***************************************************************************)
KeysAreEnough ==
  role = "crashed" => \A p \in Families \cup {pref} : ~Usable(p)

(***************************************************************************)
(* Slowness is not fixed by asking the same model again                    *)
(* (docs/TECHNICAL_DEEP_DIVE.md:280): the clients a call tries one after   *)
(* the other are different.  (_uniq_llms, _llm_with_fallback)              *)
(***************************************************************************)
RetriesAreOthers ==
  \A i, j \in 1..at : chain[i] = chain[j] => i = j
=============================================================================
