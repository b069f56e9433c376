---------------------------- MODULE LlmCallsProofs ----------------------------
(***************************************************************************)
(* Theorems about LlmCalls: whose keys pay for a turn, whatever keys the   *)
(* user and the server have and however many clients the planner may try.  *)
(* Which clients a turn may use is worked out once and kept (Chosen); what *)
(* is to be shown is a fact about resolve_llms (Proper, PreferredIsFirst). *)
(***************************************************************************)
EXTENDS LlmCalls, TLAPS

\* The key a client was built with is the one its owner is asked for.
Proper(c) ==
  /\ c.owner = "server" =>
       c.provider \notin creds \/ (c.provider = "google" /\ ~builds)
  /\ c.owner = "user" => c.provider \in creds

ProperClients == {c \in Clients : Proper(c)}

PreferredIsFirst(s) == Served => Head(s).provider = pref

\* A turn keeps the clients its first node resolved, and each call its part of them.
Chosen ==
  /\ role \in Roles \cup {"resolved"} => clients = Resolved /\ clients # <<>>
  /\ role \in Roles => chain = ChainFor(role) /\ at \in 1..Len(chain)

CallsInv == TypeOK /\ Chosen

-----------------------------------------------------------------------------
(* What resolve_llms returns *)

LEMMA Joined ==
  ASSUME NEW S, NEW s \in Seq(S), NEW t \in Seq(S)
  PROVE  s \o t \in Seq(S)
OBVIOUS

LEMMA OwnersAreProper ==
  ASSUME NEW p \in Providers, NEW variant \in {"main", "alt", "spare", "light"}
  PROVE  Client(p, OwnerOf(p), variant) \in ProperClients
BY DEF ProperClients, Proper, Clients, Client, OwnerOf, Owner

LEMMA BundlesAreProper ==
  ASSUME NEW p \in Providers, NEW variant \in {"main", "alt", "spare", "light"}
  PROVE  Bundle(p, variant) \in Seq(ProperClients)
<1>1. <<>> \in Seq(ProperClients)
  OBVIOUS
<1>2. ASSUME NEW c \in ProperClients PROVE <<c>> \in Seq(ProperClients)
  OBVIOUS
<1> QED
  BY <1>1, <1>2, OwnersAreProper, Zenon DEF Bundle

LEMMA ResolvedIsProper == Resolved \in Seq(ProperClients)
<1>1. /\ Main("custom") \in Seq(ProperClients) /\ Main("groq") \in Seq(ProperClients)
      /\ Main("google") \in Seq(ProperClients) /\ Main("openrouter") \in Seq(ProperClients)
      /\ Alt("google") \in Seq(ProperClients) /\ Alt("openrouter") \in Seq(ProperClients)
      /\ Bundle("openrouter", "spare") \in Seq(ProperClients)
  BY BundlesAreProper DEF Main, Alt, Providers, Families
<1>2. Google \in Seq(ProperClients) /\ OpenRouter \in Seq(ProperClients)
  BY <1>1, Joined, Zenon DEF Google, OpenRouter
<1>3. AutoChain \in Seq(ProperClients)
  <2> DEFINE all == Main("groq") \o Main("google") \o Main("openrouter")
             rest == Google \o OpenRouter \o Main("groq")
  <2>1. all \in Seq(ProperClients)
    BY <1>1, Joined, Zenon
  <2> HIDE DEF all
  <2>2. all # <<>> => <<Head(all)>> \in Seq(ProperClients)
    BY <2>1
  <2>3. ASSUME NEW s \in Seq(ProperClients)
        PROVE  s \o Google \o OpenRouter \o Main("groq") \in Seq(ProperClients)
    BY <1>1, <1>2, Joined, Zenon
  <2>4. <<>> \in Seq(ProperClients)
    OBVIOUS
  <2>5. AutoChain = IF all = <<>> THEN <<>>
                    ELSE <<Head(all)>> \o Google \o OpenRouter \o Main("groq")
    BY DEF AutoChain, all
  <2> QED
    BY <2>2, <2>3, <2>4, <2>5, Zenon
<1>4. /\ Main("custom") \o Main("openrouter") \o Main("google") \o Main("groq")
           \in Seq(ProperClients)
      /\ Main("openrouter") \o Bundle("openrouter", "spare") \o Main("google") \o Main("groq")
           \in Seq(ProperClients)
      /\ Main("groq") \o Google \o OpenRouter \in Seq(ProperClients)
      /\ <<>> \in Seq(ProperClients)
  <2>1. <<>> \in Seq(ProperClients)
    OBVIOUS
  <2> QED
    BY <1>1, <1>2, <2>1, Joined, Zenon
<1> QED
  BY <1>3, <1>4, Zenon DEF Resolved

LEMMA FirstJoined ==
  ASSUME NEW S, NEW s \in Seq(S), NEW t \in Seq(S), s # <<>>
  PROVE  s \o t \in Seq(S) /\ s \o t # <<>> /\ Head(s \o t) = Head(s)
OBVIOUS

\* A provider that was asked for and can be used is the first; for the remaining one,
\* Google, nothing is resolved at all.
LEMMA PreferredResolved ==
  ASSUME pref \in Providers, Resolved # <<>>
  PROVE  PreferredIsFirst(Resolved)
<1> SUFFICES ASSUME Served PROVE Head(Resolved).provider = pref
  BY DEF PreferredIsFirst
<1>1. pref \in {"custom", "openrouter", "groq"}
  BY DEF Resolved, Providers, Families
<1>2. /\ Main(pref) \in Seq(ProperClients) /\ Main(pref) # <<>>
      /\ Head(Main(pref)).provider = pref
  <2>1. Main(pref) = <<Client(pref, OwnerOf(pref), "main")>>
    BY DEF Served, Main, Bundle
  <2>2. <<Client(pref, OwnerOf(pref), "main")>> # <<>>
        /\ Head(<<Client(pref, OwnerOf(pref), "main")>>) = Client(pref, OwnerOf(pref), "main")
    OBVIOUS
  <2>3. Client(pref, OwnerOf(pref), "main").provider = pref
    BY DEF Client
  <2>4. Main(pref) \in Seq(ProperClients)
    BY BundlesAreProper DEF Main
  <2> QED
    BY <2>1, <2>2, <2>3, <2>4
<1>3. ASSUME NEW a \in Seq(ProperClients), NEW b \in Seq(ProperClients),
             NEW c \in Seq(ProperClients)
      PROVE  /\ Head(Main(pref) \o a \o b).provider = pref
             /\ Head(Main(pref) \o a \o b \o c).provider = pref
  <2>1. /\ Main(pref) \o a \in Seq(ProperClients) /\ Main(pref) \o a # <<>>
        /\ Head(Main(pref) \o a) = Head(Main(pref))
    BY <1>2, FirstJoined
  <2>2. /\ Main(pref) \o a \o b \in Seq(ProperClients) /\ Main(pref) \o a \o b # <<>>
        /\ Head(Main(pref) \o a \o b) = Head(Main(pref))
    BY <2>1, FirstJoined
  <2>3. Head(Main(pref) \o a \o b \o c) = Head(Main(pref))
    BY <2>2, FirstJoined
  <2> QED
    BY <1>2, <2>2, <2>3
<1>4. /\ Main("custom") \in Seq(ProperClients) /\ Main("groq") \in Seq(ProperClients)
      /\ Main("google") \in Seq(ProperClients) /\ Main("openrouter") \in Seq(ProperClients)
      /\ Alt("google") \in Seq(ProperClients) /\ Alt("openrouter") \in Seq(ProperClients)
      /\ Bundle("openrouter", "spare") \in Seq(ProperClients)
  BY BundlesAreProper DEF Main, Alt, Providers, Families
<1>5. Google \in Seq(ProperClients) /\ OpenRouter \in Seq(ProperClients)
  BY <1>4, Joined, Zenon DEF Google, OpenRouter
<1>6. CASE pref = "custom"
  <2>1. Resolved = Main(pref) \o Main("openrouter") \o Main("google") \o Main("groq")
    BY <1>6 DEF Resolved
  <2> QED
    BY <1>3, <1>4, <2>1, Zenon
<1>7. CASE pref = "openrouter"
  <2>1. Resolved = Main(pref) \o Bundle("openrouter", "spare") \o Main("google")
                     \o Main("groq")
    BY <1>7 DEF Resolved
  <2> QED
    BY <1>3, <1>4, <2>1, Zenon
<1>8. CASE pref = "groq"
  <2>1. Resolved = Main(pref) \o Google \o OpenRouter
    BY <1>8 DEF Resolved
  <2> QED
    BY <1>3, <1>5, <2>1, Zenon
<1> QED
  BY <1>1, <1>6, <1>7, <1>8

\* While the keys of the turn stay the same, so do the clients.
LEMMA SameKeys ==
  ASSUME UNCHANGED <<server, keys>>
  PROVE  /\ Resolved' = Resolved
         /\ \A p : Usable(p)' = Usable(p)
         /\ Served' = Served
<1>1. \A p : Usable(p)' = Usable(p) /\ OwnerOf(p)' = OwnerOf(p)
  BY DEF keys, Usable, OwnerOf, Owner
<1>2. \A p, variant : Bundle(p, variant)' = Bundle(p, variant)
  BY <1>1 DEF Bundle
<1>3. UNCHANGED <<Google, OpenRouter>> /\ \A p : Main(p)' = Main(p)
  BY <1>2 DEF Google, OpenRouter, Main, Alt
<1>4. AutoChain' = AutoChain
  BY <1>3 DEF AutoChain
<1>5. Served' = Served
  BY <1>1 DEF Served, keys
<1> QED
  BY <1>1, <1>2, <1>3, <1>4, <1>5 DEF Resolved, keys


LEMMA ProperAreClients ==
  ASSUME NEW s \in Seq(ProperClients)
  PROVE  s \in Seq(Clients)
<1>1. ProperClients \subseteq Clients
  BY DEF ProperClients
<1> QED
  BY <1>1

\* The planner's part of the chain is not empty, and the light model only comes before
\* others of the provider that was asked for.
LEMMA ChainsAreProper ==
  ASSUME clients \in Seq(ProperClients), clients # <<>>, PreferredIsFirst(clients),
         NEW r \in Roles
  PROVE  /\ ChainFor(r) \in Seq(ProperClients) /\ ChainFor(r) # <<>>
         /\ PreferredIsFirst(ChainFor(r))
<1>1. CASE r = "planner"
  <2> DEFINE n == Min({PlannerAttempts, Len(clients)})
  <2>1. n \in 1..Len(clients)
    <3>1. Len(clients) \in Nat \ {0} /\ PlannerAttempts \in Nat \ {0}
      BY CallsAssumption
    <3>2. \E x \in {PlannerAttempts, Len(clients)} :
            \A y \in {PlannerAttempts, Len(clients)} : x <= y
      BY <3>1
    <3>3. /\ n \in {PlannerAttempts, Len(clients)}
          /\ \A y \in {PlannerAttempts, Len(clients)} : n <= y
      BY <3>2 DEF Min
    <3> QED
      BY <3>1, <3>3
  <2> HIDE DEF n
  <2>2. /\ SubSeq(clients, 1, n) \in Seq(ProperClients) /\ SubSeq(clients, 1, n) # <<>>
        /\ Head(SubSeq(clients, 1, n)) = Head(clients)
    BY <2>1
  <2>3. ChainFor(r) = SubSeq(clients, 1, n)
    BY <1>1 DEF ChainFor, n
  <2> QED
    BY <2>2, <2>3 DEF PreferredIsFirst
<1>2. CASE r = "conversational" /\ Served /\ pref = "openrouter"
  <2> DEFINE c == Client("openrouter", OwnerOf("openrouter"), "light")
  <2>1. Bundle("openrouter", "light") = <<c>>
    BY <1>2 DEF Bundle, Served
  <2>2. c \in ProperClients /\ c.provider = "openrouter"
    BY OwnersAreProper DEF Providers, Families, Client
  <2> HIDE DEF c
  <2>3. /\ <<c>> \o clients \in Seq(ProperClients) /\ <<c>> \o clients # <<>>
        /\ Head(<<c>> \o clients) = c
    BY <2>2
  <2>4. ChainFor(r) = <<c>> \o clients
    BY <1>2, <2>1 DEF ChainFor
  <2> QED
    BY <1>2, <2>2, <2>3, <2>4 DEF PreferredIsFirst
<1>3. CASE r # "planner" /\ ~(r = "conversational" /\ Served /\ pref = "openrouter")
  <2>1. ChainFor(r) = clients
    BY <1>3 DEF ChainFor
  <2> QED
    BY <2>1
<1> QED
  BY <1>1, <1>2, <1>3

\* What a turn resolved is usable for every call.
LEMMA ChosenIsProper ==
  ASSUME TypeOK, Chosen, role \in Roles \cup {"resolved"}, NEW r \in Roles
  PROVE  /\ ChainFor(r) \in Seq(ProperClients) /\ ChainFor(r) # <<>>
         /\ PreferredIsFirst(ChainFor(r))
<1>1. clients = Resolved /\ clients # <<>>
  BY DEF Chosen
<1>2. Served => pref \in Providers
  BY DEF TypeOK, Served
<1>3. PreferredIsFirst(clients)
  BY <1>1, <1>2, PreferredResolved DEF PreferredIsFirst
<1> QED
  BY <1>1, <1>3, ResolvedIsProper, ChainsAreProper

-----------------------------------------------------------------------------
(* The steps *)

LEMMA CallsInit == Init => CallsInv
<1> SUFFICES ASSUME Init PROVE CallsInv
  OBVIOUS
<1>1. clients \in Seq(Clients) /\ chain \in Seq(Clients) /\ Len(chain) = 0
  BY DEF Init
<1>2. server \subseteq Families /\ builds \in BOOLEAN /\ hung \in BOOLEAN /\ pending \in BOOLEAN
  BY Zenon DEF Init
<1>3. TypeOK
  BY <1>1, <1>2 DEF Init, TypeOK, Roles
<1> QED
  BY <1>3 DEF Init, CallsInv, Chosen, Roles

\* An attempt ends or begins within the same call.
Attempting ==
  /\ UNCHANGED <<server, rows, turn, role, chain>>
  /\ at' \in {at, at + 1} /\ at' <= Len(chain)
  /\ phase # "none" /\ phase' \in {"structured", "raw", "chat", "late", "leaving"}
  /\ hung' \in BOOLEAN /\ pending' \in BOOLEAN

LEMMA Attempts ==
  ASSUME TypeOK, Answers \/ StructuredFails \/ Fails \/ GiveUp \/ LeaveLate
  PROVE  Attempting
<1>1. at \in 0..Len(chain) /\ hung \in BOOLEAN /\ pending \in BOOLEAN /\ Len(chain) \in Nat
  BY DEF TypeOK
<1>2. ASSUME NEW failed \in BOOLEAN, EndAttempt(failed), phase # "none"
      PROVE  Attempting
  BY <1>1, <1>2 DEF EndAttempt, Attempting, FirstPhase
<1>3. CASE Answers \/ Fails \/ LeaveLate
  BY <1>2, <1>3 DEF Answers, Fails, LeaveLate
<1>4. CASE StructuredFails \/ GiveUp
  <2>1. UNCHANGED <<server, rows, turn, role, chain, at>>
    BY <1>4, Zenon DEF StructuredFails, GiveUp
  <2>2. hung' \in BOOLEAN /\ pending' \in BOOLEAN
    BY <1>1, <1>4, Zenon DEF StructuredFails, GiveUp
  <2>3. phase # "none" /\ phase' \in {"structured", "raw", "chat", "late", "leaving"}
    BY <1>4 DEF StructuredFails, GiveUp
  <2> QED
    BY <1>1, <2>1, <2>2, <2>3 DEF Attempting
<1> QED
  BY <1>3, <1>4

LEMMA AttemptsKeep ==
  ASSUME CallsInv, Attempting
  PROVE  CallsInv'
<1>1. UNCHANGED <<server, keys, clients, role, chain, rows>>
  BY DEF Attempting, turn
<1>2. Resolved' = Resolved /\ \A r : ChainFor(r)' = ChainFor(r)
  BY <1>1, SameKeys DEF ChainFor, Bundle, Usable, OwnerOf, Owner, Served, keys
<1>3. Len(chain) \in Nat /\ at \in 0..Len(chain)
  BY DEF CallsInv, TypeOK
<1>4. Chosen'
  BY <1>1, <1>2, <1>3 DEF CallsInv, Chosen, Attempting
<1>5. TypeOK'
  BY <1>1, <1>3 DEF CallsInv, TypeOK, Attempting, keys
<1> QED
  BY <1>4, <1>5 DEF CallsInv


LEMMA ResolveKeeps ==
  ASSUME CallsInv, Resolve
  PROVE  CallsInv'
<1>1. /\ UNCHANGED <<server, rows, keys, chain, at, phase, hung, pending>>
      /\ clients' = Resolved /\ role' \in {"crashed", "resolved"}
      /\ role' = "resolved" => Resolved # <<>>
  BY DEF Resolve
<1>2. Resolved' = Resolved
  BY <1>1, SameKeys
<1>3. Resolved \in Seq(Clients)
  BY ResolvedIsProper, ProperAreClients
<1>4. phase = "none"
  BY DEF CallsInv, TypeOK, Resolve, Roles
<1>5. TypeOK'
  BY <1>1, <1>3, <1>4 DEF CallsInv, TypeOK, keys, Roles
<1>6. Chosen'
  BY <1>1, <1>2 DEF Chosen, Roles
<1> QED
  BY <1>5, <1>6 DEF CallsInv

\* A call starts with the first client of its chain.
LEMMA CallKeeps ==
  ASSUME CallsInv, role \in Roles \cup {"resolved"}, NEW r \in Roles, Call(r),
         UNCHANGED <<server, rows, turn, hung, pending>>
  PROVE  CallsInv'
<1>1. /\ UNCHANGED <<server, rows, keys, clients, hung, pending>>
      /\ role' = r /\ chain' = ChainFor(r) /\ at' = 1 /\ phase' \in {"chat", "structured"}
  BY DEF Call, FirstPhase, turn
<1>2. ChainFor(r) \in Seq(ProperClients) /\ ChainFor(r) # <<>>
  BY ChosenIsProper DEF CallsInv
<1>3. chain' \in Seq(Clients) /\ Len(chain') \in Nat \ {0}
  BY <1>1, <1>2, ProperAreClients
<1>4. at' \in 0..Len(chain') /\ at' \in 1..Len(chain')
  BY <1>1, <1>3
<1>5. TypeOK'
  BY <1>1, <1>3, <1>4 DEF CallsInv, TypeOK, keys, Roles
<1>6. /\ Resolved' = Resolved
      /\ ChainFor(r)' = ChainFor(r)
  BY <1>1, SameKeys DEF ChainFor, Bundle, Usable, OwnerOf, Owner, Served, keys
<1>7. Chosen'
  BY <1>1, <1>4, <1>6 DEF CallsInv, Chosen
<1> QED
  BY <1>5, <1>7 DEF CallsInv

LEMMA CallsStep ==
  ASSUME CallsInv, [Next]_vars
  PROVE  CallsInv'
<1>1. TypeOK /\ Chosen
  BY DEF CallsInv
<1>2. ASSUME NEW p \in Providers, Store(p)
      PROVE  CallsInv'
  <2>1. /\ UNCHANGED <<server, pref, creds, builds, clients, role, chain, at, phase, hung,
                       pending>>
        /\ role = "idle" /\ rows' \subseteq Providers
    BY <1>1, <1>2 DEF Store, turn, keys, call, TypeOK
  <2>2. TypeOK'
    BY <1>1, <2>1 DEF TypeOK
  <2> QED
    BY <2>1, <2>2 DEF CallsInv, Chosen, Roles
<1>3. CASE Begin
  <2>1. /\ UNCHANGED <<server, rows, clients, chain, at, phase, hung, pending>>
        /\ role = "idle" /\ role' = "begun" /\ pref' \in Providers \cup {"auto"}
        /\ creds' = rows
    BY <1>3 DEF Begin
  <2>2. builds' \in BOOLEAN
    BY <1>3, Zenon DEF Begin
  <2>3. TypeOK'
    BY <1>1, <2>1, <2>2 DEF TypeOK, Roles
  <2> QED
    BY <2>1, <2>3 DEF CallsInv, Chosen, Roles
<1>4. CASE Resolve
  BY <1>4, ResolveKeeps
<1>5. CASE Answers \/ StructuredFails \/ Fails \/ GiveUp \/ LeaveLate
  BY <1>1, <1>5, Attempts, AttemptsKeep
<1>6. CASE NextCall
  <2>1. UNCHANGED <<server, rows, turn, hung, pending>>
    BY <1>6 DEF NextCall
  <2>2. ASSUME NEW step \in Follows, step[1] = role, Call(step[2])
        PROVE  CallsInv'
    <3>1. role \in Roles \cup {"resolved"} /\ step[2] \in Roles
      BY <2>2 DEF Follows, Roles
    <3> QED
      BY <2>1, <2>2, <3>1, CallKeeps
  <2>3. ASSUME role' = "over", chain' = <<>>, at' = 0, phase' = "none"
        PROVE  CallsInv'
    <3>1. chain' \in Seq(Clients) /\ at' \in 0..Len(chain')
      BY <2>3
    <3>2. TypeOK'
      BY <1>1, <2>1, <2>3, <3>1 DEF TypeOK, Roles, turn, keys
    <3> QED
      BY <2>3, <3>2 DEF CallsInv, Chosen, Roles
  <2> QED
    BY <1>6, <2>2, <2>3 DEF NextCall
<1>7. CASE LateAnswer \/ Trace
  <2>1. UNCHANGED <<server, rows, turn, call>>
    BY <1>7, Zenon DEF LateAnswer, Trace
  <2>2. hung' \in BOOLEAN /\ pending' \in BOOLEAN
    BY <1>1, <1>7, Zenon DEF LateAnswer, Trace, TypeOK
  <2>3. TypeOK'
    BY <1>1, <2>1, <2>2 DEF TypeOK, turn, keys, call
  <2>4. Resolved' = Resolved /\ \A r : ChainFor(r)' = ChainFor(r)
    BY <2>1, SameKeys DEF ChainFor, Bundle, Usable, OwnerOf, Owner, Served, turn, keys
  <2>5. Chosen'
    BY <1>1, <2>1, <2>4 DEF Chosen, turn, call
  <2> QED
    BY <2>3, <2>5 DEF CallsInv
<1>8. CASE UNCHANGED vars
  <2>1. UNCHANGED <<server, rows, turn, call, hung, pending>>
    BY <1>8 DEF vars
  <2>2. TypeOK'
    BY <1>1, <2>1 DEF TypeOK, turn, keys, call
  <2>3. Resolved' = Resolved /\ \A r : ChainFor(r)' = ChainFor(r)
    BY <2>1, SameKeys DEF ChainFor, Bundle, Usable, OwnerOf, Owner, Served, turn, keys
  <2>4. Chosen'
    BY <1>1, <2>1, <2>3 DEF Chosen, turn, call
  <2> QED
    BY <2>2, <2>4 DEF CallsInv
<1> QED
  BY <1>2, <1>3, <1>4, <1>5, <1>6, <1>7, <1>8 DEF Next, Work, Finished

-----------------------------------------------------------------------------
(* The theorems *)

LEMMA CallsInvHolds == Spec => []CallsInv
<1>1. CallsInv /\ [Next]_vars => CallsInv'
  BY CallsStep
<1> QED
  BY <1>1, CallsInit, PTL DEF Spec

\* The variables of a turn keep their types; the client being tried is one of the chain.
THEOREM CallTypes == Spec => []TypeOK
<1>1. CallsInv => TypeOK
  BY DEF CallsInv
<1> QED
  BY <1>1, CallsInvHolds, PTL

\* In every call of a turn the user's key pays where there is one, and the provider that
\* was asked for is tried first.
THEOREM OwnKeysPay == Spec => []OwnKeysComeFirst
<1>1. CallsInv => OwnKeysComeFirst
  <2> SUFFICES ASSUME CallsInv, role \in Roles
               PROVE  /\ Proper(Trying)
                      /\ pref # "auto" /\ Usable(pref) => Head(chain).provider = pref
    BY DEF OwnKeysComeFirst, Proper
  <2>1. chain = ChainFor(role) /\ at \in 1..Len(chain)
    BY DEF CallsInv, Chosen
  <2>2. chain \in Seq(ProperClients) /\ PreferredIsFirst(chain)
    BY <2>1, ChosenIsProper DEF CallsInv
  <2>3. Trying \in ProperClients
    BY <2>1, <2>2 DEF Trying
  <2> QED
    BY <2>2, <2>3 DEF ProperClients, PreferredIsFirst, Served
<1> QED
  BY <1>1, CallsInvHolds, PTL
=============================================================================
