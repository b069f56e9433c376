--------------------------- MODULE WebSearchProofs ---------------------------
(***************************************************************************)
(* Theorems about WebSearch, for any number of turns, searches, keys,      *)
(* pages and permits.  A Tavily call that nobody has raced has gone        *)
(* through the keys behind the index, one after the other: they are spent  *)
(* (Tried).  A search is charged at most once, when it leaves its gather   *)
(* (Charging).                                                             *)
(***************************************************************************)
EXTENDS WebSearch, FiniteSetTheorems, TLAPS

\* What is not planned is not asked.
Unplanned ==
  \A s \in Searches : turn[s] = 0 => stage[s] = "new" /\ tavily[s] = "off"

Attempting ==
  \A s \in Searches :
    /\ tavily[s] = "off" => tries[s] = 0
    /\ tavily[s] = "reading" => tries[s] < Keys
    /\ tavily[s] = "calling" => tries[s] > 0 /\ key[s] \in 1..Keys

\* How far the index is past key k.
Distance(k) == IF k < index THEN index - k ELSE index - k + Keys

\* The last n keys before the index are used up.
Behind(n) == \A k \in 1..Keys : Distance(k) <= n => k \in spent

Tried ==
  \A s \in Searches :
    /\ tavily[s] = "reading" /\ tries[s] > 0 => raced[s] \/ Behind(tries[s])
    /\ tavily[s] = "calling" => raced[s] \/ (key[s] = index /\ Behind(tries[s] - 1))
    /\ tavily[s] = "exhausted" => raced[s] \/ spent = 1..Keys

Left == {s \in Searches : stage[s] \notin {"new", "gathering"}}

Charging == charged <= Cardinality(Left)

Fetching == \A s \in Searches : todo[s] + held[s] <= FetchTop

\* Nobody holds the semaphore without a page to fetch.
Holding == \A s \in Searches : todo[s] + held[s] > 0 => stage[s] = "enriching"

Typed == TypeOK /\ Holding

SearchInv == Typed /\ Unplanned /\ Attempting /\ Tried /\ Charging /\ Fetching

-----------------------------------------------------------------------------
(* The ring of keys *)

LEMMA NextIsNext ==
  ASSUME index \in 1..Keys
  PROVE  NextIndex = IF index = Keys THEN 1 ELSE index + 1
<1>1. Keys \in Nat \ {0} /\ index \in Nat /\ 1 <= index /\ index <= Keys
  BY SearchAssumption
<1>2. CASE index = Keys
  <2>1. index % Keys = 0
    BY <1>1, <1>2
  <2> QED
    BY <1>2, <2>1 DEF NextIndex
<1>3. CASE index # Keys
  <2>1. index % Keys = index
    BY <1>1, <1>3
  <2> QED
    BY <1>3, <2>1 DEF NextIndex
<1> QED
  BY <1>2, <1>3

\* One more key is behind the index.
LEMMA OneMoreBehind ==
  ASSUME index \in 1..Keys, NEW n \in Nat, Behind(n - 1), index' = NextIndex,
         spent' = spent \cup {index}
  PROVE  Behind(n)'
<1> SUFFICES ASSUME NEW k \in 1..Keys, Distance(k)' <= n
             PROVE  k \in spent'
  BY DEF Behind
<1>1. Keys \in Nat \ {0} /\ index \in Nat /\ k \in Nat
  BY SearchAssumption
<1>2. index' = IF index = Keys THEN 1 ELSE index + 1
  BY NextIsNext
<1>3. CASE k = index
  BY <1>3
<1>4. CASE k # index
  <2>1. Distance(k) <= n - 1
    BY <1>1, <1>2, <1>4 DEF Distance
  <2> QED
    BY <2>1 DEF Behind
<1> QED
  BY <1>3, <1>4

LEMMA AllBehind ==
  ASSUME index \in 1..Keys, spent \subseteq 1..Keys, Behind(Keys)
  PROVE  spent = 1..Keys
<1>1. ASSUME NEW k \in 1..Keys
      PROVE  k \in spent
  <2>1. Distance(k) <= Keys
    BY SearchAssumption DEF Distance
  <2> QED
    BY <2>1 DEF Behind
<1> QED
  BY <1>1

-----------------------------------------------------------------------------
(* Charges *)

LEMMA LeftIsFinite ==
  ASSUME NEW S \in SUBSET Searches
  PROVE  IsFiniteSet(S) /\ Cardinality(S) \in Nat /\ Cardinality(S) <= MaxSearches
<1>1. IsFiniteSet(Searches) /\ Cardinality(Searches) = MaxSearches
  <2>1. MaxSearches \in Nat
    BY SearchAssumption
  <2>2. /\ IsFiniteSet(1..MaxSearches)
        /\ Cardinality(1..MaxSearches) = IF 1 > MaxSearches THEN 0 ELSE MaxSearches - 1 + 1
    BY <2>1, FS_Interval
  <2> QED
    BY <2>1, <2>2 DEF Searches
<1>2. IsFiniteSet(S) /\ Cardinality(S) <= Cardinality(Searches)
  BY <1>1, FS_Subset
<1> QED
  BY <1>1, <1>2, FS_CardinalityType

LEMMA ChargingKept ==
  ASSUME Typed, Charging, charged' = charged,
         \A s \in Searches : s \in Left => stage'[s] \notin {"new", "gathering"}
  PROVE  Charging' /\ charged' \in 0..MaxSearches
<1>1. Left \in SUBSET Left' /\ Left' \in SUBSET Searches /\ Left \in SUBSET Searches
  BY DEF Left
<1>2. /\ Cardinality(Left) <= Cardinality(Left')
      /\ Cardinality(Left) \in Nat /\ Cardinality(Left') \in Nat
  BY <1>1, LeftIsFinite, FS_Subset
<1>3. charged \in Nat /\ charged \in 0..MaxSearches
  BY DEF Typed, TypeOK
<1> HIDE DEF Left
<1> QED
  BY <1>2, <1>3 DEF Charging

LEMMA ChargingOnce ==
  ASSUME Typed, Charging, charged' \in {charged, charged + 1}, NEW s \in Searches,
         stage[s] = "gathering", stage'[s] \notin {"new", "gathering"},
         \A q \in Searches \ {s} : stage'[q] = stage[q]
  PROVE  Charging' /\ charged' \in 0..MaxSearches
<1>1. /\ Left' = Left \cup {s} /\ s \notin Left
      /\ Left' \in SUBSET Searches /\ Left \in SUBSET Searches
  BY DEF Left
<1>2. IsFiniteSet(Left) /\ Cardinality(Left) \in Nat
      /\ Cardinality(Left') \in Nat /\ Cardinality(Left') <= MaxSearches
  BY <1>1, LeftIsFinite
<1>3. Cardinality(Left') = Cardinality(Left) + 1
  BY <1>1, <1>2, FS_AddElement
<1>4. charged \in Nat /\ MaxSearches \in Nat
  BY SearchAssumption DEF Typed, TypeOK
<1> HIDE DEF Left
<1>5. charged' <= Cardinality(Left')
  BY <1>2, <1>3, <1>4 DEF Charging
<1>6. charged' \in 0..MaxSearches
  BY <1>2, <1>4, <1>5
<1> QED
  BY <1>5, <1>6 DEF Charging

-----------------------------------------------------------------------------
(* The parts of the type invariant *)

CallTypes ==
  /\ index \in 1..Keys /\ spent \subseteq 1..Keys
  /\ tavily \in [Searches -> {"off", "reading", "calling", "exhausted"}]
  /\ key \in [Searches -> 0..Keys] /\ tries \in [Searches -> 0..Keys]

TurnTypes ==
  /\ budget \in [Turns -> {"new", "allowed", "denied"}]
  /\ turn \in [Searches -> Turns \cup {0}]
  /\ stage \in [Searches -> {"new", "gathering", "merging", "enriching", "fallback",
                             "done", "lost", "cancelled"}]
  /\ wiki \in [Searches -> {"off", "new", "direct", "api", "article"}]

Flags ==
  /\ searxng \in BOOLEAN /\ raced \in [Searches -> BOOLEAN] /\ searx \in [Searches -> BOOLEAN]
  /\ found \in [Searches -> BOOLEAN] /\ kept \in [Searches -> BOOLEAN]

Pages ==
  /\ todo \in [Searches -> 0..FetchTop] /\ held \in [Searches -> 0..FetchTop]
  /\ \A s \in Searches : todo[s] + held[s] > 0 => stage[s] = "enriching"

LEMMA Parts ==
  Typed <=> CallTypes /\ TurnTypes /\ Flags /\ Pages /\ charged \in 0..MaxSearches
<1>1. ASSUME Pages, NEW s \in Searches, todo[s] > 0
      PROVE  stage[s] = "enriching"
  <2>1. todo[s] \in Nat /\ held[s] \in Nat
    BY <1>1, SearchAssumption DEF Pages
  <2> QED
    BY <1>1, <2>1 DEF Pages
<1> QED
  BY <1>1 DEF Typed, TypeOK, Holding, CallTypes, TurnTypes, Flags, Pages

\* The steps of a search that no other part of the state knows of.
Quietly(s) ==
  SearxngAnswers(s) \/ LookUp(s) \/ Charge(s) \/ FetchPage(s) \/ PageAnswers(s)
    \/ Enriched(s) \/ FallBack(s)

LEMMA QuietlyCalls ==
  ASSUME NEW s, Quietly(s)
  PROVE  UNCHANGED <<keyring, calls>>
BY DEF Quietly, SearxngAnswers, LookUp, Charge, FetchPage, PageAnswers, Enriched,
       FallBack, calls, fetches

-----------------------------------------------------------------------------
(* Calls of Tavily *)

Calling == CallTypes /\ Attempting /\ Tried

LEMMA CallsKept ==
  ASSUME Calling, UNCHANGED <<keyring, calls>>
  PROVE  Calling'
<1>1. UNCHANGED <<index, spent, tavily, key, tries, raced>>
  BY DEF keyring, calls
<1>2. \A n : Behind(n)' <=> Behind(n)
  BY <1>1 DEF Behind, Distance
<1> QED
  BY <1>1, <1>2 DEF Calling, CallTypes, Attempting, Tried

LEMMA PlanCalls ==
  ASSUME Calling, Unplanned, NEW t \in Turns, Plan(t)
  PROVE  Calling'
<1>1. UNCHANGED <<index, spent, key, tries, raced>>
  BY DEF Plan, keyring
<1>2. /\ tavily' \in [Searches -> {"off", "reading", "calling", "exhausted"}]
      /\ \A s \in Searches : tavily'[s] = tavily[s] \/ (tavily'[s] = "reading" /\ turn[s] = 0)
  <2>1. PICK b \in Budgets, first, last \in Searches :
          \E topics \in SUBSET (first..last) : PlanOf(t, b, first, last, topics)
    BY DEF Plan, PlanOf
  <2>2. /\ \A s \in Searches : turn[s] = 0 <=> s >= first
        /\ \/ tavily' = tavily
           \/ tavily' = [s \in Searches |-> IF s \in first..last THEN "reading" ELSE tavily[s]]
    BY <2>1 DEF PlanOf
  <2>3. \A s \in Searches : s \in first..last => turn[s] = 0
    BY <2>2 DEF Searches
  <2> QED
    BY <2>2, <2>3 DEF Calling, CallTypes
<1>3. \A n : Behind(n)' <=> Behind(n)
  BY <1>1 DEF Behind, Distance
<1>4. ASSUME NEW s \in Searches, turn[s] = 0
      PROVE  tries[s] = 0 /\ 0 < Keys
  BY <1>4, SearchAssumption DEF Unplanned, Calling, Attempting
<1>5. CallTypes' /\ Attempting'
  BY <1>1, <1>2, <1>4 DEF Calling, CallTypes, Attempting
<1>6. Tried'
  <2> SUFFICES ASSUME NEW s \in Searches
               PROVE
        /\ tavily'[s] = "reading" /\ tries[s] > 0 => raced[s] \/ Behind(tries[s])
        /\ tavily'[s] = "calling" => raced[s] \/ (key[s] = index /\ Behind(tries[s] - 1))
        /\ tavily'[s] = "exhausted" => raced[s] \/ spent = 1..Keys
    BY <1>1, <1>3 DEF Tried
  <2>1. CASE tavily'[s] = tavily[s]
    BY <2>1 DEF Calling, Tried
  <2>2. CASE tavily'[s] = "reading" /\ turn[s] = 0
    BY <1>4, <2>2
  <2> QED
    BY <1>2, <2>1, <2>2
<1> QED
  BY <1>5, <1>6 DEF Calling

LEMMA ReadKeyCalls ==
  ASSUME Calling, NEW s \in Searches, ReadKey(s)
  PROVE  Calling'
<1>1. /\ UNCHANGED <<index, spent, raced>> /\ tavily[s] = "reading" /\ tavily'[s] = "calling"
      /\ key'[s] = index /\ tries'[s] = tries[s] + 1
      /\ \A q \in Searches \ {s} :
           tavily'[q] = tavily[q] /\ key'[q] = key[q] /\ tries'[q] = tries[q]
  BY DEF ReadKey, keyring, Calling, CallTypes
<1>2. tries[s] \in Nat /\ tries[s] < Keys /\ Keys \in Nat /\ index \in 1..Keys
  BY <1>1, SearchAssumption DEF Calling, CallTypes, Attempting
<1>3. \A n : Behind(n)' <=> Behind(n)
  BY <1>1 DEF Behind, Distance
<1>4. CallTypes'
  <2>1. tries[s] + 1 \in 0..Keys /\ index \in 0..Keys
    BY <1>2
  <2> QED
    BY <1>1, <2>1 DEF ReadKey, Calling, CallTypes
<1>5. Attempting'
  BY <1>1, <1>2 DEF Calling, Attempting
<1>6. raced[s] \/ Behind(tries'[s] - 1)
  <2>1. tries'[s] - 1 = tries[s]
    BY <1>1, <1>2
  <2>2. CASE tries[s] > 0
    BY <1>1, <2>1, <2>2 DEF Calling, Tried
  <2>3. CASE tries[s] = 0
    <3>1. \A k \in 1..Keys : Distance(k) > 0
      BY <1>2 DEF Distance
    <3> QED
      BY <2>1, <2>3, <3>1, <1>2 DEF Behind, Distance
  <2> QED
    BY <1>2, <2>2, <2>3
<1>7. Tried'
  <2> SUFFICES ASSUME NEW q \in Searches
               PROVE
        /\ tavily'[q] = "reading" /\ tries'[q] > 0 => raced[q] \/ Behind(tries'[q])
        /\ tavily'[q] = "calling" => raced[q] \/ (key'[q] = index /\ Behind(tries'[q] - 1))
        /\ tavily'[q] = "exhausted" => raced[q] \/ spent = 1..Keys
    BY <1>1, <1>3 DEF Tried
  <2>1. CASE q = s
    BY <1>1, <1>6, <2>1
  <2>2. CASE q # s
    BY <1>1, <2>2 DEF Calling, Tried
  <2> QED
    BY <2>1, <2>2
<1> QED
  BY <1>4, <1>5, <1>7 DEF Calling

\* The call is over, its outcome read.
LEMMA OverCalls ==
  ASSUME Calling, raced \in [Searches -> BOOLEAN], NEW s \in Searches,
         TavilyAnswers(s) \/ Merge(s)
  PROVE  Calling'
<1>1. /\ UNCHANGED <<index, spent>> /\ tavily'[s] = "off" /\ tries'[s] = 0
      /\ key'[s] \in 0..Keys
      /\ \A q \in Searches \ {s} :
           tavily'[q] = tavily[q] /\ key'[q] = key[q] /\ tries'[q] = tries[q]
  <2>1. 0 \in 0..Keys
    BY SearchAssumption
  <2>2. CASE TavilyAnswers(s)
    BY <2>1, <2>2 DEF TavilyAnswers, keyring, Calling, CallTypes
  <2>3. CASE Merge(s)
    BY <2>3 DEF Merge, Forget, keyring, Calling, CallTypes
  <2> QED
    BY <2>2, <2>3
<1>2. \A q \in Searches \ {s} : raced'[q] <=> raced[q]
  <2>1. raced' = [raced EXCEPT ![s] = FALSE]
    BY DEF TavilyAnswers, Merge, Forget
  <2> QED
    BY <2>1, Zenon
<1>3. \A n : Behind(n)' <=> Behind(n)
  BY <1>1 DEF Behind, Distance
<1>4. CallTypes'
  <2>1. 0 \in 0..Keys
    BY SearchAssumption
  <2>2. tavily' = [tavily EXCEPT ![s] = "off"] /\ tries' = [tries EXCEPT ![s] = 0]
        /\ (key' = key \/ key' = [key EXCEPT ![s] = 0])
    BY DEF TavilyAnswers, Merge, Forget
  <2> QED
    BY <1>1, <2>1, <2>2 DEF Calling, CallTypes
<1>5. Attempting'
  BY <1>1 DEF Calling, Attempting
<1>6. Tried'
  <2> SUFFICES ASSUME NEW q \in Searches
               PROVE
        /\ tavily'[q] = "reading" /\ tries'[q] > 0 => raced'[q] \/ Behind(tries'[q])
        /\ tavily'[q] = "calling" => raced'[q] \/ (key'[q] = index /\ Behind(tries'[q] - 1))
        /\ tavily'[q] = "exhausted" => raced'[q] \/ spent = 1..Keys
    BY <1>1, <1>3 DEF Tried
  <2>1. CASE q = s
    BY <1>1, <2>1
  <2>2. CASE q # s
    BY <1>1, <1>2, <2>2 DEF Calling, Tried
  <2> QED
    BY <2>1, <2>2
<1> QED
  BY <1>4, <1>5, <1>6 DEF Calling

LEMMA RotateCalls ==
  ASSUME Calling, NEW s \in Searches, Rotate(s)
  PROVE  Calling'
<1>1. /\ UNCHANGED tries /\ tavily[s] = "calling" /\ index' = NextIndex
      /\ spent' = spent \cup {key[s]}
      /\ tavily'[s] = IF tries[s] < Keys THEN "reading" ELSE "exhausted"
      /\ \A q \in Searches \ {s} : tavily'[q] = tavily[q] /\ key'[q] = key[q]
  BY DEF Rotate, Attempts, Calling, CallTypes
<1>2. /\ index \in 1..Keys /\ tries[s] \in 1..Keys /\ key[s] \in 1..Keys /\ spent \subseteq 1..Keys
      /\ Keys \in Nat
  BY <1>1, SearchAssumption DEF Calling, CallTypes, Attempting
<1>3. \A q \in Searches : raced'[q] <=> raced[q] \/ (q # s /\ InCall(q))
  <2>1. raced' = [q \in Searches |-> raced[q] \/ (q # s /\ InCall(q))]
    BY DEF Rotate
  <2> QED
    BY <2>1, Zenon
<1>4. index' \in 1..Keys
  BY <1>1, <1>2, NextIsNext
<1>5. CallTypes'
  <2>1. 0 \in 0..Keys
    BY <1>2
  <2>2. spent' \subseteq 1..Keys
    BY <1>1, <1>2
  <2> QED
    BY <1>1, <1>4, <2>1, <2>2 DEF Rotate, Calling, CallTypes
<1>6. Attempting'
  <2>1. ASSUME NEW q \in Searches
        PROVE  /\ tavily'[q] = "off" => tries[q] = 0
               /\ tavily'[q] = "reading" => tries[q] < Keys
               /\ tavily'[q] = "calling" => tries[q] > 0 /\ key'[q] \in 1..Keys
    <3>1. CASE q = s
      BY <1>1, <3>1
    <3>2. CASE q # s
      BY <1>1, <3>2 DEF Calling, Attempting
    <3> QED
      BY <3>1, <3>2
  <2> QED
    BY <1>1, <2>1 DEF Attempting
<1>7. raced[s] \/ (key[s] = index /\ Behind(tries[s])')
  <2>1. raced[s] \/ (key[s] = index /\ Behind(tries[s] - 1))
    BY <1>1 DEF Calling, Tried
  <2>2. CASE key[s] = index /\ Behind(tries[s] - 1)
    <3>1. tries[s] \in Nat /\ spent' = spent \cup {index}
      BY <1>1, <1>2, <2>2
    <3>2. ASSUME NEW n \in Nat, n = tries[s]
          PROVE  Behind(n)'
      BY <1>1, <1>2, <2>2, <3>1, <3>2, OneMoreBehind
    <3>3. Behind(tries[s])'
      BY <1>1, <3>1, <3>2
    <3> QED
      BY <2>2, <3>3
  <2> QED
    BY <2>1, <2>2
<1>8. Tried'
  <2> SUFFICES ASSUME NEW q \in Searches
               PROVE
        (/\ tavily[q] = "reading" /\ tries[q] > 0 => raced[q] \/ Behind(tries[q])
         /\ tavily[q] = "calling" => raced[q] \/ (key[q] = index /\ Behind(tries[q] - 1))
         /\ tavily[q] = "exhausted" => raced[q] \/ spent = 1..Keys)'
    BY DEF Tried
  <2>1. CASE q = s
    <3>1. CASE raced[s]
      BY <1>3, <2>1, <3>1
    <3>2. CASE key[s] = index /\ Behind(tries[s])'
      <4>1. CASE tries[s] < Keys
        BY <1>1, <2>1, <3>2, <4>1
      <4>2. CASE tries[s] = Keys
        <5>1. Behind(Keys)'
          BY <1>1, <3>2, <4>2 DEF Behind, Distance
        <5>2. spent' = 1..Keys
          <6>1. ASSUME NEW k \in 1..Keys
                PROVE  k \in spent'
            <7>1. Distance(k)' <= Keys
              BY <1>2, <1>4 DEF Distance
            <7> QED
              BY <5>1, <7>1 DEF Behind
          <6> QED
            BY <1>1, <1>2, <6>1
        <5>3. tavily'[q] = "exhausted"
          BY <1>1, <1>2, <2>1, <4>2
        <5> QED
          BY <5>2, <5>3
      <4> QED
        BY <1>2, <4>1, <4>2
    <3> QED
      BY <1>7, <3>1, <3>2
  <2>2. CASE q # s /\ InCall(q)
    BY <1>3, <2>2
  <2>3. CASE q # s /\ ~InCall(q)
    <3>1. tavily'[q] = tavily[q] /\ tries' = tries /\ (raced[q] => raced'[q])
      BY <1>1, <1>3, <2>3
    <3>2. ~(tavily[q] = "calling") /\ ~(tavily[q] = "reading" /\ tries[q] > 0)
      BY <2>3 DEF InCall
    <3>3. tavily[q] = "exhausted" => raced[q] \/ spent' = 1..Keys
      <4>1. tavily[q] = "exhausted" => raced[q] \/ spent = 1..Keys
        BY DEF Calling, Tried
      <4> QED
        BY <1>1, <1>2, <4>1
    <3> QED
      BY <3>1, <3>2, <3>3
  <2> QED
    BY <2>1, <2>2, <2>3
<1> QED
  BY <1>5, <1>6, <1>8 DEF Calling


-----------------------------------------------------------------------------
(* Turns, stages and lookups *)

LEMMA PlanTurns ==
  ASSUME Typed, Unplanned, NEW t \in Turns, Plan(t)
  PROVE  /\ TurnTypes' /\ Unplanned'
         /\ \A s \in Searches : stage'[s] = stage[s] \/ (turn[s] = 0 /\ stage[s] = "new")
<1>1. PICK b \in Budgets, first, last \in Searches :
        \E topics \in SUBSET (first..last) : PlanOf(t, b, first, last, topics)
  BY DEF Plan
<1>2. PICK topics \in SUBSET (first..last) : PlanOf(t, b, first, last, topics)
  BY <1>1
<1>3. TurnTypes
  BY Parts
<1>4. \A s \in Searches : s \in first..last => turn[s] = 0
  BY <1>2 DEF PlanOf, Searches
<1>5. budget' \in [Turns -> {"new", "allowed", "denied"}]
  <2>1. b \in {"new", "allowed", "denied"}
    BY DEF Budgets
  <2>2. budget' = [budget EXCEPT ![t] = b]
    BY <1>2 DEF PlanOf
  <2> QED
    BY <1>3, <2>1, <2>2 DEF TurnTypes
<1>6. turn' = [s \in Searches |-> IF s \in first..last THEN t ELSE turn[s]]
  BY <1>2 DEF PlanOf
<1>7. turn' \in [Searches -> Turns \cup {0}]
  BY <1>3, <1>6 DEF TurnTypes
<1>8. \E f \in [Searches -> {"gathering", "lost", "fallback"}] :
        stage' = [s \in Searches |-> IF s \in first..last THEN f[s] ELSE stage[s]]
  <2>1. stage' = [s \in Searches |-> IF s \in first..last
                    THEN FirstStage(b # "denied" \/ searxng, s \in topics) ELSE stage[s]]
    BY <1>2 DEF PlanOf
  <2> DEFINE f == [s \in Searches |-> FirstStage(b # "denied" \/ searxng, s \in topics)]
  <2>2. \A s \in Searches : f[s] \in {"gathering", "lost", "fallback"}
    BY DEF FirstStage
  <2>3. f \in [Searches -> {"gathering", "lost", "fallback"}]
    BY <2>2
  <2>4. stage' = [s \in Searches |-> IF s \in first..last THEN f[s] ELSE stage[s]]
    BY <2>1
  <2> QED
    BY <2>3, <2>4
<1>9. stage' \in [Searches -> {"new", "gathering", "merging", "enriching", "fallback",
                               "done", "lost", "cancelled"}]
  BY <1>3, <1>8 DEF TurnTypes
<1>10. wiki' \in [Searches -> {"off", "new", "direct", "api", "article"}]
  <2>1. wiki' = [s \in Searches |->
                   IF s \in topics THEN "direct"
                   ELSE IF s \in first..last /\ ~(b # "denied" \/ searxng) THEN "new"
                   ELSE wiki[s]]
    BY <1>2 DEF PlanOf
  <2> QED
    BY <1>3, <2>1 DEF TurnTypes
<1>11. \A s \in Searches : stage'[s] = stage[s] \/ (turn[s] = 0 /\ stage[s] = "new")
  BY <1>4, <1>8 DEF Unplanned
<1>12. Unplanned'
  <2>1. tavily' = tavily
        \/ tavily' = [s \in Searches |-> IF s \in first..last THEN "reading" ELSE tavily[s]]
    BY <1>2 DEF PlanOf
  <2>2. t # 0
    BY DEF Turns
  <2>3. ASSUME NEW s \in Searches, turn'[s] = 0
        PROVE  s \notin first..last /\ turn[s] = 0
    BY <1>6, <2>2, <2>3
  <2>4. ASSUME NEW s \in Searches, turn'[s] = 0
        PROVE  stage'[s] = stage[s] /\ tavily'[s] = tavily[s]
    BY <1>8, <2>1, <2>3, <2>4
  <2> QED
    BY <2>3, <2>4 DEF Unplanned
<1> QED
  BY <1>5, <1>7, <1>9, <1>10, <1>11, <1>12 DEF TurnTypes

LEMMA WikiStepTypes ==
  \A step \in WikiSteps : step[2] \in {"off", "new", "direct", "api", "article"}
BY DEF WikiSteps

LEMMA WorkTurns ==
  ASSUME Typed, Unplanned, NEW s \in Searches, Work(s)
  PROVE  TurnTypes' /\ Unplanned' /\ UNCHANGED plan
<1>1. TurnTypes
  BY Parts
<1>2. tavily \in [Searches -> {"off", "reading", "calling", "exhausted"}]
  BY Parts DEF CallTypes
<1>3. UNCHANGED <<searxng, budget, turn>>
  BY DEF Work, Tavily, ReadKey, TavilyAnswers, Rotate, SearxngAnswers, LookUp, Search, Charge,
         Merge, FetchPage, PageAnswers, Enriched, FallBack, plan
<1>4. CASE Tavily(s)
  <2>1. UNCHANGED <<stage, wiki>> /\ tavily[s] # "off"
        /\ \A q \in Searches \ {s} : tavily'[q] = tavily[q]
    BY <1>2, <1>4 DEF Tavily, ReadKey, TavilyAnswers, Rotate
  <2> QED
    BY <1>1, <1>3, <2>1 DEF TurnTypes, Unplanned, plan
<1>5. CASE SearxngAnswers(s) \/ FetchPage(s) \/ PageAnswers(s)
  <2>1. UNCHANGED <<stage, wiki, tavily>>
    BY <1>5 DEF SearxngAnswers, FetchPage, PageAnswers, calls
  <2> QED
    BY <1>1, <1>3, <2>1 DEF TurnTypes, Unplanned, plan
<1>6. CASE LookUp(s)
  <2>1. UNCHANGED <<stage, tavily>>
    BY <1>6 DEF LookUp, calls
  <2>2. PICK step \in WikiSteps : wiki' = [wiki EXCEPT ![s] = step[2]]
    BY <1>6 DEF LookUp
  <2>3. wiki' \in [Searches -> {"off", "new", "direct", "api", "article"}]
    BY <1>1, <2>2, WikiStepTypes DEF TurnTypes
  <2> QED
    BY <1>1, <1>3, <2>1, <2>3 DEF TurnTypes, Unplanned, plan
<1>7. CASE Charge(s) \/ Enriched(s) \/ FallBack(s)
  <2>1. UNCHANGED <<wiki, tavily>> /\ stage[s] # "new"
        /\ \E now \in {"merging", "done"} : stage' = [stage EXCEPT ![s] = now]
    BY <1>7 DEF Charge, Enriched, FallBack, calls
  <2> QED
    BY <1>1, <1>3, <2>1 DEF TurnTypes, Unplanned, plan
<1>8. CASE Merge(s)
  <2>1. stage[s] # "new"
        /\ \E now \in {"lost", "fallback", "enriching"} : stage' = [stage EXCEPT ![s] = now]
    BY <1>8 DEF Merge
  <2>2. wiki' = wiki \/ wiki' = [wiki EXCEPT ![s] = "new"]
    BY <1>8 DEF Merge
  <2>3. tavily' = [tavily EXCEPT ![s] = "off"]
    BY <1>8 DEF Merge, Forget
  <2>4. TurnTypes'
    BY <1>1, <1>3, <2>1, <2>2 DEF TurnTypes
  <2> QED
    BY <1>2, <1>1, <1>3, <2>1, <2>3, <2>4 DEF TurnTypes, Unplanned, plan
<1> QED
  BY <1>4, <1>5, <1>6, <1>7, <1>8 DEF Work, Search

LEMMA CancelTurns ==
  ASSUME Typed, Unplanned, NEW t \in Turns, Cancel(t)
  PROVE  TurnTypes' /\ Unplanned' /\ UNCHANGED plan
<1>1. TurnTypes
  BY Parts
<1>2. UNCHANGED <<searxng, budget, turn, tavily>>
  BY DEF Cancel, plan, calls
<1>3. /\ stage' = [s \in Searches |-> IF turn[s] = t /\ ~Over(s) THEN "cancelled" ELSE stage[s]]
      /\ wiki' = [s \in Searches |-> IF turn[s] = t /\ ~Over(s) /\ stage[s] = "fallback"
                                     THEN "off" ELSE wiki[s]]
  BY DEF Cancel
<1>4. TurnTypes'
  BY <1>1, <1>2, <1>3 DEF TurnTypes
<1>5. t # 0
  BY DEF Turns
<1> QED
  BY <1>2, <1>3, <1>4, <1>5 DEF Unplanned, plan


-----------------------------------------------------------------------------
(* Flags *)

LEMMA PlanFlags ==
  ASSUME Flags, NEW t \in Turns, Plan(t)
  PROVE  Flags'
<1>1. UNCHANGED <<searxng, raced, found, kept>>
  BY DEF Plan
<1>2. PICK b \in Budgets, first, last \in Searches :
        \E topics \in SUBSET (first..last) : PlanOf(t, b, first, last, topics)
  BY DEF Plan
<1>3. searx' = searx
      \/ searx' = [s \in Searches |-> IF s \in first..last THEN TRUE ELSE searx[s]]
  BY <1>2 DEF PlanOf
<1>4. searx' \in [Searches -> BOOLEAN]
  BY <1>3, Zenon DEF Flags
<1> QED
  BY <1>1, <1>4, Zenon DEF Flags

LEMMA FlagKept ==
  ASSUME NEW f \in [Searches -> BOOLEAN], NEW s \in Searches, NEW b \in BOOLEAN
  PROVE  [f EXCEPT ![s] = b] \in [Searches -> BOOLEAN]
BY Zenon

LEMMA WorkFlags ==
  ASSUME Flags, NEW s \in Searches, Work(s)
  PROVE  Flags'
<1>1. searxng' = searxng
  BY DEF Work, Tavily, ReadKey, TavilyAnswers, Rotate, SearxngAnswers, LookUp, Search, Charge,
         Merge, FetchPage, PageAnswers, Enriched, FallBack, plan
<1>2. raced' \in [Searches -> BOOLEAN]
  <2>1. \/ raced' = raced
        \/ raced' = [raced EXCEPT ![s] = FALSE]
        \/ raced' = [q \in Searches |-> raced[q] \/ (q # s /\ InCall(q))]
    BY DEF Work, Tavily, ReadKey, TavilyAnswers, Rotate, SearxngAnswers, LookUp, Search, Charge,
           Merge, Forget, FetchPage, PageAnswers, Enriched, FallBack, calls
  <2>2. \A q \in Searches : (raced[q] \/ (q # s /\ InCall(q))) \in BOOLEAN
    OBVIOUS
  <2> QED
    BY <2>1, <2>2, FlagKept, Zenon DEF Flags
<1>3. searx' \in [Searches -> BOOLEAN]
  <2>1. searx' = searx \/ searx' = [searx EXCEPT ![s] = FALSE]
    BY DEF Work, Tavily, ReadKey, TavilyAnswers, Rotate, SearxngAnswers, LookUp, Search, Charge,
           Merge, FetchPage, PageAnswers, Enriched, FallBack
  <2> QED
    BY <2>1, FlagKept, Zenon DEF Flags
<1>4. found' \in [Searches -> BOOLEAN]
  <2>1. found' = found \/ \E some \in BOOLEAN : Gain(s, some)
    BY DEF Work, Tavily, ReadKey, TavilyAnswers, Rotate, SearxngAnswers, LookUp, Search, Charge,
           Merge, FetchPage, PageAnswers, Enriched, FallBack
  <2>2. ASSUME NEW some \in BOOLEAN, Gain(s, some)
        PROVE  found' \in [Searches -> BOOLEAN]
    <3>1. found' = [found EXCEPT ![s] = found[s] \/ (some /\ stage[s] # "cancelled")]
      BY <2>2 DEF Gain
    <3>2. (found[s] \/ (some /\ stage[s] # "cancelled")) \in BOOLEAN
      OBVIOUS
    <3> QED
      BY <3>1, <3>2, FlagKept, Zenon DEF Flags
  <2> QED
    BY <2>1, <2>2, Zenon DEF Flags
<1>5. kept' \in [Searches -> BOOLEAN]
  <2>1. kept' = kept \/ kept' = [kept EXCEPT ![s] = TRUE]
    BY DEF Work, Tavily, ReadKey, TavilyAnswers, Rotate, SearxngAnswers, LookUp, Search, Charge,
           Merge, FetchPage, PageAnswers, Enriched, FallBack
  <2> QED
    BY <2>1, FlagKept, Zenon DEF Flags
<1> QED
  BY <1>1, <1>2, <1>3, <1>4, <1>5, Zenon DEF Flags

LEMMA CancelFlags ==
  ASSUME Flags, NEW t \in Turns, Cancel(t)
  PROVE  Flags'
<1>1. UNCHANGED <<searxng, raced>>
  BY DEF Cancel, plan, calls
<1> DEFINE mine == {s \in Searches : turn[s] = t /\ ~Over(s)}
<1>2. /\ searx' = [s \in Searches |-> IF s \in mine THEN FALSE ELSE searx[s]]
      /\ found' = [s \in Searches |-> IF s \in mine THEN FALSE ELSE found[s]]
      /\ kept' = [s \in Searches |-> IF s \in mine THEN FALSE ELSE kept[s]]
  BY DEF Cancel
<1> HIDE DEF mine
<1>3. /\ searx' \in [Searches -> BOOLEAN] /\ found' \in [Searches -> BOOLEAN]
      /\ kept' \in [Searches -> BOOLEAN]
  BY <1>2, Zenon DEF Flags
<1> QED
  BY <1>1, <1>3, Zenon DEF Flags

-----------------------------------------------------------------------------
(* Pages *)

\* What does not change the pages keeps them if it leaves the stage of fetching alone.
LEMMA PagesKept ==
  ASSUME Pages, Fetching, UNCHANGED fetches,
         \A s \in Searches : todo[s] + held[s] > 0 => stage'[s] = "enriching"
  PROVE  Pages' /\ Fetching'
<1>1. UNCHANGED <<todo, held>>
  BY DEF fetches
<1> QED
  BY <1>1 DEF Pages, Fetching

LEMMA PlanPages ==
  ASSUME Typed, Unplanned, Fetching, NEW t \in Turns, Plan(t)
  PROVE  Pages' /\ Fetching'
<1>1. Pages
  BY Parts
<1>2. UNCHANGED fetches
  BY DEF Plan
<1>3. \A s \in Searches : stage'[s] = stage[s] \/ stage[s] = "new"
  BY PlanTurns
<1>4. \A s \in Searches : todo[s] + held[s] > 0 => stage'[s] = "enriching"
  BY <1>1, <1>3 DEF Pages
<1> QED
  BY <1>1, <1>2, <1>4, PagesKept

LEMMA WorkPages ==
  ASSUME Typed, Fetching, NEW s \in Searches, Work(s)
  PROVE  Pages' /\ Fetching'
<1>1. Pages /\ stage \in [Searches -> {"new", "gathering", "merging", "enriching", "fallback",
                                       "done", "lost", "cancelled"}]
  BY Parts DEF TurnTypes
<1>2. /\ \A q \in Searches : todo[q] \in Nat /\ held[q] \in Nat
      /\ FetchTop \in Nat /\ todo[s] + held[s] <= FetchTop
  BY <1>1, SearchAssumption DEF Pages, Fetching
<1>3. CASE Tavily(s) \/ SearxngAnswers(s) \/ LookUp(s)
  <2>1. UNCHANGED <<stage, fetches>>
    BY <1>3 DEF Tavily, ReadKey, TavilyAnswers, Rotate, SearxngAnswers, LookUp
  <2> QED
    BY <1>1, <2>1, PagesKept DEF Pages
<1>4. CASE Charge(s) \/ Enriched(s) \/ FallBack(s)
  <2>1. UNCHANGED fetches /\ (stage[s] # "enriching" \/ (todo[s] = 0 /\ held[s] = 0))
        /\ \A q \in Searches \ {s} : stage'[q] = stage[q]
    BY <1>1, <1>4 DEF Charge, Enriched, FallBack
  <2>2. ASSUME NEW q \in Searches, todo[q] + held[q] > 0
        PROVE  stage'[q] = "enriching"
    BY <1>1, <2>1, <2>2 DEF Pages
  <2> QED
    BY <1>1, <2>1, <2>2, PagesKept
<1>5. CASE Merge(s)
  <2>1. stage[s] # "enriching" /\ UNCHANGED held
        /\ \A q \in Searches \ {s} : stage'[q] = stage[q]
    BY <1>1, <1>5 DEF Merge
  <2>2. todo[s] = 0 /\ held[s] = 0
    BY <1>1, <1>2, <2>1 DEF Pages
  <2>3. CASE UNCHANGED todo
    <3>1. UNCHANGED fetches
      BY <2>1, <2>3 DEF fetches
    <3>2. ASSUME NEW q \in Searches, todo[q] + held[q] > 0
          PROVE  stage'[q] = "enriching"
      BY <1>1, <2>1, <2>2, <3>2 DEF Pages
    <3> QED
      BY <1>1, <3>1, <3>2, PagesKept
  <2>4. CASE /\ stage' = [stage EXCEPT ![s] = "enriching"]
             /\ \E pages \in 0..FetchTop : todo' = [todo EXCEPT ![s] = pages]
    <3>1. PICK pages \in 0..FetchTop : todo' = [todo EXCEPT ![s] = pages]
      BY <2>4
    <3>2. stage'[s] = "enriching" /\ todo'[s] = pages
          /\ \A q \in Searches \ {s} : todo'[q] = todo[q]
      BY <1>1, <2>4, <3>1 DEF Pages
    <3>3. Pages'
      BY <1>1, <2>1, <3>1, <3>2 DEF Pages
    <3>4. ASSUME NEW q \in Searches
          PROVE  todo'[q] + held'[q] <= FetchTop
      <4>1. CASE q = s
        BY <1>2, <2>1, <2>2, <3>2, <4>1
      <4>2. CASE q # s
        BY <2>1, <3>2, <4>2 DEF Fetching
      <4> QED
        BY <4>1, <4>2
    <3> QED
      BY <3>3, <3>4 DEF Fetching
  <2> QED
    BY <1>5, <2>3, <2>4 DEF Merge
<1>6. CASE FetchPage(s) \/ PageAnswers(s)
  <2>1. /\ stage' = stage /\ todo[s] + held[s] > 0
        /\ todo'[s] \in 0..FetchTop /\ held'[s] \in 0..FetchTop
        /\ todo'[s] + held'[s] <= todo[s] + held[s]
        /\ \A q \in Searches \ {s} : todo'[q] = todo[q] /\ held'[q] = held[q]
    <3>1. CASE FetchPage(s)
      BY <1>1, <1>2, <3>1 DEF FetchPage, Pages
    <3>2. CASE PageAnswers(s)
      BY <1>1, <1>2, <3>2 DEF PageAnswers, Pages
    <3> QED
      BY <1>6, <3>1, <3>2
  <2>2. todo' \in [Searches -> 0..FetchTop] /\ held' \in [Searches -> 0..FetchTop]
    <3>1. /\ \E n : todo' = [todo EXCEPT ![s] = n]
          /\ \E n : held' = [held EXCEPT ![s] = n]
      <4>1. CASE FetchPage(s)
        BY <4>1 DEF FetchPage
      <4>2. CASE PageAnswers(s)
        <5>1. todo' = [todo EXCEPT ![s] = todo[s]]
          BY <1>1, <4>2 DEF PageAnswers, Pages
        <5> QED
          BY <4>2, <5>1 DEF PageAnswers
      <4> QED
        BY <1>6, <4>1, <4>2
    <3> QED
      BY <1>1, <2>1, <3>1 DEF Pages
  <2>3. stage[s] = "enriching"
    BY <1>1, <2>1 DEF Pages
  <2>4. Pages'
    BY <1>1, <2>1, <2>2, <2>3 DEF Pages
  <2>5. ASSUME NEW q \in Searches
        PROVE  todo'[q] + held'[q] <= FetchTop
    <3>1. CASE q = s
      <4>1. todo'[s] \in Nat /\ held'[s] \in Nat
        BY <1>2, <2>1
      <4> QED
        BY <1>2, <2>1, <3>1, <4>1
    <3>2. CASE q # s
      BY <2>1, <3>2 DEF Fetching
    <3> QED
      BY <3>1, <3>2
  <2> QED
    BY <2>4, <2>5 DEF Fetching
<1> QED
  BY <1>3, <1>4, <1>5, <1>6 DEF Work, Search

LEMMA CancelPages ==
  ASSUME Typed, Fetching, NEW t \in Turns, Cancel(t)
  PROVE  Pages' /\ Fetching'
<1>1. Pages /\ FetchTop \in Nat
  BY Parts, SearchAssumption
<1> DEFINE mine == {s \in Searches : turn[s] = t /\ ~Over(s)}
<1>2. /\ stage' = [s \in Searches |-> IF s \in mine THEN "cancelled" ELSE stage[s]]
      /\ todo' = [s \in Searches |-> IF s \in mine THEN 0 ELSE todo[s]]
      /\ held' = [s \in Searches |-> IF s \in mine THEN 0 ELSE held[s]]
  BY DEF Cancel, Returned
<1> HIDE DEF mine
<1>3. todo' \in [Searches -> 0..FetchTop] /\ held' \in [Searches -> 0..FetchTop]
  BY <1>1, <1>2 DEF Pages
<1>4. ASSUME NEW s \in Searches
      PROVE  /\ todo'[s] + held'[s] > 0 => stage'[s] = "enriching"
             /\ todo'[s] + held'[s] <= FetchTop
  <2>1. CASE s \in mine
    BY <1>1, <1>2, <2>1
  <2>2. CASE s \notin mine
    BY <1>1, <1>2, <2>2 DEF Pages, Fetching
  <2> QED
    BY <2>1, <2>2
<1> QED
  BY <1>3, <1>4 DEF Pages, Fetching


-----------------------------------------------------------------------------
(* The inductive invariant *)

LEMMA PlanCharging ==
  ASSUME Typed, Unplanned, Charging, NEW t \in Turns, Plan(t)
  PROVE  Charging' /\ charged' \in 0..MaxSearches
<1>1. charged' = charged
  BY DEF Plan
<1>2. \A s \in Searches : stage'[s] = stage[s] \/ stage[s] = "new"
  BY PlanTurns
<1>3. \A s \in Searches : s \in Left => stage'[s] \notin {"new", "gathering"}
  BY <1>2 DEF Left
<1> QED
  BY <1>1, <1>3, ChargingKept

LEMMA WorkCharging ==
  ASSUME Typed, Charging, NEW s \in Searches, Work(s)
  PROVE  Charging' /\ charged' \in 0..MaxSearches
<1>1. stage \in [Searches -> {"new", "gathering", "merging", "enriching", "fallback",
                              "done", "lost", "cancelled"}]
  BY Parts DEF TurnTypes
<1>2. CASE Charge(s)
  <2>1. /\ charged' \in {charged, charged + 1}
        /\ stage[s] = "gathering" /\ stage'[s] = "merging"
        /\ \A q \in Searches \ {s} : stage'[q] = stage[q]
    BY <1>1, <1>2 DEF Charge
  <2> QED
    BY <2>1, ChargingOnce
<1>3. CASE ~Charge(s)
  <2>1. charged' = charged
    BY <1>3 DEF Work, Tavily, ReadKey, TavilyAnswers, Rotate, SearxngAnswers, LookUp, Search,
                Merge, FetchPage, PageAnswers, Enriched, FallBack
  <2>2. stage' = stage \/ \E now \in {"lost", "fallback", "enriching", "done"} :
                            stage' = [stage EXCEPT ![s] = now]
    BY <1>3 DEF Work, Tavily, ReadKey, TavilyAnswers, Rotate, SearxngAnswers, LookUp, Search,
                Merge, FetchPage, PageAnswers, Enriched, FallBack
  <2>3. \A q \in Searches : q \in Left => stage'[q] \notin {"new", "gathering"}
    BY <1>1, <2>2 DEF Left
  <2> QED
    BY <2>1, <2>3, ChargingKept
<1> QED
  BY <1>2, <1>3

LEMMA CancelCharging ==
  ASSUME Typed, Charging, NEW t \in Turns, Cancel(t)
  PROVE  Charging' /\ charged' \in 0..MaxSearches
<1>1. charged' = charged
  BY DEF Cancel
<1>2. stage' = [s \in Searches |-> IF turn[s] = t /\ ~Over(s) THEN "cancelled" ELSE stage[s]]
  BY DEF Cancel
<1>3. \A s \in Searches : s \in Left => stage'[s] \notin {"new", "gathering"}
  BY <1>2 DEF Left
<1> QED
  BY <1>1, <1>3, ChargingKept

LEMMA SearchInit ==
  ASSUME Init
  PROVE  SearchInv
<1>1. /\ Keys \in Nat \ {0} /\ FetchTop \in Nat /\ MaxSearches \in Nat
      /\ 1 \in 1..Keys /\ 0 \in 0..Keys /\ 0 \in 0..FetchTop /\ 0 \in 0..MaxSearches
  BY SearchAssumption
<1>2. CallTypes /\ TurnTypes /\ Pages /\ charged \in 0..MaxSearches
  BY <1>1 DEF Init, CallTypes, TurnTypes, Pages
<1>3. Flags
  BY Zenon DEF Init, Flags
<1>4. Typed
  BY <1>2, <1>3, Parts
<1>5. Unplanned /\ Attempting /\ Tried /\ Fetching
  BY <1>1 DEF Init, Unplanned, Attempting, Tried, Fetching
<1>6. Charging
  <2>1. Left \in SUBSET Searches
    BY DEF Left
  <2>2. Cardinality(Left) \in Nat
    BY <2>1, LeftIsFinite
  <2> HIDE DEF Left
  <2>3. charged = 0
    BY DEF Init
  <2> QED
    BY <2>2, <2>3 DEF Charging
<1> QED
  BY <1>4, <1>5, <1>6 DEF SearchInv

LEMMA SearchStep ==
  ASSUME SearchInv, [Next]_vars
  PROVE  SearchInv'
<1>1. /\ Typed /\ Unplanned /\ Attempting /\ Tried /\ Charging /\ Fetching
      /\ Calling /\ TurnTypes /\ Flags /\ Pages
  BY Parts DEF SearchInv, Calling
<1> SUFFICES /\ Calling' /\ TurnTypes' /\ Unplanned' /\ Flags' /\ Pages' /\ Fetching'
             /\ Charging' /\ charged' \in 0..MaxSearches
  <2>1. ASSUME Pages', NEW s \in Searches, todo'[s] > 0
        PROVE  stage'[s] = "enriching"
    <3>1. todo'[s] \in Nat /\ held'[s] \in Nat
      BY <2>1, SearchAssumption DEF Pages
    <3> QED
      BY <2>1, <3>1 DEF Pages
  <2> QED
    BY <2>1 DEF SearchInv, Typed, TypeOK, Holding, Calling, CallTypes, TurnTypes, Flags, Pages
<1>2. ASSUME NEW t \in Turns, Plan(t)
      PROVE  /\ Calling' /\ TurnTypes' /\ Unplanned' /\ Flags' /\ Pages' /\ Fetching'
             /\ Charging' /\ charged' \in 0..MaxSearches
  BY <1>1, <1>2, PlanCalls, PlanTurns, PlanFlags, PlanPages, PlanCharging
<1>3. ASSUME NEW t \in Turns, Cancel(t)
      PROVE  /\ Calling' /\ TurnTypes' /\ Unplanned' /\ Flags' /\ Pages' /\ Fetching'
             /\ Charging' /\ charged' \in 0..MaxSearches
  <2>1. UNCHANGED <<keyring, calls>>
    BY <1>3 DEF Cancel
  <2>2. Calling'
    BY <1>1, <2>1, CallsKept
  <2> QED
    BY <1>1, <1>3, <2>2, CancelTurns, CancelFlags, CancelPages, CancelCharging
<1>4. ASSUME NEW s \in Searches, Work(s)
      PROVE  /\ Calling' /\ TurnTypes' /\ Unplanned' /\ Flags' /\ Pages' /\ Fetching'
             /\ Charging' /\ charged' \in 0..MaxSearches
  <2>1. Calling'
    <3>1. CASE Quietly(s)
      BY <1>1, <3>1, QuietlyCalls, CallsKept
    <3>2. CASE TavilyAnswers(s) \/ Merge(s)
      BY <1>1, <3>2, OverCalls DEF Flags
    <3>3. CASE ReadKey(s)
      BY <1>1, <3>3, ReadKeyCalls
    <3>4. CASE Rotate(s)
      BY <1>1, <3>4, RotateCalls
    <3> QED
      BY <1>4, <3>1, <3>2, <3>3, <3>4 DEF Work, Tavily, Search, Quietly
  <2> QED
    BY <1>1, <1>4, <2>1, WorkTurns, WorkFlags, WorkPages, WorkCharging
<1>5. CASE UNCHANGED vars
  <2>1. /\ UNCHANGED <<keyring, charged, plan, stage, calls, searx, wiki, found, kept, fetches>>
        /\ UNCHANGED <<searxng, budget, turn, raced, tavily, todo, held>>
    BY <1>5 DEF vars, plan, calls, fetches
  <2>2. Calling'
    BY <1>1, <2>1, CallsKept
  <2>3. TurnTypes' /\ Unplanned' /\ charged' \in 0..MaxSearches
    BY <1>1, <2>1 DEF TurnTypes, Unplanned, Typed, TypeOK
  <2>4. Flags'
    BY <1>1, <2>1, Zenon DEF Flags
  <2>5. Pages' /\ Fetching'
    BY <1>1, <2>1 DEF Pages, Fetching
  <2>6. Left' = Left
    BY <2>1 DEF Left
  <2>7. Charging'
    BY <1>1, <2>1, <2>6 DEF Charging
  <2> QED
    BY <2>2, <2>3, <2>4, <2>5, <2>7
<1> QED
  BY <1>2, <1>3, <1>4, <1>5 DEF Next, Finished

(***************************************************************************)
(* The inductive invariant holds in every behaviour.                       *)
(***************************************************************************)
THEOREM SearchInvariant == Spec => []SearchInv
<1>1. Init => SearchInv
  BY SearchInit
<1>2. SearchInv /\ [Next]_vars => SearchInv'
  BY SearchStep
<1> QED
  BY <1>1, <1>2, PTL DEF Spec

(***************************************************************************)
(* The state keeps its types: the index of RotatingTavily stays on a key,  *)
(* no usage is recorded twice for a search, only a search that enriches    *)
(* its results holds the semaphore (search_structured).                    *)
(***************************************************************************)
THEOREM SearchTypes == Spec => []TypeOK
<1>1. SearchInv => TypeOK
  BY DEF SearchInv, Typed
<1> QED
  BY <1>1, SearchInvariant, PTL

(***************************************************************************)
(* With any number of keys and searches, a Tavily call fails for quota     *)
(* only when every key is used up or another search moved the index        *)
(* during the call (RotatingTavily.search).                                *)
(***************************************************************************)
THEOREM KeysAreTried == Spec => []GoodKeysAreFound
<1>1. SearchInv => GoodKeysAreFound
  <2> SUFFICES ASSUME SearchInv, NEW s \in Searches, tavily[s] = "exhausted"
               PROVE  spent = 1..Keys \/ raced[s]
    BY DEF GoodKeysAreFound
  <2> QED
    BY Zenon DEF SearchInv, Tried
<1> QED
  BY <1>1, SearchInvariant, PTL
=============================================================================
