--------------------------- MODULE RetrievalProofs ---------------------------
(***************************************************************************)
(* Theorems about Retrieval, for any number of tasks, legs, permits and    *)
(* attempts.  The permits that are left and the legs that hold one always  *)
(* make up all permits; a call runs only for a leg that holds one or was   *)
(* cancelled (Gate).  A turn that waits for the local ranker has its lock, *)
(* and a model that is being loaded is loaded by somebody (Ranking).       *)
(***************************************************************************)
EXTENDS Retrieval, FiniteSetTheorems, TLAPS

\* Where a leg can be.
Places == Holding \cup {"idle", "lookup", "queue", "ready", "found", "nothing",
                        "raised", "embedded", "failed", "cancelled"}

Holders == {l \in Legs : at[l] \in Holding}

Gate ==
  /\ at \in [Legs -> Places]
  /\ thread \in [Legs -> {"none", "running", "answered", "error"}]
  /\ permits \in Nat /\ permits + Cardinality(Holders) = Permits
  /\ \A l \in Legs :
       /\ thread[l] = "running" => at[l] \in {"calling", "cancelled"}
       /\ stage[l[1]] = "new" => at[l] = "idle"
       /\ at[l] = "cancelled" => stage[l[1]] = "cancelled"

\* A turn has its result only while it waits for it.
Ranking ==
  /\ stage \in [Tasks -> {"new", "embedding", "asking", "waiting", "inferring",
                          "done", "cancelled", "storing", "stored", "failed"}]
  /\ inference \in [Tasks -> {"none", "start", "loading", "running",
                              "ranked", "keywords", "raised"}]
  /\ ranker \in {"none", "loading", "ready", "broken"}
  /\ \A t \in Tasks :
       /\ stage[t] = "inferring" => lock = t
       /\ t \in Inferring \ Abandoned => stage[t] = "inferring"
  /\ ranker = "loading" => \E t \in Tasks : inference[t] = "loading"

RetrievalInv == Gate /\ Ranking

-----------------------------------------------------------------------------
(* Permits *)

LEMMA LegsAreFinite == IsFiniteSet(Legs)
<1>1. IsFiniteSet(Tasks) /\ IsFiniteSet(1..MaxLegs)
  BY FS_Interval, RetrievalAssumption DEF Tasks
<1> QED
  BY <1>1, FS_Product DEF Legs

LEMMA SetsOfLegs ==
  ASSUME NEW S \in SUBSET Legs
  PROVE  IsFiniteSet(S) /\ Cardinality(S) \in Nat
<1>1. IsFiniteSet(S)
  BY LegsAreFinite, FS_Subset
<1> QED
  BY <1>1, FS_CardinalityType

LEMMA HoldersAreLegs ==
  Holders \in SUBSET Legs /\ IsFiniteSet(Holders) /\ Cardinality(Holders) \in Nat
<1>1. Holders \in SUBSET Legs
  BY DEF Holders
<1> QED
  BY <1>1, SetsOfLegs

\* The legs that hold a permit are those that held one before.
LEMMA PermitsKept ==
  ASSUME Gate, permits' = permits,
         \A m \in Legs : at'[m] \in Holding <=> at[m] \in Holding
  PROVE  permits' \in Nat /\ permits' + Cardinality(Holders)' = Permits
<1>1. Holders' = Holders
  BY DEF Holders
<1> QED
  BY <1>1 DEF Gate

LEMMA PermitTaken ==
  ASSUME Gate, NEW l \in Legs, permits > 0, permits' = permits - 1,
         at[l] \notin Holding, at'[l] \in Holding,
         \A m \in Legs \ {l} : at'[m] = at[m]
  PROVE  permits' \in Nat /\ permits' + Cardinality(Holders)' = Permits
<1>1. Holders' = Holders \cup {l} /\ l \notin Holders
  BY DEF Holders
<1>2. Cardinality(Holders \cup {l}) = Cardinality(Holders) + 1
  BY <1>1, HoldersAreLegs, FS_AddElement
<1>3. permits \in Nat /\ Permits \in Nat /\ permits + Cardinality(Holders) = Permits
  BY RetrievalAssumption DEF Gate
<1> QED
  BY <1>1, <1>2, <1>3, HoldersAreLegs

\* As many permits are given back as there are holders in S.
LEMMA PermitsFreed ==
  ASSUME Gate, NEW S \in SUBSET Legs, permits' = permits + Cardinality(S \cap Holders),
         \A m \in Legs : at'[m] \in Holding <=> at[m] \in Holding /\ m \notin S
  PROVE  permits' \in Nat /\ permits' + Cardinality(Holders)' = Permits
<1>1. Holders' = Holders \ S
  BY DEF Holders
<1>2. Cardinality(Holders \ S) = Cardinality(Holders) - Cardinality(Holders \cap S)
  BY HoldersAreLegs, FS_Difference
<1>3. Holders \cap S = S \cap Holders /\ Cardinality(S \cap Holders) \in Nat
  BY SetsOfLegs
<1>4. permits \in Nat /\ permits + Cardinality(Holders) = Permits
  BY DEF Gate
<1>5. Cardinality(Holders) \in Nat
  BY HoldersAreLegs
<1>6. Cardinality(Holders)' = Cardinality(Holders) - Cardinality(S \cap Holders)
  BY <1>1, <1>2, <1>3
<1> HIDE DEF Holders
<1> QED
  BY <1>3, <1>4, <1>5, <1>6

LEMMA LegsOfTasks ==
  ASSUME NEW l \in Legs
  PROVE  l[1] \in Tasks /\ l[2] \in 1..MaxLegs /\ l = <<l[1], l[2]>>
BY DEF Legs

-----------------------------------------------------------------------------
(* Legs *)

\* The leg that goes on, and the next batch of its upload.
LEMMA EmbeddedLegs ==
  ASSUME Gate, NEW l \in Legs, at' = Embedded(l)
  PROVE  /\ at' \in [Legs -> Places]
         /\ at'[l] \in {"ready", "embedded"}
         /\ \A m \in Legs \ {l} : \/ at'[m] = at[m]
                                  \/ at[m] = "idle" /\ at'[m] = "lookup" /\ m[1] = l[1]
<1>1. \A m \in Legs : at'[m] =
        IF m = l THEN IF kind[l[1]] = "turn" THEN "ready" ELSE "embedded"
        ELSE IF m = <<l[1], l[2] + 1>> /\ at[m] = "idle" /\ texts[m] # {} THEN "lookup"
        ELSE at[m]
  BY DEF Embedded
<1>2. at' \in [Legs -> Places]
  BY DEF Embedded, Gate, Places
<1>3. \A m \in Legs \ {l} : \/ at'[m] = at[m]
                            \/ at[m] = "idle" /\ at'[m] = "lookup" /\ m = <<l[1], l[2] + 1>>
  BY <1>1
<1> QED
  BY <1>1, <1>2, <1>3

LEMMA UnembeddedLegs ==
  ASSUME Gate, NEW l \in Legs, at' = Unembedded(l)
  PROVE  /\ at' \in [Legs -> Places]
         /\ at'[l] \in {"nothing", "failed"}
         /\ \A m \in Legs \ {l} : at'[m] = at[m]
BY DEF Unembedded, Gate, Places

LEMMA CollectedLegs ==
  ASSUME Gate, NEW t \in Tasks, stage[t] # "cancelled", Collect(t)
  PROVE  /\ at' \in [Legs -> Places]
         /\ \A m \in Legs : \/ at'[m] = at[m]
                            \/ at'[m] = "idle" /\ at[m] \notin Holding \cup {"calling", "cancelled"}
<1>1. at' \in [Legs -> Places]
  BY DEF Gate, Collect, Places
<1>2. \A m \in Legs : at'[m] = IF m \in Collected(t) THEN "idle" ELSE at[m]
  BY DEF Collect
<1>3. \A m \in Collected(t) : at[m] \notin Holding \cup {"calling", "cancelled"}
  BY DEF Collected, LegsOf, LegOver, Gate, Holding
<1> QED
  BY <1>1, <1>2, <1>3

LEMMA LegStepGate ==
  ASSUME RetrievalInv, NEW l \in Legs, LegStep(l)
  PROVE  Gate'
<1> USE DEF RetrievalInv
<1>1. UNCHANGED stage
  BY DEF LegStep, Lookup, Admit, Pace, Call, Answer, Resume, Search
<1>2. \A m \in Legs :
        /\ thread[m] = "running" => at[m] \in {"calling", "cancelled"}
        /\ stage[m[1]] = "new" => at[m] = "idle"
        /\ at[m] = "cancelled" => stage[m[1]] = "cancelled"
  BY DEF Gate
<1>3. at \in [Legs -> Places] /\ thread \in [Legs -> {"none", "running", "answered", "error"}]
  BY DEF Gate
<1>4. ASSUME /\ at' \in [Legs -> Places]
             /\ \A m \in Legs : at'[m] \in Holding <=> at[m] \in Holding
             /\ permits' = permits /\ UNCHANGED thread
             /\ at'[l] # "cancelled" /\ stage[l[1]] # "new" /\ thread[l] # "running"
             /\ \A m \in Legs \ {l} :
                  \/ at'[m] = at[m]
                  \/ at[m] = "idle" /\ at'[m] = "lookup" /\ m[1] = l[1]
      PROVE  Gate'
  <2>1. permits' \in Nat /\ permits' + Cardinality(Holders)' = Permits
    BY <1>4, PermitsKept
  <2>2. ASSUME NEW m \in Legs
        PROVE  /\ thread'[m] = "running" => at'[m] \in {"calling", "cancelled"}
               /\ stage'[m[1]] = "new" => at'[m] = "idle"
               /\ at'[m] = "cancelled" => stage'[m[1]] = "cancelled"
    BY <1>1, <1>2, <1>4
  <2> QED
    BY <1>3, <1>4, <2>1, <2>2 DEF Gate
<1>5. CASE Lookup(l)
  <2>1. /\ at[l] = "lookup" /\ permits' = permits /\ UNCHANGED thread
        /\ at' = Embedded(l) \/ at' = [at EXCEPT ![l] = "queue"]
    BY <1>5 DEF Lookup
  <2>2. CASE at' = Embedded(l)
    BY <1>2, <1>4, <2>1, <2>2, EmbeddedLegs DEF Holding
  <2>3. CASE at' = [at EXCEPT ![l] = "queue"]
    <3>1. /\ at'[l] = "queue" /\ \A m \in Legs \ {l} : at'[m] = at[m]
          /\ at' \in [Legs -> Places]
      BY <1>3, <2>3 DEF Places
    <3> QED
      BY <1>2, <1>4, <2>1, <3>1 DEF Holding
  <2> QED
    BY <2>1, <2>2, <2>3
<1>6. CASE Admit(l)
  <2>1. /\ at[l] = "queue" /\ permits > 0 /\ permits' = permits - 1 /\ UNCHANGED thread
        /\ at'[l] = "slot" /\ \A m \in Legs \ {l} : at'[m] = at[m]
        /\ at' \in [Legs -> Places]
    BY <1>3, <1>6 DEF Admit, Places, Holding
  <2>2. permits' \in Nat /\ permits' + Cardinality(Holders)' = Permits
    BY <2>1, PermitTaken DEF Holding
  <2>3. ASSUME NEW m \in Legs
        PROVE  /\ thread'[m] = "running" => at'[m] \in {"calling", "cancelled"}
               /\ stage'[m[1]] = "new" => at'[m] = "idle"
               /\ at'[m] = "cancelled" => stage'[m[1]] = "cancelled"
    BY <1>1, <1>2, <2>1
  <2> QED
    BY <1>3, <2>1, <2>2, <2>3 DEF Gate
<1>7. CASE Pace(l)
  <2>1. /\ at[l] = "slot" /\ permits' = permits /\ UNCHANGED thread
        /\ at'[l] = "pacing" /\ \A m \in Legs \ {l} : at'[m] = at[m]
        /\ at' \in [Legs -> Places]
    BY <1>3, <1>7 DEF Pace, Places, Holding
  <2> QED
    BY <1>2, <1>4, <2>1 DEF Holding
<1>8. CASE Call(l)
  <2>1. /\ at[l] = "pacing" /\ permits' = permits
        /\ at'[l] = "calling" /\ \A m \in Legs \ {l} : at'[m] = at[m] /\ thread'[m] = thread[m]
        /\ at' \in [Legs -> Places]
        /\ thread' \in [Legs -> {"none", "running", "answered", "error"}]
    BY <1>3, <1>8 DEF Call, Places, Holding
  <2>2. permits' \in Nat /\ permits' + Cardinality(Holders)' = Permits
    BY <2>1, PermitsKept DEF Holding
  <2>3. ASSUME NEW m \in Legs
        PROVE  /\ thread'[m] = "running" => at'[m] \in {"calling", "cancelled"}
               /\ stage'[m[1]] = "new" => at'[m] = "idle"
               /\ at'[m] = "cancelled" => stage'[m[1]] = "cancelled"
    BY <1>1, <1>2, <2>1
  <2> QED
    BY <2>1, <2>2, <2>3 DEF Gate
<1>9. CASE Answer(l)
  <2>1. /\ UNCHANGED <<at, permits>>
        /\ thread' \in [Legs -> {"none", "running", "answered", "error"}]
        /\ \A m \in Legs : thread'[m] = "running" => thread[m] = "running"
    BY <1>3, <1>9 DEF Answer
  <2>2. permits' \in Nat /\ permits' + Cardinality(Holders)' = Permits
    BY <2>1, PermitsKept
  <2> QED
    BY <1>1, <1>2, <1>3, <2>1, <2>2 DEF Gate
<1>10. CASE Resume(l)
  <2>1. /\ at[l] = "calling" /\ permits' = permits + 1
        /\ \A m \in Legs \ {l} : thread'[m] = thread[m]
        /\ thread'[l] = "none"
        /\ thread' \in [Legs -> {"none", "running", "answered", "error"}]
        /\ at' = Embedded(l) \/ at' = Unembedded(l)
    BY <1>3, <1>10 DEF Resume
  <2>2. /\ at' \in [Legs -> Places]
        /\ at'[l] \in {"ready", "embedded", "nothing", "failed"}
        /\ \A m \in Legs \ {l} : \/ at'[m] = at[m]
                                 \/ at[m] = "idle" /\ at'[m] = "lookup" /\ m[1] = l[1]
    BY <2>1, EmbeddedLegs, UnembeddedLegs
  <2>3. permits' = permits + Cardinality({l} \cap Holders)
    <3>1. {l} \cap Holders = {l}
      BY <2>1 DEF Holders, Holding
    <3> QED
      BY <2>1, <3>1, FS_Singleton
  <2>4. permits' \in Nat /\ permits' + Cardinality(Holders)' = Permits
    <3>1. \A m \in Legs : at'[m] \in Holding <=> at[m] \in Holding /\ m \notin {l}
      BY <2>2 DEF Holding
    <3> QED
      BY <2>3, <3>1, PermitsFreed
  <2>5. ASSUME NEW m \in Legs
        PROVE  /\ thread'[m] = "running" => at'[m] \in {"calling", "cancelled"}
               /\ stage'[m[1]] = "new" => at'[m] = "idle"
               /\ at'[m] = "cancelled" => stage'[m[1]] = "cancelled"
    BY <1>1, <1>2, <2>1, <2>2
  <2> QED
    BY <2>1, <2>2, <2>4, <2>5 DEF Gate
<1>11. CASE Search(l)
  <2>1. /\ at[l] = "ready" /\ permits' = permits /\ UNCHANGED thread
        /\ at'[l] \in Outcomes /\ \A m \in Legs \ {l} : at'[m] = at[m]
        /\ at' \in [Legs -> Places]
    BY <1>3, <1>11 DEF Search, Places, Outcomes
  <2> QED
    BY <1>2, <1>4, <2>1 DEF Holding, Outcomes
<1> QED
  BY <1>5, <1>6, <1>7, <1>8, <1>9, <1>10, <1>11 DEF LegStep

-----------------------------------------------------------------------------
(* Tasks *)

\* What keeps the gate is said of the legs that change.
LEMMA GateKept ==
  ASSUME Gate, NEW t \in Tasks, stage[t] # "cancelled", UNCHANGED <<thread, permits>>,
         stage'[t] # "new", \A u \in Tasks \ {t} : stage'[u] = stage[u],
         at' \in [Legs -> Places],
         \A m \in Legs : \/ at'[m] = at[m]
                         \/ /\ {at[m], at'[m]} \cap (Holding \cup {"cancelled"}) = {}
                            /\ m[1] = t
  PROVE  Gate'
<1>1. \A m \in Legs : at'[m] \in Holding <=> at[m] \in Holding
  OBVIOUS
<1>2. permits' \in Nat /\ permits' + Cardinality(Holders)' = Permits
  BY <1>1, PermitsKept
<1>3. ASSUME NEW m \in Legs
      PROVE  /\ thread'[m] = "running" => at'[m] \in {"calling", "cancelled"}
             /\ stage'[m[1]] = "new" => at'[m] = "idle"
             /\ at'[m] = "cancelled" => stage'[m[1]] = "cancelled"
  <2>1. /\ thread[m] = "running" => at[m] \in {"calling", "cancelled"}
        /\ stage[m[1]] = "new" => at[m] = "idle"
        /\ at[m] = "cancelled" => stage[m[1]] = "cancelled"
        /\ m[1] \in Tasks
    BY LegsOfTasks DEF Gate
  <2> QED
    BY <2>1 DEF Holding
<1>4. thread' \in [Legs -> {"none", "running", "answered", "error"}]
  BY DEF Gate
<1> QED
  BY <1>2, <1>3, <1>4 DEF Gate

LEMMA StartStep ==
  ASSUME RetrievalInv, NEW t \in Tasks, Start(t)
  PROVE  RetrievalInv'
<1> USE DEF RetrievalInv
<1>1. PICK k \in {"turn", "upload"}, n \in 1..MaxLegs :
        /\ stage' = [stage EXCEPT ![t] = "embedding"]
        /\ at' = [l \in Legs |-> IF l[1] = t /\ (l[2] = 1 \/ (l[2] <= n /\ k = "turn"))
                                 THEN "lookup" ELSE at[l]]
  BY DEF Start
<1>2. stage[t] = "new" /\ UNCHANGED <<thread, permits, lock, ranker, inference>>
  BY DEF Start, ranking
<1>3. /\ stage'[t] = "embedding" /\ \A u \in Tasks \ {t} : stage'[u] = stage[u]
      /\ stage' \in [Tasks -> {"new", "embedding", "asking", "waiting", "inferring",
                               "done", "cancelled", "storing", "stored", "failed"}]
  BY <1>1 DEF Ranking
<1>4. at' \in [Legs -> Places]
  BY <1>1 DEF Gate, Places
<1>5. \A m \in Legs : at'[m] = at[m] \/ (at'[m] = "lookup" /\ m[1] = t)
  BY <1>1
<1>6. \A m \in Legs : m[1] = t => at[m] = "idle"
  BY <1>2 DEF Gate
<1>7. Gate'
  BY <1>2, <1>3, <1>4, <1>5, <1>6, GateKept DEF Holding
<1>8. Ranking'
  BY <1>2, <1>3 DEF Ranking, Inferring, Abandoned
<1> QED
  BY <1>7, <1>8

LEMMA CollectingStep ==
  ASSUME RetrievalInv, NEW t \in Tasks, Join(t) \/ FinishUpload(t)
  PROVE  RetrievalInv'
<1> USE DEF RetrievalInv
<1>1. /\ stage[t] = "embedding" /\ Collect(t)
      /\ UNCHANGED <<thread, permits, lock, ranker, inference>>
  BY DEF Join, FinishUpload, ranking
<1>2. PICK end \in {"done", "asking", "stored", "failed"} : stage' = [stage EXCEPT ![t] = end]
  BY DEF Join, FinishUpload, NextStage
<1>3. /\ stage'[t] = end /\ \A u \in Tasks \ {t} : stage'[u] = stage[u]
      /\ stage' \in [Tasks -> {"new", "embedding", "asking", "waiting", "inferring",
                               "done", "cancelled", "storing", "stored", "failed"}]
  BY <1>2 DEF Ranking
<1>4. /\ at' \in [Legs -> Places]
      /\ \A m \in Legs : \/ at'[m] = at[m]
                         \/ at'[m] = "idle" /\ at[m] \notin Holding \cup {"calling", "cancelled"}
  BY <1>1, CollectedLegs
<1>5. \A m \in Legs : m[1] # t => at'[m] = at[m]
  BY <1>1 DEF Collect, Collected, LegsOf
<1>6. Gate'
  BY <1>1, <1>3, <1>4, <1>5, GateKept DEF Holding
<1>7. Ranking'
  BY <1>1, <1>3 DEF Ranking, Inferring, Abandoned
<1> QED
  BY <1>6, <1>7

LEMMA CancelStep ==
  ASSUME RetrievalInv, NEW t \in Tasks, Cancel(t)
  PROVE  RetrievalInv'
<1> USE DEF RetrievalInv
<1>1. /\ stage[t] # "new" /\ stage'[t] = "cancelled"
      /\ \A u \in Tasks \ {t} : stage'[u] = stage[u]
      /\ stage' \in [Tasks -> {"new", "embedding", "asking", "waiting", "inferring",
                               "done", "cancelled", "storing", "stored", "failed"}]
      /\ UNCHANGED <<thread, ranker, inference>>
      /\ permits' = permits + Freed(Cut(t))
      /\ lock' = IF lock = t THEN 0 ELSE lock
  BY DEF Cancel, Ranking
<1>2. at' \in [Legs -> Places]
      /\ \A m \in Legs : at'[m] = IF m \in Cut(t) THEN "cancelled" ELSE at[m]
  BY DEF Cancel, Gate, Places
<1>3. Cut(t) \in SUBSET Legs /\ \A m \in Cut(t) : m[1] = t
  BY DEF Cut, LegsOf
<1>4. Freed(Cut(t)) = Cardinality(Cut(t) \cap Holders)
  <2>1. {l \in Cut(t) : at[l] \in Holding} = Cut(t) \cap Holders
    BY <1>3 DEF Holders
  <2> QED
    BY <2>1 DEF Freed
<1>5. permits' \in Nat /\ permits' + Cardinality(Holders)' = Permits
  <2>1. \A m \in Legs : at'[m] \in Holding <=> at[m] \in Holding /\ m \notin Cut(t)
    BY <1>2 DEF Holding
  <2> QED
    BY <1>1, <1>3, <1>4, <2>1, PermitsFreed
<1>6. ASSUME NEW m \in Legs
      PROVE  /\ thread'[m] = "running" => at'[m] \in {"calling", "cancelled"}
             /\ stage'[m[1]] = "new" => at'[m] = "idle"
             /\ at'[m] = "cancelled" => stage'[m[1]] = "cancelled"
  <2>1. /\ thread[m] = "running" => at[m] \in {"calling", "cancelled"}
        /\ stage[m[1]] = "new" => at[m] = "idle"
        /\ at[m] = "cancelled" => stage[m[1]] = "cancelled"
        /\ m[1] \in Tasks
    BY LegsOfTasks DEF Gate
  <2> QED
    BY <1>1, <1>2, <1>3, <2>1
<1>7. thread' \in [Legs -> {"none", "running", "answered", "error"}]
  BY <1>1 DEF Gate
<1>8. Gate'
  BY <1>2, <1>5, <1>6, <1>7 DEF Gate
<1>9. Ranking'
  <2>1. ASSUME NEW u \in Tasks, stage'[u] = "inferring"
        PROVE  lock' = u
    <3>1. u # t
      BY <1>1, <2>1
    <3> QED
      BY <1>1, <2>1, <3>1 DEF Ranking
  <2>2. ASSUME NEW u \in Tasks, u \in (Inferring \ Abandoned)'
        PROVE  stage'[u] = "inferring"
    BY <1>1, <2>2 DEF Ranking, Inferring, Abandoned
  <2> QED
    BY <1>1, <2>1, <2>2 DEF Ranking
<1> QED
  BY <1>8, <1>9

\* The steps about the ranker.
LEMMA RankingStep ==
  ASSUME RetrievalInv, NEW t \in Tasks,
         Ask(t) \/ TakeLock(t) \/ Release(t) \/ Begin(t) \/ Load(t) \/ Infer(t)
  PROVE  RetrievalInv'
<1> USE DEF RetrievalInv
<1>1. UNCHANGED <<at, thread, permits>>
  BY DEF Ask, TakeLock, Release, Begin, Load, Infer, embedding
<1>2. /\ stage \in [Tasks -> {"new", "embedding", "asking", "waiting", "inferring",
                              "done", "cancelled", "storing", "stored", "failed"}]
      /\ inference \in [Tasks -> {"none", "start", "loading", "running",
                                  "ranked", "keywords", "raised"}]
      /\ ranker \in {"none", "loading", "ready", "broken"}
      /\ \A u \in Tasks : stage[u] = "inferring" => lock = u
      /\ \A u \in Tasks : inference[u] \in {"start", "loading", "running"}
                            /\ stage[u] # "cancelled" => stage[u] = "inferring"
      /\ ranker = "loading" => \E u \in Tasks : inference[u] = "loading"
  BY DEF Ranking, Inferring, Abandoned
<1>3. CASE Ask(t) \/ TakeLock(t) \/ Release(t)
  <2>1. PICK from \in {"asking", "waiting", "inferring"},
             to \in {"done", "asking", "waiting", "inferring"} :
          stage[t] = from /\ stage' = [stage EXCEPT ![t] = to]
    BY <1>3 DEF Ask, TakeLock, Release, Ranked, NextStage
  <2>2. /\ stage'[t] = to /\ \A u \in Tasks \ {t} : stage'[u] = stage[u]
        /\ stage' \in [Tasks -> {"new", "embedding", "asking", "waiting", "inferring",
                                 "done", "cancelled", "storing", "stored", "failed"}]
    BY <1>2, <2>1
  <2>3. Gate'
    <3>1. at' \in [Legs -> Places]
      BY <1>1 DEF Gate
    <3> QED
      BY <1>1, <2>1, <2>2, <3>1, GateKept
  <2>4. CASE Ask(t)
    <3>1. /\ UNCHANGED <<lock, ranker, inference>>
          /\ stage[t] = "asking" /\ stage'[t] \in {"done", "asking", "waiting"}
      BY <1>2, <2>4 DEF Ask, Ranked, NextStage
    <3> QED
      BY <1>2, <2>2, <2>3, <3>1 DEF Ranking, Inferring, Abandoned
  <2>5. CASE TakeLock(t)
    <3>1. /\ lock = 0 /\ lock' = t /\ stage[t] = "waiting" /\ stage'[t] = "inferring"
          /\ UNCHANGED ranker
          /\ inference' \in [Tasks -> {"none", "start", "loading", "running",
                                       "ranked", "keywords", "raised"}]
          /\ \A u \in Tasks \ {t} : inference'[u] = inference[u]
      BY <1>2, <2>5 DEF TakeLock, LockFree
    <3>2. \A u \in Tasks : stage[u] # "inferring"
      BY <1>2, <3>1 DEF Tasks
    <3>3. inference[t] # "loading"
      BY <1>2, <3>1
    <3> QED
      BY <1>2, <2>2, <2>3, <3>1, <3>2, <3>3 DEF Ranking, Inferring, Abandoned
  <2>6. CASE Release(t)
    <3>1. /\ lock' = 0 /\ stage[t] = "inferring" /\ stage'[t] \in {"done", "asking"}
          /\ UNCHANGED ranker /\ inference[t] # "loading" /\ inference'[t] = "none"
          /\ inference' \in [Tasks -> {"none", "start", "loading", "running",
                                       "ranked", "keywords", "raised"}]
          /\ \A u \in Tasks \ {t} : inference'[u] = inference[u]
      BY <1>2, <2>6 DEF Release, Ranked, NextStage
    <3>2. \A u \in Tasks \ {t} : stage[u] # "inferring"
      BY <1>2, <3>1
    <3> QED
      BY <1>2, <2>2, <2>3, <3>1, <3>2 DEF Ranking, Inferring, Abandoned
  <2> QED
    BY <1>3, <2>4, <2>5, <2>6
<1>4. CASE Begin(t) \/ Load(t) \/ Infer(t)
  <2>1. UNCHANGED <<stage, lock>>
    BY <1>4 DEF Begin, Load, Infer
  <2>2. Gate'
    <3>1. \A m \in Legs : m[1] \in Tasks
      BY LegsOfTasks
    <3>2. permits' \in Nat /\ permits' + Cardinality(Holders)' = Permits
      BY <1>1, PermitsKept
    <3> QED
      BY <1>1, <2>1, <3>1, <3>2 DEF Gate
  <2>3. /\ inference' \in [Tasks -> {"none", "start", "loading", "running",
                                     "ranked", "keywords", "raised"}]
        /\ \A u \in Tasks \ {t} : inference'[u] = inference[u]
        /\ inference[t] \in {"start", "loading", "running"}
        /\ ranker' \in {"none", "loading", "ready", "broken"}
        /\ ranker' = "loading" =>
             inference'[t] = "loading" \/ (ranker = "loading" /\ inference[t] # "loading")
    BY <1>2, <1>4 DEF Begin, Load, Infer
  <2> QED
    BY <1>2, <2>1, <2>2, <2>3 DEF Ranking, Inferring, Abandoned
<1> QED
  BY <1>3, <1>4

-----------------------------------------------------------------------------
(* The invariant *)

LEMMA RetrievalInit == Init => RetrievalInv
<1> SUFFICES ASSUME Init
             PROVE  RetrievalInv
  OBVIOUS
<1> USE DEF Init
<1>1. Holders = {}
  BY DEF Holders, Holding
<1>2. permits + Cardinality(Holders) = Permits /\ permits \in Nat
  BY <1>1, FS_EmptySet, RetrievalAssumption
<1>3. Gate
  BY <1>2 DEF Gate, Places
<1>4. Ranking
  BY DEF Ranking, Inferring, Abandoned
<1> QED
  BY <1>3, <1>4 DEF RetrievalInv

LEMMA RetrievalNext ==
  ASSUME RetrievalInv, [Next]_vars
  PROVE  RetrievalInv'
<1>1. CASE UNCHANGED vars
  <2>1. UNCHANGED <<stage, at, thread, permits, lock, ranker, inference>>
    BY <1>1 DEF vars, embedding, ranking
  <2>2. Holders' = Holders /\ Inferring' = Inferring /\ Abandoned' = Abandoned
    BY <2>1 DEF Holders, Inferring, Abandoned
  <2> QED
    BY <2>1, <2>2 DEF RetrievalInv, Gate, Ranking
<1>2. ASSUME NEW t \in Tasks, NEW n \in 1..MaxLegs, LegStep(<<t, n>>)
      PROVE  RetrievalInv'
  <2>1. <<t, n>> \in Legs
    BY DEF Legs
  <2>2. Gate'
    BY <1>2, <2>1, LegStepGate
  <2>3. UNCHANGED <<stage, lock, ranker, inference>>
    BY <1>2 DEF LegStep, Lookup, Admit, Pace, Call, Answer, Resume, Search, ranking
  <2>4. Ranking'
    BY <2>3 DEF RetrievalInv, Ranking, Inferring, Abandoned
  <2> QED
    BY <2>2, <2>4 DEF RetrievalInv
<1> QED
  BY <1>1, <1>2, StartStep, CollectingStep, CancelStep, RankingStep DEF Next, Step, TurnStep

\* The inductive invariant of Retrieval.
THEOREM RetrievalInvariant == Spec => []RetrievalInv
BY RetrievalInit, RetrievalNext, PTL DEF Spec

-----------------------------------------------------------------------------
(* What follows from it *)

(***************************************************************************)
(* Of the calls of the embedding service that somebody waits for there are *)
(* never more than permits, and of the inferences of the local ranker      *)
(* never more than one (_rate_limiter, _flashrank_lock).                   *)
(***************************************************************************)
THEOREM LimitsHoldForTheLiving == Spec => []ExcessIsAbandoned
<1>1. ASSUME RetrievalInv
      PROVE  ExcessIsAbandoned
  <2> USE <1>1 DEF RetrievalInv
  <2> DEFINE Calls == {l \in Legs : thread[l] = "running" /\ at[l] # "cancelled"}
  <2>1. Cardinality(Calls) <= Permits
    <3>1. Calls \in SUBSET Holders
      BY DEF Gate, Holders, Holding
    <3>2. Calls \in SUBSET Legs
      OBVIOUS
    <3> HIDE DEF Calls
    <3>3. Cardinality(Calls) <= Cardinality(Holders) /\ Cardinality(Calls) \in Nat
      BY <3>1, <3>2, HoldersAreLegs, SetsOfLegs, FS_Subset
    <3>4. permits \in Nat /\ permits + Cardinality(Holders) = Permits
      BY DEF Gate
    <3>5. Cardinality(Holders) \in Nat
      BY HoldersAreLegs
    <3> HIDE DEF Holders
    <3> QED
      BY <3>3, <3>4, <3>5
  <2>2. Cardinality(Inferring \ Abandoned) <= 1
    <3>1. Inferring \ Abandoned \in SUBSET {lock}
      BY DEF Ranking, Inferring
    <3>2. IsFiniteSet({lock}) /\ Cardinality({lock}) = 1
      BY FS_Singleton
    <3>3. Cardinality(Inferring \ Abandoned) <= Cardinality({lock})
      BY <3>1, <3>2, FS_Subset
    <3> QED
      BY <3>2, <3>3
  <2> QED
    BY <2>1, <2>2 DEF ExcessIsAbandoned
<1> QED
  BY <1>1, RetrievalInvariant, PTL

(***************************************************************************)
(* A turn that is still waited for is ranked by keywords only after a      *)
(* failure of the model, or beside a cancelled turn that is loading it     *)
(* (_get_reranker, _flashrank_rerank_sync).                                *)
(***************************************************************************)
THEOREM KeywordsAfterFailures == Spec => KeywordsNeedAFailure
<1> DEFINE Fallback ==
      \A t \in Tasks \ Abandoned : inference[t] = "start" /\ inference'[t] = "keywords" =>
        \/ ranker = "broken"
        \/ \E u \in Abandoned : inference[u] = "loading"
<1>1. ASSUME RetrievalInv, [Next]_vars
      PROVE  [Fallback]_vars
  <2> SUFFICES ASSUME NEW t \in Tasks \ Abandoned, inference[t] = "start",
                      inference'[t] = "keywords", ranker # "broken"
               PROVE  \E u \in Abandoned : inference[u] = "loading"
    BY DEF Fallback
  <2> USE <1>1 DEF RetrievalInv
  <2>1. Begin(t)
    <3>1. inference \in [Tasks -> {"none", "start", "loading", "running",
                                   "ranked", "keywords", "raised"}]
      BY DEF Ranking
    <3>2. inference' # inference
      OBVIOUS
    <3>3. ASSUME NEW u \in Tasks, Start(u) \/ Cancel(u) \/ Join(u) \/ Ask(u) \/ FinishUpload(u)
          PROVE  FALSE
      BY <3>2, <3>3 DEF Start, Cancel, Join, Ask, FinishUpload, ranking
    <3>4. ASSUME NEW l, LegStep(l)
          PROVE  FALSE
      BY <3>2, <3>4 DEF LegStep, Lookup, Admit, Pace, Call, Answer, Resume, Search, ranking
    <3>5. ~UNCHANGED vars
      BY <3>2 DEF vars, ranking
    <3>6. PICK u \in Tasks : TakeLock(u) \/ Release(u) \/ Begin(u) \/ Load(u) \/ Infer(u)
      BY <1>1, <3>3, <3>4, <3>5 DEF Next, Step, TurnStep
    <3>7. u = t
      BY <3>1, <3>6 DEF TakeLock, Release, Begin, Load, Infer
    <3> QED
      BY <3>1, <3>6, <3>7 DEF TakeLock, Release, Begin, Load, Infer
  <2>2. ranker = "loading"
    BY <2>1 DEF Begin, Ranking
  <2>3. PICK u \in Tasks : inference[u] = "loading"
    BY <2>2 DEF Ranking
  <2>4. u \in Abandoned
    BY <2>3 DEF Ranking, Inferring
  <2> QED
    BY <2>3, <2>4
<1> QED
  BY <1>1, RetrievalInvariant, PTL DEF Spec, KeywordsNeedAFailure
=============================================================================
