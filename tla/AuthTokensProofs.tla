--------------------------- MODULE AuthTokensProofs ---------------------------
(***************************************************************************)
(* Theorems about AuthTokens, for any finite set of requests.  The         *)
(* invariants are about two requests that do not overlap, so each of them  *)
(* rests on what a request that has ended can no longer do (Past), on what *)
(* an UPDATE has found (Revoking) and on what a rotation has written       *)
(* (Rotating).                                                             *)
(***************************************************************************)
EXTENDS AuthTokens, TLAPS

\* The tokens a request deals with were issued by requests that have ended; it
\* came with one at most, and has none of its own before it ends.
Past ==
  \A r \in Request :
    /\ before[r] \cup presented[r] \cup targets[r] \subseteq Ended
    /\ \A t, u \in presented[r] : t = u
    /\ stage[r] = "issuing" => presented[r] = {}
    /\ r \notin Ended => row[r] = "none"

\* A revocation under way misses no live token of before it began.
Revoking ==
  \A v \in Request :
    /\ stage[v] = "updating" => before[v] \cap Live \subseteq targets[v]
    /\ stage[v] = "revoked"  => before[v] \cap Live = {}

\* On the way to a successor, or refused.
Underway(r) == stage[r] \in {"rotating", "committing", "refused"}

\* A rotated token is revoked, and who presents it later, or presents what a
\* revocation has found, does not get far.
Rotating ==
  /\ \A r, t \in Request : Rotates(r, t) => row[t] = "revoked"
  /\ \A r, s, t \in Request :
       Rotates(s, t) /\ s \in before[r] /\ t \in presented[r]
         => ~Underway(r) /\ ~Rotates(r, t)
  /\ \A v, r, t \in Request :
       stage[v] = "revoked" /\ v \in before[r] /\ t \in before[v] /\ t \in presented[r]
         => stage[r] \notin {"rotating", "committing"} /\ ~Rotates(r, t)

TokenInv == TypeOK /\ Past /\ Revoking /\ Rotating

-----------------------------------------------------------------------------
(* Types *)

LEMMA BeginType ==
  ASSUME TypeOK, NEW r \in Request, NEW handler \in Kinds,
         NEW tokens \in SUBSET Request, NEW first \in Stages,
         Begin(r, handler, tokens, first)
  PROVE  TypeOK'
BY DEF Begin, TypeOK, Ended, Stages, Ends

LEMMA TypeStep == TypeOK /\ [Next]_vars => TypeOK'
<1> SUFFICES ASSUME TypeOK, [Next]_vars PROVE TypeOK'
  OBVIOUS
<1>1. CASE UNCHANGED vars
  BY <1>1 DEF vars, TypeOK
<1>2. ASSUME NEW r \in Request, Handle(r) PROVE TypeOK'
  <2> USE DEF Advance
  <2>1. CASE Login(r) \/ RefreshToken(r) \/ Logout(r) \/ ChangePassword(r)
    BY <2>1, BeginType DEF Login, RefreshToken, Logout, ChangePassword, Known, Kinds, Stages
  <2>2. CASE Issue(r)
    BY <2>2 DEF Issue, TypeOK, Stages, Ends
  <2>3. CASE Read(r)
    BY <2>3 DEF Read, TypeOK, Stages, Ends
  <2>4. CASE Rotate(r)
    BY <2>4 DEF Rotate, TypeOK, Stages
  <2>5. CASE CommitRotation(r)
    BY <2>5 DEF CommitRotation, Rotated, Release, TypeOK, Stages, Ends
  <2>6. CASE LookUp(r) \/ CommitPassword(r)
    BY <2>6 DEF LookUp, CommitPassword, TypeOK, Stages
  <2>7. CASE FindLive(r)
    BY <2>7 DEF FindLive, Chosen, Live, TypeOK, Stages
  <2>8. CASE RevokeAll(r)
    BY <2>8 DEF RevokeAll, TypeOK, Stages, Ends
  <2>9. CASE Crash(r)
    BY <2>9 DEF Crash, Release, TypeOK, Stages, Ends
  <2> QED
    BY <1>2, <2>1, <2>2, <2>3, <2>4, <2>5, <2>6, <2>7, <2>8, <2>9 DEF Handle
<1> QED
  BY <1>1, <1>2 DEF Next

-----------------------------------------------------------------------------
(* The invariant *)

LEMMA InitInv == Init => TokenInv
BY DEF Init, TokenInv, TypeOK, Past, Revoking, Rotating, Rotates, Underway, Ended, Live,
       Ends, Stages, Kinds

LEMMA StutterInv == TokenInv /\ UNCHANGED vars => TokenInv'
BY DEF vars, TokenInv, TypeOK, Past, Revoking, Rotating, Rotates, Underway, Ended, Live

\* No request has ended, rotated or revoked by beginning.
Began(r, tokens, first) ==
  /\ row' = row /\ targets' = targets
  /\ Live' = Live
  /\ Ended' = Ended
  /\ r \notin Ended
  /\ before'[r] = Ended
  /\ presented'[r] = tokens
  /\ stage'[r] = first
  /\ \A q, t \in Request : Rotates(q, t)' <=> Rotates(q, t)
  /\ \A t \in Request : ~Rotates(r, t)
  /\ \A q \in Request \ {r} :
       /\ stage'[q] = stage[q]
       /\ before'[q] = before[q]
       /\ presented'[q] = presented[q]

LEMMA BeginFrame ==
  ASSUME TypeOK, NEW r \in Request, NEW handler, NEW tokens,
         NEW first \in {"issuing", "reading", "looking up", "changing"},
         Begin(r, handler, tokens, first)
  PROVE  Began(r, tokens, first)
<1> USE DEF TypeOK, Begin
<1>1. Live' = Live
  BY DEF Live
<1>2. Ended' = Ended /\ r \notin Ended
  BY DEF Ended, Ends
<1>3. \A q, t \in Request : Rotates(q, t)' <=> Rotates(q, t)
  BY DEF Rotates
<1>4. \A t \in Request : ~Rotates(r, t)
  BY DEF Rotates
<1> QED
  BY <1>1, <1>2, <1>3, <1>4 DEF Began

LEMMA BeginInv ==
  ASSUME TokenInv, NEW r \in Request, NEW handler,
         NEW tokens \in SUBSET Ended, \A t, u \in tokens : t = u,
         NEW first \in {"issuing", "reading", "looking up", "changing"},
         first = "issuing" => tokens = {},
         Begin(r, handler, tokens, first)
  PROVE  Past' /\ Revoking' /\ Rotating'
<1>1. Began(r, tokens, first)
  BY BeginFrame DEF TokenInv
<1>2. Past'
  BY <1>1 DEF Began, Past, TokenInv
<1>3. Revoking'
  BY <1>1 DEF Began, Revoking, TokenInv
<1>4. Rotating'
  <2> USE <1>1 DEF Began, TokenInv
  <2>1. \A q, t \in Request : Rotates(q, t)' => row'[t] = "revoked"
    BY DEF Rotating
  <2>2. ASSUME NEW q \in Request, NEW s \in Request, NEW t \in Request,
               Rotates(s, t)', s \in before'[q], t \in presented'[q]
        PROVE  ~Underway(q)' /\ ~Rotates(q, t)'
    <3>1. CASE q = r
      BY <3>1 DEF Underway
    <3>2. CASE q # r
      BY <2>2, <3>2 DEF Rotating, Underway
    <3> QED
      BY <3>1, <3>2
  <2>3. ASSUME NEW v \in Request, NEW q \in Request, NEW t \in Request,
               stage'[v] = "revoked", v \in before'[q], t \in before'[v], t \in presented'[q]
        PROVE  stage'[q] \notin {"rotating", "committing"} /\ ~Rotates(q, t)'
    <3>1. v # r
      BY <2>3
    <3>2. CASE q = r
      BY <3>2
    <3>3. CASE q # r
      BY <2>3, <3>1, <3>3 DEF Rotating
    <3> QED
      BY <3>2, <3>3
  <2> QED
    BY <2>1, <2>2, <2>3 DEF Rotating
<1> QED
  BY <1>2, <1>3, <1>4

(***************************************************************************)
(* The statements.  None of them changes what a request came with; apart   *)
(* from its end, and its token, a request changes nothing the invariant    *)
(* says of others, except by revoking.                                     *)
(***************************************************************************)
Kept == kind' = kind /\ presented' = presented /\ before' = before

\* A statement after which its request is still under way.
LEMMA OnwardInv ==
  ASSUME TokenInv, NEW r \in Request, Kept, row' = row,
         stage[r] \notin Ends, NEW next \in Stages \ Ends, Advance(r, next),
         /\ next \in {"rotating", "committing"}
              => \A t \in presented[r] : \/ stage[r] = "rotating"
                                         \/ row[t] = "live",
         next # "issuing",
         targets'[r] \in {targets[r], Live}, next = "updating" => targets'[r] = Live,
         \A v \in Request \ {r} : targets'[v] = targets[v],
         stage[r] # "updating"
  PROVE  Past' /\ Revoking' /\ Rotating'
<1> USE DEF TokenInv, TypeOK, Kept, Advance
<1>1. Live' = Live
  BY DEF Live
<1>2. Ended \subseteq Ended' /\ r \notin Ended
  BY DEF Ended
<1>3. \A q, t \in Request : Rotates(q, t)' <=> Rotates(q, t)
  BY DEF Rotates, Ends
<1>4. Past'
  <2>1. Live \subseteq Ended
    BY DEF Past, Live
  <2> QED
    BY <1>2, <2>1 DEF Past, Ended
<1>5. Revoking'
  BY <1>1 DEF Revoking, Ends
<1>6. Rotating'
  <2>1. \A q, t \in Request : Rotates(q, t)' => row'[t] = "revoked"
    BY <1>3 DEF Rotating
  <2>2. ASSUME NEW q \in Request, NEW s \in Request, NEW t \in Request,
               Rotates(s, t), s \in before[q], t \in presented[q]
        PROVE  ~Underway(q)' /\ ~Rotates(q, t)
    BY <2>2 DEF Rotating, Underway, Ends
  <2>3. ASSUME NEW v \in Request, NEW q \in Request, NEW t \in Request,
               stage'[v] = "revoked", v \in before[q], t \in before[v], t \in presented[q]
        PROVE  stage'[q] \notin {"rotating", "committing"} /\ ~Rotates(q, t)
    <3>1. stage[v] = "revoked" /\ v # r
      BY <2>3 DEF Ends
    <3>2. row[t] # "live"
      BY <3>1, <2>3 DEF Revoking, Live
    <3> QED
      BY <2>3, <3>1, <3>2 DEF Rotating
  <2> QED
    BY <1>3, <2>1, <2>2, <2>3 DEF Rotating
<1> QED
  BY <1>4, <1>5, <1>6

\* A statement that ends its request.
LEMMA EndInv ==
  ASSUME TokenInv, NEW r \in Request, Kept, targets' = targets,
         stage[r] \notin Ends, NEW end \in Ends, Advance(r, end),
         row' \in [Request -> {"none", "live", "revoked"}],
         \A t \in Request \ {r} :
           row'[t] = row[t] \/ (row'[t] = "revoked" /\ t \in Ended),
         end = "issued"  => \A t \in presented[r] : stage[r] = "committing" /\ row'[t] = "revoked",
         end = "refused" => \A t \in presented[r] : row[t] = "live",
         end = "revoked" => before[r] \cap Live' = {}
  PROVE  Past' /\ Revoking' /\ Rotating'
<1> USE DEF TokenInv, TypeOK, Kept, Advance
<1>1. r \notin Ended /\ Ended' = Ended \cup {r}
  BY DEF Ended
<1>2. Live' \cap Ended \subseteq Live
  BY <1>1 DEF Live
<1>3. \A q \in Request \ {r}, t \in Request : Rotates(q, t)' <=> Rotates(q, t)
  BY DEF Rotates
<1>4. \A t \in Request : Rotates(r, t)' => end = "issued" /\ t \in presented[r]
  BY DEF Rotates
<1>5. \A q \in Request, t \in Request : Rotates(q, t) => t \in Ended
  BY DEF Rotates, Past
<1>6. Past'
  BY <1>1 DEF Past, Ends
<1>7. Revoking'
  BY <1>1, <1>2 DEF Revoking, Past, Ends
<1>8. Rotating'
  <2>1. ASSUME NEW q \in Request, NEW t \in Request, Rotates(q, t)'
        PROVE  row'[t] = "revoked"
    BY <2>1, <1>1, <1>3, <1>4, <1>5 DEF Rotating
  <2>2. ASSUME NEW q \in Request, NEW s \in Request, NEW t \in Request,
               Rotates(s, t)', s \in before[q], t \in presented[q]
        PROVE  ~Underway(q)' /\ ~Rotates(q, t)'
    <3>1. s # r /\ Rotates(s, t)
      BY <2>2, <1>1, <1>3 DEF Past
    <3>2. row[t] # "live" /\ ~Underway(q) /\ ~Rotates(q, t)
      BY <2>2, <3>1 DEF Rotating
    <3> QED
      BY <2>2, <3>2, <1>3, <1>4 DEF Underway, Ends
  <2>3. ASSUME NEW v \in Request, NEW q \in Request, NEW t \in Request,
               stage'[v] = "revoked", v \in before[q], t \in before[v], t \in presented[q]
        PROVE  stage'[q] \notin {"rotating", "committing"} /\ ~Rotates(q, t)'
    <3>1. v # r /\ stage[v] = "revoked"
      BY <2>3, <1>1 DEF Past
    <3>2. stage[q] \notin {"rotating", "committing"} /\ ~Rotates(q, t)
      BY <2>3, <3>1 DEF Rotating
    <3> QED
      BY <2>3, <3>2, <1>3, <1>4 DEF Ends
  <2> QED
    BY <2>1, <2>2, <2>3 DEF Rotating
<1> QED
  BY <1>6, <1>7, <1>8

-----------------------------------------------------------------------------
(* Every step keeps the invariant *)

LEMMA ReadStep ==
  ASSUME TokenInv, NEW r \in Request, Read(r)
  PROVE  Past' /\ Revoking' /\ Rotating'
<1> USE DEF TokenInv, Read
<1>1. Kept /\ row' = row /\ targets' = targets /\ stage[r] = "reading"
  BY DEF Kept
<1>2. CASE presented[r] \cap Live = {}
  BY <1>1, <1>2, OnwardInv DEF Stages, Ends
<1>3. CASE presented[r] \cap Live # {}
  <2>1. \A t \in presented[r] : row[t] = "live"
    BY <1>3 DEF Past, Live
  <2>2. CASE Advance(r, "rotating")
    BY <1>1, <2>1, <2>2, OnwardInv DEF Stages, Ends
  <2>3. CASE Advance(r, "refused")
    <3>1. row' \in [Request -> {"none", "live", "revoked"}]
      BY <1>1 DEF TypeOK
    <3> QED
      BY <1>1, <2>1, <2>3, <3>1, EndInv DEF Ends
  <2> QED
    BY <1>3, <2>2, <2>3
<1> QED
  BY <1>2, <1>3

LEMMA InvStep == TokenInv /\ [Next]_vars => TokenInv'
<1> SUFFICES ASSUME TokenInv, [Next]_vars PROVE TokenInv'
  OBVIOUS
<1>1. TypeOK'
  BY TypeStep DEF TokenInv
<1>2. CASE UNCHANGED vars
  BY <1>2, StutterInv
<1>3. ASSUME NEW r \in Request, Handle(r) PROVE Past' /\ Revoking' /\ Rotating'
  <2>0. TypeOK /\ Past
    BY DEF TokenInv
  <2>1. CASE Login(r)
    BY <2>1, BeginInv DEF Login
  <2>2. CASE RefreshToken(r) \/ Logout(r)
    <3>1. Known \subseteq Ended
      BY <2>0 DEF Known, Past
    <3> QED
      BY <2>2, <3>1, BeginInv DEF RefreshToken, Logout
  <2>3. CASE ChangePassword(r)
    BY <2>3, BeginInv DEF ChangePassword
  <2>4. CASE Issue(r)
    <3>1. presented[r] = {}
      BY <2>0, <2>4 DEF Issue, Past
    <3> QED
      BY <2>0, <2>4, <3>1, EndInv DEF Issue, Kept, TypeOK, Ends
  <2>5. CASE Read(r)
    BY <2>5, ReadStep
  <2>6. CASE Rotate(r)
    BY <2>0, <2>6, OnwardInv DEF Rotate, Kept, Stages, Ends
  <2>7. CASE CommitRotation(r)
    <3>1. stage[r] = "committing" /\ Advance(r, "issued") /\ Kept /\ targets' = targets
      BY <2>7 DEF CommitRotation, Kept
    <3>2. row' \in [Request -> {"none", "live", "revoked"}]
      BY <2>0, <2>7 DEF CommitRotation, Rotated, TypeOK
    <3>3. r \notin presented[r] /\ presented[r] \subseteq Ended
      BY <2>0, <3>1 DEF Past, Ended, Ends
    <3>4. /\ \A t \in presented[r] : row'[t] = "revoked"
          /\ \A t \in Request \ {r} :
               row'[t] = row[t] \/ (row'[t] = "revoked" /\ t \in Ended)
      BY <2>0, <2>7, <3>3 DEF CommitRotation, Rotated, TypeOK
    <3> QED
      BY <3>1, <3>2, <3>4, EndInv DEF Ends
  <2>8. CASE LookUp(r) \/ CommitPassword(r)
    BY <2>0, <2>8, OnwardInv DEF LookUp, CommitPassword, Kept, Stages, Ends
  <2>9. CASE FindLive(r)
    BY <2>0, <2>9, OnwardInv DEF FindLive, Chosen, Kept, Stages, Ends, TypeOK
  <2>10. CASE RevokeAll(r)
    <3>1. /\ stage[r] = "updating" /\ Advance(r, "revoked") /\ Kept /\ targets' = targets
          /\ row' \in [Request -> {"none", "live", "revoked"}]
      BY <2>0, <2>10 DEF RevokeAll, Kept, TypeOK
    <3>2. \A t \in Request \ {r} :
             row'[t] = row[t] \/ (row'[t] = "revoked" /\ t \in Ended)
      BY <2>0, <2>10 DEF RevokeAll, Past
    <3>3. before[r] \cap Live \subseteq targets[r] /\ before[r] \subseteq Request
      BY <3>1, <2>0 DEF TokenInv, Revoking, TypeOK
    <3>4. before[r] \cap Live' = {}
      BY <2>10, <3>3 DEF RevokeAll, Live
    <3> QED
      BY <3>1, <3>2, <3>4, EndInv DEF Ends
  <2>11. CASE Crash(r)
    <3>1. row' \in [Request -> {"none", "live", "revoked"}] /\ row' = row
      BY <2>0, <2>11 DEF Crash, TypeOK
    <3> QED
      BY <2>11, <3>1, EndInv DEF Crash, Kept, Ends
  <2> QED
    BY <1>3, <2>1, <2>2, <2>3, <2>4, <2>5, <2>6, <2>7, <2>8, <2>9, <2>10, <2>11
    DEF Handle
<1> QED
  BY <1>1, <1>2, <1>3 DEF Next, TokenInv

LEMMA TokenInvariant == Spec => []TokenInv
<1> QED
  BY InitInv, InvStep, PTL DEF Spec

-----------------------------------------------------------------------------
(* The theorems *)

\* The variables keep their types; a row has one uncommitted writer at most.
THEOREM TokenTypes == Spec => []TypeOK
<1>1. TokenInv => TypeOK
  BY DEF TokenInv
<1> QED
  BY <1>1, TokenInvariant, PTL

\* A revocation is for good (RevocationHolds), for any number of requests: no
\* rotation or login that overlaps it brings back a token of before it.
THEOREM RevocationIsForGood == Spec => []RevocationHolds
<1>1. TokenInv => RevocationHolds
  BY DEF TokenInv, Revoking, RevocationHolds
<1> QED
  BY <1>1, TokenInvariant, PTL

\* Two rotations of one token overlap (SingleUse): the row lock of the second waits
\* for the first, and only a read before that commit lets the second succeed.
THEOREM TokensAreUsedOnce == Spec => []SingleUse
<1>1. TokenInv => SingleUse
  BY DEF TokenInv, Rotating, SingleUse, Rotates
<1> QED
  BY <1>1, TokenInvariant, PTL

\* No request that begins after a revocation refreshes a token of before it
\* (StaleTokensBuyNothing).
THEOREM StaleTokensAreDead == Spec => []StaleTokensBuyNothing
<1>1. TokenInv => StaleTokensBuyNothing
  BY DEF TokenInv, Rotating, StaleTokensBuyNothing, Rotates
<1> QED
  BY <1>1, TokenInvariant, PTL

\* The answer to a replayed token leaves no token of before it alive
\* (ReuseKillsTheFamily).
THEOREM ReuseIsAnswered == Spec => []ReuseKillsTheFamily
<1>1. TokenInv => ReuseKillsTheFamily
  BY DEF TokenInv, Rotating, Revoking, Underway, ReuseKillsTheFamily, Rotates, Ends
<1> QED
  BY <1>1, TokenInvariant, PTL

=============================================================================
