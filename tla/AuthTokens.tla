------------------------------ MODULE AuthTokens ------------------------------
(***************************************************************************)
(* The refresh tokens of one user (app/auth/tokens.py) and the handlers of *)
(* app/auth/router.py that issue, rotate and revoke them.  A handler is a  *)
(* sequence of database statements; handlers of several tabs, devices and  *)
(* processes interleave between any two, under PostgreSQL's read           *)
(* committed isolation: a statement sees the rows committed when it        *)
(* starts, and an UPDATE waits for a row another transaction has written.  *)
(*                                                                         *)
(* A handler runs once and issues at most one token, so a token is named   *)
(* by the request that issued it.  Other users' rows are out of reach of   *)
(* every statement here (each has the user or the token in its WHERE).     *)
(***************************************************************************)
EXTENDS FiniteSets

CONSTANT Request

ASSUME RequestAssumption == IsFiniteSet(Request)

VARIABLES
  kind,       (* the handler a request runs                                *)
  stage,      (* what it does next                                         *)
  presented,  (* the refresh tokens it came with: none or one              *)
  before,     (* history: the requests that had ended when it began        *)
  targets,    (* the rows a revocation's UPDATE found live                 *)
  row,        (* the committed row of the token a request issued           *)
  writer      (* the uncommitted writer of a row: none or one              *)

vars == <<kind, stage, presented, before, targets, row, writer>>

Kinds == {"none", "login", "refresh", "logout", "password"}

\* How a request ends: with a token, refused, with every token of the user
\* revoked, or lost with its process or connection.
Ends   == {"issued", "refused", "revoked", "lost"}
Stages == Ends \cup {"new", "issuing", "reading", "rotating", "committing",
                     "looking up", "changing", "revoking", "updating"}

TypeOK ==
  /\ kind \in [Request -> Kinds]
  /\ stage \in [Request -> Stages]
  /\ presented \in [Request -> SUBSET Request]
  /\ before \in [Request -> SUBSET Request]
  /\ targets \in [Request -> SUBSET Request]
  /\ row \in [Request -> {"none", "live", "revoked"}]
  /\ writer \in [Request -> SUBSET Request]
  /\ \A t \in Request : \A r, s \in writer[t] : r = s

Ended == {r \in Request : stage[r] \in Ends}
Live  == {t \in Request : row[t] = "live"}

-----------------------------------------------------------------------------
(* Requests begin *)

\* A token is presented by whoever was sent it, in time or much later.
Begin(r, handler, tokens, first) ==
  /\ stage[r] = "new"
  /\ kind' = [kind EXCEPT ![r] = handler]
  /\ presented' = [presented EXCEPT ![r] = tokens]
  /\ before' = [before EXCEPT ![r] = Ended]
  /\ stage' = [stage EXCEPT ![r] = first]
  /\ UNCHANGED <<targets, row, writer>>

Known == {t \in Request : row[t] # "none"}

\* login with the right password, and verify_email with the right code.
Login(r) == Begin(r, "login", {}, "issuing")

RefreshToken(r) == \E t \in Known : Begin(r, "refresh", {t}, "reading")

\* Without a token logout only clears the cookie.
Logout(r) == \E t \in Known : Begin(r, "logout", {t}, "looking up")

\* change_password and reset_password: an access token or a code, no refresh token.
ChangePassword(r) == Begin(r, "password", {}, "changing")

-----------------------------------------------------------------------------
(* Their statements *)

Advance(r, next) == stage' = [stage EXCEPT ![r] = next]

\* issue_token_pair, one INSERT and its commit.
Issue(r) ==
  /\ stage[r] = "issuing"
  /\ row' = [row EXCEPT ![r] = "live"]
  /\ Advance(r, "issued")
  /\ UNCHANGED <<kind, presented, before, targets, writer>>

\* Mutant of Read: a revoked token is an invalid one, and that is all.
ReadWithoutReuseDetection(r) ==
  /\ stage[r] = "reading"
  /\ Advance(r, IF presented[r] \cap Live = {} THEN "refused" ELSE "rotating")
  /\ UNCHANGED <<kind, presented, before, targets, row, writer>>

\* Mutant of Read: any known token will do.
ReadWithoutLooking(r) ==
  /\ stage[r] = "reading"
  /\ Advance(r, "rotating")
  /\ UNCHANGED <<kind, presented, before, targets, row, writer>>

\* The SELECT of rotate_refresh_token; it takes no lock.  A revoked token is a reuse;
\* an expired one, or a user who may not log in, is refused.
Read(r) ==
  /\ stage[r] = "reading"
  /\ IF presented[r] \cap Live = {}
       THEN Advance(r, "revoking")
       ELSE Advance(r, "rotating") \/ Advance(r, "refused")
  /\ UNCHANGED <<kind, presented, before, targets, row, writer>>

\* Mutant of Rotate: the row is written over another writer's head.
RotateWithoutWaiting(r) ==
  /\ stage[r] = "rotating"
  /\ writer' = [t \in Request |-> IF t \in presented[r] THEN writer[t] \cup {r}
                                                         ELSE writer[t]]
  /\ Advance(r, "committing")
  /\ UNCHANGED <<kind, presented, before, targets, row>>

\* The flush: the successor's INSERT and, by primary key, the UPDATE of the old row.
Rotate(r) ==
  /\ stage[r] = "rotating"
  /\ \A t \in presented[r] : writer[t] = {}
  /\ writer' = [t \in Request |-> IF t \in presented[r] THEN {r} ELSE writer[t]]
  /\ Advance(r, "committing")
  /\ UNCHANGED <<kind, presented, before, targets, row>>

Release(r) == writer' = [t \in Request |-> writer[t] \ {r}]

\* Mutant of Rotated: the old row is left as it was.
RotatedKeepingTheOld(r) == [row EXCEPT ![r] = "live"]

Rotated(r) ==
  [t \in Request |-> IF t = r THEN "live"
                     ELSE IF t \in presented[r] THEN "revoked" ELSE row[t]]

CommitRotation(r) ==
  /\ stage[r] = "committing"
  /\ row' = Rotated(r)
  /\ Release(r)
  /\ Advance(r, "issued")
  /\ UNCHANGED <<kind, presented, before, targets>>

\* user_id_for_refresh_token finds the owner of revoked tokens too.
LookUp(r) ==
  /\ stage[r] = "looking up"
  /\ Advance(r, "revoking")
  /\ UNCHANGED <<kind, presented, before, targets, row, writer>>

\* The new hash is committed before, and apart from, the revocation.
CommitPassword(r) ==
  /\ stage[r] = "changing"
  /\ Advance(r, "revoking")
  /\ UNCHANGED <<kind, presented, before, targets, row, writer>>

\* Mutant of Chosen: only the token the request came with.
ChosenPresented(r) == Live \cap presented[r]

Chosen(r) == Live

\* _revoke_all_for_user: the UPDATE finds its rows ...
FindLive(r) ==
  /\ stage[r] = "revoking"
  /\ targets' = [targets EXCEPT ![r] = Chosen(r)]
  /\ Advance(r, "updating")
  /\ UNCHANGED <<kind, presented, before, row, writer>>

\* ... waits for those being written, writes all that are still live, and commits.
RevokeAll(r) ==
  /\ stage[r] = "updating"
  /\ \A t \in targets[r] : writer[t] = {}
  /\ row' = [t \in Request |-> IF t \in targets[r] THEN "revoked" ELSE row[t]]
  /\ Advance(r, "revoked")
  /\ UNCHANGED <<kind, presented, before, targets, writer>>

\* The process or its connection dies; the database rolls the transaction back.
Crash(r) ==
  /\ stage[r] \notin Ends \cup {"new"}
  /\ Release(r)
  /\ Advance(r, "lost")
  /\ UNCHANGED <<kind, presented, before, targets, row>>

-----------------------------------------------------------------------------
(* The specification *)

Init ==
  /\ kind = [r \in Request |-> "none"]
  /\ stage = [r \in Request |-> "new"]
  /\ presented = [r \in Request |-> {}]
  /\ before = [r \in Request |-> {}]
  /\ targets = [r \in Request |-> {}]
  /\ row = [r \in Request |-> "none"]
  /\ writer = [r \in Request |-> {}]

Handle(r) ==
  \/ Login(r)
  \/ RefreshToken(r)
  \/ Logout(r)
  \/ ChangePassword(r)
  \/ Issue(r)
  \/ Read(r)
  \/ Rotate(r)
  \/ CommitRotation(r)
  \/ LookUp(r)
  \/ CommitPassword(r)
  \/ FindLive(r)
  \/ RevokeAll(r)
  \/ Crash(r)

Next == \E r \in Request : Handle(r)

Spec == Init /\ [][Next]_vars

-----------------------------------------------------------------------------
(* Properties *)

Rotates(r, t) == kind[r] = "refresh" /\ t \in presented[r] /\ stage[r] = "issued"

(***************************************************************************)
(* Revoking every token of a user (logout, a new password, a reuse) kills  *)
(* for good the tokens of all requests that had ended when it began,       *)
(* whatever was rotating, crashing or logging in meanwhile.                *)
(***************************************************************************)
RevocationHolds == \A v \in Request : stage[v] = "revoked" => before[v] \cap Live = {}

(***************************************************************************)
(* A refresh token is used once, save by requests that overlap: none that  *)
(* begins after a rotation has ended rotates the same token again.         *)
(***************************************************************************)
SingleUse ==
  \A r, s, t \in Request : Rotates(r, t) /\ Rotates(s, t) => r \notin before[s]

(***************************************************************************)
(* A request that begins after a revocation, with a token from before it,  *)
(* gets nothing: the cookie of a session that was logged out is dead.      *)
(***************************************************************************)
StaleTokensBuyNothing ==
  \A v, r, t \in Request :
    stage[v] = "revoked" /\ v \in before[r] /\ t \in before[v] => ~Rotates(r, t)

(***************************************************************************)
(* Presenting a token that was rotated before revokes the whole family: of *)
(* the tokens that existed when the replay began none is live when it has  *)
(* been answered.                                                          *)
(***************************************************************************)
ReuseKillsTheFamily ==
  \A r, s, t \in Request :
    /\ kind[r] = "refresh" /\ stage[r] \in Ends \ {"lost"} /\ t \in presented[r]
    /\ Rotates(s, t) /\ s \in before[r]
    => before[r] \cap Live = {}

(***************************************************************************)
(* What the docstring of logout says (router.py:484-493): revoking all the *)
(* user's tokens makes an in-flight rotation worthless, whether it lands   *)
(* before or after.                                                        *)
(***************************************************************************)
LogoutIsFinal ==
  \A v, r, t \in Request :
    /\ kind[v] = "logout" /\ stage[v] = "revoked"
    /\ Rotates(r, t) /\ t \in before[v] /\ v \notin before[r]
    => row[r] # "live"

=============================================================================
