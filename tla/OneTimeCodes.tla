---------------------------- MODULE OneTimeCodes ----------------------------
(***************************************************************************)
(* The mailed codes of one account (app/auth/otp.py) and the handlers of   *)
(* app/auth/router.py that send and check them: register, resend_otp,      *)
(* forgot_password, verify_email, reset_password.  Handlers interleave     *)
(* between their statements; a row keeps what was last committed, and      *)
(* nothing locks it.  What verify_email and reset_password then do with    *)
(* the sessions is in AuthTokens, as is change_password, which asks for a  *)
(* session and the old password instead of a code.                         *)
(*                                                                         *)
(* A handler sends at most one code, so a code is named by its request.    *)
(* Two codes are taken to differ.  In production a code that mail did not  *)
(* deliver is known to nobody.                                             *)
(***************************************************************************)
EXTENDS Integers, Sequences, FiniteSets

CONSTANTS
  Requests,      (* each is made at most once                                 *)
  Nobody,
  First,         (* the one that has ended at the start                       *)
  Kinds,         (* which requests are made                                   *)
  MaxAttempts    (* OTP_MAX_ATTEMPTS                                          *)

ASSUME CodeAssumption ==
  /\ IsFiniteSet(Requests) /\ Nobody \notin Requests /\ First \in Requests
  /\ MaxAttempts \in Nat
  /\ Kinds \subseteq {"register", "resend", "forgot", "verify", "reset"}

VARIABLES
  exists, verified, password,   (* the account; whose password it has          *)
  code,        (* what became of the code a request made                      *)
  attempts,    (* the guesses counted against it                              *)
  age,         (* fresh within the cooldown; expired after OTP_TTL_MINUTES    *)
  arrived,     (* the codes that have reached the user                        *)
  began,       (* requests in the order their transactions began: created_at  *)
  kind, purpose, stage,   (* of a request                                     *)
  before,      (* the requests that had ended when it began (history)         *)
  guess,       (* the code it came with, or a wrong one                       *)
  read,        (* the unconsumed codes it found                               *)
  target,      (* the code it is checked against                              *)
  counted      (* the attempts it read                                        *)

account == <<exists, verified, password>>
codes   == <<code, attempts, age, arrived>>
inputs  == <<kind, purpose, before, guess>>
locals  == <<read, target, counted>>
vars    == <<account, codes, began, inputs, stage, locals>>

\* Let in; told that the code is wrong; or over in any other way: answered, refused,
\* silently skipped, lost with its worker.
Ends == {"done", "wrong", "over"}
Stages == Ends \cup {"new", "renewing", "inserting", "refreshing", "checking",
                     "superseding", "committing", "mailing",
                     "finding", "counting", "consuming", "granting"}
Purposes == {"verify_email", "reset_password"}

TypeOK ==
  /\ exists \in BOOLEAN /\ verified \in BOOLEAN /\ password \in Requests \cup {Nobody}
  /\ code \in [Requests -> {"none", "active", "consumed"}]
  /\ attempts \in [Requests -> Nat]
  /\ age \in [Requests -> {"fresh", "cool", "expired"}]
  /\ arrived \subseteq Requests
  /\ began \in Seq(Requests)
  /\ kind \in [Requests -> Kinds \cup {"register", "none"}]
  /\ purpose \in [Requests -> Purposes \cup {"none"}]
  /\ stage \in [Requests -> Stages]
  /\ before \in [Requests -> SUBSET Requests]
  /\ guess \in [Requests -> Requests \cup {Nobody}]
  /\ read \in [Requests -> SUBSET Requests]
  /\ target \in [Requests -> Requests \cup {Nobody}]
  /\ counted \in [Requests -> Nat]

\* The first request is a registration that has ended: with the process that ran it,
\* before it wrote anything; with a code that has arrived; or that code was used.
Init ==
  /\ exists \in BOOLEAN
  /\ verified \in {FALSE, exists}
  /\ password = IF exists THEN First ELSE Nobody
  /\ code = [r \in Requests |-> IF r # First \/ ~exists THEN "none"
                                ELSE IF verified THEN "consumed" ELSE "active"]
  /\ attempts = [r \in Requests |-> IF r = First /\ verified THEN 1 ELSE 0]
  /\ age = [r \in Requests |-> "fresh"]
  /\ arrived = IF exists THEN {First} ELSE {}
  /\ began = IF exists THEN <<First>> ELSE <<>>
  /\ kind = [r \in Requests |-> IF r = First THEN "register" ELSE "none"]
  /\ purpose = [r \in Requests |-> IF r = First THEN "verify_email" ELSE "none"]
  /\ stage = [r \in Requests |-> IF r = First THEN "over" ELSE "new"]
  /\ before = [r \in Requests |-> {}]
  /\ guess = [r \in Requests |-> Nobody]
  /\ read = [r \in Requests |-> {}]
  /\ target = [r \in Requests |-> Nobody]
  /\ counted = [r \in Requests |-> 0]

-----------------------------------------------------------------------------
(* Requests begin; user_exist is their first statement.  One that is answered
   by it changes nothing, and is not begun here. *)

Ended == {r \in Requests : stage[r] \in Ends}

Begin(r, k, p, g, next) ==
  /\ stage[r] = "new"
  /\ k \in Kinds
  /\ kind' = [kind EXCEPT ![r] = k]
  /\ purpose' = [purpose EXCEPT ![r] = p]
  /\ guess' = [guess EXCEPT ![r] = g]
  /\ before' = [before EXCEPT ![r] = Ended]
  /\ stage' = [stage EXCEPT ![r] = next]
  /\ UNCHANGED <<account, codes, locals>>

\* register answers 400 for a verified account.
Registrable == exists => ~verified

Register(r) ==
  /\ Registrable
  /\ Begin(r, "register", "verify_email", Nobody, IF exists THEN "renewing" ELSE "inserting")
  /\ UNCHANGED began

\* Whatever the answer, the reply is the same.  The transaction of user_exist goes on.
ResendOtp(r) ==
  /\ exists
  /\ \E p \in Purposes :
       /\ p = "verify_email" => ~verified
       /\ Begin(r, "resend", p, Nobody, "checking")
  /\ began' = Append(began, r)

ForgotPassword(r) ==
  /\ exists /\ verified
  /\ Begin(r, "forgot", "reset_password", Nobody, "checking")
  /\ began' = Append(began, r)

VerifyEmail(r) ==
  /\ exists /\ ~verified
  /\ \E g \in arrived \cup {Nobody} : Begin(r, "verify", "verify_email", g, "finding")
  /\ UNCHANGED began

ResetPassword(r) ==
  /\ exists
  /\ \E g \in arrived \cup {Nobody} : Begin(r, "reset", "reset_password", g, "finding")
  /\ UNCHANGED began

-----------------------------------------------------------------------------
(* The statements of those that send a code *)

Trans(r, here, next) ==
  stage[r] = here /\ stage' = [stage EXCEPT ![r] = next] /\ UNCHANGED inputs

\* register, for an account that was not verified when it was read.
Renew(r) ==
  /\ Trans(r, "renewing", "superseding")
  /\ password' = r
  /\ UNCHANGED <<exists, verified, codes, began, locals>>

\* register, for an email that was not known; its uniqueness is the database's.
Insert(r) ==
  /\ \/ /\ ~exists
        /\ Trans(r, "inserting", "refreshing")
        /\ exists' = TRUE
        /\ password' = r
     \/ /\ exists
        /\ Trans(r, "inserting", "over")
        /\ UNCHANGED <<exists, password>>
  /\ UNCHANGED <<verified, codes, began, locals>>

Refresh(r) ==
  /\ Trans(r, "refreshing", "superseding")
  /\ began' = Append(began, r)
  /\ UNCHANGED <<account, codes, locals>>

Of(p) == {c \in Requests : purpose[c] = p /\ code[c] = "active"}

Cooling(p) == {c \in Of(p) : age[c] = "fresh"}

\* Mutant of Check: the cooldown is not asked about.
CheckNothing(r) ==
  /\ Trans(r, "checking", "superseding")
  /\ UNCHANGED <<account, codes, began, locals>>

\* resend_allowed; register does not ask.
Check(r) ==
  /\ Trans(r, "checking", IF Cooling(purpose[r]) = {} THEN "superseding" ELSE "over")
  /\ UNCHANGED <<account, codes, began, locals>>

\* create_and_send_otp: the SELECT, with which a transaction begins if none is open.
Supersede(r) ==
  /\ Trans(r, "superseding", "committing")
  /\ read' = [read EXCEPT ![r] = Of(purpose[r])]
  /\ began' = IF \E i \in 1..Len(began) : began[i] = r THEN began ELSE Append(began, r)
  /\ UNCHANGED <<account, codes, target, counted>>

\* What it found is consumed, its own code is inserted; both are flushed by the commit.
Superseding(r) ==
  [c \in Requests |-> IF c = r THEN "active"
                      ELSE IF c \in read[r] THEN "consumed" ELSE code[c]]

CommitCode(r) ==
  /\ Trans(r, "committing", "mailing")
  /\ code' = Superseding(r)
  /\ read' = [read EXCEPT ![r] = {}]
  /\ UNCHANGED <<account, attempts, age, arrived, began, target, counted>>

\* send_email: the mail arrives, or it was not taken (register answers 503) or is lost.
Mail(r) ==
  /\ Trans(r, "mailing", "over")
  /\ arrived' \in {arrived, arrived \cup {r}}
  /\ UNCHANGED <<account, code, attempts, age, began, locals>>

-----------------------------------------------------------------------------
(* The statements of those that check one: verify_otp *)

Place(r) == CHOOSE i \in 1..Len(began) : began[i] = r

\* latest_unconsumed_otp, by created_at.
Latest(p) == {c \in Of(p) : \A d \in Of(p) : Place(d) <= Place(c)}

\* Mutant of Spent: one attempt more.
SpentLate(c) == attempts[c] > MaxAttempts

Spent(c) == attempts[c] >= MaxAttempts

Find(r) ==
  LET found == Latest(purpose[r])
      good  == {c \in found : age[c] # "expired" /\ ~Spent(c)}
  IN  /\ \/ /\ good = {}
            /\ Trans(r, "finding", "over")
            /\ UNCHANGED <<target, counted>>
         \/ \E c \in good :
              /\ Trans(r, "finding", "counting")
              /\ target' = [target EXCEPT ![r] = c]
              /\ counted' = [counted EXCEPT ![r] = attempts[c]]
      /\ UNCHANGED <<account, codes, began, read>>

\* Mutant of Count: verify_password's answer is not looked at.
CountAnything(r) ==
  /\ Trans(r, "counting", "consuming")
  /\ attempts' = [attempts EXCEPT ![target[r]] = counted[r] + 1]
  /\ counted' = [counted EXCEPT ![r] = 0]
  /\ UNCHANGED <<account, code, age, arrived, began, read, target>>

\* attempts = what was read + 1, committed before the code is compared.
Count(r) ==
  /\ Trans(r, "counting", IF guess[r] = target[r] THEN "consuming" ELSE "wrong")
  /\ attempts' = [attempts EXCEPT ![target[r]] = counted[r] + 1]
  /\ counted' = [counted EXCEPT ![r] = 0]
  /\ UNCHANGED <<account, code, age, arrived, began, read, target>>

\* Mutant of Consume: the code stays valid until it expires.
ConsumeNothing(r) ==
  /\ Trans(r, "consuming", "granting")
  /\ UNCHANGED <<account, codes, began, locals>>

\* By primary key: whatever became of the row meanwhile.
Consume(r) ==
  /\ Trans(r, "consuming", "granting")
  /\ code' = [code EXCEPT ![target[r]] = "consumed"]
  /\ UNCHANGED <<account, attempts, age, arrived, began, locals>>

\* verify_email marks the address, reset_password sets the password and does too.
Grant(r) ==
  /\ Trans(r, "granting", "done")
  /\ verified' = TRUE
  /\ password' = IF kind[r] = "reset" THEN r ELSE password
  /\ UNCHANGED <<exists, codes, began, locals>>

-----------------------------------------------------------------------------
(* Time and failure *)

\* Time passes between requests: that it passes during one leads nowhere else, since to
\* be sent away for asking too early or too late ends a request just as a crash does.
\* The age of a consumed code is never asked for.
Idle == \A r \in Requests : stage[r] \in Ends \cup {"new"}

Cool(c) ==
  /\ Idle
  /\ code[c] = "active" /\ age[c] = "fresh"
  /\ age' = [age EXCEPT ![c] = "cool"]
  /\ UNCHANGED <<account, code, attempts, arrived, began, inputs, stage, locals>>

Expire(c) ==
  /\ Idle
  /\ code[c] = "active" /\ age[c] = "cool"
  /\ age' = [age EXCEPT ![c] = "expired"]
  /\ UNCHANGED <<account, code, attempts, arrived, began, inputs, stage, locals>>

\* The worker or its connection dies.
Crash(r) ==
  /\ stage[r] \notin Ends \cup {"new"}
  /\ Trans(r, stage[r], "over")
  /\ UNCHANGED <<account, codes, began, locals>>

Send(r) ==
  \/ Register(r)
  \/ ResendOtp(r)
  \/ ForgotPassword(r)
  \/ Renew(r)
  \/ Insert(r)
  \/ Refresh(r)
  \/ Check(r)
  \/ Supersede(r)
  \/ CommitCode(r)
  \/ Mail(r)

Verify(r) ==
  \/ VerifyEmail(r)
  \/ ResetPassword(r)
  \/ Find(r)
  \/ Count(r)
  \/ Consume(r)
  \/ Grant(r)

Next == \E r \in Requests : Send(r) \/ Verify(r) \/ Cool(r) \/ Expire(r) \/ Crash(r)

Spec == Init /\ [][Next]_vars

-----------------------------------------------------------------------------
(* Properties *)

\* Both have begun, and neither had ended when the other did.
Overlap(r, s) ==
  /\ r # s /\ stage[r] # "new" /\ stage[s] # "new"
  /\ r \notin before[s] /\ s \notin before[r]

\* The request was let in with the code.
Accepted(r) == stage[r] \in {"consuming", "granting", "done"}

\* The requests that read the row of a code, and the guesses at it that were answered.
Checks(c)  == {r \in Requests : target[r] = c}
Guesses(c) == {r \in Requests : target[r] = c /\ (Accepted(r) \/ stage[r] = "wrong")}

(***************************************************************************)
(* A code that was accepted or superseded is dead for good: nobody who     *)
(* begins after that has ended is let in with it.  (verify_otp,            *)
(* create_and_send_otp)                                                    *)
(***************************************************************************)
DeadCodesStayDead ==
  \A v \in Requests : Accepted(v) =>
    /\ \A w \in before[v] : stage[w] = "done" => target[w] # target[v]
    /\ \A d \in before[v] :
         purpose[d] = purpose[v] /\ code[d] # "none" => target[v] \notin before[d]

(***************************************************************************)
(* OTP_MAX_ATTEMPTS guesses per code, and more only if two requests that   *)
(* checked it overlapped: the counter is read and written without a lock.  *)
(* One of the two may have died with its worker, its guess unanswered.     *)
(***************************************************************************)
ExtraGuessesNeedOverlap ==
  \A c \in Requests : Cardinality(Guesses(c)) > MaxAttempts =>
    \E r, s \in Checks(c) : Overlap(r, s)

(***************************************************************************)
(* Two codes for one purpose are never both good, and none is mailed       *)
(* within the cooldown of the one before it, unless requests overlapped    *)
(* (register never waits; a code that was used does not count).            *)
(***************************************************************************)
CodesCompeteOnlyByOverlap ==
  \A c, d \in Requests :
    /\ code[c] # "none" /\ code[d] # "none"
    /\ purpose[c] = purpose[d] /\ c \in before[d]
    =>
      /\ code[c] # "active"
      /\ \/ kind[d] = "register"
         \/ age[c] # "fresh"
         \/ \E v \in Requests : target[v] = c /\ guess[v] = c
         \/ \E e \in Requests :
              \/ Overlap(e, c) \/ Overlap(e, d)
              \/ c \in before[e] /\ e \in before[d] /\ code[e] # "none"

(***************************************************************************)
(* Without a session, the password of an address that is verified is       *)
(* changed only by who presents a code that was mailed there for that, or  *)
(* by a registration that read the account before a code of it was         *)
(* accepted.  (reset_password, register; change_password asks for a        *)
(* session)                                                                *)
(***************************************************************************)
PasswordNeedsCode ==
  [][verified /\ password' # password =>
       LET r == password'
       IN  \/ /\ kind[r] = "reset" /\ Accepted(r)
              /\ guess[r] = target[r] /\ target[r] \in arrived
              /\ purpose[target[r]] = "reset_password"
           \/ /\ kind[r] = "register"
              /\ \E v \in Requests : Accepted(v) /\ Overlap(v, r)]_vars
=============================================================================
