-------------------------- MODULE OneTimeCodesProofs --------------------------
(***************************************************************************)
(* Theorems about OneTimeCodes, for any finite set of requests and any     *)
(* OTP_MAX_ATTEMPTS.  Nothing locks a row, so each property is about       *)
(* requests that did not overlap: the invariants say what a request that   *)
(* has ended can no longer do (Past), what became of a code by the time    *)
(* the next request begins (Superseded, Dead, Consumption, Cooled), and that  *)
(* guesses made one after the other are all counted (Counting).            *)
(***************************************************************************)
EXTENDS OneTimeCodes, FiniteSetTheorems, TLAPS

\* Who is remembered as earlier had ended; who has not begun has no part in anything.
Past ==
  \A r \in Requests :
    /\ before[r] \subseteq Ended
    /\ stage[r] = "new" => /\ before[r] = {} /\ target[r] = Nobody
                           /\ code[r] = "none" /\ purpose[r] = "none"

\* A code is committed before it is mailed; what its request has read is to be consumed.
Sending ==
  \A r \in Requests :
    /\ code[r] # "none" => stage[r] \in {"mailing", "over"}
    /\ stage[r] = "committing" =>
         \A c \in read[r] : c # r /\ code[c] # "none" /\ purpose[c] = purpose[r]
    /\ stage[r] \in {"renewing", "inserting", "refreshing"} => kind[r] = "register"

\* A request that checks a code has found one of its purpose, and consumed it before it
\* lets anybody in.
Checking ==
  \A v \in Requests :
    /\ stage[v] \in {"counting", "consuming", "granting", "done", "wrong"} =>
         target[v] # Nobody
    /\ target[v] # Nobody =>
         /\ stage[v] \in {"counting", "consuming", "granting", "done", "wrong", "over"}
         /\ purpose[target[v]] = purpose[v] /\ code[target[v]] # "none"
    /\ Accepted(v) => guess[v] = target[v]
    /\ stage[v] \in {"granting", "done"} => code[target[v]] = "consumed"

\* A later code of the same purpose leaves no earlier one alive.
Superseded ==
  \A c, d \in Requests : c \in before[d] /\ purpose[c] = purpose[d] =>
    /\ stage[d] = "committing" /\ code[c] = "active" => c \in read[d]
    /\ code[d] # "none" => code[c] # "active"

\* What a request finds was neither used nor superseded by the time it began.
Dead ==
  \A v, w \in Requests : target[v] # Nobody /\ w \in before[v] =>
    /\ stage[w] = "done" => target[w] # target[v]
    /\ purpose[w] = purpose[v] /\ code[w] # "none" => target[v] \notin before[w]

Alone(c) == \A r, s \in Checks(c) : ~Overlap(r, s)

\* As long as no two checks of a code overlap, no guess is lost.
Counting ==
  /\ \A r, c \in Requests : stage[r] = "counting" /\ target[r] = c =>
       /\ counted[r] < MaxAttempts
       /\ Alone(c) => Cardinality(Guesses(c)) <= counted[r]
  /\ \A c \in Requests :
       /\ Guesses(c) # {} => attempts[c] <= MaxAttempts
       /\ Alone(c) => Cardinality(Guesses(c)) <= attempts[c]

Used(c) == \E v \in Requests : target[v] = c /\ guess[v] = c

SupersededBy(c, e) ==
  e # c /\ e \notin before[c] /\ code[e] # "none" /\ purpose[e] = purpose[c]

UsedAtFirst(c) ==
  /\ c = First /\ verified /\ purpose[First] = "verify_email"
  /\ \A r \in Requests \ {First} : purpose[r] # "verify_email"

\* Why a code is consumed.
Consumption ==
  \A c \in Requests : code[c] = "consumed" =>
    Used(c) \/ UsedAtFirst(c) \/ \E e \in Requests : SupersededBy(c, e)

\* Why a code may be mailed although an earlier one is on record.
Excused(c, d) ==
  \/ age[c] # "fresh"
  \/ Used(c)
  \/ \E e \in Requests :
       \/ Overlap(e, c) \/ Overlap(e, d)
       \/ c \in before[e] /\ e \in before[d] /\ code[e] # "none"

\* On the way to its code, the cooldown behind it.
Sends(d) == stage[d] \in {"superseding", "committing"} \/ code[d] # "none"

Cooled ==
  \A c, d \in Requests :
    c \in before[d] /\ purpose[c] = purpose[d] /\ code[c] # "none" /\ Sends(d) =>
      kind[d] = "register" \/ Excused(c, d)

\* Codes are checked for an account that exists; a registration that goes on after the
\* address was verified overlaps a request that verified it.
Account ==
  /\ verified => exists
  /\ \A r \in Requests :
       stage[r] \in {"finding", "counting", "consuming", "granting"} => exists
  /\ \A r \in Requests : stage[r] = "renewing" /\ verified =>
       \E v \in Requests : stage[v] = "done" /\ Overlap(v, r)

CodesInv ==
  /\ TypeOK /\ Past /\ Sending /\ Checking
  /\ Superseded /\ Dead /\ Counting /\ Consumption /\ Cooled /\ Account

-----------------------------------------------------------------------------
(* Types *)

LEMMA BeginType ==
  ASSUME TypeOK, NEW r \in Requests, NEW k, NEW p \in Purposes,
         NEW g \in Requests \cup {Nobody}, NEW next \in Stages, Begin(r, k, p, g, next),
         began' \in Seq(Requests)
  PROVE  TypeOK'
<1>1. k \in Kinds /\ Ended \subseteq Requests
  BY DEF Begin, Ended
<1>2. UNCHANGED <<exists, verified, password, code, attempts, age, arrived>>
  BY DEF Begin, account, codes
<1>3. UNCHANGED <<read, target, counted>>
  BY DEF Begin, locals
<1>4. stage' \in [Requests -> Stages] /\ kind' \in [Requests -> Kinds \cup {"register", "none"}]
  BY <1>1 DEF Begin, TypeOK
<1>5. purpose' \in [Requests -> Purposes \cup {"none"}]
  BY DEF Begin, TypeOK
<1>6. before' \in [Requests -> SUBSET Requests]
  BY <1>1 DEF Begin, TypeOK
<1>7. guess' \in [Requests -> Requests \cup {Nobody}]
  BY DEF Begin, TypeOK
<1> QED
  BY <1>2, <1>3, <1>4, <1>5, <1>6, <1>7 DEF TypeOK

LEMMA AppendIsSeq ==
  ASSUME NEW S, NEW s \in Seq(S), NEW e \in S
  PROVE  Append(s, e) \in Seq(S)
OBVIOUS

LEMMA TransType ==
  ASSUME TypeOK, NEW r \in Requests, NEW here, NEW next \in Stages, Trans(r, here, next)
  PROVE  /\ stage' \in [Requests -> Stages]
         /\ UNCHANGED <<kind, purpose, before, guess>>
BY DEF TypeOK, Trans, inputs

LEMMA SendType ==
  ASSUME TypeOK, NEW r \in Requests, Send(r)
  PROVE  TypeOK'
<1> USE TransType, AppendIsSeq DEF account, codes, locals
<1>1. began \in Seq(Requests) /\ Append(began, r) \in Seq(Requests)
  BY DEF TypeOK
<1>2. CASE Register(r) \/ ResendOtp(r) \/ ForgotPassword(r)
  <2>1. PICK k \in Kinds, p \in Purposes, next \in Stages : Begin(r, k, p, Nobody, next)
    BY <1>2 DEF Register, ResendOtp, ForgotPassword, Begin, Purposes, Stages
  <2>2. began' \in Seq(Requests)
    BY <1>1, <1>2 DEF Register, ResendOtp, ForgotPassword
  <2> QED
    BY <2>1, <2>2, BeginType
<1>3. CASE Renew(r)
  BY <1>3 DEF Renew, TypeOK, Stages
<1>4. CASE Insert(r)
  <2>1. exists' \in BOOLEAN
    BY <1>4, Zenon DEF Insert, TypeOK
  <2>2. password' \in Requests \cup {Nobody}
    BY <1>4 DEF Insert, TypeOK
  <2>3. stage' \in [Requests -> Stages] /\ UNCHANGED <<kind, purpose, before, guess>>
    BY <1>4 DEF Insert, Stages, Ends
  <2>4. UNCHANGED <<verified, codes, began, locals>>
    BY <1>4, Zenon DEF Insert
  <2> QED
    BY <2>1, <2>2, <2>3, <2>4 DEF TypeOK
<1>5. CASE Refresh(r)
  BY <1>1, <1>5 DEF Refresh, TypeOK, Stages
<1>6. CASE Check(r)
  BY <1>6 DEF Check, TypeOK, Stages, Ends
<1>7. CASE Supersede(r)
  <2>1. Of(purpose[r]) \subseteq Requests
    BY DEF Of
  <2>2. read' \in [Requests -> SUBSET Requests]
    BY <1>7, <2>1 DEF Supersede, TypeOK
  <2>3. began' \in Seq(Requests)
    BY <1>1, <1>7 DEF Supersede
  <2>4. stage' \in [Requests -> Stages] /\ UNCHANGED <<kind, purpose, before, guess>>
    BY <1>7 DEF Supersede, Stages
  <2>5. UNCHANGED <<account, codes, target, counted>>
    BY <1>7 DEF Supersede
  <2> QED
    BY <2>2, <2>3, <2>4, <2>5 DEF TypeOK
<1>8. CASE CommitCode(r)
  <2>1. code' \in [Requests -> {"none", "active", "consumed"}]
    BY <1>8 DEF CommitCode, Superseding, TypeOK
  <2>2. read' \in [Requests -> SUBSET Requests]
    BY <1>8 DEF CommitCode, TypeOK
  <2>3. stage' \in [Requests -> Stages] /\ UNCHANGED <<kind, purpose, before, guess>>
    BY <1>8 DEF CommitCode, Stages
  <2>4. UNCHANGED <<account, attempts, age, arrived, began, target, counted>>
    BY <1>8 DEF CommitCode
  <2> QED
    BY <2>1, <2>2, <2>3, <2>4 DEF TypeOK
<1>9. CASE Mail(r)
  BY <1>9 DEF Mail, TypeOK, Stages, Ends
<1> QED
  BY <1>2, <1>3, <1>4, <1>5, <1>6, <1>7, <1>8, <1>9 DEF Send

LEMMA VerifyType ==
  ASSUME TypeOK, NEW r \in Requests, Verify(r)
  PROVE  TypeOK'
<1> USE TransType DEF account, codes, locals
<1>1. began \in Seq(Requests)
  BY DEF TypeOK
<1>2. CASE VerifyEmail(r) \/ ResetPassword(r)
  <2>1. arrived \cup {Nobody} \subseteq Requests \cup {Nobody}
    BY DEF TypeOK
  <2>2. PICK k \in Kinds, p \in Purposes, g \in Requests \cup {Nobody} :
          Begin(r, k, p, g, "finding")
    BY <1>2, <2>1 DEF VerifyEmail, ResetPassword, Begin, Purposes
  <2>3. began' = began
    BY <1>2 DEF VerifyEmail, ResetPassword
  <2> QED
    BY <1>1, <2>2, <2>3, BeginType DEF Stages
<1>3. CASE Find(r)
  <2>1. UNCHANGED <<account, codes, began, read>>
    BY <1>3 DEF Find
  <2>2. stage' \in [Requests -> Stages] /\ UNCHANGED <<kind, purpose, before, guess>>
    BY <1>3 DEF Find, Stages, Ends
  <2>3. target' \in [Requests -> Requests \cup {Nobody}] /\ counted' \in [Requests -> Nat]
    <3>1. CASE UNCHANGED <<target, counted>>
      BY <3>1 DEF TypeOK
    <3>2. ASSUME NEW c \in Requests, target' = [target EXCEPT ![r] = c],
                 counted' = [counted EXCEPT ![r] = attempts[c]]
          PROVE  target' \in [Requests -> Requests \cup {Nobody}]
                 /\ counted' \in [Requests -> Nat]
      BY <3>2 DEF TypeOK
    <3> QED
      BY <1>3, <3>1, <3>2 DEF Find, Latest, Of
  <2> QED
    BY <2>1, <2>2, <2>3 DEF TypeOK
<1>4. CASE Count(r)
  <2>1. attempts' \in [Requests -> Nat] /\ counted' \in [Requests -> Nat]
    <3>1. counted[r] + 1 \in Nat
      BY DEF TypeOK
    <3> QED
      BY <1>4, <3>1 DEF Count, TypeOK
  <2>2. stage' \in [Requests -> Stages] /\ UNCHANGED <<kind, purpose, before, guess>>
    BY <1>4 DEF Count, Stages, Ends
  <2>3. UNCHANGED <<account, code, age, arrived, began, read, target>>
    BY <1>4 DEF Count
  <2> QED
    BY <2>1, <2>2, <2>3 DEF TypeOK
<1>5. CASE Consume(r)
  <2>1. code' \in [Requests -> {"none", "active", "consumed"}]
    BY <1>5 DEF Consume, TypeOK
  <2>2. stage' \in [Requests -> Stages] /\ UNCHANGED <<kind, purpose, before, guess>>
    BY <1>5 DEF Consume, Stages
  <2>3. UNCHANGED <<account, attempts, age, arrived, began, locals>>
    BY <1>5 DEF Consume
  <2> QED
    BY <2>1, <2>2, <2>3 DEF TypeOK
<1>6. CASE Grant(r)
  <2>1. password' \in Requests \cup {Nobody}
    BY <1>6 DEF Grant, TypeOK
  <2>2. exists' \in BOOLEAN /\ verified' \in BOOLEAN
    BY <1>6, Zenon DEF Grant, TypeOK
  <2>3. stage' \in [Requests -> Stages] /\ UNCHANGED <<kind, purpose, before, guess>>
    BY <1>6 DEF Grant, Stages, Ends
  <2>4. UNCHANGED <<codes, began, locals>>
    BY <1>6, Zenon DEF Grant
  <2> QED
    BY <2>1, <2>2, <2>3, <2>4 DEF TypeOK
<1> QED
  BY <1>2, <1>3, <1>4, <1>5, <1>6 DEF Verify

LEMMA TypeStep ==
  ASSUME TypeOK, [Next]_vars
  PROVE  TypeOK'
<1>1. CASE UNCHANGED vars
  BY <1>1 DEF vars, TypeOK, account, codes, inputs, locals
<1>2. ASSUME NEW r \in Requests, Cool(r) \/ Expire(r)
      PROVE  TypeOK'
  BY <1>2 DEF Cool, Expire, TypeOK, account, inputs, locals
<1>3. ASSUME NEW r \in Requests, Crash(r)
      PROVE  TypeOK'
  BY <1>3, TransType DEF Crash, TypeOK, account, codes, locals, Stages, Ends
<1> QED
  BY <1>1, <1>2, <1>3, SendType, VerifyType DEF Next

-----------------------------------------------------------------------------
(* What a step of request r changes of the invariants' variables *)

Same(f, g, r) == \A q \in Requests \ {r} : g[q] = f[q]

Started(r, k, p, next) ==
  /\ stage[r] = "new" /\ stage'[r] = next /\ Same(stage, stage', r)
  /\ before'[r] = Ended /\ Same(before, before', r)
  /\ purpose'[r] = p /\ Same(purpose, purpose', r)
  /\ kind'[r] = k /\ Same(kind, kind', r) /\ Same(guess, guess', r)
  /\ next \in {"renewing", "inserting", "checking", "finding"}
  /\ next \in {"renewing", "inserting"} => k = "register"
  /\ p = "verify_email" \/ next = "renewing" => (exists => ~verified)
  /\ next = "finding" => exists
  /\ UNCHANGED <<exists, verified, code, attempts, age, read, target, counted>>

Moved(r, here, next) ==
  /\ stage[r] = here /\ stage'[r] = next /\ Same(stage, stage', r)
  /\ UNCHANGED <<kind, purpose, before, guess>>

Walked(r, here, next) ==
  /\ here \notin Ends \cup {"new"}
  /\ \/ next = "over"
     \/ <<here, next>> \in {<<"renewing", "superseding">>, <<"inserting", "refreshing">>,
                            <<"refreshing", "superseding">>, <<"granting", "done">>}
     \/ here = "checking" /\ next = "superseding" /\ Cooling(purpose[r]) = {}
  /\ Moved(r, here, next)
  /\ UNCHANGED <<code, attempts, age, read, target, counted>>
  /\ verified => verified'
  /\ verified' => verified \/ (here = "granting" /\ next = "done")
  /\ exists => exists'

Looked(r) ==
  /\ Moved(r, "superseding", "committing")
  /\ read'[r] = Of(purpose[r]) /\ Same(read, read', r)
  /\ UNCHANGED <<exists, verified, code, attempts, age, target, counted>>

Committed(r) ==
  /\ Moved(r, "committing", "mailing")
  /\ code'[r] = "active"
  /\ \A c \in Requests \ {r} : code'[c] = IF c \in read[r] THEN "consumed" ELSE code[c]
  /\ Same(read, read', r)
  /\ UNCHANGED <<exists, verified, attempts, age, target, counted>>

Found(r, c) ==
  /\ Moved(r, "finding", "counting")
  /\ code[c] = "active" /\ purpose[c] = purpose[r] /\ attempts[c] < MaxAttempts
  /\ target'[r] = c /\ Same(target, target', r)
  /\ counted'[r] = attempts[c] /\ Same(counted, counted', r)
  /\ UNCHANGED <<exists, verified, code, attempts, age, read>>

Counts(r, next) ==
  /\ Moved(r, "counting", next)
  /\ next = "wrong" \/ (next = "consuming" /\ guess[r] = target[r])
  /\ target[r] \in Requests => attempts'[target[r]] = counted[r] + 1
  /\ Same(attempts, attempts', target[r]) /\ Same(counted, counted', r)
  /\ UNCHANGED <<exists, verified, code, age, read, target>>

Consumes(r) ==
  /\ Moved(r, "consuming", "granting")
  /\ target[r] \in Requests => code'[target[r]] = "consumed"
  /\ Same(code, code', target[r])
  /\ UNCHANGED <<exists, verified, attempts, age, read, target, counted>>

\* Time passes, or nothing happens.
Aged ==
  /\ \A c \in Requests : age[c] # "fresh" => age'[c] # "fresh"
  /\ UNCHANGED <<exists, verified, code, attempts, kind, purpose, stage, before, guess, read,
                 target, counted>>

Step(r) ==
  \/ \E k \in Kinds, p \in Purposes, next \in Stages : Started(r, k, p, next)
  \/ \E here, next \in Stages : Walked(r, here, next)
  \/ Looked(r)
  \/ Committed(r)
  \/ \E c \in Requests : Found(r, c)
  \/ \E next \in {"wrong", "consuming"} : Counts(r, next)
  \/ Consumes(r)
  \/ Aged

LEMMA Begins ==
  ASSUME TypeOK, NEW r \in Requests, NEW k, NEW p, NEW g, NEW next, Begin(r, k, p, g, next),
         next \in {"renewing", "inserting", "checking", "finding"},
         next \in {"renewing", "inserting"} => k = "register",
         p = "verify_email" \/ next = "renewing" => (exists => ~verified),
         next = "finding" => exists
  PROVE  Started(r, k, p, next)
<1>1. /\ stage[r] = "new" /\ stage'[r] = next /\ Same(stage, stage', r)
      /\ before'[r] = Ended /\ Same(before, before', r)
  BY DEF TypeOK, Begin, Same
<1>2. /\ purpose'[r] = p /\ Same(purpose, purpose', r)
      /\ kind'[r] = k /\ Same(kind, kind', r) /\ Same(guess, guess', r)
  BY DEF TypeOK, Begin, Same
<1>3. UNCHANGED <<exists, verified, code, attempts, age, read, target, counted>>
  BY DEF Begin, account, codes, locals
<1> QED
  BY <1>1, <1>2, <1>3 DEF Started

LEMMA Moves ==
  ASSUME TypeOK, NEW r \in Requests, NEW here, NEW next, Trans(r, here, next)
  PROVE  Moved(r, here, next)
BY DEF TypeOK, Trans, Moved, Same, inputs

LEMMA SendSteps ==
  ASSUME TypeOK, NEW r \in Requests, Send(r)
  PROVE  Step(r)
<1>1. CASE Register(r)
  <2>1. Begin(r, "register", "verify_email", Nobody, IF exists THEN "renewing" ELSE "inserting")
    BY <1>1, Zenon DEF Register
  <2>2. "register" \in Kinds /\ (exists => ~verified)
    BY <1>1, Zenon DEF Register, Begin, Registrable
  <2>3. CASE exists
    BY <2>1, <2>2, <2>3, Begins DEF Step, Purposes, Stages
  <2>4. CASE ~exists
    BY <2>1, <2>2, <2>4, Begins DEF Step, Purposes, Stages
  <2> QED
    BY <2>3, <2>4
<1>2. CASE ResendOtp(r)
  <2>1. PICK p \in Purposes :
          (p = "verify_email" => ~verified) /\ Begin(r, "resend", p, Nobody, "checking")
    BY <1>2, Zenon DEF ResendOtp
  <2>2. "resend" \in Kinds
    BY <2>1 DEF Begin
  <2> QED
    BY <2>1, <2>2, Begins DEF Step, Stages
<1>3. CASE ForgotPassword(r)
  <2>1. Begin(r, "forgot", "reset_password", Nobody, "checking") /\ "forgot" \in Kinds
    BY <1>3 DEF ForgotPassword, Begin
  <2> QED
    BY <2>1, Begins DEF Step, Stages, Purposes
<1> USE Moves DEF account, codes, locals
<1>4. CASE Renew(r)
  <2>1. Walked(r, "renewing", "superseding")
    BY <1>4 DEF Renew, Walked, Ends
  <2> QED
    BY <2>1 DEF Step, Stages
<1>5. CASE Insert(r)
  <2>1. Walked(r, "inserting", "refreshing") \/ Walked(r, "inserting", "over")
    BY <1>5 DEF Insert, Walked, Ends
  <2> QED
    BY <2>1 DEF Step, Stages, Ends
<1>6. CASE Refresh(r)
  <2>1. Walked(r, "refreshing", "superseding")
    BY <1>6 DEF Refresh, Walked, Ends
  <2> QED
    BY <2>1 DEF Step, Stages
<1>7. CASE Check(r)
  <2>1. Walked(r, "checking", "superseding") \/ Walked(r, "checking", "over")
    BY <1>7 DEF Check, Walked, Ends
  <2> QED
    BY <2>1 DEF Step, Stages, Ends
<1>8. CASE Supersede(r)
  <2>1. Looked(r)
    BY <1>8 DEF Supersede, Looked, Same, TypeOK
  <2> QED
    BY <2>1 DEF Step
<1>9. CASE CommitCode(r)
  <2>1. Same(read, read', r)
    BY <1>9 DEF CommitCode, Same, TypeOK
  <2>2. code'[r] = "active"
    BY <1>9 DEF CommitCode, Superseding
  <2>3. ASSUME NEW c \in Requests \ {r}
        PROVE  code'[c] = IF c \in read[r] THEN "consumed" ELSE code[c]
    BY <1>9, <2>3 DEF CommitCode, Superseding
  <2>4. Committed(r)
    BY <1>9, <2>1, <2>2, <2>3 DEF CommitCode, Committed
  <2> QED
    BY <2>4 DEF Step
<1>10. CASE Mail(r)
  <2>1. Walked(r, "mailing", "over")
    BY <1>10 DEF Mail, Walked, Ends
  <2> QED
    BY <2>1 DEF Step, Stages, Ends
<1> QED
  BY <1>1, <1>2, <1>3, <1>4, <1>5, <1>6, <1>7, <1>8, <1>9, <1>10 DEF Send

LEMMA VerifySteps ==
  ASSUME TypeOK, NEW r \in Requests, Verify(r)
  PROVE  Step(r)
<1>1. CASE VerifyEmail(r)
  <2>1. PICK g : Begin(r, "verify", "verify_email", g, "finding")
    BY <1>1 DEF VerifyEmail
  <2>2. "verify" \in Kinds /\ exists /\ ~verified
    BY <1>1, Zenon DEF VerifyEmail, Begin
  <2> QED
    BY <2>1, <2>2, Begins DEF Step, Purposes, Stages
<1>2. CASE ResetPassword(r)
  <2>1. PICK g : Begin(r, "reset", "reset_password", g, "finding")
    BY <1>2 DEF ResetPassword
  <2>2. "reset" \in Kinds /\ exists
    BY <1>2, Zenon DEF ResetPassword, Begin
  <2> QED
    BY <2>1, <2>2, Begins DEF Step, Purposes, Stages
<1> USE Moves DEF account, codes, locals
<1>3. CASE Find(r)
  <2>1. CASE Trans(r, "finding", "over") /\ UNCHANGED <<target, counted>>
    <3>1. Walked(r, "finding", "over")
      BY <1>3, <2>1 DEF Find, Walked, Ends
    <3> QED
      BY <3>1 DEF Step, Stages, Ends
  <2>2. ASSUME NEW c \in Latest(purpose[r]), ~Spent(c),
               Trans(r, "finding", "counting"),
               target' = [target EXCEPT ![r] = c],
               counted' = [counted EXCEPT ![r] = attempts[c]]
        PROVE  Step(r)
    <3>1. c \in Requests /\ code[c] = "active" /\ purpose[c] = purpose[r]
      BY <2>2 DEF Latest, Of
    <3>2. attempts[c] < MaxAttempts
      BY <2>2, <3>1, CodeAssumption DEF Spent, TypeOK
    <3>3. /\ target'[r] = c /\ Same(target, target', r)
          /\ counted'[r] = attempts[c] /\ Same(counted, counted', r)
      BY <2>2 DEF Same, TypeOK
    <3>4. Found(r, c)
      BY <1>3, <2>2, <3>1, <3>2, <3>3 DEF Find, Found
    <3> QED
      BY <3>1, <3>4 DEF Step
  <2> QED
    BY <1>3, <2>1, <2>2 DEF Find
<1>4. CASE Count(r)
  <2>1. /\ target[r] \in Requests => attempts'[target[r]] = counted[r] + 1
        /\ Same(attempts, attempts', target[r]) /\ Same(counted, counted', r)
    BY <1>4 DEF Count, Same, TypeOK
  <2>2. Counts(r, "wrong") \/ Counts(r, "consuming")
    BY <1>4, <2>1 DEF Count, Counts
  <2> QED
    BY <2>2 DEF Step
<1>5. CASE Consume(r)
  <2>1. /\ target[r] \in Requests => code'[target[r]] = "consumed"
        /\ Same(code, code', target[r])
    BY <1>5 DEF Consume, Same, TypeOK
  <2>2. Consumes(r)
    BY <1>5, <2>1 DEF Consume, Consumes
  <2> QED
    BY <2>2 DEF Step
<1>6. CASE Grant(r)
  <2>1. Walked(r, "granting", "done")
    BY <1>6 DEF Grant, Walked, Ends
  <2> QED
    BY <2>1 DEF Step, Stages, Ends
<1> QED
  BY <1>1, <1>2, <1>3, <1>4, <1>5, <1>6 DEF Verify

LEMMA Steps ==
  ASSUME TypeOK, [Next]_vars
  PROVE  \E r \in Requests : Step(r)
<1>1. ASSUME NEW r \in Requests, Crash(r)
      PROVE  Step(r)
  <2>1. stage[r] \in Stages /\ stage[r] \notin Ends \cup {"new"}
    BY <1>1 DEF Crash, TypeOK
  <2>2. Walked(r, stage[r], "over")
    BY <1>1, <2>1, Moves DEF Crash, Walked, account, codes, locals
  <2> QED
    BY <2>1, <2>2 DEF Step, Stages, Ends
<1>2. ASSUME NEW r \in Requests, Cool(r) \/ Expire(r)
      PROVE  Step(r)
  <2>1. Aged
    BY <1>2 DEF Cool, Expire, Aged, TypeOK, account, inputs, locals
  <2> QED
    BY <2>1 DEF Step
<1>3. CASE UNCHANGED vars
  <2>1. Aged /\ First \in Requests
    BY <1>3, CodeAssumption DEF Aged, vars, account, codes, inputs, locals
  <2> QED
    BY <2>1 DEF Step
<1> QED
  BY <1>1, <1>2, <1>3, SendSteps, VerifySteps DEF Next


-----------------------------------------------------------------------------
(* What no step undoes *)

Kept(q) ==
  /\ stage[q] \in Ends => stage'[q] = stage[q]
  /\ stage[q] # "new" =>
       /\ stage'[q] # "new"
       /\ before'[q] = before[q] /\ purpose'[q] = purpose[q] /\ kind'[q] = kind[q]
       /\ guess'[q] = guess[q]
  /\ code[q] # "none" => code'[q] # "none"
  /\ code[q] = "consumed" => code'[q] = "consumed"
  /\ target[q] # Nobody => target'[q] = target[q]
  /\ age[q] # "fresh" => age'[q] # "fresh"

History ==
  /\ \A q \in Requests : Kept(q)
  /\ \A q, s \in Requests : Overlap(q, s) => Overlap(q, s)'
  /\ verified => verified'
  /\ exists => exists'

LEMMA StepKeeps ==
  ASSUME TypeOK, Sending, Checking, NEW r \in Requests, Step(r), NEW q \in Requests
  PROVE  Kept(q)
<1>1. ASSUME NEW k, NEW p, NEW next, Started(r, k, p, next)
      PROVE  Kept(q)
  BY <1>1 DEF Started, Same, Kept, Ends
<1>2. ASSUME NEW here, NEW next \in Stages, Walked(r, here, next)
      PROVE  Kept(q)
  BY <1>2 DEF Walked, Moved, Same, Kept, Ends
<1>3. CASE Looked(r)
  BY <1>3 DEF Looked, Moved, Same, Kept, Ends
<1>4. CASE Committed(r)
  <2>1. code[r] = "none"
    BY <1>4 DEF Committed, Moved, Sending
  <2> QED
    BY <1>4, <2>1 DEF Committed, Moved, Same, Kept, Ends
<1>5. ASSUME NEW c \in Requests, Found(r, c)
      PROVE  Kept(q)
  <2>1. target[r] = Nobody
    BY <1>5 DEF Found, Moved, Checking
  <2> QED
    BY <1>5, <2>1 DEF Found, Moved, Same, Kept, Ends
<1>6. ASSUME NEW next, Counts(r, next)
      PROVE  Kept(q)
  BY <1>6 DEF Counts, Moved, Same, Kept, Ends
<1>7. CASE Consumes(r)
  <2>1. CASE q = target[r]
    BY <1>7, <2>1 DEF Consumes, Moved, Same, Kept, Ends
  <2>2. CASE q # target[r]
    BY <1>7, <2>2 DEF Consumes, Moved, Same, Kept, Ends
  <2> QED
    BY <2>1, <2>2
<1>8. CASE Aged
  BY <1>8 DEF Aged, Kept
<1> QED
  BY <1>1, <1>2, <1>3, <1>4, <1>5, <1>6, <1>7, <1>8 DEF Step

LEMMA StepHistory ==
  ASSUME TypeOK, Sending, Checking, NEW r \in Requests, Step(r)
  PROVE  History
<1>1. \A q \in Requests : Kept(q)
  BY StepKeeps
<1>2. ASSUME NEW q \in Requests, NEW s \in Requests, Overlap(q, s)
      PROVE  Overlap(q, s)'
  <2>1. Kept(q) /\ Kept(s)
    BY <1>1
  <2> QED
    BY <1>2, <2>1 DEF Overlap, Kept
<1>3. (verified => verified') /\ (exists => exists')
  <2>1. \/ verified' = verified /\ exists' = exists
        \/ \E here, next \in Stages : Walked(r, here, next)
    BY DEF Step, Started, Looked, Committed, Found, Counts, Consumes, Aged
  <2>2. CASE verified' = verified /\ exists' = exists
    BY <2>2
  <2>3. CASE \E here, next \in Stages : Walked(r, here, next)
    BY <2>3, Zenon DEF Walked
  <2> QED
    BY <2>1, <2>2, <2>3, Zenon
<1> QED
  BY <1>1, <1>2, <1>3 DEF History

-----------------------------------------------------------------------------
(* Past, Sending, Checking *)

LEMMA PastStep ==
  ASSUME TypeOK, Past, Sending, Checking, NEW r \in Requests, Step(r), History
  PROVE  Past'
<1> SUFFICES ASSUME NEW q \in Requests
             PROVE  /\ before'[q] \subseteq Ended'
                    /\ stage'[q] = "new" => /\ before'[q] = {} /\ target'[q] = Nobody
                                            /\ code'[q] = "none" /\ purpose'[q] = "none"
  BY DEF Past
<1>1. Ended \subseteq Ended'
  BY DEF History, Kept, Ended
<1>2. before[q] \subseteq Ended
  BY DEF Past
<1>3. stage'[q] = "new" => /\ stage[q] = "new" /\ before[q] = {} /\ target[q] = Nobody
                           /\ code[q] = "none" /\ purpose[q] = "none"
  BY DEF History, Kept, Past
<1>4. ASSUME NEW k, NEW p, NEW next, Started(r, k, p, next)
      PROVE  /\ before'[q] = before[q] \/ before'[q] = Ended
             /\ stage'[q] = "new" => /\ before'[q] = {} /\ target'[q] = Nobody
                                     /\ code'[q] = "none" /\ purpose'[q] = "none"
  BY <1>3, <1>4 DEF Started, Same
<1>5. CASE ~ \E k, p, next : Started(r, k, p, next)
  <2>1. before' = before /\ purpose' = purpose
    BY <1>5 DEF Step, Walked, Moved, Looked, Committed, Found, Counts, Consumes, Aged
  <2>2. ASSUME stage'[q] = "new"
        PROVE  target'[q] = target[q] /\ code'[q] = code[q]
    <3>1. stage[q] = "new" /\ target[q] = Nobody /\ code[q] = "none"
      BY <1>3, <2>2
    <3>2. CASE \E here, next \in Stages : Walked(r, here, next)
      BY <3>2 DEF Walked
    <3>3. CASE Looked(r)
      BY <3>3 DEF Looked
    <3>4. CASE Committed(r)
      BY <3>1, <3>4 DEF Committed, Moved, Sending
    <3>5. ASSUME NEW c \in Requests, Found(r, c)
          PROVE  target'[q] = target[q] /\ code'[q] = code[q]
      BY <3>1, <3>5 DEF Found, Moved, Same
    <3>6. CASE \E next \in {"wrong", "consuming"} : Counts(r, next)
      BY <3>6 DEF Counts
    <3>7. CASE Consumes(r)
      <4>1. q # target[r]
        BY <3>1, <3>7 DEF Consumes, Moved, Checking
      <4> QED
        BY <3>7, <4>1 DEF Consumes, Same
    <3>8. CASE Aged
      BY <3>8 DEF Aged
    <3> QED
      BY <1>5, <3>2, <3>3, <3>4, <3>5, <3>6, <3>7, <3>8 DEF Step
  <2> QED
    BY <1>1, <1>2, <1>3, <2>1, <2>2
<1> QED
  BY <1>1, <1>2, <1>4, <1>5


LEMMA SendingStep ==
  ASSUME TypeOK, Past, Sending, Checking, NEW r \in Requests, Step(r), History
  PROVE  Sending'
<1> SUFFICES ASSUME NEW q \in Requests
             PROVE  /\ code'[q] # "none" => stage'[q] \in {"mailing", "over"}
                    /\ stage'[q] = "committing" =>
                         \A c \in read'[q] :
                           c # q /\ code'[c] # "none" /\ purpose'[c] = purpose'[q]
                    /\ stage'[q] \in {"renewing", "inserting", "refreshing"} =>
                         kind'[q] = "register"
  BY DEF Sending
<1>1. ASSUME code'[q] # "none"
      PROVE  stage'[q] \in {"mailing", "over"}
  <2>1. CASE code[q] # "none"
    <3>1. stage[q] \in {"mailing", "over"}
      BY <2>1 DEF Sending
    <3> QED
      BY <3>1 DEF Step, Started, Walked, Looked, Committed, Found, Counts, Consumes, Aged, Moved,
                  Same
  <2>2. CASE code[q] = "none"
    <3>1. ~Consumes(r)
      BY <1>1, <2>2 DEF Consumes, Moved, Same, Checking
    <3>2. CASE Committed(r)
      BY <1>1, <2>2, <3>2 DEF Committed, Moved, Sending
    <3> QED
      BY <1>1, <2>2, <3>1, <3>2 DEF Step, Started, Walked, Looked, Found, Counts, Aged
  <2> QED
    BY <2>1, <2>2
<1>2. ASSUME stage'[q] = "committing", NEW c \in read'[q]
      PROVE  c # q /\ code'[c] # "none" /\ purpose'[c] = purpose'[q]
  <2>1. CASE stage[q] = "committing"
    <3>1. c \in read[q]
      BY <1>2, <2>1 DEF Step, Started, Walked, Looked, Committed, Found, Counts, Consumes, Aged,
                        Moved, Same
    <3>2. c # q /\ code[c] # "none" /\ purpose[c] = purpose[q] /\ c \in Requests
      BY <2>1, <3>1 DEF Sending, TypeOK
    <3>3. stage[c] # "new"
      BY <3>2 DEF Past
    <3> QED
      BY <2>1, <3>2, <3>3 DEF History, Kept
  <2>2. CASE stage[q] # "committing"
    <3>1. q = r /\ Looked(r)
      BY <1>2, <2>2 DEF Step, Started, Walked, Looked, Committed, Found, Counts, Consumes, Aged,
                        Moved, Same
    <3>2. c \in Requests /\ code[c] = "active" /\ purpose[c] = purpose[q]
      BY <1>2, <3>1 DEF Looked, Of
    <3>3. code[q] = "none"
      BY <3>1 DEF Looked, Moved, Sending
    <3> QED
      BY <3>1, <3>2, <3>3 DEF Looked, Moved
  <2> QED
    BY <2>1, <2>2
<1>3. ASSUME stage'[q] \in {"renewing", "inserting", "refreshing"}
      PROVE  kind'[q] = "register"
  BY <1>3 DEF Step, Started, Walked, Looked, Committed, Found, Counts, Consumes, Aged, Moved,
              Same, Sending
<1> QED
  BY <1>1, <1>2, <1>3

LEMMA CheckingStep ==
  ASSUME TypeOK, Past, Sending, Checking, NEW r \in Requests, Step(r), History
  PROVE  Checking'
<1> DEFINE Checked == {"counting", "consuming", "granting", "done", "wrong"}
<1> SUFFICES ASSUME NEW v \in Requests
             PROVE  /\ stage'[v] \in Checked => target'[v] # Nobody
                    /\ target'[v] # Nobody =>
                         /\ stage'[v] \in Checked \cup {"over"}
                         /\ purpose'[target'[v]] = purpose'[v] /\ code'[target'[v]] # "none"
                    /\ stage'[v] \in {"consuming", "granting", "done"} => guess'[v] = target'[v]
                    /\ stage'[v] \in {"granting", "done"} => code'[target'[v]] = "consumed"
  BY DEF Checking, Accepted
<1>1. target'[v] = target[v] \/ \E c \in Requests : v = r /\ Found(v, c)
  BY DEF Step, Started, Walked, Looked, Committed, Found, Counts, Consumes, Aged, Same
<1>2. ASSUME NEW c \in Requests, v = r, Found(v, c)
      PROVE  /\ target'[v] \in Requests /\ stage'[v] = "counting"
             /\ purpose'[target'[v]] = purpose'[v] /\ code'[target'[v]] # "none"
  BY <1>2 DEF Found, Moved
<1>3. stage'[v] = stage[v] \/ v = r
  BY DEF Step, Started, Walked, Looked, Committed, Found, Counts, Consumes, Aged, Moved, Same
<1>4. CASE target[v] = Nobody /\ target'[v] = Nobody
  <2>1. stage[v] \notin Checked
    BY <1>4 DEF Checking
  <2>2. stage'[v] \notin Checked
    BY <1>2, <1>3, <1>4, <2>1, CodeAssumption
       DEF Step, Started, Walked, Looked, Committed, Found, Counts, Consumes, Aged, Moved
  <2> QED
    BY <1>4, <2>2
<1>5. CASE target[v] # Nobody
  <2>1. /\ target[v] \in Requests /\ target'[v] = target[v]
        /\ stage[v] \in Checked \cup {"over"}
        /\ purpose[target[v]] = purpose[v] /\ code[target[v]] # "none"
    BY <1>5 DEF Checking, History, Kept, TypeOK
  <2>2. stage[v] # "new" /\ stage[target[v]] # "new"
    BY <2>1 DEF Past
  <2>3. /\ purpose'[target'[v]] = purpose'[v] /\ code'[target'[v]] # "none"
        /\ guess'[v] = guess[v]
    BY <2>1, <2>2 DEF History, Kept
  <2>4. stage'[v] \in Checked \cup {"over"}
    BY <1>3, <2>1 DEF Step, Started, Walked, Looked, Committed, Found, Counts, Consumes, Aged,
                      Moved
  <2>5. stage'[v] \in {"consuming", "granting", "done"} => guess[v] = target[v]
    BY <1>3, <2>1 DEF Step, Started, Walked, Looked, Committed, Found, Counts, Consumes, Aged,
                      Moved, Checking, Accepted
  <2>6. ASSUME stage'[v] \in {"granting", "done"}
        PROVE  code'[target[v]] = "consumed"
    <3>1. CASE stage[v] \in {"granting", "done"}
      BY <2>1, <3>1 DEF Checking, History, Kept
    <3>2. CASE stage[v] \notin {"granting", "done"}
      <4>1. v = r /\ Consumes(r)
        <5>1. ~ \E here, next \in Stages : Walked(r, here, next)
          BY <1>3, <2>6, <3>2 DEF Walked, Moved, Ends
        <5> QED
          BY <1>3, <2>6, <3>2, <5>1 DEF Step, Started, Looked, Committed, Found, Counts, Consumes,
                                        Aged, Moved
      <4> QED
        BY <2>1, <4>1 DEF Consumes
    <3> QED
      BY <3>1, <3>2
  <2> QED
    BY <1>5, <2>1, <2>3, <2>4, <2>5, <2>6
<1>6. CASE target[v] = Nobody /\ target'[v] # Nobody
  BY <1>1, <1>2, <1>6
<1> QED
  BY <1>4, <1>5, <1>6

-----------------------------------------------------------------------------
(* What became of a code when the next request begins *)

LEMMA SupersededStep ==
  ASSUME TypeOK, Past, Sending, Checking, Superseded, NEW r \in Requests, Step(r), History
  PROVE  Superseded'
<1> SUFFICES ASSUME NEW c \in Requests, NEW d \in Requests,
                    c \in before'[d], purpose'[c] = purpose'[d]
             PROVE  /\ stage'[d] = "committing" /\ code'[c] = "active" => c \in read'[d]
                    /\ code'[d] # "none" => code'[c] # "active"
  BY DEF Superseded
<1>1. CASE c \notin before[d]
  <2>1. stage'[d] \in {"renewing", "inserting", "checking", "finding"} /\ code'[d] = code[d]
        /\ stage[d] = "new"
    BY <1>1 DEF Step, Started, Walked, Looked, Committed, Found, Counts, Consumes, Aged, Moved,
                Same
  <2> QED
    BY <2>1 DEF Past
<1>2. CASE c \in before[d]
  <2>1. c \in Ended /\ stage[d] # "new" /\ purpose[c] = purpose[d]
    BY <1>2 DEF Past, History, Kept, Ended, Ends
  <2>2. code'[c] = "active" => code[c] = "active"
    BY <2>1 DEF Step, Started, Walked, Looked, Committed, Found, Counts, Consumes, Aged, Moved,
                Same, Ended, Ends
  <2>3. ASSUME stage'[d] = "committing", code'[c] = "active"
        PROVE  c \in read'[d]
    <3>1. CASE stage[d] = "committing"
      <4>1. read'[d] = read[d]
        BY <2>3, <3>1 DEF Step, Started, Walked, Looked, Committed, Found, Counts, Consumes, Aged,
                          Moved, Same
      <4> QED
        BY <1>2, <2>1, <2>2, <2>3, <3>1, <4>1 DEF Superseded
    <3>2. CASE stage[d] # "committing"
      <4>1. d = r /\ Looked(r)
        BY <2>3, <3>2 DEF Step, Started, Walked, Looked, Committed, Found, Counts, Consumes, Aged,
                          Moved, Same
      <4> QED
        BY <2>1, <2>2, <2>3, <4>1 DEF Looked, Of
    <3> QED
      BY <3>1, <3>2
  <2>4. ASSUME code'[d] # "none", code'[c] = "active"
        PROVE  FALSE
    <3>1. CASE code[d] # "none"
      BY <1>2, <2>1, <2>2, <2>4, <3>1 DEF Superseded
    <3>2. CASE code[d] = "none"
      <4>1. stage[d] # stage'[d]
        BY <2>4, <3>2 DEF Step, Started, Walked, Looked, Committed, Found, Counts, Consumes, Aged,
                          Moved, Same, Sending, Checking
      <4>2. d = r /\ Committed(r)
        BY <2>4, <3>2, <4>1 DEF Step, Started, Walked, Looked, Committed, Found, Counts, Consumes,
                                Aged, Moved, Same, Checking
      <4>3. stage[d] = "committing" /\ c # r
        BY <2>1, <4>2 DEF Committed, Moved, Ended, Ends
      <4>4. c \in read[r]
        BY <1>2, <2>1, <2>2, <2>4, <4>2, <4>3 DEF Superseded
      <4> QED
        BY <2>4, <4>2, <4>3, <4>4 DEF Committed
    <3> QED
      BY <3>1, <3>2
  <2> QED
    BY <2>3, <2>4
<1> QED
  BY <1>1, <1>2


\* A code appears when its request commits it; a request that has ended does no more.
LEMMA OnlyCommitted ==
  ASSUME TypeOK, Sending, Checking, NEW r \in Requests, Step(r), NEW q \in Requests,
         code[q] = "none", code'[q] # "none"
  PROVE  q = r /\ Committed(r)
<1>1. ~Consumes(r)
  BY DEF Consumes, Moved, Same, Checking
<1>2. Committed(r)
  BY <1>1 DEF Step, Started, Walked, Looked, Found, Counts, Aged
<1> QED
  BY <1>2 DEF Committed, Moved, Sending

LEMMA EndedStays ==
  ASSUME TypeOK, Sending, Checking, NEW r \in Requests, Step(r), History, NEW w \in Ended
  PROVE  /\ stage'[w] = stage[w] /\ before'[w] = before[w] /\ purpose'[w] = purpose[w]
         /\ target'[w] = target[w]
         /\ code'[w] # "none" => code[w] # "none"
<1>1. w \in Requests /\ stage[w] \in Ends /\ stage[w] # "new"
  BY DEF Ended, Ends
<1>2. stage'[w] = stage[w] /\ before'[w] = before[w] /\ purpose'[w] = purpose[w]
  BY <1>1 DEF History, Kept
<1>3. target'[w] = target[w]
  BY <1>1 DEF Step, Started, Walked, Looked, Committed, Found, Counts, Consumes, Aged, Moved,
              Same, Ends
<1>4. code'[w] # "none" => code[w] # "none"
  BY <1>1, OnlyCommitted DEF Committed, Moved, Ends
<1> QED
  BY <1>2, <1>3, <1>4

LEMMA DeadStep ==
  ASSUME TypeOK, Past, Sending, Checking, Superseded, Dead, NEW r \in Requests, Step(r), History
  PROVE  Dead'
<1> SUFFICES ASSUME NEW v \in Requests, NEW w \in Requests, target'[v] # Nobody, w \in before'[v]
             PROVE  /\ stage'[w] = "done" => target'[w] # target'[v]
                    /\ purpose'[w] = purpose'[v] /\ code'[w] # "none" =>
                         target'[v] \notin before'[w]
  BY DEF Dead
<1>1. CASE target[v] # Nobody
  <2>1. target'[v] = target[v] /\ stage[v] # "new"
    BY <1>1 DEF Past, History, Kept
  <2>2. w \in before[v] /\ purpose'[v] = purpose[v]
    BY <2>1 DEF History, Kept
  <2>3. w \in Ended
    BY <2>2 DEF Past
  <2> QED
    BY <1>1, <2>1, <2>2, <2>3, EndedStays DEF Dead
<1>2. CASE target[v] = Nobody
  <2>1. PICK c \in Requests : v = r /\ Found(v, c)
    BY <1>2 DEF Step, Started, Walked, Looked, Committed, Found, Counts, Consumes, Aged, Same
  <2>2. /\ before'[v] = before[v] /\ purpose'[v] = purpose[v] /\ target'[v] = c
        /\ purpose[c] = purpose[v] /\ code[c] = "active"
    BY <2>1 DEF Found, Moved
  <2>3. w \in before[v] /\ w \in Ended
    BY <2>2 DEF Past
  <2>4. /\ stage'[w] = stage[w] /\ before'[w] = before[w] /\ purpose'[w] = purpose[w]
        /\ target'[w] = target[w] /\ (code'[w] # "none" => code[w] # "none")
    BY <2>3, EndedStays
  <2>5. stage[w] = "done" => target[w] # c
    BY <2>2 DEF Checking
  <2>6. purpose[w] = purpose[v] /\ code[w] # "none" => c \notin before[w]
    BY <2>2 DEF Superseded
  <2> QED
    BY <2>2, <2>4, <2>5, <2>6
<1> QED
  BY <1>1, <1>2

LEMMA ConsumptionStep ==
  ASSUME TypeOK, Past, Sending, Checking, Consumption, Account,
         NEW r \in Requests, Step(r), History
  PROVE  Consumption'
<1> SUFFICES ASSUME NEW c \in Requests, code'[c] = "consumed"
             PROVE  \/ Used(c)' \/ UsedAtFirst(c)'
                    \/ \E e \in Requests : SupersededBy(c, e)'
  BY DEF Consumption
<1>1. CASE code[c] = "consumed"
  <2>0. stage[c] # "new"
    BY <1>1 DEF Past
  <2>1. CASE Used(c)
    <3>1. PICK v \in Requests : target[v] = c /\ guess[v] = c
      BY <2>1 DEF Used
    <3>2. target'[v] = c /\ guess'[v] = c
      BY <3>1, CodeAssumption DEF Past, History, Kept
    <3> QED
      BY <3>2 DEF Used
  <2>2. CASE UsedAtFirst(c)
    <3>1. /\ c = First /\ verified /\ purpose[First] = "verify_email" /\ exists
          /\ \A q \in Requests \ {First} : purpose[q] # "verify_email"
      BY <2>2 DEF UsedAtFirst, Account
    <3>2. purpose'[First] = "verify_email"
      BY <2>0, <3>1 DEF History, Kept
    <3>3. verified'
      BY <3>1 DEF History
    <3>4. ASSUME NEW q \in Requests \ {First}
          PROVE  purpose'[q] # "verify_email"
      BY <3>1 DEF Step, Started, Walked, Looked, Committed, Found, Counts, Consumes, Aged, Moved,
                  Same
    <3> QED
      BY <3>1, <3>2, <3>3, <3>4 DEF UsedAtFirst
  <2>3. ASSUME NEW e \in Requests, SupersededBy(c, e)
        PROVE  SupersededBy(c, e)'
    <3>1. stage[e] # "new"
      BY <2>3 DEF SupersededBy, Past
    <3> QED
      BY <2>0, <2>3, <3>1 DEF SupersededBy, History, Kept
  <2> QED
    BY <1>1, <2>1, <2>2, <2>3 DEF Consumption
<1>2. CASE code[c] # "consumed"
  <2>1. Committed(r) \/ Consumes(r)
    BY <1>2 DEF Step, Started, Walked, Looked, Found, Counts, Aged
  <2>2. CASE Committed(r)
    <3>1. c # r /\ c \in read[r] /\ stage[r] = "committing"
      BY <1>2, <2>2 DEF Committed, Moved
    <3>2. purpose[c] = purpose[r] /\ r \notin before[c]
      BY <3>1 DEF Sending, Past, Ended, Ends
    <3>3. SupersededBy(c, r)'
      BY <2>2, <3>1, <3>2 DEF Committed, Moved, SupersededBy
    <3> QED
      BY <3>3
  <2>3. CASE Consumes(r)
    <3>1. c = target[r] /\ stage[r] = "consuming"
      BY <1>2, <2>3 DEF Consumes, Moved, Same
    <3>2. target'[r] = c /\ guess'[r] = c
      BY <2>3, <3>1 DEF Consumes, Moved, Checking, Accepted
    <3> QED
      BY <3>2 DEF Used
  <2> QED
    BY <2>1, <2>2, <2>3
<1> QED
  BY <1>1, <1>2


LEMMA ExcusedStays ==
  ASSUME TypeOK, Past, History, NEW c \in Requests, NEW d \in Requests, Excused(c, d),
         stage[d] # "new"
  PROVE  Excused(c, d)'
<1>1. CASE age[c] # "fresh"
  BY <1>1 DEF Excused, History, Kept
<1>2. CASE Used(c)
  <2>1. PICK v \in Requests : target[v] = c /\ guess[v] = c
    BY <1>2 DEF Used
  <2>2. target'[v] = c /\ guess'[v] = c
    BY <2>1, CodeAssumption DEF Past, History, Kept
  <2> QED
    BY <2>2 DEF Excused, Used
<1>3. ASSUME NEW e \in Requests, Overlap(e, c) \/ Overlap(e, d)
      PROVE  Excused(c, d)'
  BY <1>3 DEF Excused, History
<1>4. ASSUME NEW e \in Requests, c \in before[e], e \in before[d], code[e] # "none"
      PROVE  Excused(c, d)'
  <2>1. stage[e] # "new"
    BY <1>4 DEF Past
  <2>2. c \in before'[e] /\ e \in before'[d] /\ code'[e] # "none"
    BY <1>4, <2>1 DEF History, Kept
  <2> QED
    BY <2>2 DEF Excused
<1> QED
  BY <1>1, <1>2, <1>3, <1>4 DEF Excused

\* The cooldown that has been asked about.
LEMMA CoolingExcuses ==
  ASSUME Past, Checking, Consumption, NEW c \in Requests, NEW d \in Requests,
         c \in before[d], purpose[c] = purpose[d], code[c] # "none", TypeOK,
         stage[d] = "checking", code[d] = "none", Cooling(purpose[d]) = {}
  PROVE  Excused(c, d)
<1>1. CASE code[c] = "active"
  BY <1>1 DEF Cooling, Of, Excused
<1>2. CASE code[c] = "consumed"
  <2>1. c \in Ended /\ d \notin Ended
    BY DEF Past, Ended, Ends
  <2>2. ~UsedAtFirst(c)
    BY <2>1 DEF UsedAtFirst
  <2>3. ASSUME NEW e \in Requests, SupersededBy(c, e)
        PROVE  Excused(c, d)
    <3>1. e # c /\ e \notin before[c] /\ code[e] # "none" /\ e # d
      BY <2>3 DEF SupersededBy
    <3>2. stage[e] # "new" /\ stage[c] # "new" /\ d \notin before[e]
      BY <2>1, <3>1 DEF Past
    <3>3. CASE c \notin before[e]
      BY <3>1, <3>2, <3>3 DEF Overlap, Excused
    <3>4. CASE c \in before[e] /\ e \in before[d]
      BY <3>1, <3>4 DEF Excused
    <3>5. CASE e \notin before[d]
      BY <3>1, <3>2, <3>5 DEF Overlap, Excused
    <3> QED
      BY <3>3, <3>4, <3>5
  <2> QED
    BY <1>2, <2>2, <2>3 DEF Consumption, Excused
<1> QED
  BY <1>1, <1>2 DEF TypeOK

LEMMA CooledStep ==
  ASSUME TypeOK, Past, Sending, Checking, Consumption, Cooled,
         NEW r \in Requests, Step(r), History
  PROVE  Cooled'
<1> SUFFICES ASSUME NEW c \in Requests, NEW d \in Requests, c \in before'[d],
                    purpose'[c] = purpose'[d], code'[c] # "none", Sends(d)'
             PROVE  kind'[d] = "register" \/ Excused(c, d)'
  BY DEF Cooled
<1>1. CASE c \notin before[d]
  <2>1. /\ stage[d] = "new" /\ code'[d] = code[d]
        /\ stage'[d] \in {"renewing", "inserting", "checking", "finding"}
    BY <1>1 DEF Step, Started, Walked, Looked, Committed, Found, Counts, Consumes, Aged, Moved,
                Same
  <2> QED
    BY <2>1 DEF Past, Sends
<1>2. CASE c \in before[d]
  <2>1. c \in Ended /\ stage[d] # "new"
    BY <1>2 DEF Past
  <2>2. purpose[c] = purpose[d] /\ code[c] # "none" /\ kind'[d] = kind[d]
    BY <2>1, EndedStays DEF History, Kept
  <2>3. CASE Sends(d)
    BY <1>2, <2>1, <2>2, <2>3, ExcusedStays DEF Cooled
  <2>4. CASE ~Sends(d)
    <3>1. ~Committed(r) /\ code[d] = "none"
      BY <2>4 DEF Sends, Committed, Moved, Same, Sending, Past
    <3>2. code'[d] = "none"
      BY <3>1, OnlyCommitted
    <3>3. PICK here, next \in Stages : d = r /\ Walked(r, here, next) /\ next = "superseding"
      BY <2>1, <2>4, <3>2 DEF Sends, Step, Started, Walked, Looked, Committed, Found, Counts,
                              Consumes, Aged, Moved, Same
    <3>4. \/ stage[d] \in {"renewing", "refreshing"}
          \/ stage[d] = "checking" /\ Cooling(purpose[d]) = {}
      BY <3>3 DEF Walked, Moved
    <3>5. CASE stage[d] \in {"renewing", "refreshing"}
      BY <2>2, <3>5 DEF Sending
    <3>6. CASE stage[d] = "checking" /\ Cooling(purpose[d]) = {}
      BY <1>2, <2>1, <2>2, <3>1, <3>6, CoolingExcuses, ExcusedStays
    <3> QED
      BY <3>4, <3>5, <3>6
  <2> QED
    BY <2>3, <2>4
<1> QED
  BY <1>1, <1>2

LEMMA AccountStep ==
  ASSUME TypeOK, Past, Account, NEW r \in Requests, Step(r), History
  PROVE  Account'
<1>1. ASSUME verified'
      PROVE  exists'
  <2>1. verified \/ \E here, next \in Stages : Walked(r, here, next) /\ here = "granting"
    BY <1>1, Zenon DEF Step, Started, Walked, Looked, Committed, Found, Counts, Consumes, Aged
  <2>2. exists
    BY <2>1 DEF Account, Walked, Moved
  <2> QED
    BY <2>2, Zenon DEF History
<1>2. ASSUME NEW q \in Requests, stage'[q] \in {"finding", "counting", "consuming", "granting"}
      PROVE  exists'
  <2>1. exists
    BY <1>2 DEF Step, Started, Walked, Looked, Committed, Found, Counts, Consumes, Aged, Moved,
                Same, Account
  <2> QED
    BY <2>1, Zenon DEF History
<1>3. ASSUME NEW q \in Requests, stage'[q] = "renewing", verified'
      PROVE  \E v \in Requests : stage'[v] = "done" /\ Overlap(v, q)'
  <2>1. CASE stage[q] # "renewing"
    <3>1. PICK k, p : Started(q, k, p, "renewing")
      BY <1>3, <2>1 DEF Step, Started, Walked, Looked, Committed, Found, Counts, Consumes, Aged,
                        Moved, Same
    <3>2. ~verified /\ verified' = verified
      BY <3>1 DEF Started, Account
    <3> QED
      BY <1>3, <3>2
  <2>2. CASE stage[q] = "renewing" /\ verified
    <3>1. PICK v \in Requests : stage[v] = "done" /\ Overlap(v, q)
      BY <2>2 DEF Account
    <3>2. stage'[v] = "done"
      BY <3>1 DEF History, Kept, Ends
    <3> QED
      BY <3>1, <3>2 DEF History
  <2>3. CASE stage[q] = "renewing" /\ ~verified
    <3>1. stage[r] = "granting" /\ stage'[r] = "done"
      BY <1>3, <2>3 DEF Step, Started, Walked, Looked, Committed, Found, Counts, Consumes, Aged,
                        Moved
    <3>2. Overlap(r, q)
      BY <2>3, <3>1 DEF Overlap, Past, Ended, Ends
    <3> QED
      BY <3>1, <3>2 DEF History
  <2> QED
    BY <2>1, <2>2, <2>3
<1> QED
  BY <1>1, <1>2, <1>3, Zenon DEF Account


-----------------------------------------------------------------------------
(* The guesses at a code *)

LEMMA GuessesAreFinite ==
  ASSUME NEW c
  PROVE  /\ IsFiniteSet(Guesses(c)) /\ Cardinality(Guesses(c)) \in Nat
         /\ \A S \in SUBSET Guesses(c) : Cardinality(S) <= Cardinality(Guesses(c))
<1>1. Guesses(c) \in SUBSET Requests
  BY DEF Guesses
<1>2. IsFiniteSet(Guesses(c))
  BY <1>1, FS_Subset, CodeAssumption
<1> QED
  BY <1>2, FS_Subset, FS_CardinalityType

LEMMA FewerGuesses ==
  ASSUME NEW c, Guesses(c)' \subseteq Guesses(c)
  PROVE  /\ Cardinality(Guesses(c)) \in Nat /\ Cardinality(Guesses(c)') \in Nat
         /\ Cardinality(Guesses(c)') <= Cardinality(Guesses(c))
<1>1. IsFiniteSet(Guesses(c)) /\ Guesses(c)' \in SUBSET Guesses(c)
  BY GuessesAreFinite
<1>2. IsFiniteSet(Guesses(c)')
  BY <1>1, FS_Subset
<1> QED
  BY <1>1, <1>2, FS_Subset, FS_CardinalityType

LEMMA AloneBefore ==
  ASSUME TypeOK, History, NEW c \in Requests, Alone(c)'
  PROVE  Alone(c)
<1> SUFFICES ASSUME NEW q \in Checks(c), NEW s \in Checks(c), Overlap(q, s)
             PROVE  FALSE
  BY DEF Alone
<1>1. q \in Requests /\ s \in Requests /\ target[q] = c /\ target[s] = c /\ c # Nobody
  BY CodeAssumption DEF Checks
<1>2. target'[q] = c /\ target'[s] = c /\ Overlap(q, s)'
  BY <1>1 DEF History, Kept
<1> QED
  BY <1>1, <1>2 DEF Alone, Checks

\* A crash takes a guess away; only its answer adds one.
LEMMA GuessesGrow ==
  ASSUME TypeOK, Checking, NEW r \in Requests, Step(r), NEW c \in Requests
  PROVE  \/ Guesses(c)' \subseteq Guesses(c)
         \/ /\ \E next \in {"wrong", "consuming"} : Counts(r, next)
            /\ target[r] = c /\ Guesses(c)' \subseteq Guesses(c) \cup {r}
<1> DEFINE Answered(q) == target[q] = c /\ stage[q] \in {"consuming", "granting", "done", "wrong"}
<1>1. Guesses(c) = {q \in Requests : Answered(q)}
  BY DEF Guesses, Accepted
<1>2. Guesses(c)' = {q \in Requests : Answered(q)'}
  BY DEF Guesses, Accepted
<1>3. ASSUME NEW q \in Requests, Answered(q)', ~Answered(q)
      PROVE  /\ q = r /\ target[r] = c
             /\ \E next \in {"wrong", "consuming"} : Counts(r, next)
  <2>1. target[q] = c
    BY <1>3 DEF Step, Started, Walked, Looked, Committed, Found, Counts, Consumes, Aged, Moved,
                Same
  <2>2. stage'[q] # stage[q] /\ q = r
    BY <1>3, <2>1 DEF Step, Started, Walked, Looked, Committed, Found, Counts, Consumes, Aged,
                      Moved, Same
  <2>3. ~ \E here, next \in Stages : Walked(r, here, next)
    BY <1>3, <2>1, <2>2 DEF Walked, Moved
  <2> QED
    BY <1>3, <2>1, <2>2, <2>3 DEF Step, Started, Looked, Committed, Found, Consumes, Aged, Moved
<1> HIDE DEF Answered
<1>4. CASE \E q \in Requests : Answered(q)' /\ ~Answered(q)
  BY <1>1, <1>2, <1>3, <1>4
<1>5. CASE \A q \in Requests : Answered(q)' => Answered(q)
  BY <1>1, <1>2, <1>5
<1> QED
  BY <1>4, <1>5

\* Between reading the count and writing it, no other guess at a code is answered, unless
\* the two overlap.
LEMMA CountedStep ==
  ASSUME TypeOK, Past, Checking, Counting, NEW r \in Requests, Step(r), History,
         NEW q \in Requests, NEW c \in Requests, stage'[q] = "counting", target'[q] = c
  PROVE  /\ counted'[q] < MaxAttempts
         /\ Alone(c)' => Cardinality(Guesses(c)') <= counted'[q]
<1>1. CASE stage[q] = "counting"
  <2>1. target[q] = c /\ counted'[q] = counted[q]
    BY <1>1 DEF Step, Started, Walked, Looked, Committed, Found, Counts, Consumes, Aged, Moved,
                Same
  <2>2. counted[q] \in Nat /\ counted[q] < MaxAttempts
        /\ (Alone(c) => Cardinality(Guesses(c)) <= counted[q])
    BY <1>1, <2>1 DEF Counting, TypeOK
  <2>3. ASSUME Alone(c)'
        PROVE  Cardinality(Guesses(c)') <= counted[q]
    <3>1. Alone(c)
      BY <2>3, AloneBefore
    <3>2. ASSUME NEW next, Counts(r, next), target[r] = c
          PROVE  FALSE
      <4>1. stage[r] = "counting" /\ r # q
        BY <1>1, <2>1, <3>2 DEF Step, Started, Walked, Looked, Committed, Found, Counts, Consumes,
                                Aged, Moved, Same
      <4>2. Overlap(r, q)
        BY <1>1, <4>1 DEF Overlap, Past, Ended, Ends
      <4> QED
        BY <2>1, <3>1, <3>2, <4>2 DEF Alone, Checks
    <3>3. Guesses(c)' \subseteq Guesses(c)
      BY <3>2, GuessesGrow
    <3> QED
      BY <2>2, <3>1, <3>3, FewerGuesses
  <2> QED
    BY <2>1, <2>2, <2>3
<1>2. CASE stage[q] # "counting"
  <2>1. Found(q, c) /\ q = r
    BY <1>2, CodeAssumption DEF Step, Started, Walked, Looked, Committed, Found, Counts, Consumes,
       Aged, Moved, Same
  <2>2. /\ counted'[q] = attempts[c] /\ attempts[c] < MaxAttempts
        /\ Alone(c) => Cardinality(Guesses(c)) <= attempts[c]
    BY <2>1 DEF Found, Counting
  <2>3. Guesses(c)' \subseteq Guesses(c)
    BY <2>1, GuessesGrow DEF Found, Counts, Moved
  <2>4. attempts[c] \in Nat
    BY DEF TypeOK
  <2> QED
    BY <2>2, <2>3, <2>4, AloneBefore, FewerGuesses
<1> QED
  BY <1>1, <1>2

LEMMA AttemptsStep ==
  ASSUME TypeOK, Past, Checking, Counting, NEW r \in Requests, Step(r), History,
         NEW c \in Requests
  PROVE  /\ Guesses(c)' # {} => attempts'[c] <= MaxAttempts
         /\ Alone(c)' => Cardinality(Guesses(c)') <= attempts'[c]
<1>1. CASE \E next \in {"wrong", "consuming"} : Counts(r, next) /\ target[r] = c
  <2>1. stage[r] = "counting" /\ target[r] = c /\ attempts'[c] = counted[r] + 1
    BY <1>1 DEF Counts, Moved
  <2>2. /\ counted[r] \in Nat /\ counted[r] < MaxAttempts /\ MaxAttempts \in Nat
        /\ Alone(c) => Cardinality(Guesses(c)) <= counted[r]
    BY <2>1, CodeAssumption DEF Counting, TypeOK
  <2>3. Guesses(c)' \in SUBSET (Guesses(c) \cup {r})
    BY GuessesGrow
  <2>4. /\ Cardinality(Guesses(c) \cup {r}) <= Cardinality(Guesses(c)) + 1
        /\ Cardinality(Guesses(c) \cup {r}) \in Nat
        /\ IsFiniteSet(Guesses(c) \cup {r})
    <3>1. IsFiniteSet(Guesses(c)) /\ Cardinality(Guesses(c)) \in Nat
      BY GuessesAreFinite
    <3>2. IsFiniteSet(Guesses(c) \cup {r})
      BY <3>1, FS_AddElement
    <3> QED
      BY <3>1, <3>2, FS_AddElement, FS_CardinalityType
  <2>5. Cardinality(Guesses(c)') <= Cardinality(Guesses(c) \cup {r})
    BY <2>3, <2>4, FS_Subset
  <2>6. Cardinality(Guesses(c)') \in Nat
    BY <2>3, <2>4, FS_Subset, FS_CardinalityType
  <2>7. Cardinality(Guesses(c)) \in Nat
    BY GuessesAreFinite
  <2>8. Alone(c)' => Alone(c)
    BY AloneBefore
  <2> QED
    BY <2>1, <2>2, <2>4, <2>5, <2>6, <2>7, <2>8
<1>2. CASE ~ \E next \in {"wrong", "consuming"} : Counts(r, next) /\ target[r] = c
  <2>1. attempts'[c] = attempts[c] /\ attempts[c] \in Nat
    BY <1>2 DEF Step, Started, Walked, Looked, Committed, Found, Counts, Consumes, Aged, Same,
                TypeOK
  <2>2. Guesses(c)' \subseteq Guesses(c)
    BY <1>2, GuessesGrow
  <2> QED
    <3>1. /\ Guesses(c) # {} => attempts[c] <= MaxAttempts
          /\ Alone(c)' => Cardinality(Guesses(c)) <= attempts[c]
      BY AloneBefore DEF Counting
    <3> QED
      BY <2>1, <2>2, <3>1, FewerGuesses
<1> QED
  BY <1>1, <1>2

LEMMA CountingStep ==
  ASSUME TypeOK, Past, Checking, Counting, NEW r \in Requests, Step(r), History
  PROVE  Counting'
BY CountedStep, AttemptsStep DEF Counting

-----------------------------------------------------------------------------
(* The theorems *)

LEMMA CodesInit == Init => CodesInv
<1> SUFFICES ASSUME Init
             PROVE  CodesInv
  OBVIOUS
<1>1. First \in Requests /\ Nobody \notin Requests /\ MaxAttempts \in Nat
  BY CodeAssumption
<1>2. /\ \A r \in Requests :
           /\ code[r] \in {"none", "active", "consumed"} /\ (r # First => code[r] = "none")
           /\ attempts[r] \in Nat /\ target[r] = Nobody /\ before[r] = {}
           /\ stage[r] = IF r = First THEN "over" ELSE "new"
           /\ purpose[r] = IF r = First THEN "verify_email" ELSE "none"
      /\ code[First] = "consumed" => verified
  BY <1>1 DEF Init
<1>3. verified => exists
  BY Zenon DEF Init
<1>4. TypeOK
  <2>1. exists \in BOOLEAN /\ verified \in BOOLEAN
    BY Zenon DEF Init
  <2>2. /\ password \in Requests \cup {Nobody} /\ arrived \subseteq Requests
        /\ began \in Seq(Requests)
    BY <1>1 DEF Init
  <2>3. /\ code \in [Requests -> {"none", "active", "consumed"}]
        /\ attempts \in [Requests -> Nat]
        /\ age \in [Requests -> {"fresh", "cool", "expired"}]
    BY DEF Init
  <2>4. /\ kind \in [Requests -> Kinds \cup {"register", "none"}]
        /\ purpose \in [Requests -> Purposes \cup {"none"}]
        /\ stage \in [Requests -> Stages]
    BY DEF Init, Purposes, Stages, Ends
  <2>5. /\ before \in [Requests -> SUBSET Requests]
        /\ guess \in [Requests -> Requests \cup {Nobody}]
        /\ read \in [Requests -> SUBSET Requests]
        /\ target \in [Requests -> Requests \cup {Nobody}]
        /\ counted \in [Requests -> Nat]
    BY DEF Init
  <2> QED
    BY <2>1, <2>2, <2>3, <2>4, <2>5 DEF TypeOK
<1>5. Past /\ Sending /\ Checking
  BY <1>2 DEF Past, Sending, Checking, Accepted
<1>6. Superseded /\ Dead /\ Cooled
  BY <1>2 DEF Superseded, Dead, Cooled
<1>7. Counting
  <2>1. \A c \in Requests : Guesses(c) = {}
    BY <1>1, <1>2 DEF Guesses
  <2> QED
    BY <1>2, <2>1, FS_EmptySet DEF Counting
<1>8. Consumption
  BY <1>1, <1>2 DEF Consumption, UsedAtFirst
<1>9. Account
  BY <1>2, <1>3 DEF Account
<1> QED
  BY <1>4, <1>5, <1>6, <1>7, <1>8, <1>9 DEF CodesInv

LEMMA CodesStep == CodesInv /\ [Next]_vars => CodesInv'
<1> SUFFICES ASSUME CodesInv, [Next]_vars
             PROVE  CodesInv'
  OBVIOUS
<1>1. /\ TypeOK /\ Past /\ Sending /\ Checking
      /\ Superseded /\ Dead /\ Counting /\ Consumption /\ Cooled /\ Account
  BY DEF CodesInv
<1>2. PICK r \in Requests : Step(r)
  BY <1>1, Steps
<1>3. History
  BY <1>1, <1>2, StepHistory
<1>4. TypeOK' /\ Past' /\ Sending' /\ Checking'
  BY <1>1, <1>2, <1>3, TypeStep, PastStep, SendingStep, CheckingStep
<1>5. Superseded' /\ Dead' /\ Counting'
  BY <1>1, <1>2, <1>3, SupersededStep, DeadStep, CountingStep
<1>6. Consumption' /\ Cooled' /\ Account'
  BY <1>1, <1>2, <1>3, ConsumptionStep, CooledStep, AccountStep
<1> QED
  BY <1>4, <1>5, <1>6 DEF CodesInv

\* The inductive invariant.
THEOREM CodesInvariant == Spec => []CodesInv
BY CodesInit, CodesStep, PTL DEF Spec

\* Every variable has its type: above all, a request is at one of its statements, and is
\* checked against a code of this account.
THEOREM CodeTypes == Spec => []TypeOK
<1>1. CodesInv => TypeOK
  BY DEF CodesInv
<1> QED
  BY <1>1, CodesInvariant, PTL

\* A code that was accepted, or superseded by a later one, lets in nobody who begins after
\* that has ended: verify_otp consumes before it answers, create_and_send_otp consumes what
\* it found before it mails.
THEOREM DeadCodes == Spec => []DeadCodesStayDead
<1>1. CodesInv => DeadCodesStayDead
  <2> SUFFICES ASSUME CodesInv, NEW v \in Requests, Accepted(v), NEW w \in before[v]
               PROVE  /\ stage[w] = "done" => target[w] # target[v]
                      /\ purpose[w] = purpose[v] /\ code[w] # "none" =>
                           target[v] \notin before[w]
    BY DEF DeadCodesStayDead
  <2>1. target[v] # Nobody /\ w \in Requests
    BY DEF CodesInv, Checking, Accepted, TypeOK
  <2> QED
    BY <2>1 DEF CodesInv, Dead
<1> QED
  BY <1>1, CodesInvariant, PTL

\* As long as no two requests that checked a code overlapped, no more than OTP_MAX_ATTEMPTS
\* guesses at it are answered, whatever crashed in between: verify_otp counts a guess before
\* it compares it.
THEOREM GuessesAreBounded == Spec => []ExtraGuessesNeedOverlap
<1>1. CodesInv => ExtraGuessesNeedOverlap
  <2> SUFFICES ASSUME CodesInv, NEW c \in Requests, Alone(c)
               PROVE  Cardinality(Guesses(c)) <= MaxAttempts
    <3>1. \A c \in Requests :
            Cardinality(Guesses(c)) \in Nat /\ MaxAttempts \in Nat
      BY GuessesAreFinite, CodeAssumption
    <3> QED
      BY <3>1 DEF ExtraGuessesNeedOverlap, Alone
  <2>1. attempts[c] \in Nat /\ MaxAttempts \in Nat
    BY CodeAssumption DEF CodesInv, TypeOK
  <2>2. /\ Guesses(c) # {} => attempts[c] <= MaxAttempts
        /\ Cardinality(Guesses(c)) <= attempts[c]
    BY DEF CodesInv, Counting
  <2>3. CASE Guesses(c) = {}
    BY <2>1, <2>3, FS_EmptySet
  <2>4. CASE Guesses(c) # {}
    BY <2>1, <2>2, <2>4, GuessesAreFinite
  <2> QED
    BY <2>3, <2>4
<1> QED
  BY <1>1, CodesInvariant, PTL

\* Of two codes for one purpose whose requests did not overlap the earlier is never good
\* again, and the later was mailed after the cooldown, or after the earlier was used, or by
\* register; unless a third request came in between.
THEOREM CodesCompete == Spec => []CodesCompeteOnlyByOverlap
<1>1. CodesInv => CodesCompeteOnlyByOverlap
  <2> SUFFICES ASSUME CodesInv, NEW c \in Requests, NEW d \in Requests,
                      code[c] # "none", code[d] # "none", purpose[c] = purpose[d],
                      c \in before[d]
               PROVE  code[c] # "active" /\ (kind[d] = "register" \/ Excused(c, d))
    BY DEF CodesCompeteOnlyByOverlap, Excused, Used
  <2>1. code[c] # "active"
    BY DEF CodesInv, Superseded
  <2>2. kind[d] = "register" \/ Excused(c, d)
    BY DEF CodesInv, Cooled, Sends
  <2> QED
    BY <2>1, <2>2
<1> QED
  BY <1>1, CodesInvariant, PTL

\* A request comes with a code that was mailed, or with a wrong one.
Mailed ==
  \A v \in Requests :
    /\ guess[v] # Nobody => guess[v] \in arrived
    /\ kind[v] = "reset" => purpose[v] = "reset_password"

LEMMA MailedStep ==
  ASSUME TypeOK, Mailed, [Next]_vars
  PROVE  Mailed'
<1>1. CASE UNCHANGED <<inputs, arrived>>
  BY <1>1 DEF inputs, Mailed
<1>2. ASSUME NEW r \in Requests, NEW k, NEW p, NEW g \in arrived \cup {Nobody}, NEW next,
             Begin(r, k, p, g, next), k = "reset" => p = "reset_password"
      PROVE  Mailed'
  <2>1. arrived' = arrived
    BY <1>2 DEF Begin, codes
  <2>2. ASSUME NEW v \in Requests
        PROVE  /\ guess'[v] = IF v = r THEN g ELSE guess[v]
               /\ kind'[v] = IF v = r THEN k ELSE kind[v]
               /\ purpose'[v] = IF v = r THEN p ELSE purpose[v]
    BY <1>2 DEF Begin, TypeOK
  <2> QED
    BY <1>2, <2>1, <2>2 DEF Mailed
<1>3. ASSUME NEW r \in Requests, Mail(r)
      PROVE  Mailed'
  BY <1>3 DEF Mail, Trans, inputs, Mailed
<1>4. ASSUME NEW r \in Requests, Send(r) \/ Verify(r) \/ Cool(r) \/ Expire(r) \/ Crash(r)
      PROVE  Mailed'
  <2>1. CASE Register(r) \/ ResendOtp(r) \/ ForgotPassword(r)
    <3>1. \E k, p, next : Begin(r, k, p, Nobody, next) /\ k # "reset"
      BY <2>1 DEF Register, ResendOtp, ForgotPassword
    <3> QED
      BY <1>2, <3>1
  <2>2. CASE VerifyEmail(r) \/ ResetPassword(r)
    BY <1>2, <2>2 DEF VerifyEmail, ResetPassword
  <2>3. CASE \/ Renew(r) \/ Insert(r) \/ Refresh(r) \/ Check(r) \/ Supersede(r) \/ CommitCode(r)
             \/ Find(r) \/ Count(r) \/ Consume(r) \/ Grant(r)
             \/ Cool(r) \/ Expire(r) \/ Crash(r)
    <3>1. UNCHANGED <<inputs, arrived>>
      BY <2>3 DEF Renew, Insert, Refresh, Check, Supersede, CommitCode, Find, Count, Consume,
                  Grant, Cool, Expire, Crash, Trans, codes
    <3> QED
      BY <1>1, <3>1
  <2> QED
    BY <1>3, <1>4, <2>1, <2>2, <2>3 DEF Send, Verify
<1>5. CASE UNCHANGED vars
  BY <1>1, <1>5 DEF vars, codes
<1> QED
  BY <1>4, <1>5 DEF Next

LEMMA MailedInvariant == Spec => []Mailed
<1>1. Init => Mailed
  BY DEF Init, Mailed
<1>2. TypeOK /\ Mailed /\ [Next]_vars => Mailed'
  BY MailedStep
<1> QED
  BY <1>1, <1>2, CodeTypes, PTL DEF Spec

\* Once the address is verified, the password is changed by a reset_password that came with
\* the very code it was checked against, mailed for that purpose, or by a registration that
\* overlaps a request whose code was accepted; change_password apart.
THEOREM PasswordsNeedCodes == Spec => PasswordNeedsCode
<1> DEFINE ByCode(r) == /\ kind[r] = "reset" /\ Accepted(r)
                        /\ guess[r] = target[r] /\ target[r] \in arrived
                        /\ purpose[target[r]] = "reset_password"
           ByRegistration(r) == /\ kind[r] = "register"
                                /\ \E v \in Requests : Accepted(v) /\ Overlap(v, r)
           Changed == verified /\ password' # password =>
                        ByCode(password') \/ ByRegistration(password')
<1>1. ASSUME CodesInv, Mailed, [Next]_vars
      PROVE  [Changed]_vars
  <2> SUFFICES ASSUME Next, verified, password' # password
               PROVE  ByCode(password') \/ ByRegistration(password')
    BY <1>1
  <2>1. Account /\ Checking /\ Sending
    BY <1>1 DEF CodesInv
  <2>2. PICK r \in Requests : Renew(r) \/ Insert(r) \/ Grant(r)
    BY DEF Next, Send, Verify, Register, ResendOtp, ForgotPassword, Begin, Refresh, Check,
           Supersede, CommitCode, Mail, VerifyEmail, ResetPassword, Find, Count, Consume,
           Cool, Expire, Crash, account
  <2>3. CASE Renew(r)
    BY <2>1, <2>3 DEF Renew, Trans, Account, Accepted, Sending
  <2>4. CASE Insert(r)
    BY <2>1, <2>4 DEF Insert, Account
  <2>5. CASE Grant(r)
    <3>1. stage[r] = "granting" /\ kind[r] = "reset" /\ password' = r
      BY <2>5 DEF Grant, Trans
    <3>2. Accepted(r)
      BY <3>1 DEF Accepted
    <3>3. target[r] # Nobody /\ guess[r] = target[r] /\ purpose[target[r]] = purpose[r]
      BY <2>1, <3>1, <3>2 DEF Checking
    <3>4. guess[r] \in arrived /\ purpose[r] = "reset_password"
      BY <1>1, <3>1, <3>3 DEF Mailed
    <3> QED
      BY <3>1, <3>2, <3>3, <3>4
  <2> QED
    BY <2>2, <2>3, <2>4, <2>5
<1> QED
  BY <1>1, CodesInvariant, MailedInvariant, PTL DEF Spec, PasswordNeedsCode
=============================================================================
