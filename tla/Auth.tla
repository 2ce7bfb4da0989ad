-------------------------------- MODULE Auth --------------------------------
(***************************************************************************)
(* AuthService without the tables of users: verification codes for e-mail  *)
(* addresses, and the refresh tokens of logged-in users, each one Redis    *)
(* key with a time to live.                                                *)
(*                                                                         *)
(* A code is stored for three minutes and mailed by the e-mail worker,     *)
(* whose retries wait one and five minutes.  Time is a clock of minutes.   *)
(* Each Redis command, database query and publication is a step; between   *)
(* two steps of one request those of another, and the mail, go on.         *)
(***************************************************************************)
EXTENDS Integers

CONSTANTS
    Procs,       \* requests that may be in flight at once
    Emails,      \* addresses
    Users,       \* ids of users
    MaxCodes,    \* bound: how many codes are drawn
    MaxLogins,   \* bound: how many refresh tokens are signed
    CodeLife,    \* minutes a code is kept (three)
    ProofLife,   \* minutes a verification token is valid (five)
    RetryDelay,  \* minutes before the first and the second retry of a mail
    MaxTime      \* bound: where the clock stops

\* No address: a code that was not drawn.
NoEmail == "none"

ASSUME ConstantsAssumption ==
    /\ NoEmail \notin Emails
    /\ MaxCodes \in Nat
    /\ MaxLogins \in Nat
    /\ Users \subseteq Nat \ {0}
    /\ CodeLife \in Nat
    /\ ProofLife \in Nat
    /\ RetryDelay \in [{1, 2} -> Nat]
    /\ MaxTime \in Nat

VARIABLES
    now,        \* the clock
    code,       \* the code stored for each address, 0 when there is none
    expiry,     \* when the key that held each code expires
    tokens,     \* verification tokens: an address and when the token expires
    mail,       \* the job that carries each code
    session,    \* the refresh token stored for each user, 0 when there is none
    pc,         \* where each request stands
    job,        \* what each request remembers
    drawn,      \* history: the address each code was drawn for
    redeemed,   \* history: how many tokens each code was exchanged for
    together,   \* history: codes two verifications held at once
    wiped,      \* history: codes deleted by the verification of another code
    signed      \* history: the user each refresh token was signed for

codes == <<code, expiry, tokens>>
requests == <<pc, job>>
history == <<drawn, redeemed, together, wiped, signed>>
vars == <<now, codes, mail, session, requests, history>>

-----------------------------------------------------------------------------
(* The shape of the data. *)

\* Codes and refresh tokens, numbered in the order they are made.
Codes == 1..MaxCodes

Logins == 1..MaxLogins

Mail == [stage : {"none", "waiting", "done", "dead"}, attempt : 1..3, at : Nat]

NoMail == [stage |-> "none", attempt |-> 1, at |-> 0]

(* "set"      addressee looked up, no code stored               (sendEmail)
   "publish"  code stored, its mail not published               (sendEmail)
   "delete"   code read and equal                               (verifyEmail)
   "keep"     password compared and token signed                (login)
   "lookup"   refresh token read and equal, user not looked up  (refresh) *)
PCs == {"idle", "set", "publish", "delete", "keep", "lookup"}

Job == [email : Emails \cup {NoEmail}, code : Codes \cup {0}, user : Users \cup {0},
        token : Logins \cup {0}]

NoJob == [email |-> NoEmail, code |-> 0, user |-> 0, token |-> 0]

Init ==
    /\ now = 0
    /\ code = [e \in Emails |-> 0]
    /\ expiry = [k \in Codes |-> 0]
    /\ tokens = {}
    /\ mail = [k \in Codes |-> NoMail]
    /\ session = [u \in Users |-> 0]
    /\ pc = [p \in Procs |-> "idle"]
    /\ job = [p \in Procs |-> NoJob]
    /\ drawn = [k \in Codes |-> NoEmail]
    /\ redeemed = [k \in Codes |-> 0]
    /\ together = {}
    /\ wiped = {}
    /\ signed = [n \in Logins |-> 0]

-----------------------------------------------------------------------------
(* Helpers. *)

Goto(p, point, j) ==
    /\ pc' = [pc EXCEPT ![p] = point]
    /\ job' = [job EXCEPT ![p] = j]

Finish(p) == Goto(p, "idle", NoJob)

\* generateMailVerificationCode: a code nobody was given before.
NextCode == CHOOSE k \in Codes : drawn[k] = NoEmail /\ \A i \in 1..(k - 1) : drawn[i] # NoEmail

Undrawn == \E k \in Codes : drawn[k] = NoEmail

NextLogin == CHOOSE n \in Logins : signed[n] = 0 /\ \A i \in 1..(n - 1) : signed[i] # 0

-----------------------------------------------------------------------------
(* sendEmail *)

\* The address may or may not be registered, and the request is refused when that
\* does not suit its type; here is the one that is not refused.
SendEmail(p, e) ==
    /\ pc[p] = "idle"
    /\ Undrawn
    /\ Goto(p, "set", [NoJob EXCEPT !.email = e])
    /\ UNCHANGED <<now, codes, mail, session, history>>

\* Variant: a code that is stored already is kept.
SetCode_NX(p) ==
    /\ pc[p] = "set"
    /\ Undrawn
    /\ LET e == job[p].email
           k == NextCode
       IN
        /\ code' = [code EXCEPT ![e] = IF @ = 0 THEN k ELSE @]
        /\ drawn' = [drawn EXCEPT ![k] = e]
        /\ expiry' = [expiry EXCEPT ![k] = now + CodeLife]
        /\ Goto(p, "publish", [job[p] EXCEPT !.code = k])
    /\ UNCHANGED <<now, tokens, mail, session, redeemed, together, wiped, signed>>

\* A new code replaces the stored one, and its time starts anew.
SetCode(p) ==
    /\ pc[p] = "set"
    /\ Undrawn
    /\ LET e == job[p].email
           k == NextCode
       IN
        /\ code' = [code EXCEPT ![e] = k]
        /\ drawn' = [drawn EXCEPT ![k] = e]
        /\ expiry' = [expiry EXCEPT ![k] = now + CodeLife]
        /\ Goto(p, "publish", [job[p] EXCEPT !.code = k])
    /\ UNCHANGED <<now, tokens, mail, session, redeemed, together, wiped, signed>>

Publish(p) ==
    /\ pc[p] = "publish"
    /\ mail' = [mail EXCEPT ![job[p].code] = [stage |-> "waiting", attempt |-> 1, at |-> now]]
    /\ Finish(p)
    /\ UNCHANGED <<now, codes, session, history>>

\* The broker does not answer: the code stays stored and nobody is told.
PublishFails(p) ==
    /\ pc[p] = "publish"
    /\ Finish(p)
    /\ UNCHANGED <<now, codes, mail, session, history>>

-----------------------------------------------------------------------------
(* The e-mail worker: what JobWorker models step by step is here one delivery
   attempt, and the delays of the retry queues count. *)

MailArrives(k) ==
    /\ mail[k].stage = "waiting"
    /\ mail[k].at <= now
    /\ mail' = [mail EXCEPT ![k] = [NoMail EXCEPT !.stage = "done"]]
    /\ UNCHANGED <<now, codes, session, requests, history>>

\* Variant: the second retry waits as long as the first.
Delay_Short(attempt) == RetryDelay[1]

\* The time to live of the retry queues.
Delay(attempt) == RetryDelay[attempt]

MailFails(k) ==
    /\ mail[k].stage = "waiting"
    /\ mail[k].at <= now
    /\ LET n == mail[k].attempt IN
        mail' = [mail EXCEPT ![k] =
                    IF n = 3 THEN [NoMail EXCEPT !.stage = "dead"]
                    ELSE [@ EXCEPT !.attempt = n + 1, !.at = now + Delay(n)]]
    /\ UNCHANGED <<now, codes, session, requests, history>>

-----------------------------------------------------------------------------
(* verifyEmail: somebody types in a code that came with a mail. *)

\* Variant: the code is compared and not looked at for its address.
Verify_AnyAddress(p, e, k) ==
    /\ pc[p] = "idle"
    /\ mail[k].stage = "done"
    /\ \E d \in Emails : code[d] = k
    /\ Goto(p, "delete", [NoJob EXCEPT !.email = e, !.code = k])
    /\ together' = together \cup {c \in {k} : \E q \in Procs : pc[q] = "delete" /\ job[q].code = c}
    /\ UNCHANGED <<now, codes, mail, session, drawn, redeemed, wiped, signed>>

\* The code came with a mail.  A missing one is answered "expired" and another one "invalid".
Verify(p, e, k) ==
    /\ pc[p] = "idle"
    /\ mail[k].stage = "done"
    /\ code[e] = k
    /\ Goto(p, "delete", [NoJob EXCEPT !.email = e, !.code = k])
    /\ together' = together \cup {c \in {k} : \E q \in Procs : pc[q] = "delete" /\ job[q].code = c}
    /\ UNCHANGED <<now, codes, mail, session, drawn, redeemed, wiped, signed>>

\* Variant: the code is left to expire.
DeleteCode_Kept(p) ==
    /\ pc[p] = "delete"
    /\ tokens' = tokens \cup {[email |-> job[p].email, until |-> now + ProofLife]}
    /\ redeemed' = [redeemed EXCEPT ![job[p].code] = @ + 1]
    /\ Finish(p)
    /\ UNCHANGED <<now, code, expiry, mail, session, drawn, together, wiped, signed>>

\* The key is deleted, whatever it holds by now, and the token signed.
DeleteCode(p) ==
    /\ pc[p] = "delete"
    /\ LET e == job[p].email
           k == job[p].code
       IN
        /\ code' = [code EXCEPT ![e] = 0]
        /\ tokens' = tokens \cup {[email |-> e, until |-> now + ProofLife]}
        /\ redeemed' = [redeemed EXCEPT ![k] = @ + 1]
        /\ wiped' = wiped \cup ({code[e]} \ {0, k})
    /\ Finish(p)
    /\ UNCHANGED <<now, expiry, mail, session, drawn, together, signed>>

-----------------------------------------------------------------------------
(* login, logout and refresh *)

\* validateUser: the password of the row that was read is the right one.
Login(p, u) ==
    /\ pc[p] = "idle"
    /\ \E n \in Logins : signed[n] = 0
    /\ signed' = [signed EXCEPT ![NextLogin] = u]
    /\ Goto(p, "keep", [NoJob EXCEPT !.user = u, !.token = NextLogin])
    /\ UNCHANGED <<now, codes, mail, session, drawn, redeemed, together, wiped>>

KeepToken(p) ==
    /\ pc[p] = "keep"
    /\ session' = [session EXCEPT ![job[p].user] = job[p].token]
    /\ Finish(p)
    /\ UNCHANGED <<now, codes, mail, drawn, redeemed, together, wiped, signed>>

Logout(u) ==
    /\ session[u] # 0
    /\ session' = [session EXCEPT ![u] = 0]
    /\ UNCHANGED <<now, codes, mail, requests, drawn, redeemed, together, wiped, signed>>

\* The token has to be the stored one.
Accepts(n) == session[signed[n]] = n

Refresh(p, n) ==
    /\ pc[p] = "idle"
    /\ signed[n] # 0
    /\ Accepts(n)
    /\ Goto(p, "lookup", [NoJob EXCEPT !.user = signed[n], !.token = n])
    /\ UNCHANGED <<now, codes, mail, session, history>>

\* The user is there, and a new access token is answered.
RefreshAnswer(p) ==
    /\ pc[p] = "lookup"
    /\ Finish(p)
    /\ UNCHANGED <<now, codes, mail, session, history>>

-----------------------------------------------------------------------------

\* Redis drops a key when its time is over; an expired verification token is as
\* good as none.
Tick ==
    /\ now < MaxTime
    /\ now' = now + 1
    /\ code' = [e \in Emails |->
                    IF code[e] # 0 /\ expiry[code[e]] <= now' THEN 0 ELSE code[e]]
    /\ tokens' = {t \in tokens : now' < t.until}
    /\ UNCHANGED <<expiry, mail, session, requests, history>>

Request(p) ==
    \/ \E e \in Emails : SendEmail(p, e)
    \/ \E e \in Emails, k \in Codes : Verify(p, e, k)
    \/ \E u \in Users : Login(p, u)
    \/ \E n \in Logins : Refresh(p, n)

Step(p) ==
    \/ SetCode(p)
    \/ Publish(p)
    \/ PublishFails(p)
    \/ DeleteCode(p)
    \/ KeepToken(p)
    \/ RefreshAnswer(p)

Next ==
    \/ Tick
    \/ \E p \in Procs : Request(p) \/ Step(p)
    \/ \E u \in Users : Logout(u)
    \/ \E k \in Codes : MailArrives(k) \/ MailFails(k)

Spec == Init /\ [][Next]_vars

-----------------------------------------------------------------------------
(* Properties. *)

\* The shape of the state.
TypeOK ==
    /\ now \in 0..MaxTime
    /\ code \in [Emails -> Codes \cup {0}]
    /\ expiry \in [Codes -> Nat]
    /\ tokens \subseteq [email : Emails, until : Nat]
    /\ mail \in [Codes -> Mail]
    /\ session \in [Users -> Logins \cup {0}]
    /\ pc \in [Procs -> PCs]
    /\ job \in [Procs -> Job]
    /\ drawn \in [Codes -> Emails \cup {NoEmail}]
    /\ redeemed \in [Codes -> Nat]
    /\ together \subseteq Codes
    /\ wiped \subseteq Codes
    /\ signed \in [Logins -> Users \cup {0}]
    /\ \A p \in Procs :
        /\ pc[p] \in {"publish", "delete"} => drawn[job[p].code] = job[p].email
        /\ pc[p] \in {"set", "publish", "delete"} => job[p].email \in Emails
        /\ pc[p] \in {"keep", "lookup"} => job[p].user \in Users

\* A code is exchanged for one verification token, unless two verifications of it
\* have both read it before either has deleted it (auth.service.ts:231-245).
RedeemedOnce ==
    \A k \in Codes \ together : redeemed[k] <= 1

\* The code sent last for an address stays good until it expires or is used; only
\* a verification of an older code that was under way can delete it
\* (auth.service.ts:199-201, 245).
NewestStands ==
    \A k \in Codes :
        (/\ \A i \in Codes : drawn[i] = drawn[k] => i <= k
         /\ drawn[k] # NoEmail
         /\ now < expiry[k]
         /\ redeemed[k] = 0
         /\ k \notin wiped) => code[drawn[k]] = k

\* The mail of the second retry comes too late: the code it carries has expired, so
\* a code that is given back came with one of the first two attempts
\* (redis.constants.ts:37, rabbitmq.producer.service.ts:24-68).
LastRetryInVain ==
    \A k \in Codes : mail[k].stage = "waiting" /\ mail[k].attempt = 3 /\ mail[k].at <= now
                        => now >= expiry[k]

Proof == INSTANCE EmailProof WITH
    asked <- {e \in Emails : \E k \in Codes : drawn[k] = e},
    proven <- {t.email : t \in tokens}

\* Sending and verifying codes implements EmailProof, which the module Account
\* builds on (auth.service.ts:166-254).
ProofSpec == Proof!Spec

=============================================================================
