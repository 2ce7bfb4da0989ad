------------------------------ MODULE AuthProofs ------------------------------
(* Theorems about Auth and their proofs. *)
EXTENDS Auth, TLAPS

-----------------------------------------------------------------------------
(* The inductive invariant. *)

\* Codes and refresh tokens are given out in order.
InOrder ==
    /\ \E n \in 0..MaxCodes : \A k \in Codes : drawn[k] # NoEmail <=> k <= n
    /\ \E n \in 0..MaxLogins : \A t \in Logins : signed[t] # 0 <=> t <= n

\* What a request remembers at each of its points.
Knows(p) ==
    /\ pc[p] \in {"publish", "delete"} => job[p].code \in Codes
    /\ pc[p] = "keep" => job[p].token \in Logins

\* A stored code was drawn for its address, and what was not drawn is not used.
Stored ==
    /\ \A e \in Emails : code[e] # 0 => drawn[code[e]] = e
    /\ \A k \in Codes : drawn[k] = NoEmail => redeemed[k] = 0 /\ mail[k].stage = "none"
    /\ \A t \in tokens : \E k \in Codes : drawn[k] = t.email

\* The minutes a mail has waited in retry queues before its attempt n.
Waited(n) == IF n = 1 THEN 0 ELSE IF n = 2 THEN RetryDelay[1] ELSE RetryDelay[1] + RetryDelay[2]

\* The life of a code began before its mail was first tried.
Timed ==
    \A k \in Codes :
        /\ expiry[k] <= now + CodeLife
        /\ mail[k].stage = "waiting" =>
              expiry[k] + Waited(mail[k].attempt) <= mail[k].at + CodeLife

\* A redeemed code is stored nowhere, and unless two verifications held it at once, the
\* one that holds it has not redeemed it.
Single ==
    /\ \A k \in Codes : redeemed[k] > 0 => \A e \in Emails : code[e] # k
    /\ \A k \in Codes \ together, p \in Procs :
          pc[p] = "delete" /\ job[p].code = k =>
             /\ redeemed[k] = 0
             /\ \A q \in Procs \ {p} : ~(pc[q] = "delete" /\ job[q].code = k)
    /\ RedeemedOnce

IInv ==
    /\ TypeOK
    /\ InOrder
    /\ \A p \in Procs : Knows(p)
    /\ Stored
    /\ Timed
    /\ Single
    /\ NewestStands

-----------------------------------------------------------------------------
(* Shapes. *)

LEMMA Placeholders == NoJob \in Job /\ NoMail \in Mail
  BY DEF NoJob, Job, NoMail, Mail

LEMMA GotoShape ==
    ASSUME TypeOK, NEW p \in Procs, NEW point \in PCs, NEW j \in Job, Goto(p, point, j)
    PROVE  /\ pc' \in [Procs -> PCs] /\ job' \in [Procs -> Job]
           /\ pc'[p] = point /\ job'[p] = j
           /\ \A q \in Procs \ {p} : pc'[q] = pc[q] /\ job'[q] = job[q]
  BY DEF Goto, TypeOK

LEMMA FinishShape ==
    ASSUME TypeOK, NEW p \in Procs, Finish(p)
    PROVE  /\ pc' \in [Procs -> PCs] /\ job' \in [Procs -> Job] /\ pc'[p] = "idle"
           /\ \A q \in Procs \ {p} : pc'[q] = pc[q] /\ job'[q] = job[q]
  BY Placeholders, GotoShape DEF Finish, PCs

LEMMA JobShape ==
    ASSUME TypeOK, NEW p \in Procs
    PROVE  /\ job[p] \in Job /\ job[p].code \in Codes \cup {0}
           /\ job[p].token \in Logins \cup {0}
           /\ pc[p] \in {"publish", "delete"} => drawn[job[p].code] = job[p].email
           /\ pc[p] \in {"set", "publish", "delete"} => job[p].email \in Emails
           /\ pc[p] \in {"keep", "lookup"} => job[p].user \in Users
<1>1. job[p] \in Job
  BY DEF TypeOK
<1> QED
  BY <1>1 DEF TypeOK, Job

\* The next code is the first that was not drawn.
LEMMA NextCodeShape ==
    ASSUME TypeOK, InOrder, Undrawn
    PROVE  /\ NextCode \in Codes /\ drawn[NextCode] = NoEmail
           /\ \A k \in Codes : drawn[k] # NoEmail <=> k < NextCode
<1>1. PICK n \in 0..MaxCodes : \A k \in Codes : drawn[k] # NoEmail <=> k <= n
  BY DEF InOrder
<1>2. PICK u \in Codes : drawn[u] = NoEmail
  BY DEF Undrawn
<1>3. n + 1 \in Codes
  BY <1>1, <1>2, ConstantsAssumption DEF Codes
<1>4. drawn[n + 1] = NoEmail /\ \A i \in 1..n : i \in Codes /\ drawn[i] # NoEmail
  BY <1>1, <1>3, ConstantsAssumption DEF Codes
<1>5. ASSUME NEW k \in Codes, drawn[k] = NoEmail, \A i \in 1..(k - 1) : drawn[i] # NoEmail
      PROVE  k = n + 1
  BY <1>1, <1>3, <1>4, <1>5, ConstantsAssumption DEF Codes
<1>6. NextCode = n + 1
  <2>1. (n + 1) - 1 = n
    BY <1>1
  <2>2. \E k \in Codes : drawn[k] = NoEmail /\ \A i \in 1..(k - 1) : drawn[i] # NoEmail
    BY <1>3, <1>4, <2>1
  <2>3. /\ NextCode \in Codes /\ drawn[NextCode] = NoEmail
        /\ \A i \in 1..(NextCode - 1) : drawn[i] # NoEmail
    BY <2>2 DEF NextCode
  <2> QED
    BY <1>5, <2>3
<1>7. \A k \in Codes : k <= n <=> k < n + 1
  BY <1>1, ConstantsAssumption DEF Codes
<1> QED
  BY <1>1, <1>3, <1>4, <1>6, <1>7

LEMMA NextLoginShape ==
    ASSUME TypeOK, InOrder, \E t \in Logins : signed[t] = 0
    PROVE  /\ NextLogin \in Logins /\ signed[NextLogin] = 0
           /\ \A t \in Logins : signed[t] # 0 <=> t < NextLogin
<1>1. PICK n \in 0..MaxLogins : \A t \in Logins : signed[t] # 0 <=> t <= n
  BY DEF InOrder
<1>2. PICK u \in Logins : signed[u] = 0
  OBVIOUS
<1>3. n + 1 \in Logins
  BY <1>1, <1>2, ConstantsAssumption DEF Logins
<1>4. signed[n + 1] = 0 /\ \A i \in 1..n : i \in Logins /\ signed[i] # 0
  BY <1>1, <1>3, ConstantsAssumption DEF Logins
<1>5. ASSUME NEW t \in Logins, signed[t] = 0, \A i \in 1..(t - 1) : signed[i] # 0
      PROVE  t = n + 1
  BY <1>1, <1>3, <1>4, <1>5, ConstantsAssumption DEF Logins
<1>6. NextLogin = n + 1
  <2>1. (n + 1) - 1 = n
    BY <1>1
  <2>2. \E t \in Logins : signed[t] = 0 /\ \A i \in 1..(t - 1) : signed[i] # 0
    BY <1>3, <1>4, <2>1
  <2>3. /\ NextLogin \in Logins /\ signed[NextLogin] = 0
        /\ \A i \in 1..(NextLogin - 1) : signed[i] # 0
    BY <2>2 DEF NextLogin
  <2> QED
    BY <1>5, <2>3
<1>7. \A t \in Logins : t <= n <=> t < n + 1
  BY <1>1, ConstantsAssumption DEF Logins
<1> QED
  BY <1>1, <1>3, <1>4, <1>6, <1>7

LEMMA InitHolds == Init => IInv
<1> SUFFICES ASSUME Init
             PROVE  IInv
  OBVIOUS
<1>1. TypeOK
  BY Placeholders, ConstantsAssumption DEF Init, TypeOK, PCs
<1>2. InOrder
  <2>1. 0 \in 0..MaxCodes /\ \A k \in Codes : drawn[k] = NoEmail /\ ~(k <= 0)
    BY ConstantsAssumption DEF Init, Codes
  <2>2. 0 \in 0..MaxLogins /\ \A t \in Logins : signed[t] = 0 /\ ~(t <= 0)
    BY ConstantsAssumption DEF Init, Logins
  <2> QED
    BY <2>1, <2>2 DEF InOrder
<1>3. \A p \in Procs : Knows(p)
  BY DEF Init, Knows
<1>4. Stored /\ Single /\ NewestStands
  BY DEF Init, Stored, Single, RedeemedOnce, NewestStands, NoMail
<1>5. Timed
  BY ConstantsAssumption DEF Init, Timed, NoMail
<1> QED
  BY <1>1, <1>2, <1>3, <1>4, <1>5 DEF IInv

-----------------------------------------------------------------------------
(* Steps of one request that change no key, no mail and no history. *)

LEMMA Moves ==
    ASSUME IInv, NEW p \in Procs,
           UNCHANGED <<now, codes, mail, session, history>>,
           pc' \in [Procs -> PCs], job' \in [Procs -> Job],
           \A q \in Procs \ {p} : pc'[q] = pc[q] /\ job'[q] = job[q],
           pc'[p] \in {"idle", "set", "lookup"},
           pc'[p] = "set" => job'[p].email \in Emails,
           pc'[p] = "lookup" => job'[p].user \in Users
    PROVE  IInv'
<1>1. TypeOK'
  BY DEF IInv, TypeOK, codes, history
<1>2. InOrder' /\ Stored' /\ Timed' /\ NewestStands'
  BY DEF IInv, InOrder, Stored, Timed, NewestStands, codes, history
<1>3. \A q \in Procs : Knows(q)'
  BY DEF IInv, Knows
<1>4. Single'
  <2>1. \A q \in Procs : pc'[q] = "delete" => q # p /\ pc[q] = "delete" /\ job'[q] = job[q]
    OBVIOUS
  <2> QED
    BY <2>1 DEF IInv, Single, RedeemedOnce, codes, history
<1> QED
  BY <1>1, <1>2, <1>3, <1>4 DEF IInv

LEMMA MoveSteps ==
    ASSUME IInv, NEW p \in Procs,
           \/ \E e \in Emails : SendEmail(p, e)
           \/ \E n \in Logins : Refresh(p, n)
           \/ PublishFails(p)
           \/ RefreshAnswer(p)
    PROVE  IInv'
<1>1. ASSUME NEW e \in Emails, SendEmail(p, e)
      PROVE  IInv'
  <2> DEFINE j == [NoJob EXCEPT !.email = e]
  <2>1. j \in Job /\ j.email = e
    BY DEF NoJob, Job
  <2>2. Goto(p, "set", j)
    BY <1>1 DEF SendEmail
  <2> HIDE DEF j
  <2>3. /\ pc' \in [Procs -> PCs] /\ job' \in [Procs -> Job] /\ pc'[p] = "set" /\ job'[p] = j
        /\ \A q \in Procs \ {p} : pc'[q] = pc[q] /\ job'[q] = job[q]
    BY <2>1, <2>2, GotoShape DEF IInv, PCs
  <2> QED
    BY <1>1, <2>1, <2>3, Moves DEF SendEmail
<1>2. ASSUME NEW n \in Logins, Refresh(p, n)
      PROVE  IInv'
  <2> DEFINE j == [NoJob EXCEPT !.user = signed[n], !.token = n]
  <2>1. signed[n] \in Users
    BY <1>2 DEF Refresh, IInv, TypeOK
  <2>2. j \in Job /\ j.user = signed[n]
    BY <2>1 DEF NoJob, Job
  <2>3. Goto(p, "lookup", j)
    BY <1>2 DEF Refresh
  <2> HIDE DEF j
  <2>4. /\ pc' \in [Procs -> PCs] /\ job' \in [Procs -> Job] /\ pc'[p] = "lookup" /\ job'[p] = j
        /\ \A q \in Procs \ {p} : pc'[q] = pc[q] /\ job'[q] = job[q]
    BY <2>2, <2>3, GotoShape DEF IInv, PCs
  <2> QED
    BY <1>2, <2>1, <2>2, <2>4, Moves DEF Refresh
<1>3. CASE PublishFails(p) \/ RefreshAnswer(p)
  <2>1. Finish(p) /\ UNCHANGED <<now, codes, mail, session, history>>
    BY <1>3 DEF PublishFails, RefreshAnswer
  <2>2. /\ pc' \in [Procs -> PCs] /\ job' \in [Procs -> Job] /\ pc'[p] = "idle"
        /\ \A q \in Procs \ {p} : pc'[q] = pc[q] /\ job'[q] = job[q]
    BY <2>1, FinishShape DEF IInv
  <2> QED
    BY <2>1, <2>2, Moves
<1> QED
  BY <1>1, <1>2, <1>3

-----------------------------------------------------------------------------
(* Codes and their mail. *)

\* A new code is later than every other and was never used.
LEMMA SetCodeStep ==
    ASSUME IInv, NEW p \in Procs, SetCode(p)
    PROVE  IInv'
<1>1. PICK k : k = NextCode
  OBVIOUS
<1>2. PICK e : e = job[p].email
  OBVIOUS
<1>3. PICK j : j = [job[p] EXCEPT !.code = k]
  OBVIOUS
<1>4. /\ k \in Codes /\ drawn[k] = NoEmail /\ e \in Emails
      /\ \A i \in Codes : drawn[i] # NoEmail <=> i < k
  BY <1>1, <1>2, NextCodeShape, JobShape DEF IInv, SetCode
<1>5. j \in Job /\ j.code = k /\ j.email = e
  BY <1>2, <1>3, <1>4, JobShape DEF IInv, Job
<1>6. /\ code' = [code EXCEPT ![e] = k] /\ drawn' = [drawn EXCEPT ![k] = e]
      /\ expiry' = [expiry EXCEPT ![k] = now + CodeLife]
      /\ Goto(p, "publish", j)
      /\ UNCHANGED <<now, tokens, mail, session, redeemed, together, wiped, signed>>
  BY <1>1, <1>2, <1>3 DEF SetCode
<1>7. /\ pc' \in [Procs -> PCs] /\ job' \in [Procs -> Job] /\ pc'[p] = "publish" /\ job'[p] = j
      /\ \A q \in Procs \ {p} : pc'[q] = pc[q] /\ job'[q] = job[q]
  BY <1>5, <1>6, GotoShape DEF IInv, PCs
<1>8. e # NoEmail /\ k # 0
  BY <1>4, ConstantsAssumption DEF Codes
<1>9. /\ code' \in [Emails -> Codes \cup {0}] /\ drawn' \in [Codes -> Emails \cup {NoEmail}]
      /\ expiry' \in [Codes -> Nat]
      /\ code'[e] = k /\ drawn'[k] = e /\ expiry'[k] = now + CodeLife
      /\ \A d \in Emails \ {e} : code'[d] = code[d]
      /\ \A i \in Codes \ {k} : drawn'[i] = drawn[i] /\ expiry'[i] = expiry[i]
  BY <1>4, <1>6, ConstantsAssumption DEF IInv, TypeOK
<1>10. redeemed[k] = 0 /\ mail[k].stage = "none"
  BY <1>4 DEF IInv, Stored
<1>11. TypeOK'
  <2>1. ASSUME NEW q \in Procs
        PROVE  /\ pc'[q] \in {"publish", "delete"} => drawn'[job'[q].code] = job'[q].email
               /\ pc'[q] \in {"set", "publish", "delete"} => job'[q].email \in Emails
               /\ pc'[q] \in {"keep", "lookup"} => job'[q].user \in Users
    <3>1. CASE q = p
      BY <1>4, <1>5, <1>7, <1>9, <3>1
    <3>2. CASE q # p
      <4>1. pc[q] \in {"publish", "delete"} =>
              job[q].code \in Codes /\ drawn[job[q].code] \in Emails
        BY JobShape DEF IInv, Knows
      <4>2. pc[q] \in {"publish", "delete"} => job[q].code \in Codes \ {k}
        BY <1>4, <4>1, ConstantsAssumption
      <4> QED
        BY <1>7, <1>9, <3>2, <4>2, JobShape DEF IInv
    <3> QED
      BY <3>1, <3>2
  <2> QED
    BY <1>6, <1>7, <1>9, <2>1 DEF IInv, TypeOK
<1>12. InOrder'
  <2>1. k \in 0..MaxCodes
    BY <1>4, ConstantsAssumption DEF Codes
  <2>2. \A i \in Codes : drawn'[i] # NoEmail <=> i <= k
    BY <1>4, <1>8, <1>9 DEF Codes
  <2>3. \E n \in 0..MaxLogins : \A t \in Logins : signed'[t] # 0 <=> t <= n
    BY <1>6 DEF IInv, InOrder
  <2> QED
    BY <2>1, <2>2, <2>3 DEF InOrder
<1>13. \A q \in Procs : Knows(q)'
  BY <1>4, <1>5, <1>7 DEF IInv, Knows
<1>14. Stored'
  <2>1. \A d \in Emails : code'[d] # 0 => drawn'[code'[d]] = d
    <3>1. ASSUME NEW d \in Emails, code'[d] # 0
          PROVE  drawn'[code'[d]] = d
      <4>1. CASE d = e
        BY <1>9, <4>1
      <4>2. CASE d # e
        <5>1. code'[d] = code[d] /\ code[d] \in Codes /\ drawn[code[d]] = d
          BY <1>9, <3>1, <4>2 DEF IInv, Stored, TypeOK
        <5>2. code[d] # k
          BY <1>4, <5>1, ConstantsAssumption
        <5> QED
          BY <1>9, <5>1, <5>2
      <4> QED
        BY <4>1, <4>2
    <3> QED
      BY <3>1
  <2>2. \A i \in Codes : drawn'[i] = NoEmail => redeemed'[i] = 0 /\ mail'[i].stage = "none"
    BY <1>6, <1>8, <1>9 DEF IInv, Stored
  <2>3. \A t \in tokens' : \E i \in Codes : drawn'[i] = t.email
    <3>1. ASSUME NEW t \in tokens
          PROVE  \E i \in Codes : drawn'[i] = t.email
      <4>1. PICK i \in Codes : drawn[i] = t.email
        BY DEF IInv, Stored
      <4>2. t.email # NoEmail
        BY ConstantsAssumption DEF IInv, TypeOK
      <4> QED
        BY <1>4, <1>9, <4>1, <4>2
    <3> QED
      BY <1>6, <3>1
  <2> QED
    BY <2>1, <2>2, <2>3 DEF Stored
<1>15. Timed'
  <2>1. now' = now /\ now \in Nat /\ mail' = mail
    BY <1>6, ConstantsAssumption DEF IInv, TypeOK
  <2> QED
    BY <1>9, <1>10, <2>1, ConstantsAssumption DEF IInv, Timed, Waited
<1>16. Single'
  <2>1. \A i \in Codes : redeemed[i] > 0 => \A d \in Emails : code'[d] # i
    BY <1>9, <1>10 DEF IInv, Single
  <2>2. \A q \in Procs : pc'[q] = "delete" => q # p /\ pc[q] = "delete" /\ job'[q] = job[q]
    BY <1>7
  <2> QED
    BY <1>6, <2>1, <2>2 DEF IInv, Single, RedeemedOnce
<1>17. NewestStands'
  <2>1. ASSUME NEW c \in Codes, \A i \in Codes : drawn'[i] = drawn'[c] => i <= c,
               drawn'[c] # NoEmail, now < expiry'[c], redeemed[c] = 0, c \notin wiped
        PROVE  code'[drawn'[c]] = c
    <3>1. CASE c = k
      BY <1>9, <3>1
    <3>2. CASE c # k
      <4>1. drawn'[c] = drawn[c] /\ expiry'[c] = expiry[c] /\ c < k
        BY <1>4, <1>9, <2>1, <3>2
      <4>2. drawn[c] # e
        <5>1. ~(k <= c)
          BY <1>4, <4>1 DEF Codes
        <5> QED
          BY <1>4, <1>9, <2>1, <4>1, <5>1
      <4>3. \A i \in Codes : drawn[i] = drawn[c] => i <= c
        BY <1>4, <1>9, <2>1, <4>1
      <4>4. drawn[c] \in Emails /\ code[drawn[c]] = c
        BY <2>1, <4>1, <4>3 DEF IInv, NewestStands, TypeOK
      <4> QED
        BY <1>9, <4>1, <4>2, <4>4
    <3> QED
      BY <3>1, <3>2
  <2> QED
    BY <1>6, <2>1 DEF NewestStands
<1> QED
  BY <1>11, <1>12, <1>13, <1>14, <1>15, <1>16, <1>17 DEF IInv

\* A mail changes its stage, whatever the request that published it goes on to do.
LEMMA MailStep ==
    ASSUME IInv, NEW k \in Codes, drawn[k] # NoEmail, NEW m \in Mail,
           mail' = [mail EXCEPT ![k] = m],
           m.stage = "waiting" => expiry[k] + Waited(m.attempt) <= m.at + CodeLife,
           UNCHANGED <<now, codes, session, history>>,
           pc' \in [Procs -> PCs], job' \in [Procs -> Job],
           \A q \in Procs : (pc'[q] = pc[q] /\ job'[q] = job[q]) \/ pc'[q] = "idle"
    PROVE  IInv'
<1>1. /\ mail' \in [Codes -> Mail] /\ mail'[k] = m
      /\ \A i \in Codes \ {k} : mail'[i] = mail[i]
  BY DEF IInv, TypeOK
<1>2. TypeOK'
  BY <1>1 DEF IInv, TypeOK, codes, history
<1>3. InOrder' /\ NewestStands'
  BY DEF IInv, InOrder, NewestStands, codes, history
<1>4. \A q \in Procs : Knows(q)'
  BY DEF IInv, Knows
<1>5. Stored'
  BY <1>1 DEF IInv, Stored, codes, history
<1>6. Timed'
  BY <1>1 DEF IInv, Timed, Waited, codes
<1>7. Single'
  <2>1. \A q \in Procs : pc'[q] = "delete" => pc[q] = "delete" /\ job'[q] = job[q]
    OBVIOUS
  <2> QED
    BY <2>1 DEF IInv, Single, RedeemedOnce, codes, history
<1> QED
  BY <1>2, <1>3, <1>4, <1>5, <1>6, <1>7 DEF IInv

LEMMA MailSteps ==
    ASSUME IInv,
           \/ \E p \in Procs : Publish(p)
           \/ \E k \in Codes : MailArrives(k) \/ MailFails(k)
    PROVE  IInv'
<1>1. now \in Nat /\ CodeLife \in Nat /\ RetryDelay[1] \in Nat /\ RetryDelay[2] \in Nat
  BY ConstantsAssumption DEF IInv, TypeOK
<1>2. ASSUME NEW p \in Procs, Publish(p)
      PROVE  IInv'
  <2>1. PICK k : k = job[p].code
    OBVIOUS
  <2>2. PICK m : m = [stage |-> "waiting", attempt |-> 1, at |-> now]
    OBVIOUS
  <2>3. k \in Codes /\ drawn[k] # NoEmail
    <3>1. k \in Codes /\ drawn[k] = job[p].email /\ job[p].email \in Emails
      BY <1>2, <2>1, JobShape DEF Publish, IInv, Knows
    <3> QED
      BY <3>1, ConstantsAssumption
  <2>4. m \in Mail /\ m.attempt = 1 /\ m.at = now
    BY <1>1, <2>2 DEF Mail
  <2>5. expiry[k] + Waited(m.attempt) <= m.at + CodeLife
    BY <1>1, <2>3, <2>4 DEF IInv, Timed, TypeOK, Waited
  <2>6. mail' = [mail EXCEPT ![k] = m] /\ UNCHANGED <<now, codes, session, history>> /\ Finish(p)
    BY <1>2, <2>1, <2>2 DEF Publish
  <2>7. /\ pc' \in [Procs -> PCs] /\ job' \in [Procs -> Job]
        /\ \A q \in Procs : (pc'[q] = pc[q] /\ job'[q] = job[q]) \/ pc'[q] = "idle"
    BY <2>6, FinishShape DEF IInv
  <2> QED
    BY <2>3, <2>4, <2>5, <2>6, <2>7, MailStep
<1>3. ASSUME NEW k \in Codes, MailArrives(k) \/ MailFails(k)
      PROVE  IInv'
  <2>1. mail[k].stage = "waiting" /\ mail[k].at <= now /\ mail[k] \in Mail
    BY <1>3 DEF MailArrives, MailFails, IInv, TypeOK
  <2>2. drawn[k] # NoEmail
    BY <2>1 DEF IInv, Stored
  <2>3. /\ UNCHANGED <<now, codes, session, requests, history>>
        /\ pc' \in [Procs -> PCs] /\ job' \in [Procs -> Job]
        /\ \A q \in Procs : (pc'[q] = pc[q] /\ job'[q] = job[q]) \/ pc'[q] = "idle"
    BY <1>3 DEF MailArrives, MailFails, requests, IInv, TypeOK
  <2>4. CASE MailArrives(k)
    <3>1. PICK m : m = [NoMail EXCEPT !.stage = "done"]
      OBVIOUS
    <3>2. m \in Mail /\ m.stage = "done"
      BY <3>1 DEF NoMail, Mail
    <3>3. mail' = [mail EXCEPT ![k] = m]
      BY <2>4, <3>1 DEF MailArrives
    <3> QED
      BY <2>2, <2>3, <3>2, <3>3, MailStep
  <2>5. CASE MailFails(k)
    <3>1. PICK n : n = mail[k].attempt
      OBVIOUS
    <3>2. n \in 1..3
      BY <2>1, <3>1 DEF Mail
    <3>3. CASE n = 3
      <4>1. PICK m : m = [NoMail EXCEPT !.stage = "dead"]
        OBVIOUS
      <4>2. m \in Mail /\ m.stage = "dead"
        BY <4>1 DEF NoMail, Mail
      <4>3. mail' = [mail EXCEPT ![k] = m]
        BY <2>5, <3>1, <3>3, <4>1 DEF MailFails
      <4> QED
        BY <2>2, <2>3, <4>2, <4>3, MailStep
    <3>4. CASE n # 3
      <4>1. PICK m : m = [mail[k] EXCEPT !.attempt = n + 1, !.at = now + Delay(n)]
        OBVIOUS
      <4>2. Delay(n) \in Nat /\ n \in {1, 2} /\ n + 1 \in 1..3
        BY <3>2, <3>4, ConstantsAssumption DEF Delay
      <4>3. m \in Mail /\ m.stage = "waiting" /\ m.attempt = n + 1 /\ m.at = now + Delay(n)
        <5>1. PICK a : a = n + 1
          OBVIOUS
        <5>2. PICK t : t = now + Delay(n)
          OBVIOUS
        <5>3. a \in 1..3 /\ t \in Nat
          BY <1>1, <4>2, <5>1, <5>2
        <5>4. m = [mail[k] EXCEPT !.attempt = a, !.at = t]
          BY <4>1, <5>1, <5>2
        <5> QED
          BY <2>1, <5>1, <5>2, <5>3, <5>4 DEF Mail
      <4>4. mail' = [mail EXCEPT ![k] = m]
        BY <2>5, <3>1, <3>4, <4>1 DEF MailFails
      <4>5. expiry[k] + Waited(m.attempt) <= m.at + CodeLife
        <5>1. /\ expiry[k] + Waited(n) <= mail[k].at + CodeLife
              /\ expiry[k] \in Nat /\ mail[k].at \in Nat
          BY <2>1, <3>1 DEF IInv, Timed, TypeOK, Mail
        <5>2. Waited(n + 1) = Waited(n) + Delay(n) /\ Waited(n) \in Nat
          BY <1>1, <4>2 DEF Waited, Delay
        <5> QED
          BY <1>1, <2>1, <4>2, <4>3, <5>1, <5>2
      <4> QED
        BY <2>2, <2>3, <4>3, <4>4, <4>5, MailStep
    <3> QED
      BY <3>3, <3>4
  <2> QED
    BY <1>3, <2>4, <2>5
<1> QED
  BY <1>2, <1>3

\* A verification that reads a code another one holds is recorded in together.
LEMMA VerifyStep ==
    ASSUME IInv, NEW p \in Procs, NEW e \in Emails, NEW k \in Codes, Verify(p, e, k)
    PROVE  IInv'
<1>1. PICK j : j = [NoJob EXCEPT !.email = e, !.code = k]
  OBVIOUS
<1>2. j \in Job /\ j.email = e /\ j.code = k
  BY <1>1 DEF NoJob, Job
<1>3. /\ pc[p] = "idle" /\ code[e] = k /\ Goto(p, "delete", j)
      /\ together' = together \cup {c \in {k} : \E q \in Procs : pc[q] = "delete" /\ job[q].code = c}
      /\ UNCHANGED <<now, codes, mail, session, drawn, redeemed, wiped, signed>>
  BY <1>1 DEF Verify
<1>4. /\ pc' \in [Procs -> PCs] /\ job' \in [Procs -> Job] /\ pc'[p] = "delete" /\ job'[p] = j
      /\ \A q \in Procs \ {p} : pc'[q] = pc[q] /\ job'[q] = job[q]
  BY <1>2, <1>3, GotoShape DEF IInv, PCs
<1>5. k # 0 /\ drawn[k] = e
  BY <1>3, ConstantsAssumption DEF IInv, Stored, Codes
<1>6. together \subseteq together' /\ together' \subseteq Codes
  BY <1>3 DEF IInv, TypeOK
<1>7. TypeOK'
  BY <1>2, <1>3, <1>4, <1>5, <1>6 DEF IInv, TypeOK, codes
<1>8. InOrder' /\ Stored' /\ Timed' /\ NewestStands'
  BY <1>3 DEF IInv, InOrder, Stored, Timed, NewestStands, codes
<1>9. \A q \in Procs : Knows(q)'
  BY <1>2, <1>4 DEF IInv, Knows
<1>10. Single'
  <2>1. redeemed[k] = 0
    BY <1>3, <1>5 DEF IInv, Single, TypeOK
  <2>2. k \notin together' => \A q \in Procs : ~(pc[q] = "delete" /\ job[q].code = k)
    BY <1>3
  <2>3. ASSUME NEW c \in Codes \ together', NEW q \in Procs, pc'[q] = "delete", job'[q].code = c
        PROVE  /\ redeemed[c] = 0
               /\ \A r \in Procs \ {q} : ~(pc'[r] = "delete" /\ job'[r].code = c)
    <3>1. c \in Codes \ together
      BY <1>6
    <3>2. CASE c = k
      <4>1. q = p
        BY <1>4, <2>2, <2>3, <3>2
      <4> QED
        BY <1>4, <2>1, <2>2, <3>2, <4>1
    <3>3. CASE c # k
      <4>1. q # p /\ pc[q] = "delete" /\ job[q].code = c
        BY <1>2, <1>4, <2>3, <3>3
      <4>2. /\ redeemed[c] = 0
            /\ \A r \in Procs \ {q} : ~(pc[r] = "delete" /\ job[r].code = c)
        BY <3>1, <4>1 DEF IInv, Single
      <4> QED
        BY <1>2, <1>4, <3>3, <4>2
    <3> QED
      BY <3>2, <3>3
  <2>4. RedeemedOnce'
    BY <1>3, <1>6 DEF IInv, Single, RedeemedOnce
  <2> QED
    BY <1>3, <2>3, <2>4 DEF IInv, Single, codes
<1> QED
  BY <1>7, <1>8, <1>9, <1>10 DEF IInv

LEMMA DeleteCodeStep ==
    ASSUME IInv, NEW p \in Procs, DeleteCode(p)
    PROVE  IInv'
<1>1. PICK k : k = job[p].code
  OBVIOUS
<1>2. PICK e : e = job[p].email
  OBVIOUS
<1>3. PICK t : t = [email |-> e, until |-> now + ProofLife]
  OBVIOUS
<1>4. pc[p] = "delete" /\ k \in Codes /\ e \in Emails /\ drawn[k] = e /\ e # NoEmail /\ k # 0
  BY <1>1, <1>2, JobShape, ConstantsAssumption DEF DeleteCode, IInv, Knows, Codes
<1>5. /\ code' = [code EXCEPT ![e] = 0] /\ tokens' = tokens \cup {t}
      /\ redeemed' = [redeemed EXCEPT ![k] = @ + 1]
      /\ wiped' = wiped \cup ({code[e]} \ {0, k})
      /\ Finish(p)
      /\ UNCHANGED <<now, expiry, mail, session, drawn, together, signed>>
  BY <1>1, <1>2, <1>3 DEF DeleteCode
<1>6. /\ pc' \in [Procs -> PCs] /\ job' \in [Procs -> Job] /\ pc'[p] = "idle"
      /\ \A q \in Procs \ {p} : pc'[q] = pc[q] /\ job'[q] = job[q]
  BY <1>5, FinishShape DEF IInv
<1>7. /\ code' \in [Emails -> Codes \cup {0}] /\ redeemed' \in [Codes -> Nat]
      /\ code'[e] = 0 /\ redeemed'[k] = redeemed[k] + 1 /\ redeemed[k] \in Nat
      /\ \A d \in Emails \ {e} : code'[d] = code[d]
      /\ \A i \in Codes \ {k} : redeemed'[i] = redeemed[i]
  BY <1>4, <1>5 DEF IInv, TypeOK
<1>8. t.email = e /\ t \in [email : Emails, until : Nat]
  BY <1>3, <1>4, ConstantsAssumption DEF IInv, TypeOK
<1>9. wiped' \subseteq Codes /\ wiped \subseteq wiped'
  BY <1>4, <1>5 DEF IInv, TypeOK
<1>10. TypeOK'
  BY <1>5, <1>6, <1>7, <1>8, <1>9 DEF IInv, TypeOK
<1>11. InOrder'
  BY <1>5 DEF IInv, InOrder
<1>12. \A q \in Procs : Knows(q)'
  BY <1>6 DEF IInv, Knows
<1>13. Stored'
  BY <1>4, <1>5, <1>7, <1>8 DEF IInv, Stored
<1>14. Timed'
  BY <1>5 DEF IInv, Timed
<1>15. Single'
  <2>1. ASSUME NEW i \in Codes, redeemed'[i] > 0, NEW d \in Emails
        PROVE  code'[d] # i
    <3>1. CASE i = k
      <4>1. code[d] = k => drawn[k] = d
        BY <1>4 DEF IInv, Stored
      <4> QED
        BY <1>4, <1>7, <3>1, <4>1
    <3>2. CASE i # k
      BY <1>7, <2>1, <3>2 DEF IInv, Single, Codes
    <3> QED
      BY <3>1, <3>2
  <2>2. \A q \in Procs : pc'[q] = "delete" => q # p /\ pc[q] = "delete" /\ job'[q] = job[q]
    BY <1>6
  <2>3. k \notin together => redeemed[k] = 0 /\ \A q \in Procs \ {p} : ~(pc[q] = "delete" /\ job[q].code = k)
    BY <1>1, <1>4 DEF IInv, Single
  <2>4. ASSUME NEW c \in Codes \ together, NEW q \in Procs, pc'[q] = "delete", job'[q].code = c
        PROVE  /\ redeemed'[c] = 0
               /\ \A r \in Procs \ {q} : ~(pc'[r] = "delete" /\ job'[r].code = c)
    <3>1. q # p /\ pc[q] = "delete" /\ job[q].code = c
      BY <2>2, <2>4
    <3>2. c # k
      BY <2>3, <3>1
    <3>3. /\ redeemed[c] = 0
          /\ \A r \in Procs \ {q} : ~(pc[r] = "delete" /\ job[r].code = c)
      BY <3>1 DEF IInv, Single
    <3> QED
      BY <1>7, <2>2, <3>2, <3>3
  <2>5. \A c \in Codes \ together : redeemed'[c] <= 1
    BY <1>7, <2>3 DEF IInv, Single, RedeemedOnce
  <2> QED
    BY <1>5, <2>1, <2>4, <2>5 DEF Single, RedeemedOnce
<1>16. NewestStands'
  <2>1. ASSUME NEW c \in Codes, \A i \in Codes : drawn[i] = drawn[c] => i <= c,
               drawn[c] # NoEmail, now < expiry[c], redeemed'[c] = 0, c \notin wiped'
        PROVE  code'[drawn[c]] = c
    <3>1. c # k
      BY <1>7, <2>1
    <3>2. redeemed[c] = 0 /\ c \notin wiped
      BY <1>7, <1>9, <2>1, <3>1
    <3>3. code[drawn[c]] = c /\ drawn[c] \in Emails
      BY <2>1, <3>2 DEF IInv, NewestStands, TypeOK
    <3>4. drawn[c] # e
      <4>1. code[e] = c => c \in wiped'
        BY <1>5, <3>1, ConstantsAssumption DEF Codes
      <4> QED
        BY <2>1, <3>3, <4>1
    <3> QED
      BY <1>7, <3>3, <3>4
  <2> QED
    BY <1>5, <2>1 DEF NewestStands
<1> QED
  BY <1>10, <1>11, <1>12, <1>13, <1>14, <1>15, <1>16 DEF IInv

-----------------------------------------------------------------------------
(* Refresh tokens and the clock. *)

LEMMA SessionSteps ==
    ASSUME IInv,
           \/ \E p \in Procs, u \in Users : Login(p, u)
           \/ \E p \in Procs : KeepToken(p)
           \/ \E u \in Users : Logout(u)
    PROVE  IInv'
<1>1. ASSUME NEW p \in Procs, NEW u \in Users, Login(p, u)
      PROVE  IInv'
  <2>1. PICK n : n = NextLogin
    OBVIOUS
  <2>2. PICK j : j = [NoJob EXCEPT !.user = u, !.token = n]
    OBVIOUS
  <2>3. n \in Logins /\ \A t \in Logins : signed[t] # 0 <=> t < n
    BY <1>1, <2>1, NextLoginShape DEF Login, IInv
  <2>4. j \in Job /\ j.user = u /\ j.token = n
    BY <2>2, <2>3 DEF NoJob, Job
  <2>5. /\ signed' = [signed EXCEPT ![n] = u] /\ Goto(p, "keep", j)
        /\ UNCHANGED <<now, codes, mail, session, drawn, redeemed, together, wiped>>
    BY <1>1, <2>1, <2>2 DEF Login
  <2>6. /\ pc' \in [Procs -> PCs] /\ job' \in [Procs -> Job] /\ pc'[p] = "keep" /\ job'[p] = j
        /\ \A q \in Procs \ {p} : pc'[q] = pc[q] /\ job'[q] = job[q]
    BY <2>4, <2>5, GotoShape DEF IInv, PCs
  <2>7. /\ signed' \in [Logins -> Users \cup {0}] /\ signed'[n] = u /\ u # 0
        /\ \A t \in Logins \ {n} : signed'[t] = signed[t]
    BY <2>3, <2>5, ConstantsAssumption DEF IInv, TypeOK
  <2>8. TypeOK'
    BY <2>4, <2>5, <2>6, <2>7 DEF IInv, TypeOK, codes
  <2>9. InOrder'
    <3>1. n \in 0..MaxLogins
      BY <2>3, ConstantsAssumption DEF Logins
    <3>2. \A t \in Logins : signed'[t] # 0 <=> t <= n
      BY <2>3, <2>7 DEF Logins
    <3>3. \E m \in 0..MaxCodes : \A i \in Codes : drawn'[i] # NoEmail <=> i <= m
      BY <2>5 DEF IInv, InOrder
    <3> QED
      BY <3>1, <3>2, <3>3 DEF InOrder
  <2>10. \A q \in Procs : Knows(q)'
    BY <2>3, <2>4, <2>6 DEF IInv, Knows
  <2>11. Stored' /\ Timed' /\ NewestStands'
    BY <2>5 DEF IInv, Stored, Timed, NewestStands, codes
  <2>12. Single'
    <3>1. \A q \in Procs : pc'[q] = "delete" => q # p /\ pc[q] = "delete" /\ job'[q] = job[q]
      BY <2>6
    <3> QED
      BY <2>5, <3>1 DEF IInv, Single, RedeemedOnce, codes
  <2> QED
    BY <2>8, <2>9, <2>10, <2>11, <2>12 DEF IInv
<1>2. ASSUME NEW p \in Procs, KeepToken(p)
      PROVE  IInv'
  <2>1. /\ pc[p] = "keep" /\ session' = [session EXCEPT ![job[p].user] = job[p].token] /\ Finish(p)
        /\ UNCHANGED <<now, codes, mail, drawn, redeemed, together, wiped, signed>>
    BY <1>2 DEF KeepToken
  <2>2. job[p].token \in Logins
    BY <2>1 DEF IInv, Knows
  <2>3. session' \in [Users -> Logins \cup {0}]
    BY <2>1, <2>2 DEF IInv, TypeOK
  <2>4. /\ pc' \in [Procs -> PCs] /\ job' \in [Procs -> Job] /\ pc'[p] = "idle"
        /\ \A q \in Procs \ {p} : pc'[q] = pc[q] /\ job'[q] = job[q]
    BY <2>1, FinishShape DEF IInv
  <2>5. TypeOK'
    BY <2>1, <2>3, <2>4 DEF IInv, TypeOK, codes
  <2>6. InOrder' /\ Stored' /\ Timed' /\ NewestStands'
    BY <2>1 DEF IInv, InOrder, Stored, Timed, NewestStands, codes
  <2>7. \A q \in Procs : Knows(q)'
    BY <2>4 DEF IInv, Knows
  <2>8. Single'
    <3>1. \A q \in Procs : pc'[q] = "delete" => q # p /\ pc[q] = "delete" /\ job'[q] = job[q]
      BY <2>4
    <3> QED
      BY <2>1, <3>1 DEF IInv, Single, RedeemedOnce, codes
  <2> QED
    BY <2>5, <2>6, <2>7, <2>8 DEF IInv
<1>3. ASSUME NEW u \in Users, Logout(u)
      PROVE  IInv'
  <2>1. /\ session' = [session EXCEPT ![u] = 0]
        /\ UNCHANGED <<now, codes, mail, requests, drawn, redeemed, together, wiped, signed>>
    BY <1>3 DEF Logout
  <2>2. TypeOK'
    BY <2>1 DEF IInv, TypeOK, codes, requests
  <2>3. InOrder' /\ Stored' /\ Timed' /\ NewestStands'
    BY <2>1 DEF IInv, InOrder, Stored, Timed, NewestStands, codes
  <2>4. Single' /\ \A q \in Procs : Knows(q)'
    BY <2>1 DEF IInv, Knows, Single, RedeemedOnce, codes, requests
  <2> QED
    BY <2>2, <2>3, <2>4 DEF IInv
<1> QED
  BY <1>1, <1>2, <1>3

LEMMA TickStep ==
    ASSUME IInv, Tick
    PROVE  IInv'
<1>1. /\ now < MaxTime /\ now' = now + 1
      /\ code' = [e \in Emails |-> IF code[e] # 0 /\ expiry[code[e]] <= now' THEN 0 ELSE code[e]]
      /\ tokens' \subseteq tokens
      /\ UNCHANGED <<expiry, mail, session, requests, history>>
  BY DEF Tick
<1>2. now \in Nat /\ now' \in 0..MaxTime
  BY <1>1, ConstantsAssumption DEF IInv, TypeOK
<1>3. /\ code' \in [Emails -> Codes \cup {0}]
      /\ \A e \in Emails : /\ code'[e] \in {0, code[e]}
                           /\ code[e] # 0 /\ now' < expiry[code[e]] => code'[e] = code[e]
  <2>1. \A e \in Emails : code[e] # 0 => expiry[code[e]] \in Nat
    BY DEF IInv, TypeOK
  <2> QED
    BY <1>1, <1>2, <2>1 DEF IInv, TypeOK
<1>4. TypeOK'
  BY <1>1, <1>2, <1>3 DEF IInv, TypeOK, requests, history
<1>5. InOrder' /\ \A p \in Procs : Knows(p)'
  BY <1>1 DEF IInv, InOrder, Knows, requests, history
<1>6. Stored'
  BY <1>1, <1>3 DEF IInv, Stored, history
<1>7. Timed'
  BY <1>1, <1>2, ConstantsAssumption DEF IInv, Timed, TypeOK
<1>8. Single'
  <2>1. \A k \in Codes : redeemed[k] > 0 => \A e \in Emails : code'[e] # k
    BY <1>3 DEF IInv, Single, Codes
  <2> QED
    BY <1>1, <2>1 DEF IInv, Single, RedeemedOnce, requests, history
<1>9. NewestStands'
  <2>1. ASSUME NEW k \in Codes, \A i \in Codes : drawn[i] = drawn[k] => i <= k,
               drawn[k] # NoEmail, now' < expiry[k], redeemed[k] = 0, k \notin wiped
        PROVE  code'[drawn[k]] = k
    <3>1. now < expiry[k]
      BY <1>1, <1>2, <2>1 DEF IInv, TypeOK
    <3>2. code[drawn[k]] = k /\ drawn[k] \in Emails
      BY <2>1, <3>1 DEF IInv, NewestStands, TypeOK
    <3>3. k # 0
      BY DEF Codes
    <3> QED
      BY <1>3, <2>1, <3>2, <3>3
  <2> QED
    BY <1>1, <2>1 DEF NewestStands, history
<1> QED
  BY <1>4, <1>5, <1>6, <1>7, <1>8, <1>9 DEF IInv

LEMMA Stutters == IInv /\ UNCHANGED vars => IInv'
<1> SUFFICES ASSUME IInv, UNCHANGED vars
             PROVE  IInv'
  OBVIOUS
<1>1. TypeOK' /\ InOrder' /\ Stored'
  BY DEF vars, codes, requests, history, IInv, TypeOK, InOrder, Stored
<1>2. Timed' /\ NewestStands'
  BY DEF vars, codes, requests, history, IInv, Timed, NewestStands
<1>3. Single' /\ \A p \in Procs : Knows(p)'
  BY DEF vars, codes, requests, history, IInv, Single, RedeemedOnce, Knows
<1> QED
  BY <1>1, <1>2, <1>3 DEF IInv

-----------------------------------------------------------------------------
(* The results. *)

LEMMA StepKeeps == IInv /\ [Next]_vars => IInv'
<1> SUFFICES ASSUME IInv, [Next]_vars
             PROVE  IInv'
  OBVIOUS
<1>1. CASE Tick \/ UNCHANGED vars
  BY <1>1, TickStep, Stutters
<1>2. ASSUME NEW p \in Procs, Request(p)
      PROVE  IInv'
  BY <1>2, MoveSteps, VerifyStep, SessionSteps DEF Request
<1>3. ASSUME NEW p \in Procs, Step(p)
      PROVE  IInv'
  BY <1>3, SetCodeStep, MailSteps, MoveSteps, DeleteCodeStep, SessionSteps DEF Step
<1>4. CASE \E u \in Users : Logout(u)
  BY <1>4, SessionSteps
<1>5. CASE \E k \in Codes : MailArrives(k) \/ MailFails(k)
  BY <1>5, MailSteps
<1> QED
  BY <1>1, <1>2, <1>3, <1>4, <1>5 DEF Next

LEMMA Invariant == Spec => []IInv
  BY InitHolds, StepKeeps, PTL DEF Spec

\* The state keeps its shape, and a request about to publish or to delete a code holds one
\* drawn for its address (auth.service.ts:166-254).
THEOREM TypeCorrect == Spec => []TypeOK
<1>1. IInv => TypeOK
  BY DEF IInv
<1> QED
  BY <1>1, Invariant, PTL

\* A code is exchanged for one token unless two verifications hold it at once, for every
\* number of requests, addresses and codes (auth.service.ts:231-245).
THEOREM OneTokenPerCode == Spec => []RedeemedOnce
<1>1. IInv => RedeemedOnce
  BY DEF IInv, Single
<1> QED
  BY <1>1, Invariant, PTL

\* The newest code of an address is stored until it expires, is used or is deleted by a
\* verification of an older one, whatever the lives of codes (auth.service.ts:199-201, 245).
THEOREM NewestStaysGood == Spec => []NewestStands
<1>1. IInv => NewestStands
  BY DEF IInv
<1> QED
  BY <1>1, Invariant, PTL

\* The mail of the last retry comes when its code has expired, whenever the two delays add
\* up to the life of a code: with one, five and three minutes they do
\* (redis.constants.ts:37, rabbitmq.producer.service.ts:24-68).
THEOREM LastRetryTooLate ==
    ASSUME RetryDelay[1] + RetryDelay[2] >= CodeLife
    PROVE  Spec => []LastRetryInVain
<1>1. IInv => LastRetryInVain
  <2> SUFFICES ASSUME IInv, NEW k \in Codes, mail[k].stage = "waiting", mail[k].attempt = 3,
                      mail[k].at <= now
               PROVE  now >= expiry[k]
    BY DEF LastRetryInVain
  <2>1. expiry[k] + (RetryDelay[1] + RetryDelay[2]) <= mail[k].at + CodeLife
    BY DEF IInv, Timed, Waited
  <2>2. /\ expiry[k] \in Nat /\ mail[k].at \in Nat /\ now \in Nat /\ CodeLife \in Nat
        /\ RetryDelay[1] \in Nat /\ RetryDelay[2] \in Nat
    BY ConstantsAssumption DEF IInv, TypeOK, Mail
  <2> QED
    BY <2>1, <2>2
<1> QED
  BY <1>1, Invariant, PTL

-----------------------------------------------------------------------------
(* The refinement. *)

Asked == {e \in Emails : \E k \in Codes : drawn[k] = e}

Proven == {t.email : t \in tokens}

LEMMA StutterMaps ==
    ASSUME tokens' = tokens, drawn' = drawn
    PROVE  [Proof!Next]_(Proof!vars)
  BY DEF Proof!vars

LEMMA SetCodeMaps ==
    ASSUME IInv, NEW p \in Procs, SetCode(p)
    PROVE  Proof!Next
<1>1. PICK e : e = job[p].email
  OBVIOUS
<1>2. PICK k : k = NextCode
  OBVIOUS
<1>3. k \in Codes /\ drawn[k] = NoEmail /\ e \in Emails
  BY <1>1, <1>2, NextCodeShape, JobShape DEF IInv, SetCode
<1>4. drawn' = [drawn EXCEPT ![k] = e] /\ tokens' = tokens
  BY <1>1, <1>2 DEF SetCode
<1>5. drawn \in [Codes -> Emails \cup {NoEmail}]
  BY DEF IInv, TypeOK
<1>6. Asked' = Asked \cup {e}
  BY <1>3, <1>4, <1>5, ConstantsAssumption DEF Asked
<1>7. Proof!Ask(e)
  BY <1>4, <1>6 DEF Proof!Ask, Asked
<1> QED
  BY <1>3, <1>7 DEF Proof!Next

LEMMA DeleteCodeMaps ==
    ASSUME IInv, NEW p \in Procs, DeleteCode(p)
    PROVE  Proof!Next
<1>1. PICK e : e = job[p].email
  OBVIOUS
<1>2. PICK t : t = [email |-> e, until |-> now + ProofLife]
  OBVIOUS
<1>3. e \in Asked /\ e \in Emails
  BY <1>1, JobShape DEF IInv, Knows, DeleteCode, Asked
<1>4. tokens' = tokens \cup {t} /\ drawn' = drawn /\ t.email = e
  BY <1>1, <1>2 DEF DeleteCode
<1>5. Proven' = Proven \cup {e}
  BY <1>4 DEF Proven
<1>6. Proof!Prove(e)
  BY <1>3, <1>4, <1>5 DEF Proof!Prove, Asked, Proven
<1> QED
  BY <1>3, <1>6 DEF Proof!Next

LEMMA TickMaps ==
    ASSUME IInv, Tick
    PROVE  Proof!Next
<1>1. tokens' \subseteq tokens /\ drawn' = drawn
  BY DEF Tick, history
<1>2. PICK S : S = Proven \ Proven'
  OBVIOUS
<1>3. S \in SUBSET Emails
  BY <1>2 DEF Proven, IInv, TypeOK
<1>4. Proven' = Proven \ S
  BY <1>1, <1>2 DEF Proven
<1>5. Proof!Expire(S)
  BY <1>1, <1>4 DEF Proof!Expire, Proven
<1> QED
  BY <1>3, <1>5 DEF Proof!Next

\* Sending and verifying codes implements EmailProof for every number of requests and
\* addresses: an address counts as proven only after a code drawn for it was given back
\* (auth.service.ts:166-254).
THEOREM ImplementsProof == Spec => ProofSpec
<1>1. Init => Proof!Init
  <2> SUFFICES ASSUME Init
               PROVE  Proof!Init
    OBVIOUS
  <2>1. Asked = {}
    BY ConstantsAssumption DEF Init, Asked
  <2>2. Proven = {}
    BY DEF Init, Proven
  <2> QED
    BY <2>1, <2>2 DEF Proof!Init, Asked, Proven
<1>2. IInv /\ [Next]_vars => [Proof!Next]_(Proof!vars)
  <2> SUFFICES ASSUME IInv, [Next]_vars
               PROVE  [Proof!Next]_(Proof!vars)
    OBVIOUS
  <2>1. CASE Tick
    BY <2>1, TickMaps
  <2>2. ASSUME NEW p \in Procs, SetCode(p) \/ DeleteCode(p)
        PROVE  [Proof!Next]_(Proof!vars)
    BY <2>2, SetCodeMaps, DeleteCodeMaps
  <2>3. CASE UNCHANGED <<tokens, drawn>>
    BY <2>3, StutterMaps
  <2>4. ASSUME NEW p \in Procs, Request(p)
        PROVE  UNCHANGED <<tokens, drawn>>
    BY <2>4 DEF Request, SendEmail, Verify, Login, Refresh, codes, history
  <2>5. ASSUME NEW p \in Procs,
               Publish(p) \/ PublishFails(p) \/ KeepToken(p) \/ RefreshAnswer(p)
        PROVE  UNCHANGED <<tokens, drawn>>
    BY <2>5 DEF Publish, PublishFails, KeepToken, RefreshAnswer, codes, history
  <2>6. ASSUME \/ \E u \in Users : Logout(u)
               \/ \E k \in Codes : MailArrives(k) \/ MailFails(k)
               \/ UNCHANGED vars
        PROVE  UNCHANGED <<tokens, drawn>>
    BY <2>6 DEF Logout, MailArrives, MailFails, vars, codes, history
  <2> QED
    BY <2>1, <2>2, <2>3, <2>4, <2>5, <2>6 DEF Next, Step
<1> QED
  BY <1>1, <1>2, Invariant, PTL DEF Spec, ProofSpec, Proof!Spec

=============================================================================
