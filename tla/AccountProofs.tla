---------------------------- MODULE AccountProofs ----------------------------
(* Theorems about Account and their proofs. *)
EXTENDS Account, TLAPS

-----------------------------------------------------------------------------
(* Shapes. *)

LEMMA Placeholders == NoRow \in Row /\ NoJob \in Job /\ NoRow.verified = Null
<1>1. /\ (CHOOSE l \in Logins : TRUE) \in Logins
      /\ (CHOOSE t \in Texts : TRUE) \in Texts
  BY ConstantsAssumption
<1>2. NoRow \in Row /\ NoRow.verified = Null
  BY <1>1 DEF NoRow, Row
<1> QED
  BY <1>2 DEF NoJob, Job

LEMMA JobShape ==
    ASSUME TypeOK, NEW p \in Procs
    PROVE  /\ job[p] \in Job /\ job[p].row \in Row /\ job[p].base \in Row
           /\ job[p].touched \subseteq Columns /\ job[p].fresh \in {0, 1}
           /\ pc[p] \in {"find", "reload", "write"} => job[p].id \in exists /\ job[p].id \in Ids
<1>1. job[p] \in Job
  BY DEF TypeOK
<1> QED
  BY <1>1 DEF Job, TypeOK

\* A row is told by its columns.
LEMMA SameRow ==
    ASSUME NEW r \in Row, NEW s \in Row, \A c \in Columns : r[c] = s[c]
    PROVE  r = s
  BY DEF Row, Columns

LEMMA WrittenShape ==
    ASSUME TypeOK, NEW p \in Procs, pc[p] = "write"
    PROVE  /\ Written(p) \in Row
           /\ \A c \in Columns :
                Written(p)[c] = IF Differs(p, c) THEN job[p].row[c] ELSE row[job[p].id][c]
<1>1. job[p].row \in Row /\ row[job[p].id] \in Row
  BY JobShape DEF TypeOK
<1> QED
  BY <1>1 DEF Written, Row, Columns

LEMMA WantedShape ==
    ASSUME TypeOK, NEW p \in Procs, pc[p] = "write"
    PROVE  /\ Wanted(p) \in Row
           /\ \A c \in Columns :
                Wanted(p)[c] = IF c \in job[p].touched THEN job[p].row[c] ELSE wanted[job[p].id][c]
<1>1. job[p].row \in Row /\ wanted[job[p].id] \in Row
  BY JobShape DEF TypeOK
<1> QED
  BY <1>1 DEF Wanted, Row, Columns

-----------------------------------------------------------------------------
(* The inductive invariant. *)

\* A row whose stamp is for the address it has.
Stamped(r) == r.verified # Null => r.verified = r.email

\* What a request may hold at each of its points: a row to insert was verified for
\* its address; an entity keeps the login of its row, and unless another request wrote
\* the row since, equals it in the columns the request does not touch.
Fit(p) ==
    /\ pc[p] \in {"login", "insert"} =>
        Stamped(job[p].row) /\ job[p].row.verified \in asked \cup {Null}
    /\ pc[p] \in {"reload", "write"} =>
        /\ job[p].row.login = row[job[p].id].login
        /\ job[p].row.verified \in asked \cup {Null}
        /\ job[p].id \notin crossed => Stamped(job[p].row)
        /\ job[p].fresh = 1 => "verified" \in job[p].touched
        /\ p \notin late =>
            \A c \in Columns \ job[p].touched : job[p].row[c] = row[job[p].id][c]
    /\ pc[p] = "write" =>
        /\ job[p].base.login = row[job[p].id].login
        /\ p \notin late => job[p].base = row[job[p].id]

IInv ==
    /\ TypeOK
    /\ proven \subseteq asked
    /\ NoTwins
    /\ VerifiedMatches
    /\ EditsStand
    /\ \A p \in Procs : Fit(p)

LEMMA InitHolds == Init => IInv
<1> SUFFICES ASSUME Init
             PROVE  IInv
  OBVIOUS
<1>1. NoRow \in Row /\ NoJob \in Job /\ NoRow.verified = Null
  BY Placeholders
<1>2. asked = {} /\ proven = {}
  BY DEF Init, Proof!Init
<1>3. TypeOK
  BY <1>1, <1>2, ConstantsAssumption DEF Init, TypeOK, PCs
<1>4. NoTwins
  BY ConstantsAssumption DEF Init, NoTwins
<1>5. VerifiedMatches
  BY <1>1, ConstantsAssumption DEF Init, VerifiedMatches
<1>6. EditsStand
  BY DEF Init, EditsStand
<1>7. \A p \in Procs : Fit(p)
  BY DEF Init, Fit
<1> QED
  BY <1>2, <1>3, <1>4, <1>5, <1>6, <1>7 DEF IInv

-----------------------------------------------------------------------------
(* Steps that change no row. *)

LEMMA GotoShape ==
    ASSUME TypeOK, NEW p \in Procs, NEW point \in PCs, NEW j \in Job, Goto(p, point, j)
    PROVE  /\ pc' \in [Procs -> PCs] /\ job' \in [Procs -> Job]
           /\ pc'[p] = point /\ job'[p] = j
           /\ \A q \in Procs \ {p} : pc'[q] = pc[q] /\ job'[q] = job[q]
  BY DEF Goto, TypeOK

LEMMA BeginShape ==
    ASSUME TypeOK, NEW p \in Procs, Begin(p)
    PROVE  pc[p] = "idle" /\ requests' \in 0..MaxRequests
<1>1. requests \in 0..MaxRequests /\ MaxRequests \in Nat
  BY ConstantsAssumption DEF TypeOK
<1> QED
  BY <1>1 DEF Begin

\* The rows stay, and p goes on with what suits them.
LEMMA Moves ==
    ASSUME IInv, NEW p \in Procs, NEW point \in PCs, NEW j \in Job, Goto(p, point, j),
           point \in {"find", "reload", "write"} => j.id \in exists,
           requests' \in 0..MaxRequests,
           UNCHANGED <<table, proofs, wanted, overwritten, crossed>>,
           late' \in {late, late \ {p}},
           Fit(p)'
    PROVE  IInv'
<1>1. /\ pc' \in [Procs -> PCs] /\ job' \in [Procs -> Job]
      /\ pc'[p] = point /\ job'[p] = j
      /\ \A q \in Procs \ {p} : pc'[q] = pc[q] /\ job'[q] = job[q]
  BY GotoShape DEF IInv
<1>2. UNCHANGED <<exists, row, asked, proven, wanted, overwritten, crossed>>
  BY DEF table, proofs
<1>3. TypeOK'
  BY <1>1, <1>2 DEF TypeOK, IInv
<1>4. NoTwins' /\ VerifiedMatches' /\ EditsStand' /\ (proven \subseteq asked)'
  BY <1>2 DEF IInv, NoTwins, VerifiedMatches, EditsStand
<1>5. \A q \in Procs \ {p} : Fit(q)'
  BY <1>1, <1>2 DEF IInv, Fit
<1> QED
  BY <1>3, <1>4, <1>5 DEF IInv

LEMMA Quits ==
    ASSUME IInv, NEW p \in Procs, Quit(p)
    PROVE  IInv'
<1>1. NoJob \in Job /\ "idle" \in PCs
  BY Placeholders DEF PCs
<1>2. Goto(p, "idle", NoJob) /\ late' = late \ {p}
  BY DEF Quit
<1>3. UNCHANGED <<table, requests, proofs, wanted, overwritten, crossed>>
  BY DEF Quit
<1>4. Fit(p)'
  BY <1>1, <1>2, GotoShape DEF Fit, IInv
<1>5. requests' \in 0..MaxRequests
  BY <1>3 DEF IInv, TypeOK
<1> QED
  BY <1>1, <1>2, <1>3, <1>4, <1>5, Moves

\* An entity that is loaded and edited keeps the columns that are not touched.
LEMMA Edits ==
    ASSUME IInv, NEW p \in Procs, NEW i \in exists, NEW e \in Row, NEW S \in SUBSET Columns,
           NEW f \in {0, 1}, Edit(p, i, e, S, f),
           requests' \in 0..MaxRequests,
           e.login = row[i].login, e.verified \in asked \cup {Null},
           i \notin crossed => Stamped(e),
           f = 1 => "verified" \in S,
           \A c \in Columns \ S : e[c] = row[i][c]
    PROVE  IInv'
<1> DEFINE j == [NoJob EXCEPT !.id = i, !.row = e, !.touched = S, !.fresh = f]
<1>1. j \in Job /\ j.id = i /\ j.row = e /\ j.touched = S /\ j.fresh = f
  BY Placeholders DEF NoJob, Job, IInv, TypeOK
<1>2. Goto(p, "reload", j) /\ UNCHANGED <<table, proofs, history>> /\ "reload" \in PCs
  BY DEF Edit, PCs
<1> HIDE DEF j
<1>3. pc'[p] = "reload" /\ job'[p] = j
  BY <1>1, <1>2, GotoShape DEF IInv
<1>4. Fit(p)'
  BY <1>1, <1>2, <1>3 DEF Fit, Stamped, table, proofs, history
<1> QED
  BY <1>1, <1>2, <1>4, Moves DEF history

-----------------------------------------------------------------------------
(* Requests. *)

LEMMA RowShape ==
    ASSUME IInv, NEW i \in exists
    PROVE  /\ row[i] \in Row
           /\ row[i].verified \in asked \cup {Null}
           /\ i \notin crossed => Stamped(row[i])
  BY DEF IInv, TypeOK, VerifiedMatches, Stamped

LEMMA ReprofiledShape ==
    ASSUME NEW r \in Row, NEW t \in Texts, NEW w \in Texts \cup {Null}
    PROVE  /\ Reprofiled(r, t, w) \in Row
           /\ Reprofiled(r, t, w).login = r.login
           /\ Reprofiled(r, t, w).verified = r.verified
           /\ Reprofiled(r, t, w).email = r.email
           /\ \A c \in Columns \ ProfileColumns(w) : Reprofiled(r, t, w)[c] = r[c]
           /\ ProfileColumns(w) \subseteq Columns
<1>1. CASE w = Null
  BY <1>1 DEF Reprofiled, ProfileColumns, Row, Columns
<1>2. CASE w # Null
  BY <1>2 DEF Reprofiled, ProfileColumns, Row, Columns
<1> QED
  BY <1>1, <1>2

LEMMA RequestStep ==
    ASSUME IInv, NEW p \in Procs, Request(p)
    PROVE  IInv'
<1>1. proven \subseteq asked /\ proven \subseteq Emails
  BY DEF IInv, TypeOK
<1>2. NoRow \in Row /\ NoJob \in Job /\ NoRow.verified = Null
  BY Placeholders
<1>3. ASSUME NEW l \in Logins, NEW e \in Emails, NEW t \in Texts, Register(p, l, e, t)
      PROVE  IInv'
  <2> DEFINE r == VerifyEmail([NoRow EXCEPT !.login = l, !.email = e, !.password = t])
  <2>1. r \in Row /\ r.verified = e /\ r.email = e
    BY <1>2 DEF VerifyEmail, Row
  <2>2. [NoJob EXCEPT !.row = r] \in Job /\ [NoJob EXCEPT !.row = r].row = r
    <3> HIDE DEF r
    <3> QED
      BY <1>2, <2>1 DEF NoJob, Job
  <2> HIDE DEF r
  <2>3. /\ Goto(p, "login", [NoJob EXCEPT !.row = r]) /\ e \in proven /\ Begin(p)
        /\ UNCHANGED <<table, proofs, history>>
    BY <1>3 DEF Register, r
  <2>4. pc'[p] = "login" /\ job'[p].row = r
    BY <2>2, <2>3, GotoShape DEF IInv, PCs
  <2>5. Fit(p)'
    BY <1>1, <2>1, <2>3, <2>4 DEF Fit, Stamped, proofs
  <2>6. requests' \in 0..MaxRequests
    BY <2>3, BeginShape DEF IInv
  <2> QED
    BY <2>2, <2>3, <2>5, <2>6, Moves DEF PCs, history
<1>4. ASSUME NEW e \in Emails, NEW t \in Texts, ResetPassword(p, e, t)
      PROVE  IInv'
  <2>1. PICK i \in exists : Goto(p, "find", [NoJob EXCEPT !.id = i, !.row.password = t])
    BY <1>4 DEF ResetPassword
  <2>2. UNCHANGED <<table, proofs, history>> /\ Begin(p)
    BY <1>4 DEF ResetPassword
  <2>3. [NoJob EXCEPT !.id = i, !.row.password = t] \in Job
    BY <1>2 DEF NoJob, Job, Row, IInv, TypeOK
  <2>4. [NoJob EXCEPT !.id = i, !.row.password = t].id = i
    BY DEF NoJob
  <2>5. pc'[p] = "find"
    BY <2>1, <2>3, GotoShape DEF IInv, PCs
  <2>6. Fit(p)' /\ requests' \in 0..MaxRequests
    BY <2>2, <2>5, BeginShape DEF Fit, IInv
  <2> QED
    BY <2>1, <2>2, <2>3, <2>4, <2>6, Moves DEF PCs, history
<1>5. ASSUME NEW i \in Ids, NEW e \in Emails, UpdateEmail(p, i, e)
      PROVE  IInv'
  <2>1. /\ e \in proven /\ i \in exists /\ Begin(p)
        /\ Edit(p, i, VerifyEmail(ChangeEmail(row[i], e)), {"email", "verified"}, 1)
    BY <1>5 DEF UpdateEmail
  <2>2. row[i] \in Row
    BY <2>1, RowShape
  <2> DEFINE r == VerifyEmail(ChangeEmail(row[i], e))
  <2>3. /\ r \in Row /\ r.login = row[i].login /\ r.verified = e /\ r.email = e
        /\ \A c \in Columns \ {"email", "verified"} : r[c] = row[i][c]
    BY <2>2 DEF VerifyEmail, ChangeEmail, Row, Columns
  <2>4. {"email", "verified"} \in SUBSET Columns /\ requests' \in 0..MaxRequests
    BY <2>1, BeginShape DEF Columns, IInv
  <2> HIDE DEF r
  <2>5. Stamped(r) /\ r.verified \in asked \cup {Null}
    BY <1>1, <2>1, <2>3 DEF Stamped
  <2> QED
    BY <2>1, <2>3, <2>4, <2>5, Edits DEF r
<1>6. ASSUME NEW i \in Ids, NEW t \in Texts, NEW w \in Texts \cup {Null},
             UpdateProfile(p, i, t, w)
      PROVE  IInv'
  <2>1. i \in exists /\ Begin(p)
    BY <1>6 DEF UpdateProfile
  <2>2. /\ row[i] \in Row /\ row[i].verified \in asked \cup {Null}
        /\ i \notin crossed => Stamped(row[i])
        /\ requests' \in 0..MaxRequests
    BY <2>1, RowShape, BeginShape DEF IInv
  <2>3. PICK r : r = Reprofiled(row[i], t, w)
    OBVIOUS
  <2>4. /\ r \in Row /\ r.login = row[i].login
        /\ r.verified = row[i].verified /\ r.email = row[i].email
        /\ \A c \in Columns \ ProfileColumns(w) : r[c] = row[i][c]
        /\ ProfileColumns(w) \in SUBSET Columns
    BY <2>2, <2>3, ReprofiledShape
  <2>5. Edit(p, i, r, ProfileColumns(w), 0)
    BY <1>6, <2>3 DEF UpdateProfile
  <2> QED
    BY <2>1, <2>2, <2>4, <2>5, Edits DEF Stamped
<1>7. ASSUME NEW i \in Ids, DeleteAccount(p, i)
      PROVE  IInv'
  <2>1. i \in exists /\ Begin(p) /\ Edit(p, i, SoftDelete(row[i]), {"deleted"}, 0)
    BY <1>7 DEF DeleteAccount
  <2>2. /\ row[i] \in Row /\ row[i].verified \in asked \cup {Null}
        /\ i \notin crossed => Stamped(row[i])
        /\ requests' \in 0..MaxRequests
    BY <2>1, RowShape, BeginShape DEF IInv
  <2> DEFINE r == SoftDelete(row[i])
  <2>3. /\ r \in Row /\ r.login = row[i].login
        /\ r.verified = row[i].verified /\ r.email = row[i].email
        /\ \A c \in Columns \ {"deleted"} : r[c] = row[i][c]
        /\ {"deleted"} \in SUBSET Columns
    BY <2>2 DEF SoftDelete, Row, Columns
  <2> HIDE DEF r
  <2> QED
    BY <2>1, <2>2, <2>3, Edits DEF Stamped, r
<1>8. ASSUME NEW i \in Ids, NEW t \in Texts, NEW w \in Texts \cup {Null},
             NEW e \in Emails \cup {Null}, AdminUpdate(p, i, t, w, e)
      PROVE  IInv'
  <2>1. i \in exists /\ Begin(p)
    BY <1>8 DEF AdminUpdate
  <2>2. /\ row[i] \in Row /\ row[i].verified \in asked \cup {Null}
        /\ i \notin crossed => Stamped(row[i])
        /\ requests' \in 0..MaxRequests
    BY <2>1, RowShape, BeginShape DEF IInv
  <2>3. PICK r, S : r = Reprofiled(row[i], t, w) /\ S = ProfileColumns(w)
    OBVIOUS
  <2>4. /\ r \in Row /\ r.login = row[i].login
        /\ r.verified = row[i].verified /\ r.email = row[i].email
        /\ \A c \in Columns \ S : r[c] = row[i][c]
        /\ S \in SUBSET Columns
    BY <2>2, <2>3, ReprofiledShape
  <2>5. \/ Edit(p, i, r, S, 0)
        \/ Edit(p, i, ChangeEmail(r, e), S \cup {"email", "verified"}, 0) /\ e \in Emails
    BY <1>8, <2>3 DEF AdminUpdate
  <2>6. CASE Edit(p, i, r, S, 0)
    BY <2>1, <2>2, <2>4, <2>6, Edits DEF Stamped
  <2>7. CASE Edit(p, i, ChangeEmail(r, e), S \cup {"email", "verified"}, 0) /\ e \in Emails
    <3>1. PICK s, T : s = ChangeEmail(r, e) /\ T = S \cup {"email", "verified"}
      OBVIOUS
    <3>2. /\ s \in Row /\ s.login = row[i].login /\ s.verified = Null
          /\ \A c \in Columns \ {"email", "verified"} : s[c] = r[c]
      BY <2>4, <2>7, <3>1 DEF ChangeEmail, Row, Columns
    <3>3. T \in SUBSET Columns /\ \A c \in Columns \ T : s[c] = row[i][c]
      BY <2>4, <3>1, <3>2 DEF Columns
    <3>4. Edit(p, i, s, T, 0)
      BY <2>7, <3>1
    <3> QED
      BY <2>1, <2>2, <3>2, <3>3, <3>4, Edits DEF Stamped
  <2> QED
    BY <2>5, <2>6, <2>7
<1> QED
  BY <1>3, <1>4, <1>5, <1>6, <1>7, <1>8 DEF Request, GuestRequest, UserRequest, AdminRequest

-----------------------------------------------------------------------------
(* The steps of a request. *)

LEMMA LookupStep ==
    ASSUME IInv, NEW p \in Procs, RegisterLogin(p) \/ ResetLoad(p) \/ Reload(p)
    PROVE  IInv'
<1>1. requests \in 0..MaxRequests /\ job[p] \in Job /\ Fit(p)
  BY JobShape DEF IInv, TypeOK
<1>2. CASE RegisterLogin(p)
  <2>1. CASE Quit(p)
    BY <2>1, Quits
  <2>2. CASE ~ Quit(p)
    <3>1. Goto(p, "insert", job[p]) /\ UNCHANGED <<table, requests, proofs, history>> /\ pc[p] = "login"
      BY <1>2, <2>2 DEF RegisterLogin
    <3>2. pc'[p] = "insert" /\ job'[p] = job[p]
      BY <1>1, <3>1, GotoShape DEF IInv, PCs
    <3>3. Fit(p)' /\ requests' = requests
      BY <1>1, <3>1, <3>2 DEF Fit, Stamped, proofs
    <3> QED
      BY <1>1, <3>1, <3>3, Moves DEF PCs, history
  <2> QED
    BY <2>1, <2>2
<1>3. CASE ResetLoad(p)
  <2> DEFINE i == job[p].id
             r == [row[i] EXCEPT !.password = job[p].row.password]
  <2>1. /\ pc[p] = "find" /\ requests' = requests
        /\ Edit(p, i, r, {"password"}, 0)
    BY <1>3 DEF ResetLoad
  <2>2. i \in exists /\ job[p].row \in Row
    BY <2>1, JobShape DEF IInv
  <2>3. /\ row[i] \in Row /\ row[i].verified \in asked \cup {Null}
        /\ i \notin crossed => Stamped(row[i])
    BY <2>2, RowShape
  <2>4. /\ r \in Row /\ r.login = row[i].login
        /\ r.verified = row[i].verified /\ r.email = row[i].email
        /\ \A c \in Columns \ {"password"} : r[c] = row[i][c]
        /\ {"password"} \in SUBSET Columns
    <3> HIDE DEF i
    <3> QED
      BY <2>2, <2>3 DEF Row, Columns
  <2> HIDE DEF i, r
  <2> QED
    BY <1>1, <2>1, <2>2, <2>3, <2>4, Edits DEF Stamped
<1>4. CASE Reload(p)
  <2> DEFINE i == job[p].id
             j == [job[p] EXCEPT !.base = row[i]]
  <2>1. /\ pc[p] = "reload" /\ Goto(p, "write", j) /\ i \in exists
        /\ UNCHANGED <<table, requests, proofs, history>>
    BY <1>4, JobShape DEF Reload, IInv
  <2>2. row[i] \in Row
    BY <2>1, RowShape
  <2>3. /\ j \in Job /\ j.base = row[i] /\ j.row = job[p].row /\ j.id = i
        /\ j.touched = job[p].touched /\ j.fresh = job[p].fresh
    BY <1>1, <2>2 DEF Job
  <2> HIDE DEF j
  <2>4. pc'[p] = "write" /\ job'[p] = j
    BY <2>1, <2>3, GotoShape DEF IInv, PCs
  <2>5. Fit(p)'
    BY <1>1, <2>1, <2>3, <2>4 DEF Fit, Stamped, table, proofs, history
  <2>6. requests' \in 0..MaxRequests
    BY <1>1, <2>1
  <2> QED
    BY <2>1, <2>3, <2>5, <2>6, Moves DEF PCs, history
<1> QED
  BY <1>2, <1>3, <1>4

\* A new row has a userId and an address no other row has, and was verified.
LEMMA InsertStep ==
    ASSUME IInv, NEW p \in Procs, RegisterInsert(p)
    PROVE  IInv'
<1> DEFINE r == job[p].row
<1>1. CASE Quit(p)
  BY <1>1, Quits
<1>2. CASE ~ Quit(p)
  <2>1. /\ pc[p] = "insert"
        /\ ~ LoginTaken(r.login, exists) /\ ~ EmailTaken(r.email, exists)
        /\ Goto(p, "idle", NoJob)
        /\ UNCHANGED <<requests, proofs, late, overwritten, crossed>>
    BY <1>2 DEF RegisterInsert
  <2>2. PICK i \in Ids \ exists :
          /\ exists' = exists \cup {i}
          /\ row' = [row EXCEPT ![i] = r]
          /\ wanted' = [wanted EXCEPT ![i] = r]
    BY <1>2 DEF RegisterInsert
  <2>3. r \in Row /\ Stamped(r) /\ r.verified \in asked \cup {Null} /\ r \in Row
    BY <2>1, JobShape DEF IInv, Fit
  <2>4. /\ pc' \in [Procs -> PCs] /\ job' \in [Procs -> Job]
        /\ pc'[p] = "idle"
        /\ \A q \in Procs \ {p} : pc'[q] = pc[q] /\ job'[q] = job[q]
    BY <2>1, GotoShape, Placeholders DEF IInv, PCs
  <2>5. /\ row'[i] = r /\ wanted'[i] = r
        /\ \A k \in Ids \ {i} : row'[k] = row[k] /\ wanted'[k] = wanted[k]
        /\ row' \in [Ids -> Row] /\ wanted' \in [Ids -> Row] /\ exists' \subseteq Ids
        /\ exists \subseteq Ids
    <3> HIDE DEF r
    <3> QED
      BY <2>2, <2>3 DEF IInv, TypeOK
  <2>6. UNCHANGED <<asked, proven>>
    BY <2>1 DEF proofs
  <2> HIDE DEF r
  <2>7. TypeOK'
    BY <2>1, <2>2, <2>4, <2>5, <2>6 DEF IInv, TypeOK
  <2>8. NoTwins'
    <3> SUFFICES ASSUME NEW k \in exists', NEW l \in exists', k # l
                 PROVE  /\ row'[k].login # row'[l].login
                        /\ row'[k].email = Null \/ row'[k].email # row'[l].email
      BY DEF NoTwins
    <3>1. \A m \in exists : row[m].login # r.login /\ (r.email = Null \/ row[m].email # r.email)
      BY <2>1 DEF LoginTaken, EmailTaken
    <3>2. CASE k \in exists /\ l \in exists
      BY <2>2, <2>5, <3>2 DEF IInv, NoTwins
    <3>3. CASE k = i /\ l \in exists
      BY <2>2, <2>5, <3>1, <3>3
    <3>4. CASE l = i /\ k \in exists
      BY <2>2, <2>5, <3>1, <3>4
    <3> QED
      BY <2>2, <3>2, <3>3, <3>4
  <2>9. VerifiedMatches'
    BY <2>1, <2>2, <2>3, <2>5, <2>6 DEF IInv, VerifiedMatches, Stamped
  <2>10. EditsStand'
    BY <2>1, <2>2, <2>5 DEF IInv, EditsStand
  <2>11. \A q \in Procs : Fit(q)'
    <3>1. ASSUME NEW q \in Procs, q # p
          PROVE  Fit(q)'
      <4>1. pc[q] \in {"reload", "write"} => row'[job[q].id] = row[job[q].id]
        BY <2>2, <2>5, JobShape DEF IInv
      <4>2. Fit(q)
        BY DEF IInv
      <4> QED
        BY <2>1, <2>4, <2>6, <3>1, <4>1, <4>2 DEF Fit
    <3> QED
      BY <2>4, <3>1 DEF Fit
  <2> QED
    BY <2>6, <2>7, <2>8, <2>9, <2>10, <2>11 DEF IInv
<1> QED
  BY <1>1, <1>2

\* The UPDATE leaves the login alone, and leaves the row as the request has it unless
\* another request wrote it since save had read it.
LEMMA WriteStep ==
    ASSUME IInv, NEW p \in Procs, Write(p)
    PROVE  IInv'
<1>1. PICK i : i = job[p].id
  OBVIOUS
<1>2. PICK r : r = Written(p)
  OBVIOUS
<1>3. PICK w : w = Wanted(p)
  OBVIOUS
<1>4. pc[p] = "write" /\ i \in exists /\ i \in Ids /\ Fit(p)
  BY <1>1, JobShape DEF Write, IInv
<1>5. /\ r \in Row /\ w \in Row
      /\ \A c \in Columns : /\ r[c] = IF Differs(p, c) THEN job[p].row[c] ELSE row[i][c]
                            /\ w[c] = IF c \in job[p].touched THEN job[p].row[c] ELSE wanted[i][c]
  BY <1>1, <1>2, <1>3, <1>4, WrittenShape, WantedShape DEF IInv
<1>6. row[i] \in Row /\ job[p].row \in Row /\ job[p].base \in Row
  BY <1>4, RowShape, JobShape DEF IInv
<1>7. CASE Quit(p)
  BY <1>7, Quits
<1>8. CASE ~ Quit(p)
  <2>1. /\ ~ (r.email # row[i].email /\ EmailTaken(r.email, exists \ {i}))
        /\ row' = [row EXCEPT ![i] = r]
        /\ wanted' = [wanted EXCEPT ![i] = w]
        /\ late' = (late \ {p}) \cup
              {q \in Procs \ {p} : pc[q] \in {"reload", "write"} /\ job[q].id = i}
        /\ overwritten' = overwritten \cup
              {<<i, c>> : c \in IF p \in late THEN Mislaid(p) ELSE {}}
        /\ crossed' = IF row[i] # job[p].base THEN crossed \cup {i} ELSE crossed
        /\ Goto(p, "idle", NoJob)
        /\ UNCHANGED <<exists, requests, proofs>>
    BY <1>1, <1>2, <1>3, <1>8 DEF Write
  <2>2. UNCHANGED <<asked, proven>>
    BY <2>1 DEF proofs
  <2>3. /\ row'[i] = r /\ wanted'[i] = w
        /\ \A k \in Ids \ {i} : row'[k] = row[k] /\ wanted'[k] = wanted[k]
        /\ row' \in [Ids -> Row] /\ wanted' \in [Ids -> Row] /\ exists \subseteq Ids
    BY <1>4, <1>5, <2>1 DEF IInv, TypeOK
  <2>4. /\ pc' \in [Procs -> PCs] /\ job' \in [Procs -> Job]
        /\ pc'[p] = "idle"
        /\ \A q \in Procs \ {p} : pc'[q] = pc[q] /\ job'[q] = job[q]
    BY <2>1, GotoShape, Placeholders DEF IInv, PCs
  <2>5. TypeOK'
    <3>1. late' \subseteq Procs /\ crossed' \subseteq Ids
      BY <1>4, <2>1 DEF IInv, TypeOK
    <3>2. Mislaid(p) \subseteq Columns
      BY DEF Mislaid
    <3>3. overwritten' \subseteq Ids \X Columns
      BY <1>4, <2>1, <3>2 DEF IInv, TypeOK
    <3> QED
      BY <2>1, <2>2, <2>3, <2>4, <3>1, <3>3 DEF IInv, TypeOK
  <2>6. r.login = row[i].login
    <3>1. r["login"] = row[i]["login"]
      BY <1>1, <1>4, <1>5 DEF Differs, Columns, Fit
    <3> QED
      BY <3>1
  <2>7. NoTwins'
    <3> SUFFICES ASSUME NEW k \in exists, NEW l \in exists, k # l
                 PROVE  /\ row'[k].login # row'[l].login
                        /\ row'[k].email = Null \/ row'[k].email # row'[l].email
      BY <2>1 DEF NoTwins
    <3>1. /\ row[k].login # row[l].login
          /\ row[k].email = Null \/ row[k].email # row[l].email
          /\ row[l].email = Null \/ row[k].email # row[l].email
      BY DEF IInv, NoTwins
    <3>2. \A m \in exists \ {i} : r.email = row[i].email \/ r.email = Null \/ row[m].email # r.email
      BY <2>1 DEF EmailTaken
    <3>3. CASE k # i /\ l # i
      BY <2>3, <3>1, <3>3
    <3>4. CASE k = i
      BY <2>3, <2>6, <3>1, <3>2, <3>4
    <3>5. CASE l = i
      BY <2>3, <2>6, <3>1, <3>2, <3>5
    <3> QED
      BY <3>3, <3>4, <3>5
  <2>8. r.verified \in asked \cup {Null}
    <3>1. r["verified"] \in {job[p].row["verified"], row[i]["verified"]}
      BY <1>5 DEF Columns
    <3>2. row[i].verified \in asked \cup {Null} /\ job[p].row.verified \in asked \cup {Null}
      BY <1>4, RowShape DEF Fit
    <3> QED
      BY <3>1, <3>2
  <2>9. i \notin crossed' => r = job[p].row
    <3> SUFFICES ASSUME i \notin crossed'
                 PROVE  r = job[p].row
      OBVIOUS
    <3>1. row[i] = job[p].base
      BY <2>1
    <3>2. \A c \in Columns : r[c] = job[p].row[c]
      BY <1>5, <3>1 DEF Differs
    <3> QED
      BY <1>5, <1>6, <3>2, SameRow
  <2>10. VerifiedMatches'
    <3>1. i \notin crossed' => Stamped(r)
      BY <1>1, <1>4, <2>1, <2>9 DEF Fit
    <3>2. crossed \subseteq crossed'
      BY <2>1
    <3> QED
      BY <2>1, <2>2, <2>3, <2>8, <3>1, <3>2 DEF IInv, VerifiedMatches, Stamped
  <2>11. EditsStand'
    <3>1. ASSUME NEW c \in Columns, <<i, c>> \notin overwritten'
          PROVE  r[c] = w[c]
      <4>1. <<i, c>> \notin overwritten /\ (p \in late => c \notin Mislaid(p))
        BY <2>1, <3>1
      <4>2. row[i][c] = wanted[i][c]
        BY <1>4, <4>1 DEF IInv, EditsStand
      <4>3. CASE p \in late
        BY <1>5, <4>1, <4>2, <4>3 DEF Mislaid
      <4>4. CASE p \notin late
        <5>1. /\ job[p].base = row[i]
              /\ c \notin job[p].touched => job[p].row[c] = row[i][c]
              /\ job[p].fresh = 1 => "verified" \in job[p].touched
          BY <1>1, <1>4, <4>4 DEF Fit
        <5> QED
          BY <1>5, <4>2, <5>1 DEF Differs
      <4> QED
        BY <4>3, <4>4
    <3>2. ASSUME NEW k \in exists, NEW c \in Columns, <<k, c>> \notin overwritten', k # i
          PROVE  row'[k][c] = wanted'[k][c]
      <4>1. row[k][c] = wanted[k][c]
        BY <2>1, <3>2 DEF IInv, EditsStand
      <4> QED
        BY <2>3, <3>2, <4>1
    <3> QED
      BY <2>1, <2>3, <3>1, <3>2 DEF EditsStand
  <2>12. \A q \in Procs : Fit(q)'
    <3>1. ASSUME NEW q \in Procs, q # p
          PROVE  Fit(q)'
      <4>1. Fit(q) /\ (pc[q] \in {"reload", "write"} => job[q].id \in Ids)
        BY JobShape DEF IInv
      <4>2. pc[q] \in {"reload", "write"} =>
              /\ row'[job[q].id].login = row[job[q].id].login
              /\ q \notin late' => q \notin late /\ row'[job[q].id] = row[job[q].id]
        BY <2>1, <2>3, <2>6, <3>1, <4>1
      <4>3. crossed \subseteq crossed'
        BY <2>1
      <4> QED
        BY <2>2, <2>4, <3>1, <4>1, <4>2, <4>3 DEF Fit
    <3> QED
      BY <2>4, <3>1 DEF Fit
  <2> QED
    BY <2>2, <2>5, <2>7, <2>10, <2>11, <2>12 DEF IInv
<1> QED
  BY <1>7, <1>8

\* Proofs of addresses come and go; codes are only asked for.
LEMMA ProvingStep ==
    ASSUME IInv, Proving
    PROVE  IInv'
<1>1. asked \subseteq asked' /\ asked' \subseteq Emails /\ proven' \subseteq asked'
  BY DEF Proving, Proof!Next, Proof!Ask, Proof!Prove, Proof!Expire, IInv, TypeOK
<1>2. /\ UNCHANGED <<exists, row, pc, job, requests, wanted, late, overwritten, crossed>>
  BY DEF Proving, table, calls, history
<1>3. TypeOK'
  BY <1>1, <1>2 DEF IInv, TypeOK
<1>4. NoTwins' /\ VerifiedMatches' /\ EditsStand'
  BY <1>1, <1>2 DEF IInv, NoTwins, VerifiedMatches, EditsStand
<1>5. \A p \in Procs : Fit(p)'
  BY <1>1, <1>2 DEF IInv, Fit, Stamped
<1> QED
  BY <1>1, <1>3, <1>4, <1>5 DEF IInv

-----------------------------------------------------------------------------
(* Theorems. *)

\* What the theorems below rest on.
LEMMA Invariant == Spec => []IInv
<1>1. Init => IInv
  BY InitHolds
<1>2. IInv /\ [Next]_vars => IInv'
  <2> SUFFICES ASSUME IInv, [Next]_vars
               PROVE  IInv'
    OBVIOUS
  <2>1. CASE Next
    BY <2>1, RequestStep, LookupStep, InsertStep, WriteStep, ProvingStep DEF Next, Step
  <2>2. CASE UNCHANGED vars
    BY <2>2 DEF vars, table, calls, proofs, history, IInv, TypeOK, NoTwins, VerifiedMatches,
                EditsStand, Fit, Stamped
  <2> QED
    BY <2>1, <2>2
<1> QED
  BY <1>1, <1>2, PTL DEF Spec

\* The state keeps its shape, and a request saves only rows that exist.
THEOREM TypeCorrect == Spec => []TypeOK
<1>1. IInv => TypeOK
  BY DEF IInv
<1> QED
  BY <1>1, Invariant, PTL

\* Two accounts share neither a userId nor an address
\* (auth.service.ts:97-112, user.entity.ts:28-30, 57-59).
THEOREM AccountsDiffer == Spec => []NoTwins
<1>1. IInv => NoTwins
  BY DEF IInv
<1> QED
  BY <1>1, Invariant, PTL

\* An account counts as verified for the address it has, unless a save was crossed, and
\* only for addresses a code was sent to
\* (user.entity.ts:130-143, update-user-email.usecase.ts:24-34).
THEOREM VerifiedForItsAddress == Spec => []VerifiedMatches
<1>1. IInv => VerifiedMatches
  BY DEF IInv
<1> QED
  BY <1>1, Invariant, PTL

\* What accepted requests changed stands, an administrator's new password included, in
\* every column that no save older than another's write has mislaid
\* (update-user-profile.usecase.ts:30-45, admin-update-user.usecase.ts:32-58,
\* delete-account.usecase.ts:18-20).
THEOREM NoEditLost == Spec => []EditsStand
<1>1. IInv => EditsStand
  BY DEF IInv
<1> QED
  BY <1>1, Invariant, PTL

=============================================================================
