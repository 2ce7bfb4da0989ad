------------------------------- MODULE Account -------------------------------
(***************************************************************************)
(* The accounts of users: AuthService.register and resetPassword, and the  *)
(* use cases of src/modules/user, over the table User.  Whether an e-mail  *)
(* address is proven comes from EmailProof, which Auth implements.         *)
(*                                                                         *)
(* None of these requests opens a transaction.  Each finds the entity,     *)
(* edits it in memory and calls repository.save, which reads the row again *)
(* and then writes the columns that differ from what it read.  Every query *)
(* is a step; the unique indexes of the table are checked by the writes.   *)
(***************************************************************************)
EXTENDS Integers

CONSTANTS
    Procs,        \* requests that may be in flight at once
    Ids,          \* the ids the auto-increment gives: 1..n
    Logins,       \* the userIds people choose
    Emails,       \* addresses
    Texts,        \* values of the password and of the profile columns
    Legacy,       \* rows that are older than the e-mail column
    MaxRequests   \* bound: how many requests are made

ASSUME ConstantsAssumption ==
    /\ Ids \subseteq Nat \ {0}
    /\ Legacy \subseteq Ids
    /\ \A i, k \in Legacy : i = k
    /\ MaxRequests \in Nat
    /\ Texts # {}
    /\ Logins # {}

VARIABLES
    exists,      \* the ids that have a row
    row,         \* the committed columns of each row
    pc,          \* where each request stands
    job,         \* what each request remembers
    requests,    \* requests made so far
    asked,       \* addresses a verification code was drawn for
    proven,      \* addresses with a valid verification token
    wanted,      \* history: each row as the accepted requests wanted it
    late,        \* history: requests whose entity another request has since written
    overwritten, \* history: <<row, column>> a late request wrote without having edited
                 \* it, or edited without writing it
    crossed      \* history: rows written between the read and the write of a save

table == <<exists, row>>
calls == <<pc, job, requests>>
proofs == <<asked, proven>>
history == <<wanted, late, overwritten, crossed>>
vars == <<table, calls, proofs, history>>

-----------------------------------------------------------------------------
(* The shape of the data. *)

Null == "null"

\* The stamp emailVerifiedAt is represented by the address it was set for; name,
\* group, phone, birth, gender and rank are one column.
Row == [login : Logins, password : Texts, email : Emails \cup {Null},
        verified : Emails \cup {Null}, deleted : {0, 1}, profile : Texts]

Columns == {"login", "password", "email", "verified", "deleted", "profile"}

NoRow == [login |-> CHOOSE l \in Logins : TRUE, password |-> CHOOSE t \in Texts : TRUE,
          email |-> Null, verified |-> Null, deleted |-> 0,
          profile |-> CHOOSE t \in Texts : TRUE]

(* "login"   address free, userId not looked up          (register)
   "insert"  userId free too, row not inserted           (register)
   "find"    owner of the address found, not loaded      (resetPassword)
   "reload"  entity loaded and edited, save not begun
   "write"   save has read the row again *)
PCs == {"idle", "login", "insert", "find", "reload", "write"}

\* fresh: the stamp emailVerifiedAt was set anew, and always differs.
Job == [id : Ids \cup {0}, row : Row, base : Row, touched : SUBSET Columns,
        fresh : {0, 1}]

NoJob == [id |-> 0, row |-> NoRow, base |-> NoRow, touched |-> {}, fresh |-> 0]

Proof == INSTANCE EmailProof WITH asked <- asked, proven <- proven

Init ==
    /\ exists = Legacy
    /\ row = [i \in Ids |-> NoRow]
    /\ pc = [p \in Procs |-> "idle"]
    /\ job = [p \in Procs |-> NoJob]
    /\ requests = 0
    /\ Proof!Init
    /\ wanted = row
    /\ late = {}
    /\ overwritten = {}
    /\ crossed = {}

-----------------------------------------------------------------------------
(* Helpers. *)

Goto(p, point, j) ==
    /\ pc' = [pc EXCEPT ![p] = point]
    /\ job' = [job EXCEPT ![p] = j]

\* A request that ends, or is refused, without writing.
Quit(p) ==
    /\ Goto(p, "idle", NoJob)
    /\ late' = late \ {p}
    /\ UNCHANGED <<table, requests, proofs, wanted, overwritten, crossed>>

Begin(p) ==
    /\ pc[p] = "idle"
    /\ requests < MaxRequests
    /\ requests' = requests + 1

\* The unique indexes User_userId_key and IDX_User_email.
LoginTaken(l, S) == \E i \in S : row[i].login = l

EmailTaken(e, S) == e # Null /\ \E i \in S : row[i].email = e

\* The entity of i is loaded, and the columns in S become those of e in memory.
Edit(p, i, e, S, fresh) ==
    /\ Goto(p, "reload", [NoJob EXCEPT !.id = i, !.row = e, !.touched = S, !.fresh = fresh])
    /\ UNCHANGED <<table, proofs, history>>

-----------------------------------------------------------------------------
(* The methods of the entity User. *)

\* changeEmail: the address changes and counts as not verified.
ChangeEmail(r, e) == [r EXCEPT !.email = e, !.verified = Null]

\* verifyEmail: the stamp is set.
VerifyEmail(r) == [r EXCEPT !.verified = r.email]

SoftDelete(r) == [r EXCEPT !.deleted = 1]

-----------------------------------------------------------------------------
(* register *)

\* The verification token is valid for the address, and nobody has the address.
Register(p, l, e, t) ==
    /\ Begin(p)
    /\ e \in proven
    /\ ~EmailTaken(e, exists)
    /\ Goto(p, "login", [NoJob EXCEPT !.row = VerifyEmail([NoRow EXCEPT
                             !.login = l, !.email = e, !.password = t])])
    /\ UNCHANGED <<table, proofs, history>>

RegisterLogin(p) ==
    /\ pc[p] = "login"
    /\ IF LoginTaken(job[p].row.login, exists)
       THEN Quit(p)
       ELSE Goto(p, "insert", job[p]) /\ UNCHANGED <<table, requests, proofs, history>>

\* Variant: no unique index, only the two lookups before.
RegisterInsert_Unindexed(p) ==
    /\ pc[p] = "insert"
    /\ \E i \in Ids \ exists :
        /\ \A k \in Ids : k < i => k \in exists
        /\ exists' = exists \cup {i}
        /\ row' = [row EXCEPT ![i] = job[p].row]
        /\ wanted' = [wanted EXCEPT ![i] = job[p].row]
    /\ Goto(p, "idle", NoJob)
    /\ UNCHANGED <<requests, proofs, late, overwritten, crossed>>

\* The INSERT, which fails on a userId or an address that is taken by now.
RegisterInsert(p) ==
    /\ pc[p] = "insert"
    /\ LET r == job[p].row IN
        IF LoginTaken(r.login, exists) \/ EmailTaken(r.email, exists)
        THEN Quit(p)
        ELSE /\ \E i \in Ids \ exists :
                 /\ \A k \in Ids : k < i => k \in exists
                 /\ exists' = exists \cup {i}
                 /\ row' = [row EXCEPT ![i] = r]
                 /\ wanted' = [wanted EXCEPT ![i] = r]
             /\ Goto(p, "idle", NoJob)
             /\ UNCHANGED <<requests, proofs, late, overwritten, crossed>>

-----------------------------------------------------------------------------
(* The requests that find, edit and save. *)

\* UpdateUserEmailUseCase: the token proves the new address.
UpdateEmail(p, i, e) ==
    /\ Begin(p)
    /\ e \in proven
    /\ i \in exists
    /\ Edit(p, i, VerifyEmail(ChangeEmail(row[i], e)), {"email", "verified"}, 1)

\* The row r with new profile columns and, unless w is Null, a new password.
Reprofiled(r, t, w) ==
    [r EXCEPT !.profile = t, !.password = IF w = Null THEN @ ELSE w]

ProfileColumns(w) == {"profile"} \cup (IF w = Null THEN {} ELSE {"password"})

\* UpdateUserProfileUseCase, with or without a new password.
UpdateProfile(p, i, t, w) ==
    /\ Begin(p)
    /\ i \in exists
    /\ Edit(p, i, Reprofiled(row[i], t, w), ProfileColumns(w), 0)

\* Variant: an address the administrator sets keeps the old stamp.
AdminUpdate_KeepStamp(p, i, t, w, e) ==
    /\ Begin(p)
    /\ i \in exists
    /\ LET r == Reprofiled(row[i], t, w) IN
        IF e = Null \/ e = row[i].email
        THEN Edit(p, i, r, ProfileColumns(w), 0)
        ELSE Edit(p, i, [r EXCEPT !.email = e], ProfileColumns(w) \cup {"email"}, 0)

\* AdminUpdateUserUseCase: a new password if one is set, rank and profile, and an
\* address that need not be proven.  The entity is loaded before the password is hashed.
AdminUpdate(p, i, t, w, e) ==
    /\ Begin(p)
    /\ i \in exists
    /\ LET r == Reprofiled(row[i], t, w) IN
        IF e = Null \/ e = row[i].email
        THEN Edit(p, i, r, ProfileColumns(w), 0)
        ELSE Edit(p, i, ChangeEmail(r, e), ProfileColumns(w) \cup {"email", "verified"}, 0)

\* DeleteAccountUseCase: a flag; the row stays.
DeleteAccount(p, i) ==
    /\ Begin(p)
    /\ i \in exists
    /\ Edit(p, i, SoftDelete(row[i]), {"deleted"}, 0)

\* resetPassword: the token proves the address, and some row has it ...
ResetPassword(p, e, t) ==
    /\ Begin(p)
    /\ e \in proven
    /\ \E i \in exists :
        /\ row[i].email = e
        /\ Goto(p, "find", [NoJob EXCEPT !.id = i, !.row.password = t])
    /\ UNCHANGED <<table, proofs, history>>

\* ... which is loaded by its id and given the new password.
ResetLoad(p) ==
    /\ pc[p] = "find"
    /\ UNCHANGED requests
    /\ LET i == job[p].id IN
        Edit(p, i, [row[i] EXCEPT !.password = job[p].row.password], {"password"}, 0)

-----------------------------------------------------------------------------
(* repository.save *)

\* The row is read again; a request whose entity equals it writes nothing.
Differs(p, c) == job[p].row[c] # job[p].base[c] \/ (c = "verified" /\ job[p].fresh = 1)

Reload(p) ==
    /\ pc[p] = "reload"
    /\ Goto(p, "write", [job[p] EXCEPT !.base = row[job[p].id]])
    /\ UNCHANGED <<table, requests, proofs, history>>

\* Variant: the UPDATE writes every column of the entity.
Written_AllColumns(p) == job[p].row

\* What the UPDATE makes of the row.
Written(p) ==
    [c \in Columns |-> IF Differs(p, c) THEN job[p].row[c] ELSE row[job[p].id][c]]

Wanted(p) ==
    [c \in Columns |-> IF c \in job[p].touched THEN job[p].row[c]
                       ELSE wanted[job[p].id][c]]

\* The columns the UPDATE writes though the request did not edit them, or leaves alone
\* though it did: they changed between the loading of the entity and save's read.
Mislaid(p) == {c \in Columns : Differs(p, c) # (c \in job[p].touched)}

\* The UPDATE fails when another row has the address.
Write(p) ==
    /\ pc[p] = "write"
    /\ LET i == job[p].id
           r == Written(p)
       IN
        IF r.email # row[i].email /\ EmailTaken(r.email, exists \ {i})
        THEN Quit(p)
        ELSE /\ row' = [row EXCEPT ![i] = r]
             /\ wanted' = [wanted EXCEPT ![i] = Wanted(p)]
             /\ late' = (late \ {p}) \cup
                    {q \in Procs \ {p} : pc[q] \in {"reload", "write"} /\ job[q].id = i}
             /\ overwritten' = overwritten \cup
                    {<<i, c>> : c \in IF p \in late THEN Mislaid(p) ELSE {}}
             /\ crossed' = IF row[i] # job[p].base THEN crossed \cup {i} ELSE crossed
             /\ Goto(p, "idle", NoJob)
             /\ UNCHANGED <<exists, requests, proofs>>

-----------------------------------------------------------------------------

(* The controllers: of anybody, of the user, of administrators. *)

GuestRequest(p) ==
    \/ \E l \in Logins, e \in Emails, t \in Texts : Register(p, l, e, t)
    \/ \E e \in Emails, t \in Texts : ResetPassword(p, e, t)

UserRequest(p) ==
    \/ \E i \in Ids, e \in Emails : UpdateEmail(p, i, e)
    \/ \E i \in Ids, t \in Texts, w \in Texts \cup {Null} : UpdateProfile(p, i, t, w)
    \/ \E i \in Ids : DeleteAccount(p, i)

\* Every field is optional: w is Null without a new password, e without an address.
AdminRequest(p) ==
    \E i \in Ids, t \in Texts, w \in Texts \cup {Null}, e \in Emails \cup {Null} :
        AdminUpdate(p, i, t, w, e)

Request(p) ==
    \/ GuestRequest(p)
    \/ UserRequest(p)
    \/ AdminRequest(p)

Step(p) ==
    \/ RegisterLogin(p)
    \/ RegisterInsert(p)
    \/ ResetLoad(p)
    \/ Reload(p)
    \/ Write(p)

\* Addresses are proven, and proofs expire, as EmailProof says.
Proving ==
    /\ Proof!Next
    /\ UNCHANGED <<table, calls, history>>

Next ==
    \/ \E p \in Procs : Request(p) \/ Step(p)
    \/ Proving

Spec == Init /\ [][Next]_vars

-----------------------------------------------------------------------------
(* Properties. *)

\* The shape of the state.
TypeOK ==
    /\ exists \subseteq Ids
    /\ row \in [Ids -> Row]
    /\ pc \in [Procs -> PCs]
    /\ job \in [Procs -> Job]
    /\ requests \in 0..MaxRequests
    /\ asked \subseteq Emails
    /\ proven \subseteq Emails
    /\ wanted \in [Ids -> Row]
    /\ late \subseteq Procs
    /\ overwritten \subseteq Ids \X Columns
    /\ crossed \subseteq Ids
    /\ \A p \in Procs : pc[p] \in {"find", "reload", "write"} => job[p].id \in exists

\* Two accounts share neither a userId nor an address, whichever of two requests
\* that looked them up at the same time writes first
\* (auth.service.ts:97-112, user.entity.ts:28-30, 57-59).
NoTwins ==
    \A i, k \in exists : i # k =>
        /\ row[i].login # row[k].login
        /\ row[i].email = Null \/ row[i].email # row[k].email

\* An account that counts as verified was verified for the address it has, unless
\* another request wrote its row between the read and the write of a save; and none
\* is ever stamped for an address that no code was sent to
\* (user.entity.ts:130-143, update-user-email.usecase.ts:24-34,
\* admin-update-user.usecase.ts:45-59, auth.service.ts:91-119).
VerifiedMatches ==
    \A i \in exists : row[i].verified # Null =>
        /\ row[i].verified \in asked
        /\ i \notin crossed => row[i].verified = row[i].email

\* What accepted requests changed stands, column by column, a deletion included.  The
\* exception is narrow: a save that reads the row after another request has written it,
\* and whose entity is older than that write, may undo it in the columns it did not edit
\* itself, and may omit its own edit of a column it read back with that very value; it
\* leaves the row's other columns as they were wanted (update-user-profile.usecase.ts:30-45,
\* admin-update-user.usecase.ts:32-58, delete-account.usecase.ts:18-20).
EditsStand ==
    \A i \in exists, c \in Columns :
        <<i, c>> \notin overwritten => row[i][c] = wanted[i][c]

=============================================================================
