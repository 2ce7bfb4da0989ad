------------------------------- MODULE Records -------------------------------
(***************************************************************************)
(* The services over single rows: NoticeService, TermService,              *)
(* ConsentService, the push tokens and the system configuration.  Each     *)
(* finds a row, edits the entity in memory and calls repository.save.      *)
(*                                                                         *)
(* save (of TypeORM, external) reads the row again by its primary key and  *)
(* then updates the columns that differ, or inserts the entity when the    *)
(* row is gone: a save that overlaps a delete brings the row back.         *)
(***************************************************************************)
EXTENDS Integers

CONSTANTS
    Procs,      \* requests that may be in flight at once
    Notices, Terms, Tokens,
    Users,      \* the users, whose rows are never removed
    Retreats,   \* ids a retreat may have
    Values,     \* contents of a row
    MaxRequests \* bound: how many requests are made

ASSUME RecordsAssumption ==
    /\ Users \subseteq Nat \ {0}
    /\ Retreats \subseteq Nat \ {0}
    /\ Values # {}

VARIABLES
    record,      \* the committed row of each key, or Absent
    drawn,       \* ids the auto-increment has given to rows of each key
    retreats,    \* the retreats there are
    pc,         \* where each request stands
    job,        \* what each request remembers
    requests,    \* requests made so far
    wanted,      \* history: each row as the accepted requests wanted it
    late,        \* history: requests whose entity another request has since written
    overwritten  \* history: rows a late request has written

vars == <<record, drawn, retreats, pc, job, requests, wanted, late, overwritten>>

-----------------------------------------------------------------------------
(* The shape of the data. *)

None == 0

\* The columns of a notice, of a term, of a consent or of the configuration are one
\* value but for what refers to other rows: ref is the user of a token, or the retreat the
\* configuration selects, and term the term it selects.
Content == [value : Values, ref : {None} \cup Users \cup Retreats, term : {None} \cup Terms]

Fields == {"value", "ref", "term"}

Default == [value |-> CHOOSE v \in Values : TRUE, ref |-> None, term |-> None]

NoticeKeys == {"notice"} \X Notices
TermKeys == {"term"} \X Terms
TokenKeys == {"token"} \X Tokens
ConsentKeys == {"consent"} \X Users
Config == <<"config", 1>>

Keys == NoticeKeys \cup TermKeys \cup TokenKeys \cup ConsentKeys \cup {Config}

Absent == [id |-> 0, row |-> Default]

RecordType == [id : Nat, row : Content]

(* "selected"  selection of the configuration validated, nothing loaded
   "missing"   no configuration found, the default one is to be saved
   "created"   save of the default configuration has looked for the row
   "insert"    no such token found, a new one is to be saved
   "reload"    entity edited, save not begun
   "write"     save has read the row again *)
PCs == {"idle", "selected", "missing", "created", "insert", "reload", "write"}

\* new: the entity; base: the row that save has read; command: what the request asked
\* for, in the fields of touched.
Job == [key : Keys, new : RecordType, base : RecordType,
        touched : SUBSET Fields, command : Content]

NoJob == [key |-> Config, new |-> Absent, base |-> Absent, touched |-> {},
          command |-> Default]

-----------------------------------------------------------------------------
(* Helpers. *)

Goto(p, point, j) ==
    /\ pc' = [pc EXCEPT ![p] = point]
    /\ job' = [job EXCEPT ![p] = j]

Begin(p) ==
    /\ pc[p] = "idle"
    /\ requests < MaxRequests
    /\ requests' = requests + 1

Still == UNCHANGED <<record, drawn, retreats, wanted, late, overwritten>>

Quit(p) ==
    /\ Goto(p, "idle", NoJob)
    /\ late' = late \ {p}
    /\ UNCHANGED <<record, drawn, retreats, requests, wanted, overwritten>>

\* A request that holds an entity of k, loaded or not found.
Holds(q, k) ==
    /\ pc[q] \notin {"idle", "selected"}
    /\ job[q].key = k

\* The statement that makes the row of k be r, for a request p or for nobody.
Put(p, k, r) ==
    /\ record' = [record EXCEPT ![k] = r]
    /\ late' = (late \ {p}) \cup {q \in Procs \ {p} : Holds(q, k)}
    /\ overwritten' = IF p \in late THEN overwritten \cup {k} ELSE overwritten

\* A row one statement writes or deletes, whatever it was.
PutAtOnce(p, k, r) ==
    /\ Begin(p)
    /\ Put(p, k, r)
    /\ wanted' = [wanted EXCEPT ![k] = r]
    /\ UNCHANGED <<pc, job, retreats>>

\* The entity of k is edited to c in memory, to save the fields S of command.
Edit(p, k, c, S, command) ==
    /\ Goto(p, "reload", [NoJob EXCEPT !.key = k, !.touched = S, !.command = command,
                              !.new = c])
    /\ Still

\* The row of k with field f set to v.
With(k, f, v) == [record[k] EXCEPT !.row[f] = v]

Only(f, v) == [Default EXCEPT ![f] = v]

Exists(k) == record[k].id # 0

-----------------------------------------------------------------------------
(* Notices *)

CreateNotice(p, k, v) ==
    /\ drawn[k] = 0
    /\ PutAtOnce(p, k, [id |-> 1, row |-> Only("value", v)])
    /\ drawn' = [drawn EXCEPT ![k] = 1]

UpdateNotice(p, k, v) ==
    /\ Begin(p)
    /\ Exists(k)
    /\ Edit(p, k, With(k, "value", v), {"value"}, Only("value", v))

DeleteNotice(p, k) ==
    /\ Exists(k)
    /\ PutAtOnce(p, k, Absent)
    /\ UNCHANGED drawn

-----------------------------------------------------------------------------
(* Terms, which are never deleted. *)

CreateTerm(p, k, v) ==
    /\ drawn[k] = 0
    /\ PutAtOnce(p, k, [id |-> 1, row |-> Only("value", v)])
    /\ drawn' = [drawn EXCEPT ![k] = 1]

UpdateTerm(p, k, v) ==
    /\ Begin(p)
    /\ Exists(k)
    /\ Edit(p, k, With(k, "value", v), {"value"}, Only("value", v))

-----------------------------------------------------------------------------
(* Consents: the primary key is the user and the type, so save is an upsert. *)

CreateConsent(p, u, v) ==
    /\ Begin(p)
    /\ u \in Users
    /\ Edit(p, <<"consent", u>>, [id |-> 1, row |-> Only("value", v)],
            {"value"}, Only("value", v))

RemoveConsent(p, u) ==
    /\ Exists(<<"consent", u>>)
    /\ PutAtOnce(p, <<"consent", u>>, Absent)
    /\ UNCHANGED drawn

-----------------------------------------------------------------------------
(* Push tokens: a device's token moves to the user who registers it last. *)

\* Variant: a token that is registered already keeps its user.
Register_KeepsUser(p, k, u) ==
    /\ Begin(p)
    /\ u \in Users
    /\ IF Exists(k)
       THEN Edit(p, k, record[k], {"ref"}, Only("ref", u))
       ELSE Goto(p, "insert", [NoJob EXCEPT !.key = k, !.new.row.ref = u]) /\ Still

Register(p, k, u) ==
    /\ Begin(p)
    /\ u \in Users
    /\ IF Exists(k)
       THEN Edit(p, k, With(k, "ref", u), {"ref"}, Only("ref", u))
       ELSE Goto(p, "insert", [NoJob EXCEPT !.key = k, !.new.row.ref = u]) /\ Still

\* The INSERT of a new token, which the unique index refuses when there is one.
RegisterInsert(p) ==
    /\ pc[p] = "insert"
    /\ LET k == job[p].key
           r == [id |-> drawn[k] + 1, row |-> job[p].new.row]
       IN
        IF Exists(k)
        THEN Quit(p)
        ELSE /\ Put(p, k, r)
             /\ wanted' = [wanted EXCEPT ![k] = r]
             /\ drawn' = [drawn EXCEPT ![k] = r.id]
             /\ Goto(p, "idle", NoJob)
             /\ UNCHANGED <<retreats, requests>>

\* DeletePushTokenUseCase, by the token.
DeleteToken(p, k) ==
    /\ Exists(k)
    /\ PutAtOnce(p, k, Absent)
    /\ UNCHANGED drawn

-----------------------------------------------------------------------------
(* The configuration, one row. *)

Existing == {t \in Terms : Exists(<<"term", t>>)}

\* The term and the retreat that are to be selected exist.
Selectable(c, S) ==
    /\ "ref" \in S => c.ref \in retreats \cup {None}
    /\ "term" \in S => c.term \in Existing \cup {None}

\* PUT admin/system: the selection is validated first.
PutConfig(p, c, S) ==
    /\ Begin(p)
    /\ Selectable(c, S)
    /\ Goto(p, "selected", [NoJob EXCEPT !.touched = S, !.command = c])
    /\ Still

\* Object.assign sets the columns of the selections.  A retreat or a term that was selected
\* is loaded with the row, and save takes the id of that object and not the column: only a
\* selection that was empty can be written.
Effective(old, S) == {f \in S : f \in {"ref", "term"} => old[f] = None}

Updated(old, j) ==
    [f \in Fields |-> IF f \in Effective(old, j.touched) THEN j.command[f] ELSE old[f]]

\* The configuration is found, or its default is created.
LoadConfig(p) ==
    /\ pc[p] = "selected"
    /\ UNCHANGED requests
    /\ IF Exists(Config)
       THEN Edit(p, Config, [record[Config] EXCEPT !.row = Updated(record[Config].row, job[p])],
                 Effective(record[Config].row, job[p].touched), job[p].command)
       ELSE Goto(p, "missing", job[p]) /\ Still

\* GET system creates the default as well.
GetConfig(p) ==
    /\ Begin(p)
    /\ ~Exists(Config)
    /\ Goto(p, "missing", NoJob)
    /\ Still

\* save of the default looks for row 1 first ...
CreateConfigReload(p) ==
    /\ pc[p] = "missing"
    /\ Goto(p, "created", [job[p] EXCEPT !.base = record[Config]])
    /\ UNCHANGED requests
    /\ Still

\* What the writes after save's read make of the row: fields that differ from it.
Merged(base, new, row) ==
    [f \in Fields |-> IF new[f] # base[f] THEN new[f] ELSE row[f]]

\* ... and inserts the default, or puts it over a row that has come meanwhile.  A PUT
\* goes on with the entity it has created.
CreateConfigWrite(p) ==
    /\ pc[p] = "created"
    /\ LET j == job[p]
           default == [id |-> 1, row |-> Default]
           r == IF j.base = Absent THEN default
                ELSE [id |-> 1, row |-> Merged(j.base.row, Default, record[Config].row)]
           next == [NoJob EXCEPT !.touched = j.touched, !.command = j.command,
                        !.new = [id |-> 1, row |-> Updated(Default, j)]]
       IN
        IF j.base = Absent /\ Exists(Config)
        THEN Quit(p)
        ELSE /\ Put(p, Config, r)
             /\ wanted' = [wanted EXCEPT ![Config] = default]
             /\ IF j.touched = {} THEN Goto(p, "idle", NoJob) ELSE Goto(p, "reload", next)
             /\ UNCHANGED <<drawn, retreats, requests>>

\* Variant: the foreign keys of the configuration are not checked.
Referable_Any(k, c) == TRUE

\* The foreign keys of the configuration; users are never removed.
Referable(k, c) ==
    k = Config => c.ref \in retreats \cup {None} /\ c.term \in Existing \cup {None}

\* The rows rows when retreat t goes: a configuration that selects it selects none.
Cleared(rows, t) ==
    [rows EXCEPT ![Config].row.ref = IF @ = t THEN None ELSE @]

\* A retreat is removed; the foreign key clears the configuration that selects it.
RemoveRetreat(t) ==
    /\ t \in retreats
    /\ retreats' = retreats \ {t}
    /\ record' = Cleared(record, t)
    /\ wanted' = Cleared(wanted, t)
    /\ UNCHANGED <<drawn, pc, job, requests, late, overwritten>>

-----------------------------------------------------------------------------
(* repository.save of a loaded entity *)

Reload(p) ==
    /\ pc[p] = "reload"
    /\ LET k == job[p].key
           found == record[k].id = job[p].new.id
       IN Goto(p, "write", [job[p] EXCEPT !.base = IF found THEN record[k] ELSE Absent])
    /\ UNCHANGED requests
    /\ Still

\* The row after the INSERT or the UPDATE.
Saved(j) ==
    [id |-> j.new.id,
     row |-> IF j.base = Absent THEN j.new.row
             ELSE Merged(j.base.row, j.new.row, record[j.key].row)]

\* What the request wanted of the row.
Wanted(j) ==
    [id |-> j.new.id,
     row |-> [f \in Fields |->
                 IF f \in j.touched THEN j.command[f]
                 ELSE IF j.base = Absent THEN j.new.row[f] ELSE wanted[j.key].row[f]]]

\* The INSERT fails when there is a row with the key; the UPDATE of a row that has gone
\* changes nothing, and the request counts as done.
Write(p) ==
    /\ pc[p] = "write"
    /\ LET j == job[p]
           k == j.key
           inserts == j.base = Absent
       IN
        \/ /\ \/ inserts /\ Exists(k)
              \/ ~inserts /\ record[k].id # j.new.id
              \/ ~Referable(k, Saved(j).row)
           /\ Quit(p)
        \/ /\ IF inserts THEN ~Exists(k) ELSE record[k].id = j.new.id
           /\ Referable(k, Saved(j).row)
           /\ Put(p, k, Saved(j))
           /\ wanted' = [wanted EXCEPT ![k] = Wanted(j)]
           /\ Goto(p, "idle", NoJob)
           /\ UNCHANGED <<drawn, retreats, requests>>

-----------------------------------------------------------------------------

Init ==
    /\ record = [k \in Keys |-> Absent]
    /\ drawn = [k \in Keys |-> 0]
    /\ retreats = Retreats
    /\ pc = [p \in Procs |-> "idle"]
    /\ job = [p \in Procs |-> NoJob]
    /\ requests = 0
    /\ wanted = record
    /\ late = {}
    /\ overwritten = {}

(* The controllers, one for each service. *)

NoticeRequest(p) ==
    \/ \E k \in NoticeKeys, v \in Values : CreateNotice(p, k, v) \/ UpdateNotice(p, k, v)
    \/ \E k \in NoticeKeys : DeleteNotice(p, k)

TermRequest(p) ==
    \E k \in TermKeys, v \in Values : CreateTerm(p, k, v) \/ UpdateTerm(p, k, v)

ConsentRequest(p) ==
    \/ \E u \in Users, v \in Values : CreateConsent(p, u, v)
    \/ \E u \in Users : RemoveConsent(p, u)

TokenRequest(p) ==
    \/ \E k \in TokenKeys, u \in Users : Register(p, k, u)
    \/ \E k \in TokenKeys : DeleteToken(p, k)

\* What a PUT with the fields S can carry.
Commands(S) == {c \in Content : \A f \in Fields \ S : c[f] = Default[f]}

SystemRequest(p) ==
    \/ \E S \in SUBSET Fields : \E c \in Commands(S) : PutConfig(p, c, S)
    \/ GetConfig(p)

Request(p) ==
    \/ NoticeRequest(p)
    \/ TermRequest(p)
    \/ ConsentRequest(p)
    \/ TokenRequest(p)
    \/ SystemRequest(p)

Step(p) ==
    \/ RegisterInsert(p)
    \/ LoadConfig(p)
    \/ CreateConfigReload(p)
    \/ CreateConfigWrite(p)
    \/ Reload(p)
    \/ Write(p)

Next ==
    \/ \E p \in Procs : Request(p) \/ Step(p)
    \/ \E t \in Retreats : RemoveRetreat(t)

Spec == Init /\ [][Next]_vars

-----------------------------------------------------------------------------
(* Properties. *)

\* The shape of the state.
TypeOK ==
    /\ record \in [Keys -> RecordType]
    /\ drawn \in [Keys -> Nat]
    /\ retreats \subseteq Retreats
    /\ pc \in [Procs -> PCs]
    /\ job \in [Procs -> Job]
    /\ wanted \in [Keys -> RecordType]
    /\ late \subseteq Procs
    /\ overwritten \subseteq Keys
    /\ \A k \in NoticeKeys \cup TermKeys \cup TokenKeys : record[k].id <= drawn[k]

\* What accepted requests wrote or deleted stands, in every column: the user a token was
\* last registered for, and the term and the retreat the configuration selects.  A PUT
\* counts for a selection that was empty when it loaded the row; one that would change or
\* clear a selection is accepted, and the first selection stands all the same until its
\* retreat is removed.  Exempt are rows written by a request that had loaded them before
\* another one wrote or deleted them; a deleted notice or token comes back only then
\* (notice.service.ts:64-104, register-push-token.usecase.ts:27-50,
\* update-system-config.usecase.ts:32-50, get-system-config.query.ts:13-24).
RecordsStand ==
    \A k \in Keys \ overwritten :
        /\ Exists(k) <=> wanted[k].id # 0
        /\ \A f \in Fields : record[k].row[f] = wanted[k].row[f]

\* The configuration selects a term and a retreat that exist, or none, also when the
\* retreat is removed after the selection was validated
\* (update-system-config.usecase.ts:52-73, system-config.entity.ts:97-123).
ConfigSelectsExisting ==
    /\ record[Config].row.ref \in retreats \cup {None}
    /\ record[Config].row.term \in Existing \cup {None}

=============================================================================
