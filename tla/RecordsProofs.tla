---------------------------- MODULE RecordsProofs ----------------------------
(* Theorems about Records and their proofs. *)
EXTENDS Records, TLAPS

-----------------------------------------------------------------------------
(* Shapes. *)

LEMMA DefaultShape ==
    /\ Default \in Content /\ Default.ref = None /\ Default.term = None
    /\ Absent \in RecordType /\ Absent.id = 0 /\ Absent.row = Default
    /\ NoJob \in Job /\ NoJob.key = Config /\ NoJob.touched = {}
<1>1. (CHOOSE v \in Values : TRUE) \in Values
  BY RecordsAssumption
<1>2. Default \in Content /\ Default.ref = None /\ Default.term = None
  BY <1>1 DEF Default, Content
<1>3. Absent \in RecordType /\ Absent.id = 0 /\ Absent.row = Default
  BY <1>2 DEF Absent, RecordType
<1>4. Config \in Keys
  BY DEF Keys
<1> QED
  BY <1>2, <1>3, <1>4 DEF NoJob, Job

\* The keys of the tables are different keys.
LEMMA KeyShape ==
    /\ NoticeKeys \subseteq Keys /\ TermKeys \subseteq Keys /\ TokenKeys \subseteq Keys
    /\ ConsentKeys \subseteq Keys /\ Config \in Keys
    /\ Config \notin NoticeKeys \cup TermKeys \cup TokenKeys \cup ConsentKeys
    /\ ConsentKeys \cap (NoticeKeys \cup TermKeys \cup TokenKeys) = {}
    /\ TermKeys \cap (NoticeKeys \cup TokenKeys) = {}
  BY DEF Keys, NoticeKeys, TermKeys, TokenKeys, ConsentKeys, Config

LEMMA JobShape ==
    ASSUME TypeOK, NEW p \in Procs
    PROVE  /\ job[p] \in Job /\ job[p].key \in Keys
           /\ job[p].new \in RecordType /\ job[p].base \in RecordType
           /\ job[p].new.row \in Content /\ job[p].base.row \in Content
           /\ job[p].touched \subseteq Fields /\ job[p].command \in Content
<1>1. job[p] \in Job
  BY DEF TypeOK
<1> QED
  BY <1>1 DEF Job, RecordType, Fields

LEMMA ContentShape ==
    ASSUME NEW c \in Content
    PROVE  /\ c.value \in Values /\ c.ref \in {None} \cup Users \cup Retreats
           /\ c.term \in {None} \cup Terms
  BY DEF Content

LEMMA RecordShape ==
    ASSUME TypeOK, NEW k \in Keys
    PROVE  record[k] \in RecordType /\ record[k].row \in Content /\ record[k].id \in Nat
  BY DEF TypeOK, RecordType

LEMMA MergedShape ==
    ASSUME NEW b \in Content, NEW n \in Content, NEW c \in Content
    PROVE  /\ Merged(b, n, c) \in Content
           /\ \A f \in Fields : Merged(b, n, c)[f] = IF n[f] # b[f] THEN n[f] ELSE c[f]
  BY DEF Merged, Content, Fields

LEMMA OnlyShape ==
    /\ \A v \in Values : /\ Only("value", v) \in Content
                         /\ Only("value", v).value = v /\ Only("value", v).ref = None
                         /\ Only("value", v).term = None
    /\ \A u \in Users : /\ Only("ref", u) \in Content
                        /\ Only("ref", u).ref = u /\ Only("ref", u).value = Default.value
  BY DefaultShape DEF Only, Content

LEMMA WithShape ==
    ASSUME TypeOK, NEW k \in Keys
    PROVE  /\ \A v \in Values : /\ With(k, "value", v) \in RecordType
                                /\ With(k, "value", v).id = record[k].id
                                /\ With(k, "value", v).row.value = v
                                /\ With(k, "value", v).row.ref = record[k].row.ref
                                /\ With(k, "value", v).row.term = record[k].row.term
           /\ \A u \in Users : /\ With(k, "ref", u) \in RecordType
                               /\ With(k, "ref", u).id = record[k].id
                               /\ With(k, "ref", u).row.ref = u
                               /\ With(k, "ref", u).row.value = record[k].row.value
                               /\ With(k, "ref", u).row.term = record[k].row.term
<1>1. record[k] \in RecordType
  BY RecordShape
<1> QED
  BY <1>1 DEF With, RecordType, Content

-----------------------------------------------------------------------------
(* The inductive invariant. *)

\* A request nobody was ahead of, on a row no late request has written.
Alone(p) == p \notin late /\ job[p].key \notin overwritten

\* A request that holds v as field f of the row of k knows the row, except that the
\* database may have cleared a selected retreat that was removed.
Knows(k, f, v) ==
    \/ v = record[k].row[f]
    \/ k = Config /\ f = "ref" /\ record[k].row.ref = None /\ v \notin retreats

\* What a request may hold at each of its points.
Fit(p) ==
    /\ pc[p] \in {"selected", "missing", "created"} => job[p].key = Config
    /\ pc[p] = "missing" /\ Alone(p) => record[Config] = Absent
    /\ pc[p] = "created" /\ Alone(p) => job[p].base = Absent
    /\ pc[p] = "insert" => job[p].key \in TokenKeys
    /\ pc[p] \in {"reload", "write"} =>
        /\ job[p].new.id # 0
        /\ job[p].key \in NoticeKeys \cup TermKeys \cup TokenKeys =>
              job[p].new.id <= drawn[job[p].key]
        /\ \A f \in job[p].touched : job[p].new.row[f] = job[p].command[f]
        /\ job[p].key \in ConsentKeys =>
              /\ job[p].new.row.ref = None /\ job[p].new.row.term = None
              /\ "value" \in job[p].touched
        /\ Alone(p) /\ job[p].key \notin ConsentKeys =>
              /\ record[job[p].key].id = job[p].new.id
              /\ \A f \in Fields \ job[p].touched :
                    Knows(job[p].key, f, job[p].new.row[f])
        /\ Alone(p) /\ job[p].key = Config /\ "ref" \in job[p].touched =>
              record[Config].row.ref = None
    /\ pc[p] = "write" /\ job[p].base # Absent =>
        /\ job[p].base.id = job[p].new.id
        /\ Alone(p) => \A f \in Fields : Knows(job[p].key, f, job[p].base.row[f])
        /\ Alone(p) /\ job[p].key = Config /\ "ref" \in job[p].touched =>
              job[p].base.row.ref = None

\* A row that is not there has no content, and a consent refers to no other row.
Plain ==
    /\ \A k \in Keys : record[k].id = 0 => record[k] = Absent
    /\ \A k \in ConsentKeys : record[k].row.ref = None /\ record[k].row.term = None

IInv ==
    /\ TypeOK
    /\ Plain
    /\ RecordsStand
    /\ ConfigSelectsExisting
    /\ \A p \in Procs : Fit(p)

LEMMA InitHolds == Init => IInv
<1> SUFFICES ASSUME Init
             PROVE  IInv
  OBVIOUS
<1>1. TypeOK
  BY DefaultShape, KeyShape DEF Init, TypeOK, PCs
<1>2. Plain /\ RecordsStand
  BY DefaultShape, KeyShape DEF Init, Plain, RecordsStand, Exists
<1>3. ConfigSelectsExisting
  BY DefaultShape, KeyShape DEF Init, ConfigSelectsExisting
<1>4. \A p \in Procs : Fit(p)
  BY DEF Init, Fit
<1> QED
  BY <1>1, <1>2, <1>3, <1>4 DEF IInv

-----------------------------------------------------------------------------
(* Steps that change no row. *)

LEMMA GotoShape ==
    ASSUME TypeOK, NEW p \in Procs, NEW point \in PCs, NEW j \in Job, Goto(p, point, j)
    PROVE  /\ pc' \in [Procs -> PCs] /\ job' \in [Procs -> Job]
           /\ pc'[p] = point /\ job'[p] = j
           /\ \A q \in Procs \ {p} : pc'[q] = pc[q] /\ job'[q] = job[q]
  BY DEF Goto, TypeOK

LEMMA Moves ==
    ASSUME IInv, NEW p \in Procs, NEW point \in PCs, NEW j \in Job, Goto(p, point, j),
           UNCHANGED <<record, drawn, retreats, wanted, overwritten>>,
           late' \in {late, late \ {p}},
           Fit(p)'
    PROVE  IInv'
<1>1. /\ pc' \in [Procs -> PCs] /\ job' \in [Procs -> Job]
      /\ \A q \in Procs \ {p} : pc'[q] = pc[q] /\ job'[q] = job[q]
  BY GotoShape DEF IInv
<1>2. TypeOK'
  BY <1>1 DEF TypeOK, IInv
<1>3. Plain' /\ RecordsStand' /\ ConfigSelectsExisting'
  BY DEF IInv, Plain, RecordsStand, ConfigSelectsExisting, Exists, Existing
<1>4. \A q \in Procs \ {p} : Fit(q)'
  BY <1>1 DEF IInv, Fit, Alone, Knows
<1> QED
  BY <1>2, <1>3, <1>4 DEF IInv

LEMMA Quits ==
    ASSUME IInv, NEW p \in Procs, Quit(p)
    PROVE  IInv'
<1>1. Goto(p, "idle", NoJob) /\ late' = late \ {p}
  BY DEF Quit
<1>2. Fit(p)'
  BY <1>1, DefaultShape, GotoShape DEF Fit, IInv, PCs
<1> QED
  BY <1>1, <1>2, DefaultShape, Moves DEF Quit, PCs

\* An entity is loaded, or made, and edited.
LEMMA Edits ==
    ASSUME IInv, NEW p \in Procs, NEW k \in Keys, NEW e \in RecordType, NEW S \in SUBSET Fields,
           NEW c \in Content, Edit(p, k, e, S, c),
           e.id # 0,
           k \in NoticeKeys \cup TermKeys \cup TokenKeys => e.id <= drawn[k],
           \A f \in S : e.row[f] = c[f],
           k \in ConsentKeys => e.row.ref = None /\ e.row.term = None /\ "value" \in S,
           k \notin ConsentKeys =>
              /\ record[k].id = e.id
              /\ \A f \in Fields \ S : e.row[f] = record[k].row[f],
           k = Config /\ "ref" \in S => record[k].row.ref = None
    PROVE  IInv'
<1> DEFINE j == [NoJob EXCEPT !.key = k, !.touched = S, !.command = c, !.new = e]
<1>1. j \in Job /\ j.key = k /\ j.touched = S /\ j.command = c /\ j.new = e
  BY DefaultShape DEF NoJob, Job, Fields
<1>2. Goto(p, "reload", j) /\ Still
  BY DEF Edit
<1> HIDE DEF j
<1>3. pc'[p] = "reload" /\ job'[p] = j
  BY <1>1, <1>2, GotoShape DEF IInv, PCs
<1>4. Fit(p)'
  BY <1>1, <1>2, <1>3 DEF Fit, Alone, Still, Knows
<1> QED
  BY <1>1, <1>2, <1>4, Moves DEF Still, PCs

-----------------------------------------------------------------------------
(* Steps that write a row. *)

\* The row of k becomes r, and what accepted requests wanted of it w.
LEMMA Puts ==
    ASSUME IInv, NEW p \in Procs, NEW k \in Keys, NEW r \in RecordType, NEW w \in RecordType,
           Put(p, k, r), wanted' = [wanted EXCEPT ![k] = w], UNCHANGED retreats,
           drawn' \in [Keys -> Nat], \A l \in Keys : drawn[l] <= drawn'[l],
           k \in NoticeKeys \cup TermKeys \cup TokenKeys => r.id <= drawn'[k],
           pc' \in [Procs -> PCs], job' \in [Procs -> Job],
           \A q \in Procs \ {p} : pc'[q] = pc[q] /\ job'[q] = job[q],
           r.id = 0 => r = Absent,
           k \in ConsentKeys => r.row.ref = None /\ r.row.term = None,
           k \in TermKeys => r.id # 0,
           k = Config => r.row.ref \in retreats \cup {None} /\ r.row.term \in Existing \cup {None},
           k \notin overwritten' =>
              /\ r.id # 0 <=> w.id # 0
              /\ \A f \in Fields : r.row[f] = w.row[f],
           Fit(p)'
    PROVE  IInv'
<1>1. /\ record'[k] = r /\ wanted'[k] = w
      /\ \A l \in Keys \ {k} : record'[l] = record[l] /\ wanted'[l] = wanted[l]
      /\ record' \in [Keys -> RecordType] /\ wanted' \in [Keys -> RecordType]
  BY DEF Put, IInv, TypeOK
<1>2. /\ overwritten \subseteq overwritten' /\ overwritten' \subseteq Keys
      /\ late' = (late \ {p}) \cup {q \in Procs \ {p} : Holds(q, k)}
      /\ overwritten' \subseteq overwritten \cup {k}
  BY DEF Put, IInv, TypeOK
<1>3. \A l \in Keys : record[l].id \in Nat /\ drawn[l] \in Nat /\ drawn'[l] \in Nat
  BY RecordShape DEF IInv, TypeOK
<1>4. TypeOK'
  <2>1. \A l \in NoticeKeys \cup TermKeys \cup TokenKeys : record'[l].id <= drawn'[l]
    BY <1>1, <1>3, KeyShape DEF IInv, TypeOK
  <2>2. late' \subseteq Procs
    BY <1>2 DEF IInv, TypeOK
  <2> QED
    BY <1>1, <1>2, <2>1, <2>2 DEF IInv, TypeOK
<1>5. Plain'
  BY <1>1, KeyShape DEF IInv, Plain
<1>6. RecordsStand'
  BY <1>1, <1>2 DEF IInv, RecordsStand, Exists
<1>7. ConfigSelectsExisting'
  <2>1. ASSUME NEW t \in Existing
        PROVE  t \in Existing'
    <3>1. <<"term", t>> \in TermKeys /\ <<"term", t>> \in Keys /\ t \in Terms
      BY KeyShape DEF Existing, TermKeys
    <3>2. record[<<"term", t>>].id # 0
      BY DEF Existing, Exists
    <3>3. record'[<<"term", t>>].id # 0
      BY <1>1, <3>1, <3>2
    <3> QED
      BY <3>1, <3>3 DEF Existing, Exists
  <2>2. CASE k = Config
    BY <1>1, <2>1, <2>2 DEF ConfigSelectsExisting
  <2>3. CASE k # Config
    BY <1>1, <2>1, <2>3, KeyShape DEF IInv, ConfigSelectsExisting
  <2> QED
    BY <2>2, <2>3
<1>8. ASSUME NEW q \in Procs, q # p
      PROVE  Fit(q)'
  <2>1. Fit(q) /\ job[q].key \in Keys /\ job[q].new.id \in Nat
    BY JobShape DEF IInv, RecordType
  <2>2. pc'[q] = pc[q] /\ job'[q] = job[q]
    BY <1>8
  <2>3. CASE Holds(q, k)
    <3>1. ~ Alone(q)'
      BY <1>2, <1>8, <2>3 DEF Alone
    <3> QED
      BY <1>3, <2>1, <2>2, <3>1 DEF Fit
  <2>4. CASE pc[q] \in {"idle", "selected"}
    BY <2>1, <2>2, <2>4 DEF Fit
  <2>5. CASE pc[q] \notin {"idle", "selected"} /\ job[q].key # k
    <3>1. record'[job[q].key] = record[job[q].key]
      BY <1>1, <2>1, <2>5
    <3>2. Alone(q)' => Alone(q)
      BY <1>2, <1>8, <2>2 DEF Alone
    <3>3. record'[Config] = record[Config] \/ job[q].key # Config
      BY <1>1, <2>5, KeyShape
    <3> QED
      BY <1>3, <2>1, <2>2, <2>5, <3>1, <3>2, <3>3 DEF Fit, Knows
  <2> QED
    BY <2>3, <2>4, <2>5 DEF Holds
<1> QED
  BY <1>4, <1>5, <1>6, <1>7, <1>8 DEF IInv

LEMMA AtOnce ==
    ASSUME IInv, NEW p \in Procs, NEW k \in Keys, NEW r \in RecordType, PutAtOnce(p, k, r),
           drawn' \in [Keys -> Nat], \A l \in Keys : drawn[l] <= drawn'[l],
           k \in NoticeKeys \cup TermKeys \cup TokenKeys => r.id <= drawn'[k],
           r.id = 0 => r = Absent,
           k \in ConsentKeys => r.row.ref = None /\ r.row.term = None,
           k \in TermKeys => r.id # 0,
           k # Config
    PROVE  IInv'
<1>1. pc[p] = "idle" /\ UNCHANGED <<pc, job, retreats>> /\ Put(p, k, r)
  BY DEF PutAtOnce, Begin
<1>2. Fit(p)'
  BY <1>1 DEF Fit
<1>3. pc' \in [Procs -> PCs] /\ job' \in [Procs -> Job]
  BY <1>1 DEF IInv, TypeOK
<1> QED
  BY <1>1, <1>2, <1>3, Puts DEF PutAtOnce

-----------------------------------------------------------------------------
(* Requests. *)

LEMMA SameDrawn == IInv => drawn \in [Keys -> Nat] /\ \A l \in Keys : drawn[l] <= drawn[l]
  BY DEF IInv, TypeOK

\* A row that is made gets an id nobody had.
LEMMA CreateStep ==
    ASSUME IInv, NEW p \in Procs, NEW k \in NoticeKeys \cup TermKeys, NEW v \in Values,
           CreateNotice(p, k, v) \/ CreateTerm(p, k, v)
    PROVE  IInv'
<1> DEFINE r == [id |-> 1, row |-> Only("value", v)]
<1>1. /\ drawn[k] = 0 /\ PutAtOnce(p, k, r) /\ drawn' = [drawn EXCEPT ![k] = 1]
  BY DEF CreateNotice, CreateTerm
<1>2. k \in Keys /\ k # Config /\ k \notin ConsentKeys
  BY KeyShape
<1>3. r \in RecordType /\ r.id = 1
  BY OnlyShape DEF RecordType
<1>4. /\ drawn' \in [Keys -> Nat] /\ drawn'[k] = 1 /\ \A l \in Keys : drawn[l] <= drawn'[l]
  BY <1>1, <1>2, SameDrawn
<1> HIDE DEF r
<1> QED
  BY <1>1, <1>2, <1>3, <1>4, AtOnce

LEMMA DeleteStep ==
    ASSUME IInv, NEW p \in Procs, NEW k \in Keys \ ({Config} \cup TermKeys),
           PutAtOnce(p, k, Absent), UNCHANGED drawn
    PROVE  IInv'
<1>1. drawn[k] \in Nat
  BY SameDrawn
<1> QED
  BY <1>1, DefaultShape, SameDrawn, AtOnce

LEMMA UpdateStep ==
    ASSUME IInv, NEW p \in Procs, NEW k \in NoticeKeys \cup TermKeys, NEW v \in Values,
           UpdateNotice(p, k, v) \/ UpdateTerm(p, k, v)
    PROVE  IInv'
<1> DEFINE e == With(k, "value", v)
<1>1. Exists(k) /\ Edit(p, k, e, {"value"}, Only("value", v))
  BY DEF UpdateNotice, UpdateTerm
<1>2. k \in Keys /\ k # Config /\ k \notin ConsentKeys
  BY KeyShape
<1>3. /\ e \in RecordType /\ e.id = record[k].id
      /\ e.row.value = v /\ e.row.ref = record[k].row.ref /\ e.row.term = record[k].row.term
  BY <1>2, WithShape DEF IInv
<1>4. Only("value", v) \in Content /\ Only("value", v).value = v
  BY OnlyShape
<1>5. {"value"} \in SUBSET Fields /\ \A f \in Fields \ {"value"} : f \in {"ref", "term"}
  BY DEF Fields
<1>6. record[k].id <= drawn[k] /\ record[k].id # 0
  BY <1>1, <1>2 DEF IInv, TypeOK, Exists
<1> HIDE DEF e
<1>7. \A f \in {"value"} : e.row[f] = Only("value", v)[f]
  BY <1>3, <1>4
<1>8. \A f \in Fields \ {"value"} : e.row[f] = record[k].row[f]
  BY <1>3, <1>5
<1> QED
  BY <1>1, <1>2, <1>3, <1>4, <1>5, <1>6, <1>7, <1>8, Edits

LEMMA ConsentStep ==
    ASSUME IInv, NEW p \in Procs, NEW u \in Users, NEW v \in Values, CreateConsent(p, u, v)
    PROVE  IInv'
<1> DEFINE k == <<"consent", u>>
           e == [id |-> 1, row |-> Only("value", v)]
<1>1. Edit(p, k, e, {"value"}, Only("value", v))
  BY DEF CreateConsent
<1>2. k \in ConsentKeys /\ k \in Keys /\ k # Config /\ k \notin NoticeKeys \cup TermKeys \cup TokenKeys
  <2>1. k \in ConsentKeys
    BY DEF ConsentKeys
  <2> QED
    BY <2>1, KeyShape
<1>3. /\ Only("value", v) \in Content /\ Only("value", v).value = v
      /\ Only("value", v).ref = None /\ Only("value", v).term = None
  BY OnlyShape
<1>4. e \in RecordType /\ e.id = 1 /\ e.row = Only("value", v)
  BY <1>3 DEF RecordType
<1>5. {"value"} \in SUBSET Fields
  BY DEF Fields
<1> HIDE DEF k, e
<1> QED
  BY <1>1, <1>2, <1>3, <1>4, <1>5, Edits

LEMMA RegisterStep ==
    ASSUME IInv, NEW p \in Procs, NEW k \in TokenKeys, NEW u \in Users, Register(p, k, u)
    PROVE  IInv'
<1>1. k \in Keys /\ k # Config /\ k \notin ConsentKeys
  BY KeyShape
<1>2. CASE Exists(k)
  <2> DEFINE e == With(k, "ref", u)
  <2>1. Edit(p, k, e, {"ref"}, Only("ref", u))
    BY <1>2 DEF Register
  <2>2. /\ e \in RecordType /\ e.id = record[k].id
        /\ e.row.ref = u /\ e.row.value = record[k].row.value /\ e.row.term = record[k].row.term
    BY <1>1, WithShape DEF IInv
  <2>3. Only("ref", u) \in Content /\ Only("ref", u).ref = u
    BY OnlyShape
  <2>4. {"ref"} \in SUBSET Fields /\ \A f \in Fields \ {"ref"} : f \in {"value", "term"}
    BY DEF Fields
  <2>5. record[k].id <= drawn[k] /\ record[k].id # 0
    BY <1>2 DEF IInv, TypeOK, Exists
  <2> HIDE DEF e
  <2>6. \A f \in {"ref"} : e.row[f] = Only("ref", u)[f]
    BY <2>2, <2>3
  <2>7. \A f \in Fields \ {"ref"} : e.row[f] = record[k].row[f]
    BY <2>2, <2>4
  <2> QED
    BY <1>1, <2>1, <2>2, <2>3, <2>4, <2>5, <2>6, <2>7, Edits
<1>3. CASE ~ Exists(k)
  <2> DEFINE j == [NoJob EXCEPT !.key = k, !.new.row.ref = u]
  <2>1. Goto(p, "insert", j) /\ Still
    BY <1>3 DEF Register
  <2>2. j \in Job /\ j.key = k
    BY <1>1, DefaultShape DEF NoJob, Job, RecordType, Content
  <2> HIDE DEF j
  <2>3. pc'[p] = "insert" /\ job'[p] = j
    BY <2>1, <2>2, GotoShape DEF IInv, PCs
  <2>4. Fit(p)'
    BY <2>2, <2>3 DEF Fit
  <2> QED
    BY <2>1, <2>2, <2>4, Moves DEF Still, PCs
<1> QED
  BY <1>2, <1>3

LEMMA SystemStep ==
    ASSUME IInv, NEW p \in Procs, SystemRequest(p)
    PROVE  IInv'
<1>1. ASSUME NEW S \in SUBSET Fields, NEW c \in Content, PutConfig(p, c, S)
      PROVE  IInv'
  <2> DEFINE j == [NoJob EXCEPT !.touched = S, !.command = c]
  <2>1. Goto(p, "selected", j) /\ Still
    BY <1>1 DEF PutConfig
  <2>2. j \in Job /\ j.key = Config
    BY DefaultShape DEF NoJob, Job
  <2> HIDE DEF j
  <2>3. pc'[p] = "selected" /\ job'[p] = j
    BY <2>1, <2>2, GotoShape DEF IInv, PCs
  <2>4. Fit(p)'
    BY <2>2, <2>3 DEF Fit
  <2> QED
    BY <2>1, <2>2, <2>4, Moves DEF Still, PCs
<1>2. ASSUME GetConfig(p)
      PROVE  IInv'
  <2>1. Goto(p, "missing", NoJob) /\ Still /\ record[Config] = Absent
    BY <1>2, KeyShape DEF GetConfig, Exists, IInv, Plain
  <2>2. pc'[p] = "missing" /\ job'[p] = NoJob
    BY <2>1, DefaultShape, GotoShape DEF IInv, PCs
  <2>3. Fit(p)'
    BY <2>1, <2>2, DefaultShape DEF Fit, Still
  <2> QED
    BY <2>1, <2>3, DefaultShape, Moves DEF Still, PCs
<1> QED
  BY <1>1, <1>2 DEF SystemRequest, Commands

LEMMA RequestStep ==
    ASSUME IInv, NEW p \in Procs, Request(p)
    PROVE  IInv'
<1>1. CASE NoticeRequest(p)
  <2>1. ASSUME NEW k \in NoticeKeys, DeleteNotice(p, k)
        PROVE  IInv'
    BY <2>1, DeleteStep, KeyShape DEF DeleteNotice
  <2> QED
    BY <1>1, <2>1, CreateStep, UpdateStep DEF NoticeRequest
<1>2. CASE TermRequest(p)
  BY <1>2, CreateStep, UpdateStep DEF TermRequest
<1>3. CASE ConsentRequest(p)
  <2>1. ASSUME NEW u \in Users, RemoveConsent(p, u)
        PROVE  IInv'
    <3>1. <<"consent", u>> \in ConsentKeys
      BY DEF ConsentKeys
    <3>2. <<"consent", u>> \in Keys \ ({Config} \cup TermKeys)
      BY <3>1, KeyShape
    <3> QED
      BY <2>1, <3>2, DeleteStep DEF RemoveConsent
  <2> QED
    BY <1>3, <2>1, ConsentStep DEF ConsentRequest
<1>4. CASE TokenRequest(p)
  <2>1. ASSUME NEW k \in TokenKeys, DeleteToken(p, k)
        PROVE  IInv'
    BY <2>1, DeleteStep, KeyShape DEF DeleteToken
  <2> QED
    BY <1>4, <2>1, RegisterStep DEF TokenRequest
<1>5. CASE SystemRequest(p)
  BY <1>5, SystemStep
<1> QED
  BY <1>1, <1>2, <1>3, <1>4, <1>5 DEF Request

-----------------------------------------------------------------------------
(* The steps of a request. *)

LEMMA RegisterInsertStep ==
    ASSUME IInv, NEW p \in Procs, RegisterInsert(p)
    PROVE  IInv'
<1>1. PICK k : k = job[p].key
  OBVIOUS
<1>2. PICK r : r = [id |-> drawn[k] + 1, row |-> job[p].new.row]
  OBVIOUS
<1>3. CASE Quit(p)
  BY <1>3, Quits
<1>4. CASE ~ Quit(p)
  <2>1. /\ Put(p, k, r) /\ wanted' = [wanted EXCEPT ![k] = r]
        /\ drawn' = [drawn EXCEPT ![k] = r.id]
        /\ Goto(p, "idle", NoJob) /\ UNCHANGED <<retreats, requests>>
        /\ pc[p] = "insert"
    BY <1>1, <1>2, <1>4 DEF RegisterInsert
  <2>2. k \in TokenKeys /\ k \in Keys /\ k # Config /\ k \notin ConsentKeys
    BY <1>1, <2>1, KeyShape DEF IInv, Fit
  <2>3. drawn[k] \in Nat /\ job[p].new.row \in Content /\ drawn \in [Keys -> Nat]
    BY <2>2, JobShape DEF IInv, TypeOK
  <2>4. r \in RecordType /\ r.id = drawn[k] + 1
    BY <1>2, <2>3 DEF RecordType
  <2>5. /\ drawn' \in [Keys -> Nat] /\ drawn'[k] = r.id /\ r.id # 0
        /\ \A l \in Keys : drawn[l] <= drawn'[l]
    BY <2>1, <2>2, <2>3, <2>4
  <2>6. /\ pc' \in [Procs -> PCs] /\ job' \in [Procs -> Job] /\ pc'[p] = "idle"
        /\ \A q \in Procs \ {p} : pc'[q] = pc[q] /\ job'[q] = job[q]
    BY <2>1, DefaultShape, GotoShape DEF IInv, PCs
  <2>7. Fit(p)'
    BY <2>6 DEF Fit
  <2>8. /\ k \in NoticeKeys \cup TermKeys \cup TokenKeys => r.id <= drawn'[k]
        /\ r.id = 0 => r = Absent
        /\ k \in ConsentKeys => r.row.ref = None /\ r.row.term = None
        /\ k \in TermKeys => r.id # 0
        /\ k = Config => r.row.ref \in retreats \cup {None} /\ r.row.term \in Existing \cup {None}
    BY <2>2, <2>3, <2>4, <2>5
  <2>9. k \notin overwritten' =>
           /\ r.id # 0 <=> r.id # 0
           /\ \A f \in Fields : r.row[f] = r.row[f]
    OBVIOUS
  <2>10. UNCHANGED retreats
    BY <2>1
  <2>11. /\ Put(p, k, r) /\ wanted' = [wanted EXCEPT ![k] = r]
         /\ k \in Keys /\ r \in RecordType
         /\ drawn' \in [Keys -> Nat] /\ \A l \in Keys : drawn[l] <= drawn'[l]
    BY <2>1, <2>2, <2>4, <2>5
  <2> QED
    BY <2>6, <2>7, <2>8, <2>9, <2>10, <2>11, Puts
<1> QED
  BY <1>3, <1>4

LEMMA UpdatedShape ==
    ASSUME NEW c \in Content, NEW j \in Job
    PROVE  /\ Updated(c, j) \in Content /\ Effective(c, j.touched) \subseteq Fields
           /\ \A f \in Fields : Updated(c, j)[f] =
                IF f \in Effective(c, j.touched) THEN j.command[f] ELSE c[f]
           /\ "ref" \in Effective(c, j.touched) => c.ref = None
<1>1. j.command \in Content /\ j.touched \subseteq Fields
  BY DEF Job
<1>2. PICK S : S = Effective(c, j.touched)
  OBVIOUS
<1>3. S \subseteq Fields /\ ("ref" \in S => c.ref = None)
  BY <1>1, <1>2 DEF Effective
<1>4. PICK m : m = [f \in Fields |-> IF f \in S THEN j.command[f] ELSE c[f]]
  OBVIOUS
<1>5. \A f \in Fields : m[f] = IF f \in S THEN j.command[f] ELSE c[f]
  BY <1>4
<1>6. m \in Content
  <2>1. m["value"] \in Values /\ m["ref"] \in {None} \cup Users \cup Retreats
        /\ m["term"] \in {None} \cup Terms
    BY <1>1, <1>5, ContentShape DEF Fields
  <2>2. m = [value |-> m["value"], ref |-> m["ref"], term |-> m["term"]]
    BY <1>4 DEF Fields
  <2> QED
    BY <2>1, <2>2 DEF Content
<1>7. Updated(c, j) = m
  BY <1>2, <1>4 DEF Updated
<1> QED
  BY <1>2, <1>3, <1>5, <1>6, <1>7

LEMMA LoadConfigStep ==
    ASSUME IInv, NEW p \in Procs, LoadConfig(p)
    PROVE  IInv'
<1>1. /\ job[p] \in Job /\ job[p].touched \subseteq Fields /\ job[p].command \in Content
      /\ Config \in Keys /\ Config \notin NoticeKeys \cup TermKeys \cup TokenKeys
      /\ Config \notin ConsentKeys
      /\ record[Config] \in RecordType /\ record[Config].row \in Content
  BY JobShape, KeyShape, RecordShape DEF IInv
<1>2. pc[p] = "selected" /\ Fit(p)
  BY DEF LoadConfig, IInv
<1>3. CASE Exists(Config)
  <2>1. PICK e, S : /\ e = [record[Config] EXCEPT !.row = Updated(record[Config].row, job[p])]
                    /\ S = Effective(record[Config].row, job[p].touched)
    OBVIOUS
  <2>2. Edit(p, Config, e, S, job[p].command)
    BY <1>3, <2>1 DEF LoadConfig
  <2>3. PICK u : u = Updated(record[Config].row, job[p])
    OBVIOUS
  <2>4. /\ u \in Content /\ S \in SUBSET Fields
        /\ \A f \in Fields : u[f] = IF f \in S THEN job[p].command[f] ELSE record[Config].row[f]
        /\ "ref" \in S => record[Config].row.ref = None
    BY <1>1, <2>1, <2>3, UpdatedShape
  <2>5. e \in RecordType /\ e.id = record[Config].id /\ e.row = u
    BY <1>1, <2>1, <2>3, <2>4 DEF RecordType
  <2>6. e.id # 0
    BY <1>3, <2>5 DEF Exists
  <2>7. \A f \in S : e.row[f] = job[p].command[f]
    BY <2>4, <2>5
  <2>8. \A f \in Fields \ S : e.row[f] = record[Config].row[f]
    BY <2>4, <2>5
  <2> QED
    BY <1>1, <2>2, <2>4, <2>5, <2>6, <2>7, <2>8, Edits
<1>4. CASE ~ Exists(Config)
  <2>1. Goto(p, "missing", job[p]) /\ Still /\ record[Config] = Absent
    BY <1>1, <1>4 DEF LoadConfig, Exists, IInv, Plain
  <2>2. pc'[p] = "missing" /\ job'[p] = job[p]
    BY <1>1, <2>1, GotoShape DEF IInv, PCs
  <2>3. Fit(p)'
    BY <1>2, <2>1, <2>2 DEF Fit, Still
  <2> QED
    BY <1>1, <2>1, <2>3, Moves DEF Still, PCs
<1> QED
  BY <1>3, <1>4

LEMMA ReloadStep ==
    ASSUME IInv, NEW p \in Procs, Reload(p) \/ CreateConfigReload(p)
    PROVE  IInv'
<1>1. Fit(p) /\ job[p] \in Job /\ job[p].key \in Keys /\ record[job[p].key] \in RecordType
      /\ Config \in Keys /\ record[Config] \in RecordType
  BY JobShape, RecordShape, KeyShape DEF IInv
<1>2. CASE CreateConfigReload(p)
  <2> DEFINE j == [job[p] EXCEPT !.base = record[Config]]
  <2>1. pc[p] = "missing" /\ Goto(p, "created", j) /\ Still
    BY <1>2 DEF CreateConfigReload
  <2>2. j \in Job /\ j.key = job[p].key /\ j.base = record[Config]
    BY <1>1 DEF Job
  <2> HIDE DEF j
  <2>3. pc'[p] = "created" /\ job'[p] = j
    BY <2>1, <2>2, GotoShape DEF IInv, PCs
  <2>4. Fit(p)'
    BY <1>1, <2>1, <2>2, <2>3 DEF Fit, Alone, Still, Knows
  <2> QED
    BY <2>1, <2>2, <2>4, Moves DEF Still, PCs
<1>3. CASE Reload(p)
  <2> DEFINE k == job[p].key
             b == IF record[k].id = job[p].new.id THEN record[k] ELSE Absent
             j == [job[p] EXCEPT !.base = b]
  <2>1. pc[p] = "reload" /\ Goto(p, "write", j) /\ Still
    BY <1>3 DEF Reload
  <2>2. b \in RecordType
    BY <1>1, DefaultShape
  <2>3. /\ j \in Job /\ j.key = k /\ j.base = b /\ j.new = job[p].new
        /\ j.touched = job[p].touched /\ j.command = job[p].command
    <3> HIDE DEF b
    <3> QED
      BY <1>1, <2>2 DEF Job
  <2>4. b # Absent => b = record[k] /\ b.id = job[p].new.id
    OBVIOUS
  <2> HIDE DEF j, b
  <2>5. pc'[p] = "write" /\ job'[p] = j
    BY <2>1, <2>3, GotoShape DEF IInv, PCs
  <2>6. Fit(p)'
    BY <1>1, <2>1, <2>3, <2>4, <2>5 DEF Fit, Alone, Still, Knows
  <2> QED
    BY <2>1, <2>3, <2>6, Moves DEF Still, PCs
<1> QED
  BY <1>2, <1>3

\* The default configuration is put over a row that has come meanwhile only by a request
\* that is late.
LEMMA CreateConfigStep ==
    ASSUME IInv, NEW p \in Procs, CreateConfigWrite(p)
    PROVE  IInv'
<1> DEFINE j == job[p]
           default == [id |-> 1, row |-> Default]
           r == IF j.base = Absent THEN default
                ELSE [id |-> 1, row |-> Merged(j.base.row, Default, record[Config].row)]
           next == [NoJob EXCEPT !.touched = j.touched, !.command = j.command,
                        !.new = [id |-> 1, row |-> Updated(Default, j)]]
<1>1. CASE Quit(p)
  BY <1>1, Quits
<1>2. CASE ~ Quit(p)
  <2>1. /\ Put(p, Config, r) /\ wanted' = [wanted EXCEPT ![Config] = default]
        /\ UNCHANGED <<drawn, retreats, requests>>
        /\ pc[p] = "created"
        /\ \/ Goto(p, "idle", NoJob)
           \/ Goto(p, "reload", next)
    BY <1>2 DEF CreateConfigWrite
  <2>2. /\ j \in Job /\ j.key = Config /\ j.base.row \in Content /\ j.command \in Content
        /\ j.touched \subseteq Fields
    BY <2>1, JobShape DEF IInv, Fit
  <2>3. record[Config].row \in Content /\ Config \in Keys
    BY KeyShape, RecordShape DEF IInv
  <2>4. default \in RecordType /\ default.id = 1 /\ default.row = Default
    BY DefaultShape DEF RecordType
  <2>5. PICK m : m = Merged(j.base.row, Default, record[Config].row)
    OBVIOUS
  <2>6. /\ m \in Content /\ m["ref"] \in {Default["ref"], record[Config].row["ref"]}
        /\ m["term"] \in {Default["term"], record[Config].row["term"]}
    BY <2>2, <2>3, <2>5, DefaultShape, MergedShape DEF Fields
  <2>7. /\ r \in RecordType /\ r.id = 1 /\ r.row \in {Default, m}
        /\ j.base = Absent => r = default
    BY <2>4, <2>5, <2>6 DEF RecordType
  <2>8. r.row.ref \in retreats \cup {None} /\ r.row.term \in Existing \cup {None}
    BY <2>6, <2>7, DefaultShape DEF IInv, ConfigSelectsExisting
  <2>9. /\ next \in Job /\ next.key = Config /\ next.touched = j.touched
        /\ next.command = j.command /\ next.new.id = 1
        /\ \A f \in Fields : next.new.row[f] = IF f \in j.touched THEN j.command[f] ELSE Default[f]
    <3>1. PICK u : u = Updated(Default, j)
      OBVIOUS
    <3>2. /\ u \in Content
          /\ \A f \in Fields : u[f] = IF f \in Effective(Default, j.touched) THEN j.command[f]
                                       ELSE Default[f]
      <4> HIDE DEF j, next, r, default
      <4>1. j \in Job /\ Default \in Content
        BY <2>2, DefaultShape
      <4> QED
        BY <3>1, <4>1, UpdatedShape
    <3>3. Effective(Default, j.touched) = j.touched
      <4>1. \A f \in {"ref", "term"} : Default[f] = None
        BY DefaultShape
      <4> QED
        BY <4>1 DEF Effective
    <3>4. next = [NoJob EXCEPT !.touched = j.touched, !.command = j.command,
                         !.new = [id |-> 1, row |-> u]]
      BY <3>1
    <3>5. /\ next \in Job /\ next.key = Config /\ next.touched = j.touched
          /\ next.command = j.command /\ next.new = [id |-> 1, row |-> u]
      <4> HIDE DEF j, next
      <4> QED
        BY <2>2, <3>2, <3>4, DefaultShape DEF NoJob, Job, RecordType
    <3> QED
      BY <3>2, <3>3, <3>5
  <2> HIDE DEF r, default, next, j
  <2>10. /\ pc' \in [Procs -> PCs] /\ job' \in [Procs -> Job]
         /\ \A q \in Procs \ {p} : pc'[q] = pc[q] /\ job'[q] = job[q]
         /\ pc'[p] = "idle" \/ (pc'[p] = "reload" /\ job'[p] = next)
    BY <2>1, <2>9, DefaultShape, GotoShape DEF IInv, PCs
  <2>11. Config \notin overwritten' => r = default
    <3>1. Config \notin overwritten' => p \notin late /\ Config \notin overwritten
      BY <2>1 DEF Put
    <3>2. Fit(p)
      BY DEF IInv
    <3> QED
      BY <2>1, <2>2, <2>7, <3>1, <3>2 DEF Fit, Alone, j
  <2>12. record'[Config] = r
    BY <2>1, <2>3 DEF Put, IInv, TypeOK
  <2>13. Config \notin NoticeKeys \cup TermKeys \cup TokenKeys /\ Config \notin ConsentKeys
    BY KeyShape
  <2>14. Fit(p)'
    <3>1. CASE pc'[p] = "idle"
      BY <3>1 DEF Fit
    <3>2. CASE pc'[p] = "reload" /\ job'[p] = next
      <4>1. \A f \in next.touched : next.new.row[f] = next.command[f]
        BY <2>2, <2>9
      <4>2. Alone(p)' => r = default
        BY <2>9, <2>11, <3>2 DEF Alone
      <4>3. \A f \in Fields \ next.touched : next.new.row[f] = Default[f]
        BY <2>9
      <4>4. Alone(p)' => record'[Config].id = 1 /\ record'[Config].row = Default
        BY <2>4, <2>12, <4>2
      <4>5. Alone(p)' => record'[Config].row.ref = None
        BY <4>4, DefaultShape
      <4>6. ASSUME Alone(p)', NEW f \in Fields \ job'[p].touched
            PROVE  Knows(Config, f, job[p].new.row[f])'
        <5>1. job'[p].new.row[f] = record'[Config].row[f]
          BY <3>2, <4>3, <4>4, <4>6
        <5> QED
          BY <5>1 DEF Knows
      <4>7. /\ job'[p].key = Config /\ job'[p].new.id = 1 /\ 1 # 0
            /\ \A f \in job'[p].touched : job'[p].new.row[f] = job'[p].command[f]
        BY <2>9, <3>2, <4>1
      <4> QED
        BY <2>13, <3>2, <4>4, <4>5, <4>6, <4>7 DEF Fit
    <3> QED
      BY <2>10, <3>1, <3>2
  <2>15. PICK x : x = r
    OBVIOUS
  <2>16. PICK d : d = default
    OBVIOUS
  <2>17. Put(p, Config, x) /\ wanted' = [wanted EXCEPT ![Config] = d] /\ UNCHANGED retreats
    BY <2>1, <2>15, <2>16
  <2>18. /\ x \in RecordType /\ d \in RecordType /\ x.id = 1
         /\ x.row.ref \in retreats \cup {None} /\ x.row.term \in Existing \cup {None}
         /\ Config \notin overwritten' => x = d
    BY <2>4, <2>7, <2>8, <2>11, <2>15, <2>16
  <2>19. drawn' \in [Keys -> Nat] /\ \A l \in Keys : drawn[l] <= drawn'[l]
    BY <2>1, SameDrawn
  <2>20. /\ Config \in NoticeKeys \cup TermKeys \cup TokenKeys => x.id <= drawn'[Config]
         /\ x.id = 0 => x = Absent
         /\ Config \in ConsentKeys => x.row.ref = None /\ x.row.term = None
         /\ Config \in TermKeys => x.id # 0
         /\ Config = Config =>
               x.row.ref \in retreats \cup {None} /\ x.row.term \in Existing \cup {None}
    BY <2>13, <2>18
  <2>21. Config \notin overwritten' =>
           /\ x.id # 0 <=> d.id # 0
           /\ \A f \in Fields : x.row[f] = d.row[f]
    BY <2>18
  <2>22. /\ pc' \in [Procs -> PCs] /\ job' \in [Procs -> Job]
         /\ \A q \in Procs \ {p} : pc'[q] = pc[q] /\ job'[q] = job[q]
    BY <2>10
  <2>23. x \in RecordType /\ d \in RecordType
    BY <2>18
  <2> QED
    BY <2>3, <2>14, <2>17, <2>19, <2>20, <2>21, <2>22, <2>23, Puts
<1> QED
  BY <1>1, <1>2

-----------------------------------------------------------------------------
(* The last write of a request. *)

LEMMA SavedShape ==
    ASSUME TypeOK, NEW p \in Procs, NEW k, k = job[p].key
    PROVE  /\ Saved(job[p]) \in RecordType /\ Saved(job[p]).id = job[p].new.id
           /\ \A f \in Fields : Saved(job[p]).row[f] =
                IF job[p].base = Absent \/ job[p].new.row[f] # job[p].base.row[f]
                THEN job[p].new.row[f] ELSE record[k].row[f]
<1>1. /\ job[p].new \in RecordType /\ job[p].new.row \in Content /\ job[p].base.row \in Content
      /\ record[k].row \in Content /\ job[p].new.id \in Nat
  BY JobShape, RecordShape DEF RecordType
<1>2. PICK m : m = Merged(job[p].base.row, job[p].new.row, record[k].row)
  OBVIOUS
<1>3. /\ m \in Content
      /\ \A f \in Fields : m[f] = IF job[p].new.row[f] # job[p].base.row[f]
                                  THEN job[p].new.row[f] ELSE record[k].row[f]
  BY <1>1, <1>2, MergedShape
<1>4. Saved(job[p]) = [id |-> job[p].new.id, row |-> IF job[p].base = Absent THEN job[p].new.row ELSE m]
  BY <1>2 DEF Saved
<1> QED
  BY <1>1, <1>3, <1>4 DEF RecordType

LEMMA WantedShape ==
    ASSUME TypeOK, NEW p \in Procs, NEW k, k = job[p].key
    PROVE  /\ Wanted(job[p]) \in RecordType /\ Wanted(job[p]).id = job[p].new.id
           /\ \A f \in Fields : Wanted(job[p]).row[f] =
                IF f \in job[p].touched THEN job[p].command[f]
                ELSE IF job[p].base = Absent THEN job[p].new.row[f] ELSE wanted[k].row[f]
<1>1. /\ job[p].new.row \in Content /\ job[p].command \in Content /\ job[p].new.id \in Nat
      /\ k \in Keys
  BY JobShape DEF RecordType
<1>2. wanted[k] \in RecordType /\ wanted[k].row \in Content
  BY <1>1 DEF TypeOK, RecordType
<1>3. PICK m : m = [f \in Fields |-> IF f \in job[p].touched THEN job[p].command[f]
                                     ELSE IF job[p].base = Absent THEN job[p].new.row[f]
                                     ELSE wanted[k].row[f]]
  OBVIOUS
<1>4. \A f \in Fields : m[f] = IF f \in job[p].touched THEN job[p].command[f]
                               ELSE IF job[p].base = Absent THEN job[p].new.row[f]
                               ELSE wanted[k].row[f]
  BY <1>3
<1>5. m \in Content
  <2>1. m["value"] \in Values /\ m["ref"] \in {None} \cup Users \cup Retreats
        /\ m["term"] \in {None} \cup Terms
    BY <1>1, <1>2, <1>4, ContentShape DEF Fields
  <2>2. m = [value |-> m["value"], ref |-> m["ref"], term |-> m["term"]]
    BY <1>3 DEF Fields
  <2> QED
    BY <2>1, <2>2 DEF Content
<1>6. Wanted(job[p]) = [id |-> job[p].new.id, row |-> m]
  BY <1>3 DEF Wanted, Fields
<1> QED
  BY <1>1, <1>4, <1>5, <1>6 DEF RecordType

\* A request nobody was ahead of leaves the row as it wanted it.
LEMMA WriteAgrees ==
    ASSUME IInv, NEW p \in Procs, NEW k, k = job[p].key, pc[p] = "write", Alone(p),
           Referable(k, Saved(job[p]).row), NEW f \in Fields
    PROVE  Saved(job[p]).row[f] = Wanted(job[p]).row[f]
<1>1. Fit(p) /\ k \in Keys /\ k \notin overwritten
  BY JobShape DEF IInv, Alone
<1>2. record[k].row[f] = wanted[k].row[f]
  BY <1>1 DEF IInv, RecordsStand
<1>3. f \in job[p].touched => job[p].new.row[f] = job[p].command[f]
  BY <1>1 DEF Fit
<1>4. job[p].base # Absent => Knows(k, f, job[p].base.row[f])
  BY <1>1 DEF Fit
<1>5. f \notin job[p].touched => Knows(k, f, job[p].new.row[f])
  <2>1. CASE k \in ConsentKeys
    BY <1>1, <2>1 DEF Fit, IInv, Plain, Knows, Fields
  <2>2. CASE k \notin ConsentKeys
    BY <1>1, <2>2 DEF Fit
  <2> QED
    BY <2>1, <2>2
<1>6. Saved(job[p]).row[f] = IF job[p].base = Absent \/ job[p].new.row[f] # job[p].base.row[f]
                             THEN job[p].new.row[f] ELSE record[k].row[f]
  BY SavedShape DEF IInv
<1>7. Wanted(job[p]).row[f] = IF f \in job[p].touched THEN job[p].command[f]
                ELSE IF job[p].base = Absent THEN job[p].new.row[f] ELSE wanted[k].row[f]
  BY WantedShape DEF IInv
<1>8. CASE ~(k = Config /\ f = "ref")
  BY <1>2, <1>3, <1>4, <1>5, <1>6, <1>7, <1>8 DEF Knows
<1>9. CASE k = Config /\ f = "ref"
  <2>1. Saved(job[p]).row[f] \in retreats \cup {None}
    BY <1>9 DEF Referable
  <2>2. f \in job[p].touched =>
          record[k].row[f] = None /\ (job[p].base # Absent => job[p].base.row[f] = None)
    BY <1>1, <1>9 DEF Fit
  <2>3. CASE f \in job[p].touched
    BY <1>3, <1>6, <1>7, <2>2, <2>3
  <2>4. CASE f \notin job[p].touched
    <3>1. record[k].row[f] = record[k].row.ref
      BY <1>9
    <3> QED
      BY <1>2, <1>5, <1>6, <1>7, <2>1, <2>4, <3>1 DEF Knows
  <2> QED
    BY <2>3, <2>4
<1> QED
  BY <1>8, <1>9

LEMMA WriteStep ==
    ASSUME IInv, NEW p \in Procs, Write(p)
    PROVE  IInv'
<1>1. PICK k : k = job[p].key
  OBVIOUS
<1>2. PICK x : x = Saved(job[p])
  OBVIOUS
<1>3. PICK w : w = Wanted(job[p])
  OBVIOUS
<1>4. CASE Quit(p)
  BY <1>4, Quits
<1>5. CASE ~ Quit(p)
  <2>1. /\ Put(p, k, x) /\ wanted' = [wanted EXCEPT ![k] = w] /\ Referable(k, x.row)
        /\ Goto(p, "idle", NoJob) /\ UNCHANGED <<drawn, retreats, requests>>
        /\ pc[p] = "write"
    BY <1>1, <1>2, <1>3, <1>5 DEF Write
  <2>3. k \in Keys
    BY <1>1, JobShape DEF IInv
  <2>4. /\ x \in RecordType /\ x.id = job[p].new.id /\ x.id # 0
        /\ \A f \in Fields : x.row[f] =
             IF job[p].base = Absent \/ job[p].new.row[f] # job[p].base.row[f]
             THEN job[p].new.row[f] ELSE record[k].row[f]
    BY <1>1, <1>2, <2>1, SavedShape DEF IInv, Fit
  <2>5. w \in RecordType /\ w.id = job[p].new.id
    BY <1>1, <1>3, WantedShape DEF IInv
  <2>6. k \in NoticeKeys \cup TermKeys \cup TokenKeys => x.id <= drawn'[k]
    BY <1>1, <2>1, <2>4 DEF IInv, Fit
  <2>7. k \in ConsentKeys => x.row.ref = None /\ x.row.term = None
    <3>1. ASSUME k \in ConsentKeys
          PROVE  x.row.ref = None /\ x.row.term = None
      <4>1. /\ job[p].new.row.ref = None /\ record[k].row.ref = None
            /\ job[p].new.row.term = None /\ record[k].row.term = None
        BY <1>1, <2>1, <3>1 DEF IInv, Fit, Plain
      <4>2. /\ x.row["ref"] \in {job[p].new.row["ref"], record[k].row["ref"]}
            /\ x.row["term"] \in {job[p].new.row["term"], record[k].row["term"]}
        BY <2>4 DEF Fields
      <4> QED
        BY <4>1, <4>2
    <3> QED
      BY <3>1
  <2>8. k = Config => x.row.ref \in retreats \cup {None} /\ x.row.term \in Existing \cup {None}
    BY <2>1 DEF Referable
  <2>9. k \notin overwritten' =>
           /\ x.id # 0 <=> w.id # 0
           /\ \A f \in Fields : x.row[f] = w.row[f]
    <3>1. k \notin overwritten' => Alone(p)
      BY <1>1, <2>1 DEF Put, Alone
    <3>2. ASSUME Alone(p), NEW f \in Fields
          PROVE  x.row[f] = w.row[f]
      BY <1>1, <1>2, <1>3, <2>1, <3>2, WriteAgrees
    <3> QED
      BY <2>4, <2>5, <3>1, <3>2
  <2>10. /\ pc' \in [Procs -> PCs] /\ job' \in [Procs -> Job] /\ pc'[p] = "idle"
         /\ \A q \in Procs \ {p} : pc'[q] = pc[q] /\ job'[q] = job[q]
    BY <2>1, DefaultShape, GotoShape DEF IInv, PCs
  <2>11. Fit(p)'
    BY <2>10 DEF Fit
  <2>12. drawn' \in [Keys -> Nat] /\ \A l \in Keys : drawn[l] <= drawn'[l]
    BY <2>1, SameDrawn
  <2>13. /\ Put(p, k, x) /\ wanted' = [wanted EXCEPT ![k] = w] /\ UNCHANGED retreats
         /\ x.id = 0 => x = Absent
         /\ k \in TermKeys => x.id # 0
    BY <2>1, <2>4
  <2>14. x \in RecordType /\ w \in RecordType
    BY <2>4, <2>5
  <2> QED
    BY <2>3, <2>6, <2>7, <2>8, <2>9, <2>10, <2>11, <2>12, <2>13, <2>14, Puts
<1> QED
  BY <1>4, <1>5

\* The row of the configuration loses the retreat, and nothing else changes.
LEMMA ClearedShape ==
    ASSUME NEW rows \in [Keys -> RecordType], NEW t \in Retreats
    PROVE  /\ Cleared(rows, t) \in [Keys -> RecordType]
           /\ \A k \in Keys \ {Config} : Cleared(rows, t)[k] = rows[k]
           /\ Cleared(rows, t)[Config].id = rows[Config].id
           /\ \A f \in Fields \ {"ref"} : Cleared(rows, t)[Config].row[f] = rows[Config].row[f]
           /\ Cleared(rows, t)[Config].row.ref =
                IF rows[Config].row.ref = t THEN None ELSE rows[Config].row.ref
           /\ rows[Config].row.ref # t => Cleared(rows, t)[Config] = rows[Config]
<1>1. Config \in Keys /\ rows[Config] \in RecordType
  BY KeyShape
<1>2. PICK e : e = rows[Config]
  OBVIOUS
<1>3. PICK v : v = IF e.row.ref = t THEN None ELSE e.row.ref
  OBVIOUS
<1>4. PICK r : r = [e EXCEPT !.row.ref = v]
  OBVIOUS
<1>5. e \in RecordType /\ e.row \in Content /\ v \in {None} \cup Users \cup Retreats
  BY <1>1, <1>2, <1>3 DEF RecordType, Content
<1>6. /\ r \in RecordType /\ r.id = e.id /\ r.row.ref = v
      /\ r.row.value = e.row.value /\ r.row.term = e.row.term
      /\ v = e.row.ref => r = e
  BY <1>4, <1>5 DEF RecordType, Content
<1>7. Cleared(rows, t) = [rows EXCEPT ![Config] = r]
  BY <1>1, <1>2, <1>3, <1>4 DEF Cleared
<1>8. \A f \in Fields \ {"ref"} : r.row[f] = e.row[f]
  BY <1>6 DEF Fields
<1> QED
  BY <1>1, <1>2, <1>3, <1>6, <1>7, <1>8

LEMMA RemoveRetreatStep ==
    ASSUME IInv, NEW t \in Retreats, RemoveRetreat(t)
    PROVE  IInv'
<1>1. /\ t \in retreats /\ retreats' = retreats \ {t} /\ t # None
      /\ record' = Cleared(record, t) /\ wanted' = Cleared(wanted, t)
      /\ UNCHANGED <<drawn, pc, job, late, overwritten>>
  BY RecordsAssumption DEF RemoveRetreat, None
<1>2. /\ Config \in Keys /\ record[Config] \in RecordType
      /\ record \in [Keys -> RecordType] /\ wanted \in [Keys -> RecordType]
  BY KeyShape, RecordShape DEF IInv, TypeOK
<1>3. /\ record' \in [Keys -> RecordType]
      /\ \A k \in Keys \ {Config} : record'[k] = record[k]
      /\ record'[Config].id = record[Config].id
      /\ \A f \in Fields \ {"ref"} : record'[Config].row[f] = record[Config].row[f]
      /\ record'[Config].row.ref =
            IF record[Config].row.ref = t THEN None ELSE record[Config].row.ref
      /\ record[Config].row.ref # t => record'[Config] = record[Config]
  BY <1>1, <1>2, ClearedShape
<1>4. /\ wanted' \in [Keys -> RecordType]
      /\ \A k \in Keys \ {Config} : wanted'[k] = wanted[k]
      /\ wanted'[Config].id = wanted[Config].id
      /\ \A f \in Fields \ {"ref"} : wanted'[Config].row[f] = wanted[Config].row[f]
      /\ wanted'[Config].row.ref =
            IF wanted[Config].row.ref = t THEN None ELSE wanted[Config].row.ref
  BY <1>1, <1>2, ClearedShape
<1>5. \A k \in Keys : record'[k].id = record[k].id /\ wanted'[k].id = wanted[k].id
  BY <1>3, <1>4
<1>6. TypeOK'
  BY <1>1, <1>3, <1>4, <1>5, KeyShape DEF IInv, TypeOK
<1>7. Plain'
  <2>1. record[Config].id = 0 => record[Config].row.ref = None
    BY <1>2, DefaultShape DEF IInv, Plain
  <2> QED
    BY <1>1, <1>3, <1>5, <2>1, KeyShape DEF IInv, Plain
<1>8. RecordsStand'
  <2>1. ASSUME NEW k \in Keys \ overwritten, NEW f \in Fields
        PROVE  record'[k].row[f] = wanted'[k].row[f]
    <3>1. record[k].row[f] = wanted[k].row[f]
      BY DEF IInv, RecordsStand
    <3>2. CASE k # Config
      BY <1>3, <1>4, <3>1, <3>2
    <3>3. CASE k = Config /\ f # "ref"
      BY <1>3, <1>4, <3>1, <3>3
    <3>4. CASE k = Config /\ f = "ref"
      BY <1>3, <1>4, <3>1, <3>4
    <3> QED
      BY <3>2, <3>3, <3>4
  <2> QED
    BY <1>1, <1>5, <2>1 DEF IInv, RecordsStand, Exists
<1>9. ConfigSelectsExisting'
  <2>1. ASSUME NEW x \in Existing
        PROVE  x \in Existing'
    <3>1. <<"term", x>> \in Keys /\ x \in Terms
      BY KeyShape DEF Existing, TermKeys
    <3> QED
      BY <1>5, <3>1 DEF Existing, Exists
  <2>2. record'[Config].row["term"] = record[Config].row["term"]
    BY <1>3 DEF Fields
  <2> QED
    BY <1>1, <1>3, <2>1, <2>2 DEF IInv, ConfigSelectsExisting
<1>10. ASSUME NEW p \in Procs
       PROVE  Fit(p)'
  <2>1. Fit(p) /\ job[p].key \in Keys
    BY JobShape DEF IInv
  <2>2. Alone(p)' <=> Alone(p)
    BY <1>1 DEF Alone
  <2>3. record[Config] = Absent => record'[Config] = Absent
    BY <1>1, <1>3, DefaultShape
  <2>4. record[Config].row.ref = None => record'[Config].row.ref = None
    BY <1>1, <1>3
  <2>5. ASSUME NEW k \in Keys, NEW f \in Fields, NEW v, Knows(k, f, v)
        PROVE  Knows(k, f, v)'
    <3>1. CASE k # Config
      BY <1>3, <2>5, <3>1 DEF Knows
    <3>2. CASE k = Config /\ f # "ref"
      BY <1>3, <2>5, <3>2 DEF Knows
    <3>3. CASE k = Config /\ f = "ref"
      <4>1. v = record[Config].row.ref \/ (record[Config].row.ref = None /\ v \notin retreats)
        BY <2>5, <3>3 DEF Knows
      <4>2. v = record'[Config].row.ref \/ (record'[Config].row.ref = None /\ v \notin retreats')
        BY <1>1, <1>3, <2>4, <4>1
      <4> QED
        BY <3>3, <4>2 DEF Knows
    <3> QED
      BY <3>1, <3>2, <3>3
  <2>6. /\ \A f \in Fields : Knows(job[p].key, f, job[p].new.row[f]) =>
              Knows(job[p].key, f, job[p].new.row[f])'
        /\ \A f \in Fields : Knows(job[p].key, f, job[p].base.row[f]) =>
              Knows(job[p].key, f, job[p].base.row[f])'
    BY <1>1, <2>1, <2>5
  <2> QED
    BY <1>1, <1>5, <2>1, <2>2, <2>3, <2>4, <2>6 DEF Fit
<1> QED
  BY <1>6, <1>7, <1>8, <1>9, <1>10 DEF IInv

LEMMA Stutters == IInv /\ UNCHANGED vars => IInv'
<1> SUFFICES ASSUME IInv, UNCHANGED vars
             PROVE  IInv'
  OBVIOUS
<1>1. TypeOK' /\ Plain'
  BY DEF vars, IInv, TypeOK, Plain
<1>2. RecordsStand' /\ ConfigSelectsExisting'
  BY DEF vars, IInv, RecordsStand, ConfigSelectsExisting, Exists, Existing
<1>3. \A p \in Procs : Fit(p)'
  BY DEF vars, IInv, Fit, Alone, Knows
<1> QED
  BY <1>1, <1>2, <1>3 DEF IInv

-----------------------------------------------------------------------------
(* The results. *)

\* The inductive invariant holds throughout: what every request still in flight in these
\* services remembers of its row, beside what the other theorems say of the rows
\* themselves (notice.service.ts:64-104, consent.service.ts:35-70).
THEOREM Invariant == Spec => []IInv
<1>1. IInv /\ [Next]_vars => IInv'
  <2> SUFFICES ASSUME IInv, [Next]_vars
               PROVE  IInv'
    OBVIOUS
  <2>1. CASE UNCHANGED vars
    BY <2>1, Stutters
  <2>2. CASE \E t \in Retreats : RemoveRetreat(t)
    BY <2>2, RemoveRetreatStep
  <2>3. ASSUME NEW p \in Procs, Step(p)
        PROVE  IInv'
    BY <2>3, RegisterInsertStep, LoadConfigStep, ReloadStep, CreateConfigStep, WriteStep
       DEF Step
  <2>4. ASSUME NEW p \in Procs, Request(p)
        PROVE  IInv'
    BY <2>4, RequestStep
  <2> QED
    BY <2>1, <2>2, <2>3, <2>4 DEF Next
<1> QED
  BY <1>1, InitHolds, PTL DEF Spec

\* The state keeps its shape, and no row of a counted table has an id the table has not
\* given (register-push-token.usecase.ts:27-50).
THEOREM TypeCorrect == Spec => []TypeOK
<1>1. IInv => TypeOK
  BY DEF IInv
<1> QED
  BY <1>1, Invariant, PTL

\* For every number of requests, rows and users, what accepted requests wrote or deleted
\* stands in every column, as long as no request writes a row that was written since it
\* loaded it.  Of the configuration this says that the first selection of a term or of a
\* retreat stands against every later PUT, accepted as it is, until the retreat is removed
\* (notice.service.ts:64-104, register-push-token.usecase.ts:27-50,
\* update-system-config.usecase.ts:32-50, get-system-config.query.ts:13-24).
THEOREM AcceptedStands == Spec => []RecordsStand
<1>1. IInv => RecordsStand
  BY DEF IInv
<1> QED
  BY <1>1, Invariant, PTL

\* The configuration selects a term and a retreat that exist, or none, however validation,
\* removal and saving interleave (update-system-config.usecase.ts:52-73,
\* system-config.entity.ts:97-123).
THEOREM SelectionExists == Spec => []ConfigSelectsExisting
<1>1. IInv => ConfigSelectsExisting
  BY DEF IInv
<1> QED
  BY <1>1, Invariant, PTL

=============================================================================
