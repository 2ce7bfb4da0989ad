---------------------------- MODULE Questionnaire ----------------------------
(***************************************************************************)
(* The questions of one application form and their options:                *)
(* QuestionService, over the tables Question and QuestionOption.           *)
(*                                                                         *)
(* Creating and updating a question take no transaction: the question is   *)
(* saved, and its options are read, deleted and saved by statements of     *)
(* their own.  Reordering and deleting run in a transaction.  The unique   *)
(* indexes and the foreign keys are checked by each write.                 *)
(***************************************************************************)
EXTENDS Integers, Sequences, FiniteSets

CONSTANTS
    Procs,       \* requests that may be in flight at once
    Users,       \* applicants
    QuestionIds, \* ids the auto-increment gives to questions: 1..n
    OptionIds,   \* and to options: 1..n
    Kinds,       \* the answer types administrators use, with whether an answer is required
    MaxOptions,  \* bound: options a request gives
    MaxRequests  \* bound: how many requests are made

VARIABLES
    formThere, \* 1 while the survey of the form exists
    question,  \* the committed questions
    option,    \* the committed options
    drawn,     \* ids given so far, to questions and to options
    answers,   \* the committed answers, of submissions
    qpc,       \* where each request stands
    qjob,      \* what each request remembers
    requests,  \* requests made so far
    loose,     \* history: questions a request left half written, or two wrote at once
    gapped     \* history: 1 once the numbers of the questions may have a gap

-----------------------------------------------------------------------------
(* The shape of the data. *)

Selects == {"SINGLE_SELECT", "MULTI_SELECT"}

Question == [there : {0, 1}, kind : {"SUBJECTIVE"} \cup Selects, required : {0, 1},
             order : Nat]

NoQuestion == [there |-> 0, kind |-> "SUBJECTIVE", required |-> 0, order |-> 0]

\* of is the question, 0 when there is no such option; labels are left out.
Option == [of : QuestionIds \cup {0}, order : Nat]

NoOption == [of |-> 0, order |-> 0]

\* Option 0 is an answer in words.
Answer == [user : Users, question : QuestionIds, option : OptionIds \cup {0}]

OptionsOf(q) == {o \in OptionIds : option[o].of = q}

Present == {q \in QuestionIds : question[q].there = 1}

\* An entry 0 of a list of options is a new one.
Lists == UNION {[1..n -> OptionIds \cup {0}] : n \in 0..MaxOptions}

Orders == UNION {[1..n -> QuestionIds] : n \in 0..Cardinality(QuestionIds)}

(* "insert"  options checked and questions counted, question not inserted   (create)
   "store"   question loaded and edited, not saved                          (update)
   "sync"    question saved, options not read
   "prune"   options matched, those left over not deleted
   "attach"  left-over options deleted, options not saved
   "order"   ids of the list checked                                        (reorder) *)
PCs == {"idle", "insert", "store", "sync", "prune", "attach", "order"}

\* given: options came with the request; seen: the options loaded with the question.
Job == [q : QuestionIds \cup {0}, row : Question, given : {0, 1},
        list : Seq(OptionIds \cup QuestionIds \cup {0}), seen : SUBSET OptionIds]

NoJob == [q |-> 0, row |-> NoQuestion, given |-> 0, list |-> <<>>, seen |-> {}]

-----------------------------------------------------------------------------
(* Helpers. *)

Goto(p, point, j) ==
    /\ qpc' = [qpc EXCEPT ![p] = point]
    /\ qjob' = [qjob EXCEPT ![p] = j]

Begin(p) ==
    /\ qpc[p] = "idle"
    /\ requests < MaxRequests
    /\ requests' = requests + 1

Still == UNCHANGED <<formThere, question, option, drawn, answers>>

\* A request that ends without writing.
Quit(p) == Goto(p, "idle", NoJob) /\ UNCHANGED <<requests, loose, gapped>> /\ Still

\* A request that fails after it has saved the question.
Fail(p) ==
    /\ Goto(p, "idle", NoJob)
    /\ loose' = loose \cup {qjob[p].q}
    /\ UNCHANGED <<requests, gapped>>
    /\ Still

\* Requests that have saved q and have not finished.
Attaching(q) == {r \in Procs : qpc[r] \in {"sync", "prune", "attach"} /\ qjob[r].q = q}

MarkMixed(p, q) ==
    loose' = IF Attaching(q) \ {p} # {} THEN loose \cup {q} ELSE loose

\* Variant: no unique index on the number.
OrderFree_Unindexed(n, q) == TRUE

\* The unique index on survey and number.
OrderFree(n, q) == \A r \in Present \ {q} : question[r].order # n

-----------------------------------------------------------------------------
(* Creating and updating *)

\* validateOptions: none with a question in words, some with a choice.
ValidOptions(kind, given, list) ==
    IF kind = "SUBJECTIVE" THEN list = <<>> ELSE given = 1 /\ list # <<>>

CreateQuestion(p, kind, required, list) ==
    /\ Begin(p)
    /\ formThere = 1
    /\ ValidOptions(kind, 1, list)
    /\ Goto(p, "insert", [NoJob EXCEPT !.list = list,
            !.row = [there |-> 1, kind |-> kind, required |-> required,
                     order |-> Cardinality(Present) + 1]])
    /\ UNCHANGED <<loose, gapped>>
    /\ Still

\* The INSERT, which the index on the number and the key of the survey may refuse.
InsertQuestion(p) ==
    /\ qpc[p] = "insert"
    /\ LET j == qjob[p]
           q == drawn.question + 1
       IN
        IF formThere = 0 \/ ~OrderFree(j.row.order, 0)
        THEN Quit(p)
        ELSE /\ q \in QuestionIds
             /\ question' = [question EXCEPT ![q] = j.row]
             /\ drawn' = [drawn EXCEPT !.question = q]
             /\ IF j.list = <<>> THEN Goto(p, "idle", NoJob)
                ELSE Goto(p, "sync", [j EXCEPT !.q = q])
             /\ UNCHANGED <<formThere, option, answers, requests, loose, gapped>>

\* Without an answer type the question keeps its own.
UpdateQuestion(p, q, kind, required, given, list) ==
    /\ Begin(p)
    /\ q \in Present
    /\ ValidOptions(kind, given, list)
    /\ Goto(p, "store", [q |-> q, given |-> given, list |-> list, seen |-> OptionsOf(q),
            row |-> [question[q] EXCEPT !.kind = kind, !.required = required]])
    /\ UNCHANGED <<loose, gapped>>
    /\ Still

\* save of the question with the number and the options it was loaded with.  A number that
\* has changed since is written back; a question that has gone is inserted again; and an
\* option that has come since makes save fail (TypeORM, external, takes it away from the
\* question, and the column may not be null).
StoreQuestion(p) ==
    /\ qpc[p] = "store"
    /\ LET j == qjob[p] IN
        IF \/ ~(OptionsOf(j.q) \subseteq j.seen)
           \/ ~OrderFree(j.row.order, j.q)
           \/ j.q \notin Present /\ formThere = 0
        THEN Quit(p)
        ELSE /\ question' = [question EXCEPT ![j.q] = j.row]
             /\ gapped' = IF question[j.q].order = j.row.order THEN gapped ELSE 1
             /\ MarkMixed(p, j.q)
             /\ IF j.given = 1 THEN Goto(p, "sync", j) ELSE Goto(p, "idle", NoJob)
             /\ UNCHANGED <<formThere, option, drawn, answers, requests>>

-----------------------------------------------------------------------------
(* syncOptions *)

\* The entries of the list that name an option of the question, each the first time.
Matched(q, list) ==
    [i \in DOMAIN list |->
        IF list[i] \in OptionsOf(q) /\ \A k \in 1..(i - 1) : list[k] # list[i]
        THEN list[i] ELSE 0]

ReadOptions(p) ==
    /\ qpc[p] = "sync"
    /\ LET j == qjob[p]
           list == Matched(j.q, j.list)
           rest == OptionsOf(j.q) \ {list[i] : i \in DOMAIN list}
       IN Goto(p, IF rest = {} THEN "attach" ELSE "prune", [j EXCEPT !.list = list, !.seen = rest])
    /\ UNCHANGED <<requests, loose, gapped>>
    /\ Still

Answered(S) == \E a \in answers : a.option \in S

\* The options the list leaves out are deleted, all or, when one is answered, none.
PruneOptions(p) ==
    /\ qpc[p] = "prune"
    /\ LET j == qjob[p] IN
        IF Answered(j.seen)
        THEN Fail(p)
        ELSE /\ option' = [o \in OptionIds |-> IF o \in j.seen THEN NoOption ELSE option[o]]
             /\ Goto(p, "attach", j)
             /\ UNCHANGED <<formThere, question, drawn, answers, requests, loose, gapped>>

\* The options are saved in one transaction: those without a row are inserted, the others
\* get their places one after the other, and a place must be free when it is given.
PlacesFree(q, list) ==
    LET kept == {o \in OptionsOf(q) : \E i \in DOMAIN list : list[i] = o}
        place(o) == CHOOSE i \in DOMAIN list : list[i] = o
    IN \A i \in DOMAIN list : \A o \in OptionsOf(q) \ {list[i]} :
        option[o].order = i => list[i] \in kept /\ o \in kept /\ place(o) < i

New(list, i) == Cardinality({k \in 1..i : list[k] = 0})

AttachOptions(p) ==
    /\ qpc[p] = "attach"
    /\ LET j == qjob[p]
           id(i) == IF j.list[i] = 0 THEN drawn.option + New(j.list, i) ELSE j.list[i]
           ids == {id(i) : i \in DOMAIN j.list}
       IN
        IF j.list # <<>> /\ (j.q \notin Present \/ ~PlacesFree(j.q, j.list))
        THEN Fail(p)
        ELSE /\ ids \subseteq OptionIds
             /\ option' = [o \in OptionIds |->
                    IF o \in ids
                    THEN [of |-> j.q, order |-> CHOOSE i \in DOMAIN j.list : id(i) = o]
                    ELSE option[o]]
             /\ drawn' = [drawn EXCEPT !.option = @ + New(j.list, Len(j.list))]
             /\ Goto(p, "idle", NoJob)
             /\ UNCHANGED <<formThere, question, answers, requests, loose, gapped>>

-----------------------------------------------------------------------------
(* Reordering and deleting *)

\* The ids of the list are questions of the survey, each once.
ReorderQuestions(p, list) ==
    /\ Begin(p)
    /\ \A i \in DOMAIN list : list[i] \in Present
    /\ \A i, k \in DOMAIN list : list[i] = list[k] => i = k
    /\ Goto(p, "order", [NoJob EXCEPT !.list = list])
    /\ UNCHANGED <<loose, gapped>>
    /\ Still

Shift == 1000

\* Variant: one place too far.
Place_Beyond(list, q) == 1 + CHOOSE i \in DOMAIN list : list[i] = q

Place(list, q) == CHOOSE i \in DOMAIN list : list[i] = q

\* Every question of the survey is moved out of the way and those of the list are numbered
\* from 1.  The move meets a number in use when an earlier one left a question behind, and
\* then fails or not by the order in which the database takes the rows.  The numbers it
\* gives are free unless there are more of them than the move makes room for.
MoveQuestions(p) ==
    /\ qpc[p] = "order"
    /\ LET list == qjob[p].list
           listed == {list[i] : i \in DOMAIN list}
           meets == \E q, r \in Present : question[q].order + Shift = question[r].order
           crowded == \E i \in DOMAIN list, r \in Present :
               question[r].order + Shift = i /\ (r \in listed => Place(list, r) > i)
           number(q) == IF q \in listed THEN Place(list, q) ELSE question[q].order + Shift
       IN
        \/ (meets \/ crowded) /\ Quit(p)
        \/ /\ ~crowded
           /\ question' = [q \in QuestionIds |->
                  IF q \in Present THEN [question[q] EXCEPT !.order = number(q)]
                  ELSE question[q]]
           /\ gapped' = IF Present = listed THEN gapped ELSE 1
           /\ Goto(p, "idle", NoJob)
           /\ UNCHANGED <<formThere, option, drawn, answers, requests, loose>>

\* One transaction: the options, then the question; nothing when one of them is answered.
DeleteQuestion(p, q) ==
    /\ Begin(p)
    /\ q \in Present
    /\ ~Answered(OptionsOf(q))
    /\ \A a \in answers : a.question # q
    /\ question' = [question EXCEPT ![q] = NoQuestion]
    /\ option' = [o \in OptionIds |-> IF option[o].of = q THEN NoOption ELSE option[o]]
    /\ gapped' = 1
    /\ UNCHANGED <<formThere, drawn, answers, qpc, qjob, loose>>

-----------------------------------------------------------------------------
(* What a submission asks of the questions. *)

\* Variant: any option there is will do.
ValidAnswers_AnyOption(A) ==
    /\ \A a \in A : a.question \in Present
    /\ \A q \in Present :
        LET mine == {a.option : a \in {b \in A : b.question = q}} IN
        /\ question[q].required = 1 => mine # {}
        /\ CASE question[q].kind = "SUBJECTIVE" -> mine \subseteq {0}
             [] OTHER -> \A o \in mine : o # 0 /\ option[o].of # 0

\* validateAnswers: every answer is to a question of the form, required questions are
\* answered, and each answer fits the type of its question.
ValidAnswers(A) ==
    /\ \A a \in A : a.question \in Present
    /\ \A q \in Present :
        LET mine == {a.option : a \in {b \in A : b.question = q}} IN
        /\ question[q].required = 1 => mine # {}
        /\ CASE question[q].kind = "SUBJECTIVE" -> mine \subseteq {0}
             [] question[q].kind = "SINGLE_SELECT" ->
                    mine \subseteq OptionsOf(q) /\ Cardinality(mine) <= 1
             [] OTHER -> mine \subseteq OptionsOf(q)

\* The foreign keys of an answer.
Answerable(A) ==
    \A a \in A : a.question \in Present /\ (a.option # 0 => option[a.option].of # 0)

-----------------------------------------------------------------------------

QuestionInit ==
    /\ qpc = [p \in Procs |-> "idle"]
    /\ qjob = [p \in Procs |-> NoJob]
    /\ loose = {}
    /\ gapped = 0

\* A request of an administrator, at AdminQuestionController.
QuestionRequest(p) ==
    \/ \E k \in Kinds, list \in {l \in Lists : \A i \in DOMAIN l : l[i] = 0} :
        CreateQuestion(p, k[1], k[2], list)
    \/ \E q \in QuestionIds, k \in Kinds, list \in Lists :
        \/ UpdateQuestion(p, q, k[1], k[2], 1, list)
        \/ list = <<>> /\ UpdateQuestion(p, q, k[1], k[2], 0, list)
    \/ \E list \in Orders : ReorderQuestions(p, list)
    \/ \E q \in QuestionIds : DeleteQuestion(p, q)

QuestionStep(p) ==
    \/ InsertQuestion(p)
    \/ StoreQuestion(p)
    \/ ReadOptions(p)
    \/ PruneOptions(p)
    \/ AttachOptions(p)
    \/ MoveQuestions(p)

-----------------------------------------------------------------------------
(* Properties. *)

\* The shape of the questions and options.
QuestionTypeOK ==
    /\ question \in [QuestionIds -> Question]
    /\ option \in [OptionIds -> Option]
    /\ drawn \in [question : Nat, option : Nat]
    /\ answers \subseteq Answer
    /\ qpc \in [Procs -> PCs]
    /\ qjob \in [Procs -> Job]
    /\ loose \subseteq QuestionIds
    /\ gapped \in {0, 1}
    /\ \A o \in OptionIds : option[o].of # 0 => option[o].of \in Present
    /\ \A q, r \in Present : q # r => question[q].order # question[r].order

\* Every stored answer is to a question that exists, and an option it names exists and is
\* an option of that question, whatever administrators change or fail to change
\* meanwhile (upsert-my-application.usecase.ts:420-431, question.service.ts:264-267).
AnswersFit ==
    \A a \in answers :
        /\ a.question \in Present
        /\ a.option # 0 => option[a.option].of = a.question

\* A question with a choice has options, once the request that saved it has ended, unless
\* a request failed between its commits or two requests saved it at once
\* (question.service.ts:54-66, 125-129, 266-270).
ChoiceHasOptions ==
    \A q \in Present \ loose :
        question[q].kind \in Selects /\ Attaching(q) = {} => OptionsOf(q) # {}

\* The number the next question will get is free, until a question is deleted, left out
\* of a reordering or saved with an old number (question.service.ts:52, 149-166).
NextNumberFree ==
    gapped = 0 => OrderFree(Cardinality(Present) + 1, 0)

=============================================================================
