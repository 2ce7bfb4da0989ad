-------------------------------- MODULE Form ---------------------------------
(***************************************************************************)
(* The application form as administrators and applicants use it at the     *)
(* same time: Questionnaire and Catalogue together with the submissions    *)
(* that are validated against both and stored.                             *)
(*                                                                         *)
(* A submission and an administrator's change of one run in a transaction. *)
(* Their plain reads all see the snapshot of the first; the writes at the  *)
(* end meet the rows as they are then, and the foreign keys to the rows    *)
(* chosen.  The status of the application is the subject of Application.   *)
(***************************************************************************)
EXTENDS Integers, Sequences, FiniteSets, Actors

CONSTANTS
    QuestionIds, OptionIds, Kinds, MaxOptions,
    SurveyIds, MealIds, RideIds, Slots, Names, MaxRequests,
    Sheets,     \* the sets of answers applicants send
    Filled      \* the contents of the form at the start, besides an empty one

ASSUME FormAssumption ==
    /\ QuestionIds \cup OptionIds \cup SurveyIds \cup MealIds \cup RideIds \subseteq Nat \ {0}
    /\ IsFiniteSet(QuestionIds)
    /\ Kinds \subseteq {"SUBJECTIVE", "SINGLE_SELECT", "MULTI_SELECT"} \X {0, 1}
    /\ 1 \in SurveyIds
    /\ "none" \notin Slots
    /\ Names # {}
    /\ MaxOptions \in Nat
    /\ MaxRequests \in Nat
    /\ Sheets \subseteq SUBSET [question : QuestionIds, option : OptionIds \cup {0}]

VARIABLES
    question, option, drawn, answers, qpc, qjob, loose, gapped,
    retreat, survey, meal, ride, given, chosen, riding, applied, cpc, cjob,
    wanted, late, overwritten, edited,
    requests,
    spc,        \* where each submission stands
    sjob        \* what each submission will store

Main == 1

Q == INSTANCE Questionnaire WITH formThere <- IF survey[Main] = "none" THEN 0 ELSE 1
C == INSTANCE Catalogue

questions == <<question, option, drawn, qpc, qjob, loose, gapped>>
catalogue == <<retreat, survey, meal, ride, given, chosen, riding, applied, cpc, cjob,
               wanted, late, overwritten, edited>>
submissions == <<spc, sjob>>

\* A form as requests leave it that have all ended: ids are given once, the foreign keys
\* and unique indexes hold, and the questions are numbered from 1.
SoundForm(f) ==
    LET present == {q \in QuestionIds : f.question[q].there = 1}
        options(q) == {o \in OptionIds : f.option[o].of = q}
    IN
    /\ f.survey \in [SurveyIds -> C!Periods \cup {C!None}]
    /\ f.meal \in [MealIds -> Slots \cup {C!None}]
    /\ f.ride \in [RideIds -> C!Ride]
    /\ f.given \in [survey : Nat, meal : Nat, ride : Nat]
    /\ f.question \in [QuestionIds -> Q!Question]
    /\ f.option \in [OptionIds -> Q!Option]
    /\ f.drawn \in [question : Nat, option : Nat]
    /\ f.answers \subseteq Q!Answer
    /\ f.chosen \subseteq Users \X MealIds
    /\ f.riding \subseteq C!Riding
    /\ f.applied \in [Users -> SurveyIds \cup {0}]
    /\ \A t \in RideIds : f.ride[t].there = 1 => t <= f.given.ride
    /\ \A q \in present :
        /\ q <= f.drawn.question
        /\ f.question[q].order <= Cardinality(present)
        /\ f.question[q].kind \in Q!Selects => options(q) # {}
        /\ \A r \in present \ {q} : f.question[q].order # f.question[r].order
    /\ \A q \in QuestionIds \ present : options(q) = {}
    /\ \A o \in OptionIds : f.option[o].of # 0 => o <= f.drawn.option
    /\ present # {} => f.survey[Main] # C!None
    /\ \A a \in f.answers :
        /\ a.question \in present
        /\ a.option # 0 => f.option[a.option].of = a.question
    /\ \A c \in f.chosen : f.meal[c[2]] # C!None
    /\ \A c \in f.riding :
        /\ f.ride[c.ride].there = 1 /\ f.ride[c.ride].direction = c.direction
        /\ \A d \in f.riding \ {c} : c.user # d.user \/ c.direction # d.direction

ASSUME FilledAssumption == \A f \in Filled : SoundForm(f)

formVars == <<questions, catalogue, submissions, answers, requests>>

-----------------------------------------------------------------------------

Parts == {"answers", "meals", "rides"}

\* parts: what the request replaces.
Submission == [user : Users \cup {"nobody"}, parts : SUBSET Parts, answers : SUBSET Q!Answer,
        meals : SUBSET MealIds, rides : SUBSET C!Riding]

NoSubmission == [user |-> "nobody", parts |-> {}, answers |-> {}, meals |-> {}, rides |-> {}]

FormInit ==
    /\ Q!QuestionInit
    /\ \/ /\ retreat = "unborn"
          /\ survey = [s \in SurveyIds |-> "none"]
          /\ meal = [m \in MealIds |-> "none"]
          /\ ride = [t \in RideIds |-> C!NoRide]
          /\ given = [survey |-> 0, meal |-> 0, ride |-> 0]
          /\ question = [q \in QuestionIds |-> Q!NoQuestion]
          /\ option = [o \in OptionIds |-> Q!NoOption]
          /\ drawn = [question |-> 0, option |-> 0]
          /\ answers = {} /\ chosen = {} /\ riding = {}
          /\ applied = [u \in Users |-> 0]
       \/ \E f \in Filled :
          /\ retreat = "there"
          /\ survey = f.survey
          /\ meal = f.meal
          /\ ride = f.ride
          /\ given = f.given
          /\ question = f.question
          /\ option = f.option
          /\ drawn = f.drawn
          /\ answers = f.answers /\ chosen = f.chosen /\ riding = f.riding
          /\ applied = f.applied
    /\ C!CatalogueInit
    /\ requests = 0
    /\ spc = [p \in Procs |-> "idle"]
    /\ sjob = [p \in Procs |-> NoSubmission]

\* p serves no request, and may take one.
Free(p) ==
    /\ requests < MaxRequests
    /\ qpc[p] = "idle" /\ cpc[p] = "idle" /\ spc[p] = "idle"

QuestionsStill == UNCHANGED <<questions, answers>>

-----------------------------------------------------------------------------
(* Submissions *)

Take(p, j) ==
    /\ requests' = requests + 1
    /\ spc' = [spc EXCEPT ![p] = "write"]
    /\ sjob' = [sjob EXCEPT ![p] = j]
    /\ QuestionsStill
    /\ UNCHANGED catalogue

\* The upsert of an application: everything is validated against the snapshot.
Submit(p, u, A, M, c) ==
    /\ retreat = "there"
    /\ survey[Main] = "open"
    /\ Q!ValidAnswers(A)
    /\ C!ValidMeals(M)
    /\ C!ValidRides(c)
    /\ Take(p, [user |-> u, parts |-> Parts, meals |-> M, rides |-> C!AsStored(u, c),
                answers |-> {[user |-> u, question |-> a.question, option |-> a.option] : a \in A}])

\* Another administrator's request that holds the row of the application of u.
RowHeld(u) == \E r \in Procs :
    spc[r] = "write" /\ sjob[r].user = u /\ "answers" \notin sjob[r].parts

\* An administrator replaces the meals, the transports or both of an application, and
\* locks it before anything is read.
AdminUpdate(p, u, parts, M, c) ==
    /\ parts # {}
    /\ ~RowHeld(u)
    /\ applied[u] # 0
    /\ C!ValidMeals(M)
    /\ C!ValidRides(c)
    /\ Take(p, [NoSubmission EXCEPT !.user = u, !.parts = parts, !.meals = M,
                    !.rides = C!AsStored(u, c)])

\* Deletes the rows of the application, mine, and inserts the new ones.
Replaced(old, mine, new, j, part) ==
    IF part \in j.parts THEN (old \ mine) \cup new ELSE old

\* The writes and the commit, or, when a row chosen has gone, the rollback.
Store(p) ==
    /\ spc[p] = "write"
    /\ spc' = [spc EXCEPT ![p] = "idle"]
    /\ sjob' = [sjob EXCEPT ![p] = NoSubmission]
    /\ UNCHANGED <<questions, requests, retreat, survey, meal, ride, given, cpc, cjob,
                   wanted, late, overwritten, edited>>
    /\ LET j == sjob[p] IN
        IF \/ ~C!Referable(j.meals, j.rides)
           \/ ~Q!Answerable(j.answers)
           \/ "answers" \in j.parts /\ survey[Main] = "none"
        THEN UNCHANGED <<answers, chosen, riding, applied>>
        ELSE /\ answers' = Replaced(answers, {a \in answers : a.user = j.user}, j.answers, j, "answers")
             /\ chosen' = Replaced(chosen, {j.user} \X MealIds, {j.user} \X j.meals, j, "meals")
             /\ riding' = Replaced(riding, {c \in riding : c.user = j.user}, j.rides, j, "rides")
             /\ applied' = IF "answers" \in j.parts
                           THEN [applied EXCEPT ![j.user] = Main] ELSE applied

-----------------------------------------------------------------------------

\* What applicants and administrators choose, where it is valid.
Chooses(p) ==
    \E M \in SUBSET MealIds, c \in SUBSET C!Command :
        /\ C!ValidMeals(M)
        /\ C!ValidRides(c)
        /\ \E u \in Users :
            \/ \E A \in Sheets : Submit(p, u, A, M, c)
            \/ \E parts \in SUBSET {"meals", "rides"} :
                /\ "meals" \in parts \/ M = {}
                /\ "rides" \in parts \/ c = {}
                /\ AdminUpdate(p, u, parts, M, c)

\* The forms with questions: every question is of the main form.
Asked == IF Q!Present = {} THEN {} ELSE {Main}

FormRequest(p) ==
    /\ Free(p)
    /\ \/ /\ UNCHANGED <<catalogue, submissions>>
          /\ Q!QuestionRequest(p)
       \/ /\ QuestionsStill
          /\ UNCHANGED submissions
          /\ C!CatalogueRequest(p)
       \/ Chooses(p)

FormStep(p) ==
    \/ /\ UNCHANGED <<catalogue, submissions>>
       /\ Q!QuestionStep(p)
    \/ /\ QuestionsStill
       /\ UNCHANGED submissions
       /\ C!CatalogueStep(p, Asked)
    \/ Store(p)

FormNext == \E p \in Procs : FormRequest(p) \/ FormStep(p)

FormSpec == FormInit /\ [][FormNext]_formVars

-----------------------------------------------------------------------------
(* Properties. *)

\* The shape of the state; a process serves one request.
FormTypeOK ==
    /\ Q!QuestionTypeOK
    /\ C!CatalogueTypeOK
    /\ requests \in 0..MaxRequests
    /\ spc \in [Procs -> {"idle", "write"}]
    /\ sjob \in [Procs -> Submission]
    /\ Q!Present # {} => survey[Main] # "none"

\* What applicants have answered is answers to questions that are there, with options of
\* these questions, and a question with a choice offers one (question.service.ts:54-66,
\* 125-129, 264-270, upsert-my-application.usecase.ts:420-431).
FormAnswerable == Q!AnswersFit /\ Q!ChoiceHasOptions

\* Until a question is deleted, left out of a reordering or saved with an old number, the
\* number the next question will get is free (question.service.ts:52, 149-166).
NextNumberFree == Q!NextNumberFree

\* The meals and transports applicants have chosen are there, one transport a direction,
\* in the direction it goes unless an administrator has changed that since
\* (meal.delete.usecase.ts:35-47, transport-delete.usecase.ts:31-41,
\* upsert-my-application.usecase.ts:268-295, transport-update.usecase.ts:33-34).
ChoicesHold == C!ChosenExist /\ C!DirectionsMatch

\* Forms are open, closed or deleted as the last accepted request wanted, however requests
\* overlap, unless an update of the retreat's title put back what it had loaded
\* (retreat.service.ts:84-146, survey.service.ts:92-129).
PeriodsStand == C!PeriodsStand

=============================================================================
