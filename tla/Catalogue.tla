------------------------------ MODULE Catalogue ------------------------------
(***************************************************************************)
(* What an application may choose: the retreat, its application forms, its *)
(* meals and its transports, by RetreatService, SurveyService and the use  *)
(* cases of src/modules/retreat; and the choices applications have stored. *)
(*                                                                         *)
(* Lookups and writes are separate statements.  A write checks the unique  *)
(* indexes and the foreign keys; save of an entity whose row has gone      *)
(* inserts it again.                                                       *)
(***************************************************************************)
EXTENDS Integers, FiniteSets

CONSTANTS
    Procs,        \* requests that may be in flight at once
    Users,        \* applicants
    SurveyIds, MealIds, RideIds,  \* ids the auto-increment gives: 1..n
    Slots,        \* day and type of a meal
    Names,        \* type and name of a transport
    MaxRequests   \* bound: how many requests are made

VARIABLES
    retreat,    \* "unborn", "there" or "gone"
    survey,     \* the committed application forms: none, open or closed
    meal,       \* the committed meals: a slot, or None
    ride,       \* the committed transports
    given,      \* ids given so far
    chosen,     \* the meals of applications, as <<user, meal>>
    riding,     \* the transports of applications
    applied,    \* the form of each user's application, or 0
    cpc,        \* where each request stands
    cjob,       \* what each request remembers
    requests,   \* requests made so far
    wanted,     \* history: each form as the accepted requests wanted it
    late,       \* history: requests whose form another has since written
    overwritten,\* history: forms a late request has put back that only changed the title
    edited      \* history: transports whose direction was changed

-----------------------------------------------------------------------------
(* The shape of the data. *)

None == "none"

Directions == {"DEPARTURE", "RETURN"}

Ride == [there : {0, 1}, direction : Directions, name : Names, vehicle : {0, 1}]

NoRide == [there |-> 0, direction |-> "DEPARTURE", name |-> CHOOSE n \in Names : TRUE,
           vehicle |-> 0]

Periods == {"open", "closed"}

\* The direction is copied into the choice.
Riding == [user : Users, ride : RideIds, direction : Directions]

Forms == {s \in SurveyIds : survey[s] # None}

(* "meal"     slot free, meal not inserted              (create)
   "table"    meal loaded, its menu not saved           (update)
   "unmeal"   meal found and not chosen, not deleted    (delete)
   "ride"     key free, transport not inserted          (create)
   "edit"     transport loaded and edited, not saved    (update)
   "unride"   transport found and not chosen            (delete)
   "form"     retreat found, form not inserted          (create survey)
   "period"   form loaded and edited, not saved         (update period)
   "unform"   form found, not deleted                   (delete survey)
   "retreat"  retreat and its forms loaded              (update retreat)
   "gone"     retreat loaded, not removed               (delete retreat) *)
PCs == {"idle", "meal", "table", "unmeal", "ride", "edit", "unride", "form", "period",
        "unform", "retreat", "gone"}

\* seen: the forms loaded with the retreat; asks: the period asked for, or None.
Job == [id : Nat, slot : Slots \cup {None}, row : Ride, period : Periods \cup {None},
        asks : Periods \cup {"title", None}, seen : SUBSET SurveyIds]

NoJob == [id |-> 0, slot |-> None, row |-> NoRide, period |-> None, asks |-> None,
          seen |-> {}]

-----------------------------------------------------------------------------
(* Helpers. *)

choices == <<chosen, riding, applied>>
history == <<wanted, late, overwritten, edited>>
rows == <<retreat, survey, meal, ride, given>>

Goto(p, point, j) ==
    /\ cpc' = [cpc EXCEPT ![p] = point]
    /\ cjob' = [cjob EXCEPT ![p] = j]

Begin(p) ==
    /\ cpc[p] = "idle"
    /\ requests < MaxRequests
    /\ requests' = requests + 1

\* A request's first step, which only reads.
Look(p, point, j) ==
    /\ Begin(p)
    /\ Goto(p, point, j)
    /\ UNCHANGED <<rows, choices, history>>

End(p) == Goto(p, "idle", NoJob) /\ UNCHANGED <<requests, choices>>

Quit(p) ==
    /\ End(p)
    /\ late' = late \ {p}
    /\ UNCHANGED <<rows, wanted, overwritten, edited>>

-----------------------------------------------------------------------------
(* Meals: one to a slot. *)

SlotTaken(slot, S) == \E m \in S : meal[m] = slot

CreateMeal(p, slot) ==
    /\ ~SlotTaken(slot, MealIds)
    /\ Look(p, "meal", [NoJob EXCEPT !.slot = slot])

InsertMeal(p) ==
    /\ cpc[p] = "meal"
    /\ LET slot == cjob[p].slot
           m == given.meal + 1
       IN
        IF SlotTaken(slot, MealIds) \/ retreat # "there"
        THEN Quit(p)
        ELSE /\ m \in MealIds
             /\ meal' = [meal EXCEPT ![m] = slot]
             /\ given' = [given EXCEPT !.meal = m]
             /\ End(p)
             /\ UNCHANGED <<retreat, survey, ride, history>>

UpdateMeal(p, m) ==
    /\ meal[m] # None
    /\ Look(p, "table", [NoJob EXCEPT !.id = m, !.slot = meal[m]])

\* The menu is left out; a meal deleted since comes back.
SaveMeal(p) ==
    /\ cpc[p] = "table"
    /\ LET j == cjob[p] IN
        IF meal[j.id] = None /\ (SlotTaken(j.slot, MealIds) \/ retreat # "there")
        THEN Quit(p)
        ELSE /\ meal' = [meal EXCEPT ![j.id] = j.slot]
             /\ End(p)
             /\ UNCHANGED <<retreat, survey, ride, given, history>>

Eaten(m) == \E u \in Users : <<u, m>> \in chosen

DeleteMeal(p, m) ==
    /\ meal[m] # None
    /\ ~Eaten(m)
    /\ Look(p, "unmeal", [NoJob EXCEPT !.id = m])

\* Variant: the foreign key does not restrict.
Restricted_Never(b) == FALSE

\* ON DELETE RESTRICT: a row that others refer to is not deleted.
Restricted(b) == b

RemoveMeal(p) ==
    /\ cpc[p] = "unmeal"
    /\ IF Restricted(Eaten(cjob[p].id))
       THEN Quit(p)
       ELSE /\ meal' = [meal EXCEPT ![cjob[p].id] = None]
            /\ End(p)
            /\ UNCHANGED <<retreat, survey, ride, given, history>>

-----------------------------------------------------------------------------
(* Transports: one to a direction, type and name. *)

KeyTaken(r, S) ==
    \E t \in S : ride[t].there = 1 /\ ride[t].direction = r.direction /\ ride[t].name = r.name

CreateTransport(p, r) ==
    /\ r.there = 1
    /\ ~KeyTaken(r, RideIds)
    /\ Look(p, "ride", [NoJob EXCEPT !.row = r])

InsertTransport(p) ==
    /\ cpc[p] = "ride"
    /\ LET r == cjob[p].row
           t == given.ride + 1
       IN
        IF KeyTaken(r, RideIds) \/ retreat # "there"
        THEN Quit(p)
        ELSE /\ t \in RideIds
             /\ ride' = [ride EXCEPT ![t] = r]
             /\ given' = [given EXCEPT !.ride = t]
             /\ End(p)
             /\ UNCHANGED <<retreat, survey, meal, history>>

\* RetreatTransport.update, of the columns the request names.
UpdateTransport(p, t, direction, name, vehicle) ==
    /\ ride[t].there = 1
    /\ Look(p, "edit", [NoJob EXCEPT !.id = t,
            !.row = [there |-> 1, direction |-> direction, name |-> name, vehicle |-> vehicle]])

SaveTransport(p) ==
    /\ cpc[p] = "edit"
    /\ LET j == cjob[p] IN
        IF KeyTaken(j.row, RideIds \ {j.id}) \/ retreat # "there"
        THEN Quit(p)
        ELSE /\ ride' = [ride EXCEPT ![j.id] = j.row]
             /\ edited' = IF ride[j.id].direction = j.row.direction THEN edited
                          ELSE edited \cup {j.id}
             /\ End(p)
             /\ UNCHANGED <<retreat, survey, meal, given, wanted, late, overwritten>>

Ridden(t) == \E c \in riding : c.ride = t

DeleteTransport(p, t) ==
    /\ ride[t].there = 1
    /\ ~Ridden(t)
    /\ Look(p, "unride", [NoJob EXCEPT !.id = t])

\* A transport that has gone keeps its columns here: edited compares with them the
\* direction of one that a save brings back.
RemoveTransport(p) ==
    /\ cpc[p] = "unride"
    /\ IF Restricted(Ridden(cjob[p].id))
       THEN Quit(p)
       ELSE /\ ride' = [ride EXCEPT ![cjob[p].id].there = 0]
            /\ End(p)
            /\ UNCHANGED <<retreat, survey, meal, given, history>>

-----------------------------------------------------------------------------
(* Application forms *)

\* Requests that hold form s, or the forms of the retreat.
Holds(q, s) ==
    \/ cpc[q] \in {"period", "unform"} /\ cjob[q].id = s
    \/ cpc[q] = "retreat"

\* The statement by which request p makes form s be x; the requests now want wants.
PutForm(p, s, x, wants) ==
    /\ survey' = [survey EXCEPT ![s] = x]
    /\ wanted' = wants
    /\ late' = (late \ {p}) \cup {q \in Procs \ {p} : Holds(q, s)}
    /\ overwritten' = IF p \in late /\ cjob[p].asks = "title" THEN overwritten \cup {s}
                      ELSE overwritten

CreateSurvey(p, x) ==
    /\ retreat = "there"
    /\ Look(p, "form", [NoJob EXCEPT !.asks = x])

InsertSurvey(p) ==
    /\ cpc[p] = "form"
    /\ LET s == given.survey + 1 IN
        IF retreat # "there"
        THEN Quit(p)
        ELSE /\ s \in SurveyIds
             /\ PutForm(p, s, cjob[p].asks, [wanted EXCEPT ![s] = cjob[p].asks])
             /\ given' = [given EXCEPT !.survey = s]
             /\ End(p)
             /\ UNCHANGED <<retreat, meal, ride, edited>>

UpdateSurveyPeriod(p, s, x) ==
    /\ s \in Forms
    /\ Look(p, "period", [NoJob EXCEPT !.id = s, !.period = x])

SavePeriod(p) ==
    /\ cpc[p] = "period"
    /\ LET j == cjob[p] IN
        IF j.id \notin Forms /\ retreat # "there"
        THEN Quit(p)
        ELSE /\ PutForm(p, j.id, j.period, [wanted EXCEPT ![j.id] = j.period])
             /\ End(p)
             /\ UNCHANGED <<retreat, meal, ride, given, edited>>

DeleteSurvey(p, s) ==
    /\ s \in Forms
    /\ Look(p, "unform", [NoJob EXCEPT !.id = s])

\* Questions and applications refer to a form; asked are the forms with questions.
RemoveSurvey(p, asked) ==
    /\ cpc[p] = "unform"
    /\ LET s == cjob[p].id IN
        IF s \in asked \/ \E u \in Users : applied[u] = s
        THEN Quit(p)
        ELSE /\ PutForm(p, s, None, [wanted EXCEPT ![s] = None])
             /\ End(p)
             /\ UNCHANGED <<retreat, meal, ride, given, edited>>

-----------------------------------------------------------------------------
(* The retreat *)

\* createRetreat: the retreat and its first form in one transaction.
CreateRetreat(p, x) ==
    /\ retreat = "unborn"
    /\ given.survey + 1 \in SurveyIds
    /\ Begin(p)
    /\ retreat' = "there"
    /\ given' = [given EXCEPT !.survey = @ + 1]
    /\ LET s == given.survey + 1 IN PutForm(p, s, x, [wanted EXCEPT ![s] = x])
    /\ UNCHANGED <<meal, ride, choices, cpc, cjob, edited>>

Least(S) == CHOOSE s \in S : \A t \in S : s <= t

\* Variant: the last form counts.
Representative_Last(S) == CHOOSE s \in S : \A t \in S : t <= s

\* getRepresentativeSurvey: the form with the lowest id, of those loaded.
Representative(S) == Least(S)

\* updateRetreat reads the retreat and its forms, outside the transaction.  x is the period
\* asked for the form, or "title" when the title changes, which saves the form too.
UpdateRetreat(p, x) ==
    /\ retreat = "there"
    /\ Look(p, "retreat", [NoJob EXCEPT !.asks = x, !.seen = Forms,
            !.id = IF Forms = {} THEN 0 ELSE Representative(Forms),
            !.period = CASE x \in Periods -> x
                         [] x = "title" /\ Forms # {} -> survey[Representative(Forms)]
                         [] OTHER -> None])

\* The transaction saves the retreat, which forms it does not know make fail, and the form,
\* with the period as it was loaded.
SaveRetreat(p) ==
    /\ cpc[p] = "retreat"
    /\ LET j == cjob[p]
           s == IF j.id = 0 THEN given.survey + 1 ELSE j.id
           mine == IF j.seen = {} THEN s ELSE Least(j.seen)
       IN
        CASE ~(Forms \subseteq j.seen) -> Quit(p)
          [] Forms \subseteq j.seen /\ j.period = None ->
             /\ retreat' = "there"
             /\ End(p)
             /\ late' = late \ {p}
             /\ UNCHANGED <<survey, meal, ride, given, wanted, overwritten, edited>>
          [] OTHER ->
             /\ s \in SurveyIds
             /\ retreat' = "there"
             /\ given' = IF j.id = 0 THEN [given EXCEPT !.survey = s] ELSE given
             /\ PutForm(p, s, j.period,
                  [wanted EXCEPT ![mine] = IF j.asks = "title" THEN @ ELSE j.period])
             /\ End(p)
             /\ UNCHANGED <<meal, ride, edited>>

DeleteRetreat(p) ==
    /\ retreat = "there"
    /\ Look(p, "gone", NoJob)

RemoveRetreat(p) ==
    /\ cpc[p] = "gone"
    /\ IF \/ Forms # {}
          \/ \E m \in MealIds : meal[m] # None
          \/ \E t \in RideIds : ride[t].there = 1
          \/ \E u \in Users : applied[u] # 0
       THEN Quit(p)
       ELSE /\ retreat' = "gone"
            /\ End(p)
            /\ UNCHANGED <<survey, meal, ride, given, history>>

-----------------------------------------------------------------------------
(* What a submission asks of the catalogue. *)

\* validateMeals
ValidMeals(M) == \A m \in M : meal[m] # None

\* validateTransports: they exist, go in different directions, and those that need a
\* vehicle number have one; C are the choices, by transport, with that flag.
ValidRides(C) ==
    /\ \A c \in C : ride[c.ride].there = 1
    /\ \A c, d \in C : c # d => c.ride # d.ride /\ ride[c.ride].direction # ride[d.ride].direction
    /\ \A c \in C : ride[c.ride].vehicle = 1 => c.vehicle = 1

Command == [ride : RideIds, vehicle : {0, 1}]

\* What is stored of the transports C.
AsStored(u, C) ==
    {[user |-> u, ride |-> c.ride, direction |-> ride[c.ride].direction] : c \in C}

Referable(M, R) ==
    /\ \A m \in M : meal[m] # None
    /\ \A c \in R : ride[c.ride].there = 1

-----------------------------------------------------------------------------

CatalogueInit ==
    /\ cpc = [p \in Procs |-> "idle"]
    /\ cjob = [p \in Procs |-> NoJob]
    /\ wanted = survey
    /\ late = {}
    /\ overwritten = {}
    /\ edited = {}

(* The requests of administrators, by controller. *)

MealRequest(p) ==
    \/ \E slot \in Slots : CreateMeal(p, slot)
    \/ \E m \in MealIds : UpdateMeal(p, m) \/ DeleteMeal(p, m)

TransportRequest(p) ==
    \/ \E r \in Ride : CreateTransport(p, r)
    \/ \E t \in RideIds, d \in Directions, n \in Names, v \in {0, 1} :
        UpdateTransport(p, t, d, n, v)
    \/ \E t \in RideIds : DeleteTransport(p, t)

SurveyRequest(p) ==
    \/ \E x \in Periods : CreateSurvey(p, x)
    \/ \E s \in SurveyIds, x \in Periods : UpdateSurveyPeriod(p, s, x)
    \/ \E s \in SurveyIds : DeleteSurvey(p, s)

RetreatRequest(p) ==
    \/ \E x \in Periods : CreateRetreat(p, x)
    \/ \E x \in Periods \cup {"title", None} : UpdateRetreat(p, x)
    \/ DeleteRetreat(p)

CatalogueRequest(p) ==
    \/ MealRequest(p)
    \/ TransportRequest(p)
    \/ SurveyRequest(p)
    \/ RetreatRequest(p)

CatalogueStep(p, asked) ==
    \/ InsertMeal(p)
    \/ SaveMeal(p)
    \/ RemoveMeal(p)
    \/ InsertTransport(p)
    \/ SaveTransport(p)
    \/ RemoveTransport(p)
    \/ InsertSurvey(p)
    \/ SavePeriod(p)
    \/ RemoveSurvey(p, asked)
    \/ SaveRetreat(p)
    \/ RemoveRetreat(p)

-----------------------------------------------------------------------------
(* Properties. *)

\* The shape of the catalogue.
CatalogueTypeOK ==
    /\ retreat \in {"unborn", "there", "gone"}
    /\ survey \in [SurveyIds -> Periods \cup {None}]
    /\ meal \in [MealIds -> Slots \cup {None}]
    /\ ride \in [RideIds -> Ride]
    /\ chosen \subseteq Users \X MealIds
    /\ riding \subseteq Riding
    /\ applied \in [Users -> SurveyIds \cup {0}]
    /\ cpc \in [Procs -> PCs]
    /\ cjob \in [Procs -> Job]
    /\ late \subseteq Procs
    /\ overwritten \subseteq SurveyIds
    /\ edited \subseteq RideIds
    /\ retreat # "there" => Forms = {}

\* A meal or a transport an application has chosen exists, also when it was chosen after
\* the request that deletes it had counted the choices
\* (meal.delete.usecase.ts:35-47, transport-delete.usecase.ts:31-41).
ChosenExist ==
    /\ \A c \in chosen : meal[c[2]] # None
    /\ \A c \in riding : ride[c.ride].there = 1

\* An application has at most one transport a direction, and the direction stored with it
\* is the transport's unless an administrator has changed that since
\* (upsert-my-application.usecase.ts:268-295, transport-update.usecase.ts:33-34).
DirectionsMatch ==
    /\ \A c, d \in riding : c # d => c.user # d.user \/ c.direction # d.direction
    /\ \A c \in riding : c.ride \notin edited => c.direction = ride[c.ride].direction

\* A form is open, closed or deleted as the last accepted request wanted, however requests
\* that give it a period, delete it or create it overlap.  One exception is known: an
\* update of the retreat's title, which asks for no period, writes back the period it had
\* loaded when another request wrote the form since
\* (retreat.service.ts:84-146, survey.service.ts:92-129).
PeriodsStand ==
    \A s \in SurveyIds \ overwritten : survey[s] = wanted[s]

=============================================================================
