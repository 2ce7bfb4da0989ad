\* An empty form and a filled one, two requests in flight, three in all.
SPECIFICATION FormSpec
CONSTANTS
    p1 = p1
    p2 = p2
    u1 = u1
    Procs = {p1, p2}
    Users = {u1}
    QuestionIds = {1, 2, 3}
    OptionIds = {1, 2, 3}
    Kinds <- MCKinds
    MaxOptions = 2
    SurveyIds = {1, 2}
    MealIds = {1, 2}
    RideIds = {1, 2, 3}
    Slots = {"day1"}
    Names = {"bus", "car"}
    MaxRequests = 3
    Sheets <- MCSheets
    Filled <- MCFilled
SYMMETRY Symmetry
CHECK_DEADLOCK FALSE
INVARIANTS
    FormTypeOK
    FormAnswerable
    NextNumberFree
    ChoicesHold
    
