------------------------------- MODULE MCForm --------------------------------
(* Form, with values for TLC. *)
EXTENDS Form, TLC

CONSTANTS p1, p2, u1

Symmetry == Permutations({p1, p2})

\* One question with two options, one of them answered, and one in words; one meal and one
\* transport each way, chosen.
MCFilled ==
    {[survey |-> 1 :> "open" @@ 2 :> "none",
      meal |-> 1 :> "day1" @@ 2 :> "none",
      ride |-> 1 :> [there |-> 1, direction |-> "DEPARTURE", name |-> "bus", vehicle |-> 0]
            @@ 2 :> [there |-> 1, direction |-> "RETURN", name |-> "car", vehicle |-> 1]
            @@ 3 :> C!NoRide,
      given |-> [survey |-> 1, meal |-> 1, ride |-> 2],
      question |-> 1 :> [there |-> 1, kind |-> "MULTI_SELECT", required |-> 1, order |-> 1]
                @@ 2 :> [there |-> 1, kind |-> "SUBJECTIVE", required |-> 0, order |-> 2]
                @@ 3 :> Q!NoQuestion,
      option |-> 1 :> [of |-> 1, order |-> 1] @@ 2 :> [of |-> 1, order |-> 2]
              @@ 3 :> Q!NoOption,
      drawn |-> [question |-> 2, option |-> 2],
      answers |-> {[user |-> u1, question |-> 1, option |-> 1]},
      chosen |-> {<<u1, 1>>},
      riding |-> {[user |-> u1, ride |-> 1, direction |-> "DEPARTURE"]},
      applied |-> u1 :> 1]}

MCKinds == {<<"SUBJECTIVE", 0>>, <<"MULTI_SELECT", 1>>}

\* No answer, an answer in words to either question, one option, another.
MCSheets ==
    {{}, {[question |-> 1, option |-> 0]}, {[question |-> 2, option |-> 0]},
     {[question |-> 1, option |-> 2]}, {[question |-> 1, option |-> 3]}}

=============================================================================
