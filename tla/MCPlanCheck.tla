---------------------------- MODULE MCPlanCheck -----------------------------
(***************************************************************************)
(* PlanCheck with the plans and requests of MCPolicy, plans that do not    *)
(* match the schema, and contexts that fit, are too large, or hold a whole *)
(* column.                                                                 *)
(***************************************************************************)
EXTENDS PlanCheck, MCPolicy

\* NO_OPs that declare a risk or have a target; a matrix and a range without target.
OddActions ==
    [type : {"NO_OP"}, target : {None}, rows : {<<>>}, prefixed : {TRUE}, risk : {"high"}]
    \cup [type : {"NO_OP"}, target : {[sheet |-> s1, range |-> column]}, rows : {<<>>},
          prefixed : {TRUE}, risk : {"low"}]
    \cup [type : {"SET_VALUES", "CLEAR_RANGE"}, target : {None}, rows : {<<5>>},
          prefixed : {TRUE}, risk : {"low"}]

MCAnswers == MCPlans \cup {<<a>> : a \in OddActions} \cup {<<a, a>> : a \in OddActions}

MCContexts == {<<Corner, Upside>>, <<Square, Square>>, <<Square, column>>}
=============================================================================
