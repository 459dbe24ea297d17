---------------------------- MODULE MCExecutor ------------------------------
(* Executor on two cells, with bundles that overlap, fail and do not fit. *)
EXTENDS Executor, TLC

CONSTANTS a1, a2, blank, number, lookalike, sum, product, plain, bold
CONSTANTS values, rewrites, ragged, sheet, nothing, restores, unknown, misfit, empty

MCCells      == {a1, a2}
MCLiterals   == {blank, number}
MCLookalikes == {lookalike}
MCFormulas   == {sum, product}
MCAsFormula  == [x \in MCLookalikes |-> sum]
MCFormats    == {plain, bold}
MCGrids      == [MCCells -> {blank, lookalike, product}]

Act(type, target, put, known, fits) ==
    [type |-> type, target |-> target, known |-> known, fits |-> fits,
     put |-> put]

\* An action with a matrix that fits, on a sheet that exists.
Do(type, target, put) == Act(type, target, put, TRUE, "yes")

MCActions ==
    values   :> <<Do("SET_VALUES", {a1, a2}, lookalike), Do("SET_FORMULAS", {a2}, sum)>> @@
    rewrites :> <<Do("SET_FORMULAS", {a1}, sum), Do("FORMAT_RANGE", {a1, a2}, bold),
                  Do("SET_VALUES", {a1}, number),
                  Do("CLEAR_RANGE", {a1}, blank)>> @@
    ragged   :> <<Do("FORMAT_RANGE", {a1}, bold),
                  Act("SET_VALUES", {a1}, number, TRUE, "ragged")>> @@
    sheet    :> <<Do("CLEAR_RANGE", {a2}, blank), Do("ADD_SHEET", {}, blank)>> @@
    nothing  :> <<Do("NO_OP", {}, blank)>> @@
    restores :> <<Do("RESTORE_RANGE", {a2}, lookalike), Do("RESTORE_RANGE", {a1, a2}, product)>> @@
    unknown  :> <<Do("CLEAR_RANGE", {a1}, blank),
                  Act("SET_VALUES", {a2}, number, FALSE, "yes")>> @@
    misfit   :> <<Do("CLEAR_RANGE", {a1}, blank),
                  Act("SET_VALUES", {a2}, number, TRUE, "no")>> @@
    empty    :> <<>>
=============================================================================
