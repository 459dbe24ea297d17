------------------------------- MODULE Policy -------------------------------
(***************************************************************************)
(* The policy check of a parsed plan (backend/app/policy/service.py,       *)
(* tools/registry.py, the A1 ranges of core/ids.py): validate_plan goes    *)
(* through the actions in order, stops at the first objection, and         *)
(* overwrites the risk of each action it passes, then checks the limits.   *)
(***************************************************************************)
EXTENDS Integers, Sequences, FiniteSets, FiniteSetsExt

CONSTANTS
    Sheets,     \* the sheets of the workbook
    Rows,       \* the number of rows of a sheet
    Columns,    \* the number of columns of a sheet
    Unreadable, \* ranges parse_a1 does not read, such as A:A
    None,       \* no target
    MaxChanged, \* max_changed_cells
    MaxActions, \* max_actions
    Plans,      \* the plans that may be answered
    Requests    \* the requests they may answer

\* A readable range as it is written: two corners, in any order.
Corners == [r1 : 1..Rows, c1 : 1..Columns, r2 : 1..Rows, c2 : 1..Columns]

Text == Corners \cup Unreadable

Target == [sheet : Sheets, range : Text]

Types == {"SET_VALUES", "SET_FORMULAS", "CLEAR_RANGE", "FORMAT_RANGE", "ADD_SHEET", "NO_OP"}

Risks == {"low", "medium", "high"}

\* An action. `rows' are the lengths of the rows of its matrix, `prefixed' tells
\* whether each of its formulas begins with '='.
Action == [type     : Types,
           target   : Target \cup {None},
           rows     : Seq(Nat),
           prefixed : BOOLEAN,
           risk     : Risks]

\* A request: the selection, and the protected and merged ranges of its context.
Request == [selection : Target, guarded : SUBSET Target]

ASSUME PolicyAssumption ==
    /\ Rows \in Nat /\ Columns \in Nat
    /\ Unreadable \cap Corners = {}
    /\ None \notin Target
    /\ MaxChanged \in Nat /\ MaxActions \in Nat
    /\ Plans \subseteq Seq(Action)
    /\ Requests \subseteq Request

VARIABLES
    req,     \* the request
    plan,    \* the plan, whose risks are overwritten
    i,       \* the action the loop is at
    verdict  \* what became of the plan

vars == <<req, plan, i, verdict>>

-----------------------------------------------------------------------------
(* Ranges *)

Readable(text) == text \in Corners

Least(a, b)    == IF a < b THEN a ELSE b
Greatest(a, b) == IF a < b THEN b ELSE a

\* parse_a1
Rect(t) == [top    |-> Least(t.r1, t.r2),
            left   |-> Least(t.c1, t.c2),
            bottom |-> Greatest(t.r1, t.r2),
            right  |-> Greatest(t.c1, t.c2)]

Height(t) == Rect(t).bottom - Rect(t).top + 1
Width(t)  == Rect(t).right - Rect(t).left + 1

\* cell_count
CellCount(t) == Height(t) * Width(t)

\* Faulty variant: ranges that share only an edge row do not count.
RangesOverlapInside(a, b) ==
    /\ Readable(a) /\ Readable(b)
    /\ ~(\/ Rect(a).bottom <= Rect(b).top
         \/ Rect(b).bottom <= Rect(a).top
         \/ Rect(a).right < Rect(b).left
         \/ Rect(b).right < Rect(a).left)

\* Two ranges overlap; one that cannot be read overlaps nothing.
RangesOverlap(a, b) ==
    /\ Readable(a) /\ Readable(b)
    /\ ~(\/ Rect(a).bottom < Rect(b).top
         \/ Rect(b).bottom < Rect(a).top
         \/ Rect(a).right < Rect(b).left
         \/ Rect(b).right < Rect(a).left)

-----------------------------------------------------------------------------
(* The checks of an action *)

MatrixTypes == {"SET_VALUES", "SET_FORMULAS"}

\* rect_dimensions takes the longest row for the width.
Widest(rows) == Max({0} \cup {rows[n] : n \in 1..Len(rows)})

\* validate_scope compares the texts of the ranges, not the sheets.
InScope(a) == a.target # None => a.target.range = req.selection.range

\* validate_protected_merged
Guarded(a) ==
    /\ a.target # None /\ a.type \notin {"NO_OP", "ADD_SHEET"}
    /\ \E g \in req.guarded : RangesOverlap(a.target.range, g.range)

\* validate_action_dimensions, where the target can be read
MatrixFits(a) ==
    a.target # None /\ a.type \in MatrixTypes =>
        /\ Len(a.rows) = Height(a.target.range)
        /\ Widest(a.rows) = Width(a.target.range)

\* validate_formula_prefixes
FormulasPrefixed(a) == a.type = "SET_FORMULAS" => a.prefixed

\* Faulty variant: the target is parsed before it is compared with the scope.
OutcomeParsedFirst(a) ==
    CASE a.target # None /\ ~Readable(a.target.range) -> "raised"
      [] a.target = None \/ Readable(a.target.range)  ->
            IF ~InScope(a) \/ Guarded(a) \/ ~MatrixFits(a) \/ ~FormulasPrefixed(a)
            THEN "rejected" ELSE "passed"

\* What becomes of an action. parse_a1 raises ValueError, which is no policy
\* violation and is handled nowhere; it is reached by targets in scope only.
Outcome(a) ==
    CASE ~InScope(a) \/ Guarded(a) -> "rejected"
      [] InScope(a) /\ ~Guarded(a) ->
            IF a.target # None /\ ~Readable(a.target.range) THEN "raised"
            ELSE IF ~MatrixFits(a) \/ ~FormulasPrefixed(a) THEN "rejected"
            ELSE "passed"

\* Faulty variant: a tool that only formats is taken for one without a risk.
DefaultRiskUnset(type) ==
    CASE type \in {"SET_VALUES", "SET_FORMULAS", "CLEAR_RANGE"} -> "medium"
      [] type = "FORMAT_RANGE"                                  -> "none"
      [] OTHER                                                  -> "low"

\* TOOL_DEFINITIONS
DefaultRisk(type) ==
    IF type \in {"SET_VALUES", "SET_FORMULAS", "CLEAR_RANGE"} THEN "medium" ELSE "low"

\* Faulty variant: formatting is not counted.
CellsOfActionUnformatted(a) ==
    CASE a.type \in MatrixTypes                        -> Len(a.rows) * Widest(a.rows)
      [] a.type = "CLEAR_RANGE" /\ a.target # None     -> CellCount(a.target.range)
      [] OTHER                                         -> 0

\* What an action adds to plan_changed_cells.
CellsOfAction(a) ==
    CASE a.type \in MatrixTypes -> Len(a.rows) * Widest(a.rows)
      [] a.type \in {"CLEAR_RANGE", "FORMAT_RANGE"} /\ a.target # None ->
            CellCount(a.target.range)
      [] OTHER -> 0

PlanChangedCells ==
    LET total[n \in 0..Len(plan)] ==
            IF n = 0 THEN 0 ELSE total[n - 1] + CellsOfAction(plan[n])
    IN  total[Len(plan)]

-----------------------------------------------------------------------------
(* The steps of validate_plan *)

Checking == verdict = "checking"

NoOpsOnly == plan # <<>> /\ \A n \in 1..Len(plan) : plan[n].type = "NO_OP"

\* A plan of NO_OPs is accepted as it is.
AcceptNoOps ==
    /\ Checking /\ NoOpsOnly
    /\ verdict' = "accepted"
    /\ UNCHANGED <<req, plan, i>>

\* Faulty variant: the risk the model declared is kept.
CheckActionKeepsRisk ==
    /\ Checking /\ ~NoOpsOnly /\ i <= Len(plan)
    /\ IF Outcome(plan[i]) = "passed"
       THEN i' = i + 1 /\ UNCHANGED verdict
       ELSE verdict' = Outcome(plan[i]) /\ UNCHANGED i
    /\ UNCHANGED <<req, plan>>

\* The next action passes, with its risk overwritten, or ends the check.
CheckAction ==
    /\ Checking /\ ~NoOpsOnly /\ i <= Len(plan)
    /\ IF Outcome(plan[i]) = "passed"
       THEN /\ plan' = [plan EXCEPT ![i].risk = DefaultRisk(plan[i].type)]
            /\ i' = i + 1
            /\ UNCHANGED verdict
       ELSE /\ verdict' = Outcome(plan[i])
            /\ UNCHANGED <<plan, i>>
    /\ UNCHANGED req

\* The limits of the whole plan.
CheckLimits ==
    /\ Checking /\ ~NoOpsOnly /\ i > Len(plan)
    /\ verdict' = IF PlanChangedCells > MaxChanged \/ Len(plan) > MaxActions
                  THEN "rejected" ELSE "accepted"
    /\ UNCHANGED <<req, plan, i>>

Init ==
    /\ req \in Requests
    /\ plan \in Plans
    /\ i = 1
    /\ verdict = "checking"

Next == AcceptNoOps \/ CheckAction \/ CheckLimits

Spec == Init /\ [][Next]_vars

-----------------------------------------------------------------------------
(* Reference definitions: ranges as sets of cells *)

Between(a, b) == Least(a, b)..Greatest(a, b)

\* The cells a readable range covers.
CellsOf(t) == Between(t.r1, t.r2) \X Between(t.c1, t.c2)

\* The actions that change cells of their target.
ChangesCells(a) == a.target # None /\ a.type \notin {"NO_OP", "ADD_SHEET"}

\* The cells an action of a valid plan changes.
Changes(a) == {a.target.sheet} \X CellsOf(a.target.range)

Accepted == verdict = "accepted"

-----------------------------------------------------------------------------
(* Properties *)

\* The types of the state.
TypeOK ==
    /\ req \in Requests
    /\ plan \in Seq(Action)
    /\ i \in 1..(Len(plan) + 1)
    /\ verdict \in {"checking", "accepted", "rejected", "raised"}

\* No cell that an accepted plan changes is a cell of a protected or merged range
\* of the request, however the corners of either are written, at every action of
\* the plan, as far as the protected range can be read.
GuardedCellsAreKept ==
    Accepted => \A n \in 1..Len(plan) : \A g \in req.guarded :
        ChangesCells(plan[n]) /\ Readable(g.range) =>
            CellsOf(plan[n].target.range) \cap CellsOf(g.range) = {}

\* max_changed_cells bounds the cells an accepted plan really changes: matrices are
\* counted by their dimensions, which were found to be those of the target, and
\* cells changed twice at least once.
ChangeIsBounded ==
    Accepted =>
        Cardinality(UNION {Changes(plan[n]) :
            n \in {m \in 1..Len(plan) : ChangesCells(plan[m])}}) <= MaxChanged

\* Whatever risk the model declared, an accepted plan carries the registry's, in
\* every action, unless it is accepted as a plan of NO_OPs.
RiskIsRecomputed ==
    Accepted /\ ~NoOpsOnly =>
        \A n \in 1..Len(plan) : plan[n].risk = DefaultRisk(plan[n].type)

\* A plan gets a verdict, whatever ranges it names: the unhandled error of
\* parse_a1 is reached only when the selection itself cannot be read.
RaisesOnlyForSelection ==
    verdict = "raised" => ~Readable(req.selection.range)

-----------------------------------------------------------------------------
(* Inductive invariant *)

\* What the loop has established about an action it has passed.
Passed(a) ==
    /\ a.target # None => Readable(a.target.range)
    /\ ~Guarded(a)
    /\ MatrixFits(a)
    /\ a.risk = DefaultRisk(a.type)

PassedInv ==
    /\ \A n \in 1..(i - 1) : Passed(plan[n])
    /\ Accepted /\ ~NoOpsOnly => i = Len(plan) + 1 /\ PlanChangedCells <= MaxChanged
    /\ RaisesOnlyForSelection

-----------------------------------------------------------------------------
(* What a document says and the code does not do *)

\* ARCHITECTURE.md, section 2, policy: rejects out-of-context targets. The cells an
\* accepted plan changes lie on the sheet of the selection.
TargetsInContext ==
    Accepted => \A n \in 1..Len(plan) :
        ChangesCells(plan[n]) => plan[n].target.sheet = req.selection.sheet
=============================================================================
