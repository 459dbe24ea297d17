------------------------------ MODULE Executor ------------------------------
(***************************************************************************)
(* applyBundle (apps-script/ActionExecutor.gs): validate every target,     *)
(* take a snapshot of each, execute the actions in order, put the          *)
(* snapshots back when one fails. Apps Script takes no lock on the         *)
(* spreadsheet, so other users edit it between any two calls, and it may   *)
(* stop a script that runs too long anywhere.                              *)
(***************************************************************************)
EXTENDS Naturals, Sequences

CONSTANTS
    Cells,      \* the cells of the sheet the bundles address
    Literals,   \* cell contents that stay what they are when set again
    Lookalikes, \* literal strings that begin like a formula
    Formulas,   \* formulas
    AsFormula,  \* AsFormula[x]: what a lookalike becomes when set without escape
    Blank,      \* the empty cell, a literal
    Formats,    \* cell formats
    Plain,      \* the format the cells have to begin with
    Bundles,    \* the bundles that may have been approved
    ActionsOf,  \* ActionsOf[b]: the actions of bundle b
    Grids,      \* the contents the sheet may have when the plan is previewed
    MaxEdits    \* bound: edits by other users

Contents == Literals \cup Lookalikes \cup Formulas

Types == {"SET_VALUES", "SET_FORMULAS", "CLEAR_RANGE", "FORMAT_RANGE", "ADD_SHEET",
          "RESTORE_RANGE", "NO_OP"}

\* The types that set a matrix, which has to fit exactly.
MatrixTypes == {"SET_VALUES", "SET_FORMULAS", "RESTORE_RANGE"}

\* An action: its target cells (none for ADD_SHEET and NO_OP, which the plan schema
\* gives no target, and some for every other type), whether its sheet exists, how
\* its matrix fits the target (a ragged one has the height and the first row of a
\* fitting one), and the contents or the format it puts there.
\* One content stands for the matrix.
Action == [type      : Types,
           target    : SUBSET Cells,
           known     : BOOLEAN,
           fits      : {"yes", "ragged", "no"},
           put       : Contents \cup Formats]

\* SET_VALUES puts literals, and formats are no contents.
WellFormed(a) ==
    /\ a.type = "SET_VALUES" => a.put \in Literals \cup Lookalikes
    /\ a.type \in {"SET_FORMULAS", "RESTORE_RANGE"} => a.put \in Contents
    /\ a.type = "FORMAT_RANGE" => a.put \in Formats

ASSUME ExecutorAssumption ==
    /\ Blank \in Literals /\ Plain \in Formats
    /\ (Literals \cup Lookalikes) \cap Formulas = {}
    /\ AsFormula \in [Lookalikes -> Formulas]
    /\ ActionsOf \in [Bundles -> Seq(Action)]
    /\ \A b \in Bundles : \A i \in 1..Len(ActionsOf[b]) : WellFormed(ActionsOf[b][i])
    /\ Grids \subseteq [Cells -> Contents]
    /\ MaxEdits \in Nat

VARIABLES
    grid,   \* grid[c]: the contents of cell c
    format, \* format[c]: its format
    bundle, \* the bundle that was approved
    job,    \* the run of applyBundle
    origin, \* history: the contents when applyBundle was called
    edited, \* history: the cells others have edited since it was called
    edits   \* bound's counter: the edits of others

vars == <<grid, format, bundle, job, origin, edited, edits>>

-----------------------------------------------------------------------------
(* Data *)

Outcomes == {"APPLIED", "FAILED_ROLLED_BACK", "refused", "stopped"}

\* A snapshot: the target and the contents read there.
Snapshot == [target : SUBSET Cells, read : [Cells -> Contents]]

\* `i' is the action or snapshot the script is at.
Job == [pc     : {"idle", "snapshot", "execute", "restore"} \cup Outcomes,
        i      : Nat,
        snaps  : Seq(Snapshot)]

Idle == [pc |-> "idle", i |-> 0, snaps |-> <<>>]

At(pc) == job.pc = pc

actions == ActionsOf[bundle]

CurrentAction == actions[job.i]

\* The script is at an action of its bundle.
AtAction(pc) == At(pc) /\ job.i <= Len(actions)

\* setValues: a string that begins like a formula becomes one.
SetRaw(x) == IF x \in Lookalikes THEN AsFormula[x] ELSE x

\* setValues after escaping: such a string stays a literal.
SetEscaped(x) == x

Fill(g, target, x) == [c \in Cells |-> IF c \in target THEN x ELSE g[c]]

\* Faulty variant: literals are written without escape.
WrittenUnescaped(a, g) ==
    CASE a.type \in {"SET_VALUES", "RESTORE_RANGE"} -> Fill(g, a.target, SetRaw(a.put))
      [] a.type = "SET_FORMULAS"                    -> Fill(g, a.target, a.put)
      [] a.type = "CLEAR_RANGE"                     -> Fill(g, a.target, Blank)
      [] OTHER                                      -> g

\* Faulty variant: clearing reaches beyond the target.
WrittenBeyond(a, g) ==
    CASE a.type = "SET_VALUES"    -> Fill(g, a.target, SetEscaped(a.put))
      [] a.type = "RESTORE_RANGE" -> Fill(g, a.target, SetRaw(a.put))
      [] a.type = "SET_FORMULAS"  -> Fill(g, a.target, a.put)
      [] a.type = "CLEAR_RANGE"   -> Fill(g, Cells, Blank)
      [] OTHER                    -> g

\* Faulty variant: formatting falls through to the next case of the switch.
WrittenFallsThrough(a, g) ==
    CASE a.type \in {"SET_VALUES", "FORMAT_RANGE"} -> Fill(g, a.target, SetEscaped(a.put))
      [] a.type = "SET_FORMULAS"                   -> Fill(g, a.target, a.put)
      [] a.type = "CLEAR_RANGE"                    -> Fill(g, a.target, Blank)
      [] OTHER                                     -> g

\* The contents after an action.
Written(a, g) ==
    CASE a.type = "SET_VALUES"    -> Fill(g, a.target, SetEscaped(a.put))
      [] a.type = "RESTORE_RANGE" -> Fill(g, a.target, SetRaw(a.put))
      [] a.type = "SET_FORMULAS"  -> Fill(g, a.target, a.put)
      [] a.type = "CLEAR_RANGE"   -> Fill(g, a.target, Blank)
      [] OTHER                    -> g

Painted(a, f) == IF a.type = "FORMAT_RANGE" THEN Fill(f, a.target, a.put) ELSE f

\* The actions a snapshot is taken for.
HasTarget(a) == a.target # {}

\* Steps 1 and 2: known sheets, and a matrix of the height and (first row) width
\* of its target.
Valid ==
    \A i \in 1..Len(actions) :
        LET a == actions[i] IN
        HasTarget(a) =>
            /\ a.known
            /\ a.type \in {"SET_VALUES", "SET_FORMULAS"} => a.fits # "no"

Targeted == UNION {actions[i].target : i \in 1..Len(actions)}

-----------------------------------------------------------------------------
(* The steps of applyBundle *)

\* The bundle is validated as a whole before anything is touched.
Apply ==
    /\ At("idle")
    /\ job' = [Idle EXCEPT !.pc = IF Valid THEN "snapshot" ELSE "refused", !.i = 1]
    /\ origin' = grid
    /\ edited' = {}
    /\ UNCHANGED <<grid, format, edits, bundle>>

\* Faulty variant: only the first target is read.
TakeSnapshotOnce ==
    /\ At("snapshot")
    /\ job' = IF job.i <= Len(actions) /\ job.snaps = <<>>
              THEN [job EXCEPT !.i = @ + 1,
                       !.snaps = IF HasTarget(CurrentAction)
                                 THEN Append(@, [target |-> CurrentAction.target, read |-> grid])
                                 ELSE @]
              ELSE [job EXCEPT !.pc = "execute", !.i = 1]
    /\ UNCHANGED <<grid, format, origin, edited, edits, bundle>>

\* snapshotTargets: one target after another.
TakeSnapshot ==
    /\ At("snapshot")
    /\ job' = IF job.i <= Len(actions)
              THEN [job EXCEPT !.i = @ + 1,
                       !.snaps = IF HasTarget(CurrentAction)
                                 THEN Append(@, [target |-> CurrentAction.target, read |-> grid])
                                 ELSE @]
              ELSE [job EXCEPT !.pc = "execute", !.i = 1]
    /\ UNCHANGED <<grid, format, origin, edited, edits, bundle>>

\* executeAction succeeds.
Execute ==
    /\ AtAction("execute")
    /\ HasTarget(CurrentAction)
    /\ CurrentAction.type \in MatrixTypes => CurrentAction.fits = "yes"
    /\ grid'   = Written(CurrentAction, grid)
    /\ format' = Painted(CurrentAction, format)
    /\ job'    = [job EXCEPT !.i = @ + 1]
    /\ UNCHANGED <<origin, edited, edits, bundle>>

\* The catch block of applyBundle.
Throw == job' = [job EXCEPT !.pc = "restore", !.i = 1]

\* Faulty variant: a failed action is skipped.
SkipFailure ==
    /\ AtAction("execute")
    /\ job' = [job EXCEPT !.i = @ + 1]
    /\ UNCHANGED <<grid, format, origin, edited, edits, bundle>>

\* executeAction throws: every action without a target, whatever its type (it is
\* asked for its sheet first, so the branches of ADD_SHEET and NO_OP are never
\* reached); a ragged matrix; and whatever the spreadsheet service refuses, with
\* the format already in place or not.
ExecuteFails ==
    /\ AtAction("execute")
    /\ Throw
    /\ \/ UNCHANGED format
       \/ HasTarget(CurrentAction) /\ format' = Painted(CurrentAction, format)
    /\ UNCHANGED <<grid, origin, edited, edits, bundle>>

\* The flush after the last action succeeds, or fails like an action.
Flush ==
    /\ At("execute") /\ job.i > Len(actions)
    /\ \/ job' = [job EXCEPT !.pc = "APPLIED"]
       \/ Throw
    /\ UNCHANGED <<grid, format, origin, edited, edits, bundle>>

\* restoreSnapshot: formulas and values of one target after another; the result
\* is reported after the last.
Restore ==
    /\ At("restore")
    /\ IF job.i <= Len(job.snaps)
       THEN LET s == job.snaps[job.i] IN
            /\ grid' = [c \in Cells |->
                           IF c \in s.target THEN SetRaw(s.read[c]) ELSE grid[c]]
            /\ job'  = [job EXCEPT !.i = @ + 1]
       ELSE /\ job'  = [job EXCEPT !.pc = "FAILED_ROLLED_BACK"]
            /\ grid' = grid
    /\ UNCHANGED <<format, origin, edited, edits, bundle>>

-----------------------------------------------------------------------------
(* The surroundings *)

\* Another user edits a cell.
Edit(c) ==
    /\ job.pc \notin Outcomes /\ edits < MaxEdits
    /\ \E x \in Contents \ {grid[c]} : grid' = [grid EXCEPT ![c] = x]
    /\ edited' = edited \cup {c}
    /\ edits' = edits + 1
    /\ UNCHANGED <<format, bundle, job, origin>>

\* Apps Script stops the script, or the restore itself throws: no result.
Stop ==
    /\ job.pc \in {"snapshot", "execute", "restore"}
    /\ job' = [job EXCEPT !.pc = "stopped"]
    /\ UNCHANGED <<grid, format, origin, edited, edits, bundle>>

Init ==
    /\ grid \in Grids
    /\ format = [c \in Cells |-> Plain]
    /\ bundle \in Bundles
    /\ job = Idle
    /\ origin = grid
    /\ edited = {} /\ edits = 0

Script ==
    \/ Apply
    \/ TakeSnapshot
    \/ Execute
    \/ ExecuteFails
    \/ Flush
    \/ Restore

Next == Script \/ (\E c \in Cells : Edit(c)) \/ Stop

Spec == Init /\ [][Next]_vars

-----------------------------------------------------------------------------
(* Properties *)

\* The types of the state. A script that has begun counts from 1.
TypeOK ==
    /\ grid \in [Cells -> Contents]
    /\ format \in [Cells -> Formats]
    /\ bundle \in Bundles
    /\ job \in Job /\ (At("idle") \/ job.i # 0)
    /\ origin \in [Cells -> Contents]
    /\ edited \subseteq Cells /\ edits \in Nat

\* A run that reports FAILED_ROLLED_BACK has put back the values and formulas of
\* every target, overlapping targets included, wherever it failed, in every cell
\* nobody else edited and whose contents do not merely look like a formula.
RolledBackIsRestored ==
    At("FAILED_ROLLED_BACK") =>
        \A c \in Cells \ edited : origin[c] \notin Lookalikes => grid[c] = origin[c]

\* What the first n actions leave when executed one by one, and its formats.
After[n \in 0..Len(actions)] ==
    IF n = 0 THEN origin ELSE Written(actions[n], After[n - 1])

PaintedAfter[n \in 0..Len(actions)] ==
    IF n = 0 THEN [c \in Cells |-> Plain] ELSE Painted(actions[n], PaintedAfter[n - 1])

\* The cells nobody else edited, and all formats, are what n actions leave.
Shows(n) ==
    /\ \A c \in Cells \ edited : grid[c] = After[n][c]
    /\ format = PaintedAfter[n]

\* A run that reports APPLIED has executed every action, in order: the cells
\* nobody else edited hold what the actions leave when executed one by one, and
\* the formats are those of the actions.
AppliedIsWhole == At("APPLIED") => Shows(Len(actions))

\* A format was set by an action that sets formats.
FormatsMeant ==
    \A c \in Cells : format[c] # Plain =>
        \E i \in 1..Len(actions) :
            actions[i].type = "FORMAT_RANGE" /\ c \in actions[i].target

\* Whatever fails or stops, cells outside the exact targets of the bundle are
\* never touched, a bundle that is refused touches none, and formats change in
\* the targets of FORMAT_RANGE actions only.
OnlyTargetsChange ==
    /\ \A c \in Cells \ edited :
          (At("refused") \/ c \notin Targeted) => grid[c] = origin[c]
    /\ FormatsMeant

\* A formula in a cell nobody else edited was there before, or an action that sets
\* formulas put it there.
FormulasMeant ==
    \A c \in Cells \ edited : grid[c] \in Formulas =>
        \/ grid[c] = origin[c]
        \/ \E i \in 1..Len(actions) :
              /\ actions[i].type \in {"SET_FORMULAS", "RESTORE_RANGE"}
              /\ c \in actions[i].target

\* Literals in the bundle stay literals: a formula in a cell that nobody else
\* edited was there before or is put there by a SET_FORMULAS or RESTORE_RANGE
\* action of the bundle, until a rollback begins.
NoFormulaFromLiteral ==
    job.pc \in {"execute", "APPLIED"} => FormulasMeant

-----------------------------------------------------------------------------
(* Inductive invariant *)

\* Nobody but other users has touched a cell of cs.
Untouched(cs) == \A c \in cs \ edited : grid[c] = origin[c]

\* Every cell of cs is in a snapshot.
Saved(cs) == \A c \in cs : \E j \in 1..Len(job.snaps) : c \in job.snaps[j].target

\* Snapshots are of targets and hold what was there at the beginning; those the
\* rollback is through with are back in place.
SnapshotsHold ==
    \A j \in 1..Len(job.snaps) :
        /\ job.snaps[j].target \subseteq Targeted
        /\ \A c \in Cells \ edited : job.snaps[j].read[c] = origin[c]
        /\ At("restore") /\ j < job.i =>
              \A c \in job.snaps[j].target \ edited :
                  origin[c] \notin Lookalikes => grid[c] = origin[c]

\* Nothing is touched before the script executes.
NotBegun ==
    job.pc \in {"idle", "snapshot", "refused"} =>
        Untouched(Cells) /\ format = [c \in Cells |-> Plain]

\* The targets up to the script's place are saved, and all before it executes.
TargetsSaved ==
    /\ At("snapshot") =>
          \A i \in 1..Len(actions) : i < job.i => Saved(actions[i].target)
    /\ job.pc \in {"execute", "restore"} => Saved(Targeted)

\* Execution is as far as the script is.
ExecutedSoFar ==
    At("execute") => job.i \in 1..(Len(actions) + 1) /\ Shows(job.i - 1)

\* What each step of the script relies on, and what it reports at the end.
ScriptInv ==
    /\ Untouched(Cells \ Targeted)
    /\ SnapshotsHold
    /\ NotBegun
    /\ TargetsSaved
    /\ ExecutedSoFar
    /\ NoFormulaFromLiteral
    /\ RolledBackIsRestored
    /\ AppliedIsWhole
    /\ FormatsMeant
=============================================================================
