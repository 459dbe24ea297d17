---------------------------- MODULE RunLifecycle ----------------------------
(***************************************************************************)
(* What the run service promises about one run, with the storage, the      *)
(* requests, the tokens and the clock left out: the status order of        *)
(* Run.transition (backend/app/runs/service.py) and the handlers that      *)
(* move a run along it, how often execution of its bundle is approved,     *)
(* and when its undo may be opened.                                        *)
(***************************************************************************)
EXTENDS RunStatus

CONSTANT Runs

VARIABLES
    phase,      \* phase[r]: the status of run r, "NONE" before it exists
    approvals,  \* approvals[r]: how many times a bundle of r was issued
    undo        \* undo[r]: the undo_state row of r

lifecycle == <<phase, approvals, undo>>

-----------------------------------------------------------------------------

LifecycleInit ==
    /\ phase     = [r \in Runs |-> "NONE"]
    /\ approvals = [r \in Runs |-> 0]
    /\ undo      = [r \in Runs |-> "none"]

Move(r, from, to) ==
    /\ phase[r] = from
    /\ phase' = [phase EXCEPT ![r] = to]

Create(r) ==
    Move(r, "NONE", "CREATED") /\ UNCHANGED <<approvals, undo>>

Preview(r) ==
    Move(r, "CREATED", "PREVIEW_READY") /\ UNCHANGED <<approvals, undo>>

\* The bundle of a run is issued once, on the way out of PREVIEW_READY.
Approve(r) ==
    /\ Move(r, "PREVIEW_READY", "APPROVED")
    /\ approvals' = [approvals EXCEPT ![r] = @ + 1]
    /\ UNCHANGED undo

\* A report settles an approved run; a later failure report may still turn
\* APPLIED into FAILED, never the other way round.
Settle(r, outcome) ==
    /\ phase[r] \in {"APPROVED", "APPLIED", "FAILED"}
    /\ CanTransition(phase[r], outcome)
    /\ phase' = [phase EXCEPT ![r] = outcome]
    /\ UNCHANGED <<approvals, undo>>

OpenUndo(r) ==
    /\ phase[r] = "APPLIED"
    /\ undo' = [undo EXCEPT ![r] = "available"]
    /\ UNCHANGED <<phase, approvals>>

CloseUndo(r) ==
    /\ undo[r] = "available"
    /\ undo' = [undo EXCEPT ![r] = "consumed"]
    /\ UNCHANGED <<phase, approvals>>

LifecycleNext ==
    \E r \in Runs :
        \/ Create(r)
        \/ Preview(r)
        \/ Approve(r)
        \/ \E outcome \in {"APPLIED", "FAILED"} : Settle(r, outcome)
        \/ OpenUndo(r)
        \/ CloseUndo(r)

LifecycleSpec == LifecycleInit /\ [][LifecycleNext]_lifecycle
=============================================================================
