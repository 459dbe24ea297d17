----------------------------- MODULE RunStatus ------------------------------
(***************************************************************************)
(* The status order of a run: the RunStatus enumeration                    *)
(* (backend/app/domain/types.py) and the comparison Run.transition makes   *)
(* (backend/app/runs/service.py).                                          *)
(***************************************************************************)
EXTENDS Naturals

\* The position of a status in the enumeration. A run that does not exist yet
\* ("NONE") comes before every status. The undo statuses after FAILED are never
\* assigned by the code.
Order(s) ==
    CASE s = "NONE"          -> 0
      [] s = "CREATED"       -> 1
      [] s = "PLANNING"      -> 2
      [] s = "PREVIEW_READY" -> 3
      [] s = "REJECTED"      -> 4
      [] s = "EXPIRED"       -> 5
      [] s = "APPROVED"      -> 6
      [] s = "APPLYING"      -> 7
      [] s = "APPLIED"       -> 8
      [] s = "FAILED"        -> 9

\* The statuses a row of the runs table can hold. PLANNING and REJECTED are
\* assigned in memory only; EXPIRED and APPLYING are never assigned.
StoredStatus == {"NONE", "CREATED", "PREVIEW_READY", "APPROVED", "APPLIED", "FAILED"}

\* Faulty variant: every transition is accepted.
CanAlwaysTransition(from, to) == TRUE

\* Run.transition raises ValueError for an earlier status; the same status is
\* accepted.
CanTransition(from, to) == Order(from) <= Order(to)
=============================================================================
