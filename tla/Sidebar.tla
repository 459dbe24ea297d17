------------------------------ MODULE Sidebar -------------------------------
(***************************************************************************)
(* The page of the add-on (apps-script/Sidebar.html) against the backend.  *)
(* The page runs one handler at a time; its calls go through Apps Script   *)
(* (apps-script/ApiClient.gs), are served in any order, and come back in   *)
(* any order to the success handler or, when the script fails or runs into *)
(* its time limit, to the failure handler; the backend serves a call whose *)
(* script is gone all the same, then or later. The backend takes the steps *)
(* of RunLifecycle and is seen through the replies.                        *)
(***************************************************************************)
EXTENDS RunStatus

CONSTANTS
    Runs,  \* the runs the backend may create
    Slots, \* bound: the calls that are under way at a time
    None   \* no run, no call

VARIABLES
    page,    \* STATE and the buttons
    calls,   \* calls[s]: the call in slot s, or None
    phase,   \* phase[r]: the status of run r in the backend
    undo,    \* undo[r]: its undo row
    sheet    \* history: sheet[r]: how often the bundle of r was applied

vars    == <<page, calls, phase, undo, sheet>>
backend == <<phase, undo>>

-----------------------------------------------------------------------------
(* Data *)

MaybeRun == Runs \cup {None}

Button == [shown : BOOLEAN, enabled : BOOLEAN]

\* `token' and `bundle' are named by the run they were issued for.
Page == [busy : BOOLEAN, runId : MaybeRun, token : MaybeRun, bundle : MaybeRun,
         approve : Button, apply : Button, undo : Button]

\* A call: the run in its path, the run its token was issued for, the reported
\* status, how far the backend is with it, what came back, and whether nobody
\* waits for it any more.
Call == [op     : {"plan", "approve", "result", "prepare_undo", "undo_result"},
         run    : MaybeRun,
         token  : MaybeRun,
         status : {"none", "APPLIED", "FAILED"},
         stage  : {"sent", "begun", "served"},
         reply  : {"none", "ok", "error", "failure"},
         orphan : BOOLEAN]

ASSUME SidebarAssumption == None \notin Runs /\ None \notin Call

\* The page as it is loaded.
Loaded == [busy |-> FALSE, runId |-> None, token |-> None, bundle |-> None,
           approve |-> [shown |-> FALSE, enabled |-> TRUE],
           apply   |-> [shown |-> FALSE, enabled |-> TRUE],
           undo    |-> [shown |-> FALSE, enabled |-> TRUE]]

\* google.script.run
NewCall(op, run, token, status) ==
    [op |-> op, run |-> run, token |-> token, status |-> status,
     stage |-> "sent", reply |-> "none", orphan |-> FALSE]

Submit(s, call) == calls[s] = None /\ calls' = [calls EXCEPT ![s] = call]

\* The page is done with call s; what the backend has not served yet is still on
\* its way.
Finish(s) ==
    calls' = [calls EXCEPT ![s] = IF @.stage = "served" THEN None
                                  ELSE [@ EXCEPT !.orphan = TRUE]]

\* Call s of this page has come back to the given handler.
Back(s, op, reply) ==
    /\ calls[s] # None /\ ~calls[s].orphan
    /\ calls[s].op = op /\ calls[s].reply = reply

-----------------------------------------------------------------------------
(* What the user does *)

\* doSend
Send(s) ==
    /\ ~page.busy
    /\ page' = [page EXCEPT !.busy = TRUE]
    /\ Submit(s, NewCall("plan", None, None, "none"))
    /\ UNCHANGED <<backend, sheet>>

\* doApprove
Approve(s) ==
    /\ page.runId # None
    /\ page.approve.shown /\ page.approve.enabled
    /\ page' = [page EXCEPT !.approve.enabled = FALSE]
    /\ Submit(s, NewCall("approve", page.runId, None, "none"))
    /\ UNCHANGED <<backend, sheet>>

Executed(r) == sheet' = [sheet EXCEPT ![r] = IF @ > 1 THEN @ ELSE @ + 1]

\* Faulty variant: the button stays enabled while the report is under way.
ApplyStaysEnabled(s) ==
    /\ page.bundle # None
    /\ page.apply.shown /\ page.apply.enabled
    /\ \/ /\ Executed(page.bundle)
          /\ Submit(s, NewCall("result", page.runId, page.token, "APPLIED"))
       \/ /\ Submit(s, NewCall("result", page.runId, page.token, "FAILED"))
          /\ UNCHANGED sheet
    /\ UNCHANGED <<page, backend>>

\* doApply: applyBundle applies the bundle, rolls it back, or throws, and the
\* outcome is reported for the run the page is at.
Apply(s) ==
    /\ page.bundle # None
    /\ page.apply.shown /\ page.apply.enabled
    /\ page' = [page EXCEPT !.apply.enabled = FALSE]
    /\ \/ /\ Executed(page.bundle)
          /\ Submit(s, NewCall("result", page.runId, page.token, "APPLIED"))
       \/ /\ Submit(s, NewCall("result", page.runId, page.token, "FAILED"))
          /\ UNCHANGED sheet
       \/ UNCHANGED <<calls, sheet>>
    /\ UNCHANGED backend

\* doUndo
Undo(s) ==
    /\ page.undo.shown /\ page.undo.enabled
    /\ page' = [page EXCEPT !.undo.enabled = FALSE]
    /\ Submit(s, NewCall("prepare_undo", page.runId, None, "none"))
    /\ UNCHANGED <<backend, sheet>>

\* The sidebar is closed and opened again: nobody waits for the replies.
Reload ==
    /\ page' = Loaded
    /\ calls' = [s \in Slots |->
                    IF calls[s] = None THEN None ELSE [calls[s] EXCEPT !.orphan = TRUE]]
    /\ UNCHANGED <<backend, sheet>>

-----------------------------------------------------------------------------
(* What the backend answers *)

AtStage(s, op, stage) == calls[s] # None /\ calls[s].op = op /\ calls[s].stage = stage

Arrived(s, op) == AtStage(s, op, "sent")

\* A reply nobody gets when the script has failed meanwhile.
Served(call, reply) ==
    [call EXCEPT !.stage = "served", !.reply = IF @ = "none" THEN reply ELSE @]

Reply(s, reply) == calls' = [calls EXCEPT ![s] = Served(@, reply)]

\* No handler is between two commits: there is no await there.
LoopFree == \A s \in Slots : ~AtStage(s, "result", "begun")

\* create_plan stores the run and awaits the planner.
StartPlan(s) ==
    /\ Arrived(s, "plan") /\ LoopFree
    /\ \E r \in Runs :
          /\ phase[r] = "NONE"
          /\ phase' = [phase EXCEPT ![r] = "CREATED"]
          /\ calls' = [calls EXCEPT ![s].stage = "begun", ![s].run = r]
    /\ UNCHANGED <<page, undo, sheet>>

\* Faulty variant: the run is stored as it is while the planner works.
ServePlanUnfinished(s) ==
    /\ AtStage(s, "plan", "begun") /\ LoopFree
    /\ phase' = [phase EXCEPT ![calls[s].run] = "PLANNING"]
    /\ Reply(s, "ok")
    /\ UNCHANGED <<page, undo, sheet>>

\* A reply without an editable plan does not occur: CONTEXT_REQUIRED is never
\* raised, and every other rejection is an error.
ServePlan(s) ==
    /\ AtStage(s, "plan", "begun") /\ LoopFree
    /\ phase' = [phase EXCEPT ![calls[s].run] = "PREVIEW_READY"]
    /\ Reply(s, "ok")
    /\ UNCHANGED <<page, undo, sheet>>

ServeApprove(s) ==
    /\ Arrived(s, "approve") /\ LoopFree
    /\ phase[calls[s].run] = "PREVIEW_READY"
    /\ phase' = [phase EXCEPT ![calls[s].run] = "APPROVED"]
    /\ Reply(s, "ok")
    /\ UNCHANGED <<page, undo, sheet>>

\* Faulty variant: a token is accepted for any run.
TokenOfAnyRun(call) == call.token # None

\* verify_approval_token: the run is part of what was signed.
TokenVerifies(call) == call.token # None /\ call.token = call.run

\* report_result stores the status; an apply is not over with that.
ServeResult(s) ==
    LET c == calls[s] IN
    /\ Arrived(s, "result") /\ LoopFree
    /\ TokenVerifies(c)
    /\ CanTransition(phase[c.run], c.status)
    /\ phase' = [phase EXCEPT ![c.run] = c.status]
    /\ IF c.status = "APPLIED" THEN calls' = [calls EXCEPT ![s].stage = "begun"]
                               ELSE Reply(s, "ok")
    /\ UNCHANGED <<page, undo, sheet>>

\* Its last commit.
MarkUndo(s) ==
    /\ AtStage(s, "result", "begun")
    /\ undo' = [undo EXCEPT ![calls[s].run] = "available"]
    /\ Reply(s, "ok")
    /\ UNCHANGED <<page, phase, sheet>>

ServePrepareUndo(s) ==
    /\ Arrived(s, "prepare_undo") /\ LoopFree
    /\ undo[calls[s].run] = "available"
    /\ calls' = [calls EXCEPT ![s] = Served([@ EXCEPT !.token = calls[s].run], "ok")]
    /\ UNCHANGED <<page, backend, sheet>>

\* Faulty variant: the token is not looked at, and the row is written anyway.
ServeUndoResultAnyway(s) ==
    /\ Arrived(s, "undo_result") /\ LoopFree
    /\ undo' = [undo EXCEPT ![calls[s].run] = "consumed"]
    /\ Reply(s, "ok")
    /\ UNCHANGED <<page, phase, sheet>>

ServeUndoResult(s) ==
    LET r == calls[s].run IN
    /\ Arrived(s, "undo_result") /\ LoopFree
    /\ TokenVerifies(calls[s])
    /\ undo' = [undo EXCEPT ![r] = IF @ = "none" THEN "none" ELSE "consumed"]
    /\ Reply(s, "ok")
    /\ UNCHANGED <<page, phase, sheet>>

\* The backend refuses: a plan that is rejected, an expired preview or token, a
\* status or an undo state that does not allow the request.
Refuse(s) ==
    /\ calls[s] # None /\ LoopFree
    /\ calls[s].stage = "sent" \/ AtStage(s, "plan", "begun")
    /\ Reply(s, "error")
    /\ UNCHANGED <<page, backend, sheet>>

\* The script fails, whether the backend has served the call, serves it later or
\* never sees it.
Fail(s) ==
    /\ calls[s] # None /\ ~calls[s].orphan /\ calls[s].reply # "failure"
    /\ calls' = [calls EXCEPT ![s].reply = "failure"]
    /\ UNCHANGED <<page, backend, sheet>>

-----------------------------------------------------------------------------
(* The handlers of the page *)

\* onPlan: renderPlan shows the plan with Approve only.
OnPlan(s) ==
    /\ Back(s, "plan", "ok")
    /\ page' = [page EXCEPT !.busy = FALSE, !.runId = calls[s].run,
                            !.approve.shown = TRUE, !.apply.shown = FALSE,
                            !.undo.shown = FALSE]
    /\ Finish(s)
    /\ UNCHANGED <<backend, sheet>>

OnPlanError(s) ==
    /\ Back(s, "plan", "error")
    /\ page' = [page EXCEPT !.busy = FALSE]
    /\ Finish(s)
    /\ UNCHANGED <<backend, sheet>>

\* The success handler of doApprove.
OnApprove(s) ==
    /\ Back(s, "approve", "ok")
    /\ page' = [page EXCEPT !.token = calls[s].run, !.bundle = calls[s].run,
                            !.approve = [shown |-> FALSE, enabled |-> TRUE],
                            !.apply.shown = TRUE]
    /\ Finish(s)
    /\ UNCHANGED <<backend, sheet>>

\* Faulty variant: the reply is taken for a bundle without a look at its status.
OnApproveErrorUnchecked(s) ==
    /\ Back(s, "approve", "error")
    /\ page' = [page EXCEPT !.token = calls[s].run, !.bundle = calls[s].run,
                            !.approve = [shown |-> FALSE, enabled |-> TRUE],
                            !.apply.shown = TRUE]
    /\ Finish(s)
    /\ UNCHANGED <<backend, sheet>>

OnApproveError(s) ==
    /\ Back(s, "approve", "error")
    /\ page' = [page EXCEPT !.approve.enabled = TRUE]
    /\ Finish(s)
    /\ UNCHANGED <<backend, sheet>>

\* The success handler of doApply, which does not look at the reply.
OnResult(s) ==
    /\ Back(s, "result", "ok") \/ Back(s, "result", "error")
    /\ page' = IF calls[s].status = "APPLIED"
               THEN [page EXCEPT !.apply.shown = FALSE, !.undo.shown = TRUE]
               ELSE [page EXCEPT !.apply.enabled = TRUE]
    /\ Finish(s)
    /\ UNCHANGED <<backend, sheet>>

\* The success handler of doUndo: the undo bundle is applied and RESTORED is
\* reported for the run the page is at. The bundle is built from the snapshot the
\* page sent, which is empty, so it changes nothing; or applyBundle throws.
OnPrepareUndo(s) ==
    /\ Back(s, "prepare_undo", "ok")
    /\ \/ calls' = [calls EXCEPT ![s] =
                       NewCall("undo_result", page.runId, calls[s].token, "none")]
       \/ Finish(s)
    /\ UNCHANGED <<page, backend, sheet>>

OnPrepareUndoError(s) ==
    /\ Back(s, "prepare_undo", "error")
    /\ page' = [page EXCEPT !.undo.enabled = TRUE]
    /\ Finish(s)
    /\ UNCHANGED <<backend, sheet>>

OnUndoResult(s) ==
    /\ Back(s, "undo_result", "ok") \/ Back(s, "undo_result", "error")
    /\ page' = [page EXCEPT !.undo.shown = FALSE]
    /\ Finish(s)
    /\ UNCHANGED <<backend, sheet>>

\* Faulty variant: the failure handler only shows the error.
OnFailStaysBusy(s) ==
    /\ \E op \in {"plan", "approve", "prepare_undo"} : Back(s, op, "failure")
    /\ Finish(s)
    /\ UNCHANGED <<page, backend, sheet>>

\* onFail, the failure handler of three of the calls.
OnFail(s) ==
    /\ \E op \in {"plan", "approve", "prepare_undo"} : Back(s, op, "failure")
    /\ page' = [page EXCEPT !.busy = FALSE]
    /\ Finish(s)
    /\ UNCHANGED <<backend, sheet>>

\* Nobody handles the failure of a report, or what an older page asked for.
Ignore(s) ==
    /\ \/ \E op \in {"result", "undo_result"} : Back(s, op, "failure")
       \/ calls[s] # None /\ calls[s].orphan /\ calls[s].stage = "served"
    /\ Finish(s)
    /\ UNCHANGED <<page, backend, sheet>>

-----------------------------------------------------------------------------

Init ==
    /\ page  = Loaded
    /\ calls = [s \in Slots |-> None]
    /\ phase = [r \in Runs |-> "NONE"]
    /\ undo  = [r \in Runs |-> "none"]
    /\ sheet = [r \in Runs |-> 0]

User(s) == Send(s) \/ Approve(s) \/ Apply(s) \/ Undo(s)

Answer(s) ==
    \/ StartPlan(s)
    \/ ServePlan(s)
    \/ ServeApprove(s)
    \/ ServeResult(s)
    \/ MarkUndo(s)
    \/ ServePrepareUndo(s)
    \/ ServeUndoResult(s)
    \/ Refuse(s)
    \/ Fail(s)

Handle(s) ==
    \/ OnPlan(s)
    \/ OnPlanError(s)
    \/ OnApprove(s)
    \/ OnApproveError(s)
    \/ OnResult(s)
    \/ OnPrepareUndo(s)
    \/ OnPrepareUndoError(s)
    \/ OnUndoResult(s)
    \/ OnFail(s)
    \/ Ignore(s)

Next ==
    \/ \E s \in Slots : User(s) \/ Answer(s) \/ Handle(s)
    \/ Reload

Spec == Init /\ [][Next]_vars

\* Apps Script ends every execution, with an answer or at its time limit, and the
\* browser runs every handler. Nothing is assumed of the user.
FairSpec == Spec /\ \A s \in Slots : WF_vars(Answer(s)) /\ WF_vars(Handle(s))

-----------------------------------------------------------------------------
(* Properties *)

\* A report says how its bundle ended.
Said(c) == c.op = "result" => c.status # "none"

CallsOK ==
    /\ calls \in [Slots -> Call \cup {None}]
    /\ \A s \in Slots : calls[s] # None => Said(calls[s])

\* The types of the state.
TypeOK ==
    /\ page \in Page
    /\ CallsOK
    /\ phase \in [Runs -> StoredStatus]
    /\ undo \in [Runs -> {"none", "available", "consumed"}]
    /\ sheet \in [Runs -> Nat]

\* The bundle of a run is applied to the sheet at most once, however often the
\* user clicks, whatever replies are late or lost, also when an apply that was
\* rolled back is tried again or another run is planned meanwhile.
AppliedOnce == \A r \in Runs : sheet[r] <= 1

\* The backend holds a run APPLIED, or its undo open or done, only if the bundle of
\* this very run is in the sheet. The page reports to the run it is at, which may
\* have changed since the bundle was issued; the run in the token is what keeps
\* the report from another run.
AppliedWasExecuted ==
    \A r \in Runs : phase[r] = "APPLIED" \/ undo[r] # "none" => sheet[r] > 0

\* Nothing is applied to the sheet before the backend has approved its run, in
\* whatever order replies arrive.
ExecutedWasApproved ==
    \A r \in Runs : sheet[r] > 0 => Order(phase[r]) >= Order("APPROVED")

\* The lifecycle of the runs the page works on: a run that is past its preview has
\* been approved, and the page can have it approved once only.
Lifecycle == INSTANCE RunLifecycle WITH
    approvals <- [r \in Runs |-> IF Order(phase[r]) >= Order("APPROVED") THEN 1 ELSE 0]

\* Page and backend together keep to the lifecycle of a run, the same one the
\* handlers and their tables implement (RunBackend): whatever calls are late,
\* repeated, abandoned by their script or made by a page that is gone, no run
\* skips its approval, no report reopens a run, and no undo is recorded that was
\* never open.
KeepsToLifecycle == Lifecycle!LifecycleSpec

\* The prompt comes back: the page does not stay busy, whatever fails.
SendComesBack == page.busy ~> ~page.busy

-----------------------------------------------------------------------------
(* Inductive invariant *)

Approved(r) == Order(phase[r]) >= Order("APPROVED")

\* The page waits for call s.
Awaited(s, op) == calls[s] # None /\ calls[s].op = op /\ ~calls[s].orphan

\* What the page holds: a bundle of an approved run, with its token; one that can
\* still be applied has not been, nor is a report on its way back.
PageChain ==
    /\ page.token = page.bundle
    /\ page.bundle # None => Approved(page.bundle)
    /\ page.apply.enabled =>
          /\ page.bundle # None => sheet[page.bundle] = 0
          /\ \A s \in Slots : ~Awaited(s, "result")
    /\ \A s, t \in Slots : Awaited(s, "result") /\ Awaited(t, "result") => s = t

\* What the backend has answered an approval with is out for the first time.
ApproveChain(c) ==
    c.op = "approve" /\ c.reply = "ok" /\ c.run # None =>
        /\ c.stage = "served"
        /\ Approved(c.run) /\ sheet[c.run] = 0 /\ page.bundle # c.run

\* What a report carries: the token of an approved run, and APPLIED only when the
\* bundle of that run was applied. While an awaited report says FAILED, whatever
\* bundle the page holds meanwhile has not been applied.
ResultChain(c) ==
    c.op = "result" =>
        /\ c.token # None => Approved(c.token)
        /\ c.token # None /\ c.status = "APPLIED" => sheet[c.token] > 0
        /\ c.stage = "begun" =>
              c.status = "APPLIED" /\ c.run \in Runs /\ phase[c.run] = "APPLIED"
        /\ ~c.orphan /\ c.status = "FAILED" /\ page.bundle # None =>
              sheet[page.bundle] = 0

\* A run that is being planned is in the hands of one request.
PlanChain(c) ==
    c.op = "plan" /\ c.stage = "begun" => c.run \in Runs /\ phase[c.run] = "CREATED"

\* No two plannings and no two approvals are about the same run.
Alone ==
    \A s, t \in Slots :
        /\ calls[s] # None /\ calls[t] # None /\ s # t
        /\ calls[s].op = calls[t].op /\ calls[s].run = calls[t].run
        => /\ calls[s].op = "plan" => ~(calls[s].stage = "begun" /\ calls[t].stage = "begun")
           /\ calls[s].op = "approve" /\ calls[s].run # None =>
                 ~(calls[s].reply = "ok" /\ calls[t].reply = "ok")

\* From an approval to a stored report, link by link, over replies in any order.
SidebarChain ==
    /\ PageChain
    /\ \A s \in Slots : calls[s] # None =>
          ApproveChain(calls[s]) /\ ResultChain(calls[s]) /\ PlanChain(calls[s])
    /\ Alone
    /\ AppliedOnce /\ AppliedWasExecuted /\ ExecutedWasApproved

\* Send is never disabled for nothing: while the page is busy, it waits for the
\* reply to a plan, which enables Send again however it turns out.
BusyWaits == page.busy => \E s \in Slots : Awaited(s, "plan")

-----------------------------------------------------------------------------
(* What a document says and the code does not do *)

\* GOOGLE_SHEETS_ADDON.md, section 2: duplicate submission is disabled while a
\* request is in flight.
OnePlanInFlight ==
    \A s, t \in Slots :
        (/\ calls[s] # None /\ calls[s].op = "plan" /\ ~calls[s].orphan
         /\ calls[t] # None /\ calls[t].op = "plan" /\ ~calls[t].orphan) => s = t
=============================================================================
