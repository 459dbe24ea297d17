--------------------------- MODULE SidebarProofs ----------------------------
(***************************************************************************)
(* The sidebar against the backend, for any runs and any number of calls   *)
(* under way: a bundle is applied once and only when approved, only what   *)
(* was applied is stored as APPLIED, and together they keep to the         *)
(* lifecycle of a run. The argument is SidebarChain: what the page holds   *)
(* and what each call carries, whether or not anybody still waits for it.  *)
(***************************************************************************)
EXTENDS Sidebar, TLAPS

\* The statuses of a run, in order.
LEMMA OrderFacts ==
    /\ \A st \in StoredStatus : Order(st) \in Nat
    /\ Order("NONE") = 0
    /\ Order("CREATED") = 1
    /\ Order("PREVIEW_READY") = 3
    /\ Order("APPROVED") = 6
    /\ Order("APPLIED") = 8
    /\ Order("FAILED") = 9
  BY DEF Order, StoredStatus

\* What a call under way holds.
LEMMA CallType ==
    ASSUME TypeOK, NEW s \in Slots, calls[s] # None
    PROVE  /\ calls[s] \in Call
           /\ calls[s].op \in {"plan", "approve", "result", "prepare_undo", "undo_result"}
           /\ calls[s].run \in MaybeRun /\ calls[s].token \in MaybeRun
           /\ calls[s].status \in {"none", "APPLIED", "FAILED"}
           /\ calls[s].stage \in {"sent", "begun", "served"}
           /\ calls[s].reply \in {"none", "ok", "error", "failure"}
           /\ calls[s].orphan \in BOOLEAN
           /\ Said(calls[s])
  BY DEF TypeOK, CallsOK, Call

LEMMA PageType ==
    ASSUME TypeOK
    PROVE  /\ page.busy \in BOOLEAN
           /\ page.runId \in MaybeRun /\ page.token \in MaybeRun /\ page.bundle \in MaybeRun
           /\ page.approve \in Button /\ page.apply \in Button /\ page.undo \in Button
           /\ page.apply.enabled \in BOOLEAN
  BY DEF TypeOK, Page, Button

-----------------------------------------------------------------------------
(* Type correctness *)

\* Placing a call in one slot.
LEMMA SlotType ==
    ASSUME TypeOK, NEW s \in Slots, NEW c \in Call \cup {None},
           c # None => Said(c), calls' = [calls EXCEPT ![s] = c]
    PROVE  /\ CallsOK'
           /\ calls'[s] = c
           /\ \A t \in Slots \ {s} : calls'[t] = calls[t]
  BY DEF TypeOK, CallsOK

LEMMA NewCallType ==
    ASSUME NEW op \in {"plan", "approve", "result", "prepare_undo", "undo_result"},
           NEW run \in MaybeRun, NEW token \in MaybeRun,
           NEW status \in {"none", "APPLIED", "FAILED"}, op = "result" => status # "none"
    PROVE  /\ NewCall(op, run, token, status) \in Call
           /\ Said(NewCall(op, run, token, status))
  BY DEF NewCall, Call, Said

LEMMA ServedType ==
    ASSUME NEW c \in Call, Said(c), NEW reply \in {"ok", "error"}
    PROVE  Served(c, reply) \in Call /\ Said(Served(c, reply))
  BY DEF Served, Call, Said

\* What Finish leaves in the slot.
Finished(c) == IF c.stage = "served" THEN None ELSE [c EXCEPT !.orphan = TRUE]

LEMMA FinishedType ==
    ASSUME NEW c \in Call, Said(c)
    PROVE  /\ Finished(c) \in Call \cup {None}
           /\ Finished(c) # None => Said(Finished(c))
  BY DEF Finished, Call, Said

LEMMA FinishSlot ==
    ASSUME TypeOK, NEW s \in Slots, calls[s] # None, Finish(s)
    PROVE  /\ CallsOK'
           /\ calls'[s] = Finished(calls[s])
           /\ \A t \in Slots \ {s} : calls'[t] = calls[t]
<1>1. calls' = [calls EXCEPT ![s] = Finished(calls[s])]
  BY DEF Finish, Finished, TypeOK, CallsOK
<1> QED BY <1>1, CallType, FinishedType, SlotType

LEMMA ReplySlot ==
    ASSUME TypeOK, NEW s \in Slots, calls[s] # None, NEW reply \in {"ok", "error"},
           Reply(s, reply)
    PROVE  /\ CallsOK'
           /\ calls'[s] = Served(calls[s], reply)
           /\ \A t \in Slots \ {s} : calls'[t] = calls[t]
<1>1. calls' = [calls EXCEPT ![s] = Served(calls[s], reply)]
  BY DEF Reply, TypeOK, CallsOK
<1> QED BY <1>1, CallType, ServedType, SlotType

LEMMA SubmitSlot ==
    ASSUME TypeOK, NEW s \in Slots, NEW c \in Call, Said(c), Submit(s, c)
    PROVE  /\ calls[s] = None
           /\ CallsOK'
           /\ calls'[s] = c
           /\ \A t \in Slots \ {s} : calls'[t] = calls[t]
  BY SlotType DEF Submit

LEMMA InitType == Init => TypeOK
  BY DEF Init, TypeOK, CallsOK, Loaded, Page, Button, MaybeRun, StoredStatus

LEMMA UserType ==
    ASSUME TypeOK, NEW s \in Slots, User(s)
    PROVE  TypeOK'
<1>1. CASE Send(s)
  <2>1. page' \in Page
    BY <1>1 DEF Send, TypeOK, Page
  <2>2. /\ NewCall("plan", None, None, "none") \in Call
        /\ Said(NewCall("plan", None, None, "none"))
    BY NewCallType DEF MaybeRun
  <2> QED BY <1>1, <2>1, <2>2, SubmitSlot DEF Send, TypeOK, backend
<1>2. CASE Approve(s)
  <2>1. page' \in Page
    BY <1>2 DEF Approve, TypeOK, Page, Button
  <2>2. /\ NewCall("approve", page.runId, None, "none") \in Call
        /\ Said(NewCall("approve", page.runId, None, "none"))
    BY NewCallType, PageType DEF MaybeRun
  <2> QED BY <1>2, <2>1, <2>2, SubmitSlot DEF Approve, TypeOK, backend
<1>3. CASE Apply(s)
  <2>1. page' \in Page
    BY <1>3 DEF Apply, TypeOK, Page, Button
  <2>2. \A status \in {"APPLIED", "FAILED"} :
           /\ NewCall("result", page.runId, page.token, status) \in Call
           /\ Said(NewCall("result", page.runId, page.token, status))
    BY NewCallType, PageType
  <2>3. CallsOK'
    <3>1. CASE calls' = calls
      BY <3>1 DEF TypeOK, CallsOK
    <3>2. CASE calls' # calls
      BY <1>3, <2>2, <3>2, SubmitSlot DEF Apply
    <3> QED BY <3>1, <3>2
  <2>4. sheet' \in [Runs -> Nat]
    BY <1>3 DEF Apply, Executed, TypeOK
  <2> QED BY <1>3, <2>1, <2>3, <2>4 DEF Apply, TypeOK, backend
<1>4. CASE Undo(s)
  <2>1. page' \in Page
    BY <1>4 DEF Undo, TypeOK, Page, Button
  <2>2. /\ NewCall("prepare_undo", page.runId, None, "none") \in Call
        /\ Said(NewCall("prepare_undo", page.runId, None, "none"))
    BY NewCallType, PageType DEF MaybeRun
  <2> QED BY <1>4, <2>1, <2>2, SubmitSlot DEF Undo, TypeOK, backend
<1> QED BY <1>1, <1>2, <1>3, <1>4 DEF User

LEMMA AnswerType ==
    ASSUME TypeOK, NEW s \in Slots, Answer(s)
    PROVE  TypeOK'
<1>0. calls[s] # None
  BY DEF Answer, StartPlan, ServePlan, ServeApprove, ServeResult, MarkUndo,
         ServePrepareUndo, ServeUndoResult, Refuse, Fail, Arrived, AtStage
<1>1. CASE StartPlan(s)
  <2>1. PICK r \in Runs : /\ phase' = [phase EXCEPT ![r] = "CREATED"]
                          /\ calls' = [calls EXCEPT ![s].stage = "begun", ![s].run = r]
    BY <1>1 DEF StartPlan
  <2> DEFINE c == [calls[s] EXCEPT !.stage = "begun", !.run = r]
  <2>2. c \in Call /\ Said(c)
    BY <1>0, CallType DEF Call, MaybeRun, Said
  <2>3. calls' = [calls EXCEPT ![s] = c]
    BY <2>1 DEF TypeOK, CallsOK
  <2>4. phase' \in [Runs -> StoredStatus]
    BY <2>1 DEF TypeOK, StoredStatus
  <2> QED BY <1>1, <2>2, <2>3, <2>4, SlotType DEF StartPlan, TypeOK
<1>2. CASE ServePlan(s)
  <2>1. phase' \in [Runs -> StoredStatus]
    BY <1>2 DEF ServePlan, TypeOK, StoredStatus
  <2> QED BY <1>0, <1>2, <2>1, ReplySlot DEF ServePlan, TypeOK
<1>3. CASE ServeApprove(s)
  <2>1. phase' \in [Runs -> StoredStatus]
    BY <1>3 DEF ServeApprove, TypeOK, StoredStatus
  <2> QED BY <1>0, <1>3, <2>1, ReplySlot DEF ServeApprove, TypeOK
<1>4. CASE ServeResult(s)
  <2>1. calls[s].status \in StoredStatus \cup {"none"}
    BY <1>0, CallType DEF StoredStatus
  <2>2. calls[s].status # "none"
    BY <1>0, <1>4, CallType DEF ServeResult, Arrived, AtStage, Said
  <2>3. phase' \in [Runs -> StoredStatus]
    BY <1>4, <2>1, <2>2 DEF ServeResult, TypeOK
  <2> DEFINE c == [calls[s] EXCEPT !.stage = "begun"]
  <2>4. c \in Call /\ Said(c)
    BY <1>0, CallType DEF Call, Said
  <2>5. calls' = [calls EXCEPT ![s] = c] \/ Reply(s, "ok")
    BY <1>4 DEF ServeResult, TypeOK, CallsOK
  <2>6. CallsOK'
    BY <1>0, <2>4, <2>5, ReplySlot, SlotType
  <2> QED BY <1>4, <2>3, <2>6 DEF ServeResult, TypeOK
<1>5. CASE MarkUndo(s)
  <2>1. undo' \in [Runs -> {"none", "available", "consumed"}]
    BY <1>5 DEF MarkUndo, TypeOK
  <2> QED BY <1>0, <1>5, <2>1, ReplySlot DEF MarkUndo, TypeOK
<1>6. CASE ServePrepareUndo(s)
  <2> DEFINE c == [calls[s] EXCEPT !.token = calls[s].run]
  <2>1. c \in Call /\ Said(c)
    BY <1>0, CallType DEF Call, Said
  <2>2. calls' = [calls EXCEPT ![s] = Served(c, "ok")]
    BY <1>6 DEF ServePrepareUndo, TypeOK, CallsOK
  <2> QED BY <1>6, <2>1, <2>2, ServedType, SlotType DEF ServePrepareUndo, TypeOK, backend
<1>7. CASE ServeUndoResult(s)
  <2>1. undo' \in [Runs -> {"none", "available", "consumed"}]
    BY <1>7 DEF ServeUndoResult, TypeOK
  <2> QED BY <1>0, <1>7, <2>1, ReplySlot DEF ServeUndoResult, TypeOK
<1>8. CASE Refuse(s)
  BY <1>0, <1>8, ReplySlot DEF Refuse, TypeOK, backend
<1>9. CASE Fail(s)
  <2> DEFINE c == [calls[s] EXCEPT !.reply = "failure"]
  <2>1. c \in Call /\ Said(c)
    BY <1>0, CallType DEF Call, Said
  <2>2. calls' = [calls EXCEPT ![s] = c]
    BY <1>9 DEF Fail, TypeOK, CallsOK
  <2> QED BY <1>9, <2>1, <2>2, SlotType DEF Fail, TypeOK, backend
<1> QED BY <1>1, <1>2, <1>3, <1>4, <1>5, <1>6, <1>7, <1>8, <1>9 DEF Answer

LEMMA HandleType ==
    ASSUME TypeOK, NEW s \in Slots, Handle(s)
    PROVE  TypeOK'
<1>0. calls[s] # None
  BY DEF Handle, OnPlan, OnPlanError, OnApprove, OnApproveError, OnResult, OnPrepareUndo,
         OnPrepareUndoError, OnUndoResult, OnFail, Ignore, Back
<1>1. page' \in Page
  <2>1. calls[s].run \in MaybeRun
    BY <1>0, CallType
  <2>2. CASE OnPlan(s)
    BY <2>1, <2>2 DEF OnPlan, TypeOK, Page, Button
  <2>3. CASE OnApprove(s)
    BY <2>1, <2>3 DEF OnApprove, TypeOK, Page, Button
  <2>4. CASE OnApproveError(s)
    BY <2>4 DEF OnApproveError, TypeOK, Page, Button
  <2>5. CASE OnResult(s)
    BY <2>5 DEF OnResult, TypeOK, Page, Button
  <2>6. CASE OnPrepareUndoError(s)
    BY <2>6 DEF OnPrepareUndoError, TypeOK, Page, Button
  <2>9. CASE OnUndoResult(s)
    BY <2>9 DEF OnUndoResult, TypeOK, Page, Button
  <2>7. CASE OnPlanError(s) \/ OnFail(s)
    BY <2>7 DEF OnPlanError, OnFail, TypeOK, Page
  <2>8. CASE OnPrepareUndo(s) \/ Ignore(s)
    BY <2>8 DEF OnPrepareUndo, Ignore, TypeOK
  <2> QED BY <2>2, <2>3, <2>4, <2>5, <2>6, <2>7, <2>8, <2>9 DEF Handle
<1>2. CallsOK'
  <2>1. CASE Finish(s)
    BY <1>0, <2>1, FinishSlot
  <2>2. CASE ~Finish(s)
    <3> DEFINE c == NewCall("undo_result", page.runId, calls[s].token, "none")
    <3>1. OnPrepareUndo(s)
      BY <2>2 DEF Handle, OnPlan, OnPlanError, OnApprove, OnApproveError, OnResult,
                  OnPrepareUndoError, OnUndoResult, OnFail, Ignore
    <3>2. calls' = [calls EXCEPT ![s] = c]
      BY <2>2, <3>1 DEF OnPrepareUndo
    <3>3. c \in Call /\ Said(c)
      BY <1>0, CallType, PageType, NewCallType
    <3> QED BY <3>2, <3>3, SlotType
  <2> QED BY <2>1, <2>2
<1>3. UNCHANGED <<phase, undo, sheet>>
  BY DEF Handle, OnPlan, OnPlanError, OnApprove, OnApproveError, OnResult, OnPrepareUndo,
         OnPrepareUndoError, OnUndoResult, OnFail, Ignore, backend
<1> QED BY <1>1, <1>2, <1>3 DEF TypeOK

\* What a reload leaves in a slot: the call, with nobody waiting for it.
LEMMA ReloadSlots ==
    ASSUME TypeOK, Reload
    PROVE  /\ CallsOK'
           /\ \A s \in Slots :
                 \/ calls[s] = None /\ calls'[s] = None
                 \/ /\ calls[s] # None /\ calls'[s] \in Call
                    /\ calls'[s] = [calls[s] EXCEPT !.orphan = TRUE]
<1>1. ASSUME NEW s \in Slots, calls[s] # None
      PROVE  [calls[s] EXCEPT !.orphan = TRUE] \in Call /\ Said([calls[s] EXCEPT !.orphan = TRUE])
  BY <1>1, CallType DEF Call, Said
<1> QED BY <1>1, SidebarAssumption DEF Reload, CallsOK

LEMMA NextType == TypeOK /\ [Next]_vars => TypeOK'
<1>1. ASSUME TypeOK, Reload PROVE TypeOK'
  BY <1>1, ReloadSlots DEF Reload, backend, TypeOK, Loaded, Page, Button, MaybeRun
<1>2. TypeOK /\ UNCHANGED vars => TypeOK'
  BY DEF vars, TypeOK, CallsOK
<1> QED BY <1>1, <1>2, UserType, AnswerType, HandleType DEF Next

\* In every behaviour of page and backend the state is well typed, and a stored
\* status is one the backend stores.
THEOREM TypeCorrect == Spec => []TypeOK
  BY InitType, NextType, PTL DEF Spec

-----------------------------------------------------------------------------
(* The chain *)

CallChain(c) == ApproveChain(c) /\ ResultChain(c) /\ PlanChain(c)

\* A call that has just been made, and is no report.
Fresh(c) == c.stage = "sent" /\ c.reply = "none" /\ c.op # "result"

\* d is call c later, with nothing new to show.
Follows(d, c) ==
    /\ d.op = c.op /\ d.run = c.run
    /\ d.op = "result" => d.token = c.token /\ d.status = c.status
    /\ d.stage = "begun" => c.stage = "begun"
    /\ c.stage = "served" => d.stage = "served"
    /\ d.op = "approve" /\ d.reply = "ok" /\ d.run # None => c.reply = "ok"
    /\ c.orphan => d.orphan

\* Steps that leave the phases, the sheet and the page's bundle alone and touch
\* one slot, where they make a call, end one, or take one a step further.
LEMMA CalmStep ==
    ASSUME TypeOK, TypeOK', SidebarChain, NEW s \in Slots,
           \A t \in Slots \ {s} : calls'[t] = calls[t],
           \/ calls'[s] = None
           \/ Fresh(calls'[s])
           \/ calls[s] # None /\ Follows(calls'[s], calls[s]),
           UNCHANGED <<phase, sheet>>,
           page'.bundle = page.bundle, page'.token = page.token,
           page'.apply.enabled =>
              \/ page.apply.enabled
              \/ /\ page.bundle # None => sheet[page.bundle] = 0
                 /\ \A t \in Slots : ~Awaited(t, "result")',
           \A r \in Runs : undo'[r] # "none" => undo[r] # "none" \/ sheet[r] > 0
    PROVE  SidebarChain'
<1>1. \A t \in Slots : Awaited(t, "result")' => Awaited(t, "result")
  BY CallType DEF Awaited, Fresh, Follows
<1>2. PageChain'
  BY <1>1 DEF SidebarChain, PageChain, Approved
<1>3. ASSUME NEW t \in Slots, calls'[t] # None
      PROVE  (ApproveChain(calls[t]) /\ ResultChain(calls[t]) /\ PlanChain(calls[t]))'
  <2>1. CASE t # s
    BY <1>3, <2>1 DEF SidebarChain, ApproveChain, ResultChain, PlanChain, Approved
  <2>2. CASE t = s /\ Fresh(calls'[s])
    BY <2>2 DEF Fresh, ApproveChain, ResultChain, PlanChain
  <2>3. CASE t = s /\ calls[s] # None /\ Follows(calls'[s], calls[s])
    <3>1. CallChain(calls[s])
      BY <2>3 DEF SidebarChain, CallChain
    <3>2. ApproveChain(calls[t])'
      BY <2>3, <3>1 DEF Follows, CallChain, ApproveChain, Approved
    <3>3. ResultChain(calls[t])'
      BY <2>3, <3>1, CallType DEF Follows, CallChain, ResultChain, Approved
    <3>4. PlanChain(calls[t])'
      BY <2>3, <3>1 DEF Follows, CallChain, PlanChain
    <3> QED BY <3>2, <3>3, <3>4
  <2> QED BY <1>3, <2>1, <2>2, <2>3
<1>4. Alone'
  BY CallType DEF SidebarChain, Alone, Fresh, Follows
<1>5. (AppliedOnce /\ AppliedWasExecuted /\ ExecutedWasApproved)'
  BY DEF SidebarChain, AppliedOnce, AppliedWasExecuted, ExecutedWasApproved
<1> QED BY <1>2, <1>3, <1>4, <1>5 DEF SidebarChain

\* A step of the backend that moves run r on to status `to'.
LEMMA PhaseStep ==
    ASSUME TypeOK, TypeOK', SidebarChain, NEW s \in Slots, calls[s] # None,
           \A t \in Slots \ {s} : calls'[t] = calls[t],
           UNCHANGED <<page, undo, sheet>>, LoopFree,
           NEW r \in Runs, NEW to \in StoredStatus, phase' = [phase EXCEPT ![r] = to],
           Order(phase[r]) <= Order(to), to = "APPLIED" => sheet[r] > 0,
           \A t \in Slots \ {s} :
              calls[t] # None /\ calls[t].op = "plan" /\ calls[t].stage = "begun"
              => calls[t].run # r,
           (CallChain(calls[s]))', Alone',
           Awaited(s, "result")' => Awaited(s, "result")
    PROVE  SidebarChain'
<1>1. \A x \in Runs : Approved(x) => Approved(x)'
  <2>1. \A x \in Runs : Order(phase[x]) \in Nat /\ Order(phase'[x]) \in Nat
    BY OrderFacts DEF TypeOK
  <2>2. \A x \in Runs : Order(phase[x]) <= Order(phase'[x])
    BY <2>1 DEF TypeOK
  <2> QED BY <2>1, <2>2, OrderFacts DEF Approved
<1>2. \A t \in Slots : Awaited(t, "result")' => Awaited(t, "result")
  BY DEF Awaited
<1>3. PageChain'
  BY <1>1, <1>2, PageType DEF SidebarChain, PageChain, MaybeRun
<1>4. ASSUME NEW t \in Slots \ {s}, calls'[t] # None
      PROVE  CallChain(calls[t])'
  <2>1. calls'[t] = calls[t] /\ calls[t] # None /\ CallChain(calls[t])
    BY <1>4 DEF SidebarChain, CallChain
  <2>2. calls[t].run \in MaybeRun /\ calls[t].token \in MaybeRun
    BY <2>1, CallType
  <2>3. ApproveChain(calls[t])'
    BY <1>1, <2>1, <2>2 DEF CallChain, ApproveChain, MaybeRun
  <2>4. ~AtStage(t, "result", "begun")
    BY DEF LoopFree
  <2>5. ResultChain(calls[t])'
    BY <1>1, <2>1, <2>2, <2>4 DEF CallChain, ResultChain, MaybeRun, AtStage
  <2>6. PlanChain(calls[t])'
    BY <2>1 DEF CallChain, PlanChain, TypeOK
  <2> QED BY <2>3, <2>5, <2>6 DEF CallChain
<1>5. AppliedOnce'
  BY DEF SidebarChain, AppliedOnce
<1>6. AppliedWasExecuted'
  BY DEF SidebarChain, AppliedWasExecuted, TypeOK
<1>7. ExecutedWasApproved'
  BY <1>1 DEF SidebarChain, ExecutedWasApproved, Approved
<1>8. \A t \in Slots : (calls[t] # None =>
          ApproveChain(calls[t]) /\ ResultChain(calls[t]) /\ PlanChain(calls[t]))'
  BY <1>4 DEF CallChain
<1> QED BY <1>3, <1>5, <1>6, <1>7, <1>8 DEF SidebarChain

\* The page starts an apply: its bundle has not been applied, so applying it once
\* more is applying it once, and the report is the only one on its way.
LEMMA ApplyChain ==
    ASSUME TypeOK, TypeOK', SidebarChain, NEW s \in Slots, Apply(s)
    PROVE  SidebarChain'
<1> DEFINE b == page.bundle
<1>1. /\ b \in Runs /\ b # None /\ page.token = b /\ Approved(b) /\ sheet[b] = 0
      /\ \A t \in Slots : ~Awaited(t, "result")
  BY PageType DEF Apply, SidebarChain, PageChain, MaybeRun
<1>2. /\ page'.bundle = b /\ page'.token = b /\ ~page'.apply.enabled
      /\ UNCHANGED <<phase, undo>>
  BY <1>1 DEF Apply, TypeOK, Page, Button, backend
<1>3. CASE UNCHANGED <<calls, sheet>>
  <2>1. calls'[s] = None \/ (calls[s] # None /\ Follows(calls'[s], calls[s]))
    BY <1>3 DEF Follows
  <2> QED BY <1>1, <1>2, <1>3, <2>1, CalmStep
<1>4. ASSUME NEW status \in {"APPLIED", "FAILED"},
             Submit(s, NewCall("result", page.runId, page.token, status)),
             \/ status = "APPLIED" /\ Executed(b)
             \/ status = "FAILED" /\ UNCHANGED sheet
      PROVE  SidebarChain'
  <2> DEFINE c == NewCall("result", page.runId, page.token, status)
  <2>1. c \in Call /\ Said(c)
    BY NewCallType, PageType
  <2>2. calls[s] = None /\ calls'[s] = c /\ \A t \in Slots \ {s} : calls'[t] = calls[t]
    BY <1>4, <2>1, SubmitSlot
  <2>3. /\ c.op = "result" /\ c.run = page.runId /\ c.token = b /\ c.status = status
        /\ c.stage = "sent" /\ c.reply = "none" /\ ~c.orphan
    BY <1>1 DEF NewCall
  <2>4. /\ \A r \in Runs : r # b => sheet'[r] = sheet[r]
        /\ sheet'[b] = IF status = "APPLIED" THEN 1 ELSE 0
        /\ \A r \in Runs : sheet[r] > 0 => sheet'[r] > 0
    BY <1>1, <1>4 DEF Executed, TypeOK
  <2>5. PageChain'
    <3>1. \A t \in Slots : Awaited(t, "result")' => t = s
      BY <1>1, <2>2 DEF Awaited
    <3> QED BY <1>1, <1>2, <3>1 DEF PageChain, Approved
  <2>6. ASSUME NEW t \in Slots, calls'[t] # None
        PROVE  (ApproveChain(calls[t]) /\ ResultChain(calls[t]) /\ PlanChain(calls[t]))'
    <3>1. CASE t = s
      BY <1>1, <1>2, <2>2, <2>3, <2>4, <3>1
         DEF ApproveChain, ResultChain, PlanChain, Approved
    <3>2. CASE t # s
      <4>1. /\ calls'[t] = calls[t] /\ calls[t] # None
            /\ ApproveChain(calls[t]) /\ ResultChain(calls[t]) /\ PlanChain(calls[t])
        BY <2>2, <2>6, <3>2 DEF SidebarChain
      <4>2. calls[t].run \in MaybeRun /\ calls[t].token \in MaybeRun
        BY <4>1, CallType
      <4>3. ApproveChain(calls[t])'
        BY <1>2, <2>4, <4>1, <4>2 DEF ApproveChain, Approved, MaybeRun
      <4>4. calls[t].op = "result" => calls[t].orphan
        BY <1>1, <4>1 DEF Awaited
      <4>5. ResultChain(calls[t])'
        BY <1>2, <2>4, <4>1, <4>2, <4>4 DEF ResultChain, Approved, MaybeRun
      <4>6. PlanChain(calls[t])'
        BY <1>2, <4>1 DEF PlanChain
      <4> QED BY <4>3, <4>5, <4>6
    <3> QED BY <3>1, <3>2
  <2>7. Alone'
    BY <2>2, <2>3, SidebarAssumption DEF SidebarChain, Alone
  <2>8. AppliedOnce' /\ AppliedWasExecuted' /\ ExecutedWasApproved'
    BY <1>1, <1>2, <2>4 DEF SidebarChain, AppliedOnce, AppliedWasExecuted,
                            ExecutedWasApproved, Approved, TypeOK
  <2> QED BY <2>5, <2>6, <2>7, <2>8 DEF SidebarChain
<1>5. \/ UNCHANGED <<calls, sheet>>
      \/ Executed(b) /\ Submit(s, NewCall("result", page.runId, page.token, "APPLIED"))
      \/ UNCHANGED sheet /\ Submit(s, NewCall("result", page.runId, page.token, "FAILED"))
  BY DEF Apply
<1> QED BY <1>3, <1>4, <1>5

LEMMA UserChain ==
    ASSUME TypeOK, TypeOK', SidebarChain, NEW s \in Slots, User(s)
    PROVE  SidebarChain'
<1>1. ASSUME NEW op \in {"plan", "approve", "prepare_undo"}, NEW run \in MaybeRun,
             Submit(s, NewCall(op, run, None, "none")), UNCHANGED <<backend, sheet>>,
             page'.bundle = page.bundle, page'.token = page.token,
             page'.apply = page.apply
      PROVE  SidebarChain'
  <2> DEFINE c == NewCall(op, run, None, "none")
  <2>1. c \in Call /\ Said(c)
    BY NewCallType DEF MaybeRun
  <2>2. calls'[s] = c /\ \A t \in Slots \ {s} : calls'[t] = calls[t]
    BY <1>1, <2>1, SubmitSlot
  <2>3. Fresh(c)
    BY DEF Fresh, NewCall
  <2> QED BY <1>1, <2>2, <2>3, CalmStep DEF backend
<1>2. CASE Send(s)
  BY <1>1, <1>2 DEF Send, TypeOK, Page, MaybeRun
<1>3. CASE Approve(s)
  BY <1>1, <1>3 DEF Approve, TypeOK, Page
<1>4. CASE Apply(s)
  BY <1>4, ApplyChain
<1>5. CASE Undo(s)
  BY <1>1, <1>5 DEF Undo, TypeOK, Page
<1> QED BY <1>2, <1>3, <1>4, <1>5 DEF User

LEMMA AnswerChain ==
    ASSUME TypeOK, TypeOK', SidebarChain, NEW s \in Slots, Answer(s)
    PROVE  SidebarChain'
<1> DEFINE c == calls[s]
           d == calls'[s]
<1>0. calls[s] # None
  BY DEF Answer, StartPlan, ServePlan, ServeApprove, ServeResult, MarkUndo,
         ServePrepareUndo, ServeUndoResult, Refuse, Fail, Arrived, AtStage
<1>a. CallChain(c) /\ c \in Call /\ c.run \in MaybeRun /\ c.token \in MaybeRun
  BY <1>0, CallType DEF SidebarChain, CallChain
<1>b. ASSUME NEW reply \in {"ok", "error"}, Reply(s, reply)
      PROVE  /\ \A t \in Slots \ {s} : calls'[t] = calls[t]
             /\ d.op = c.op /\ d.run = c.run /\ d.token = c.token /\ d.status = c.status
             /\ d.stage = "served" /\ d.orphan = c.orphan
             /\ d.reply = IF c.reply = "none" THEN reply ELSE c.reply
  BY <1>0, <1>a, <1>b, ReplySlot, ZenonT(30) DEF Served, Call
<1>1. CASE StartPlan(s)
  <2>1. PICK r \in Runs : /\ phase[r] = "NONE"
                          /\ phase' = [phase EXCEPT ![r] = "CREATED"]
                          /\ calls' = [calls EXCEPT ![s].stage = "begun", ![s].run = r]
    BY <1>1 DEF StartPlan
  <2>2. /\ c.op = "plan" /\ c.stage = "sent" /\ LoopFree
        /\ UNCHANGED <<page, undo, sheet>>
    BY <1>1 DEF StartPlan, Arrived, AtStage
  <2>3. /\ d = [c EXCEPT !.stage = "begun", !.run = r]
        /\ \A t \in Slots \ {s} : calls'[t] = calls[t]
    BY <2>1 DEF TypeOK, CallsOK
  <2>4. d.op = "plan" /\ d.stage = "begun" /\ d.run = r
    BY <1>a, <2>2, <2>3 DEF Call
  <2>5. \A t \in Slots \ {s} :
           calls[t] # None /\ calls[t].op = "plan" /\ calls[t].stage = "begun"
           => calls[t].run # r
    BY <2>1 DEF SidebarChain, PlanChain
  <2>6. phase'[r] = "CREATED"
    BY <2>1 DEF TypeOK
  <2>7. CallChain(calls[s])'
    BY <2>4, <2>6 DEF CallChain, ApproveChain, ResultChain, PlanChain
  <2>8. Alone'
    <3>1. \A t \in Slots \ {s} : calls'[t] = calls[t]
      BY <2>3
    <3>2. \A t \in Slots \ {s} :
             calls'[t] # None /\ calls'[t].op = "plan" /\ calls'[t].stage = "begun"
             => calls'[t].run # calls'[s].run
      BY <2>4, <2>5, <3>1
    <3>3. calls'[s].op = "plan"
      BY <2>4
    <3> HIDE DEF c, d
    <3> QED BY <3>1, <3>2, <3>3 DEF SidebarChain, Alone
  <2>9. "CREATED" \in StoredStatus /\ Order(phase[r]) <= Order("CREATED")
    BY <2>1, OrderFacts DEF StoredStatus
  <2>10. ~Awaited(s, "result")'
    BY <2>4 DEF Awaited
  <2> QED BY <1>0, <2>1, <2>2, <2>3, <2>5, <2>7, <2>8, <2>9, <2>10, PhaseStep
<1>2. CASE ServePlan(s)
  <2>1. /\ c.op = "plan" /\ c.stage = "begun" /\ LoopFree /\ Reply(s, "ok")
        /\ phase' = [phase EXCEPT ![c.run] = "PREVIEW_READY"]
        /\ UNCHANGED <<page, undo, sheet>>
    BY <1>2 DEF ServePlan, AtStage
  <2>2. c.run \in Runs /\ phase[c.run] = "CREATED"
    BY <1>a, <2>1 DEF CallChain, PlanChain
  <2>3. \A t \in Slots \ {s} :
           calls[t] # None /\ calls[t].op = "plan" /\ calls[t].stage = "begun"
           => calls[t].run # c.run
    BY <1>0, <2>1 DEF SidebarChain, Alone
  <2>4. CallChain(calls[s])'
    BY <1>b, <2>1 DEF CallChain, ApproveChain, ResultChain, PlanChain
  <2>5. Alone'
    BY <1>b, <2>1 DEF SidebarChain, Alone
  <2>6. "PREVIEW_READY" \in StoredStatus /\ Order(phase[c.run]) <= Order("PREVIEW_READY")
    BY <2>2, OrderFacts DEF StoredStatus
  <2>7. ~Awaited(s, "result")'
    BY <1>b, <2>1 DEF Awaited
  <2> QED BY <1>0, <1>b, <2>1, <2>2, <2>3, <2>4, <2>5, <2>6, <2>7, PhaseStep
<1>3. CASE ServeApprove(s)
  <2>1. /\ c.op = "approve" /\ c.stage = "sent" /\ LoopFree /\ Reply(s, "ok")
        /\ phase[c.run] = "PREVIEW_READY"
        /\ phase' = [phase EXCEPT ![c.run] = "APPROVED"]
        /\ UNCHANGED <<page, undo, sheet>>
    BY <1>3 DEF ServeApprove, Arrived, AtStage
  <2>2. CASE c.run \in Runs
    <3>1. ~Approved(c.run)
      BY <2>1, OrderFacts DEF Approved
    <3>2. sheet[c.run] = 0
      BY <2>2, <3>1 DEF SidebarChain, ExecutedWasApproved, Approved, TypeOK
    <3>3. page.bundle # c.run
      BY <2>2, <3>1, SidebarAssumption DEF SidebarChain, PageChain
    <3>4. phase'[c.run] = "APPROVED"
      BY <2>1, <2>2 DEF TypeOK
    <3>5. CallChain(calls[s])'
      BY <1>b, <2>1, <3>2, <3>3, <3>4, OrderFacts
         DEF CallChain, ApproveChain, ResultChain, PlanChain, Approved
    <3>6. ASSUME NEW t \in Slots \ {s}, calls[t] # None, calls[t].op = "approve",
                 calls[t].reply = "ok"
          PROVE  calls[t].run # c.run
      BY <2>2, <3>1, <3>6, SidebarAssumption DEF SidebarChain, ApproveChain
    <3>7. Alone'
      BY <1>b, <2>1, <3>6 DEF SidebarChain, Alone
    <3>8. \A t \in Slots \ {s} :
             calls[t] # None /\ calls[t].op = "plan" /\ calls[t].stage = "begun"
             => calls[t].run # c.run
      BY <2>1 DEF SidebarChain, PlanChain
    <3>9. "APPROVED" \in StoredStatus /\ Order(phase[c.run]) <= Order("APPROVED")
      BY <2>1, OrderFacts DEF StoredStatus
    <3>10. ~Awaited(s, "result")'
      BY <1>b, <2>1 DEF Awaited
    <3> QED BY <1>0, <1>b, <2>1, <2>2, <3>5, <3>7, <3>8, <3>9, <3>10, PhaseStep
  <2>3. CASE c.run = None
    <3>1. phase' = phase
      BY <2>1, <2>3, SidebarAssumption DEF TypeOK
    <3>2. Follows(d, c)
      BY <1>b, <2>1, <2>3 DEF Follows
    <3> QED BY <1>0, <1>b, <2>1, <3>1, <3>2, CalmStep
  <2> QED BY <1>a, <2>2, <2>3 DEF MaybeRun
<1>4. CASE ServeResult(s)
  <2>1. /\ c.op = "result" /\ c.stage = "sent" /\ LoopFree /\ TokenVerifies(c)
        /\ CanTransition(phase[c.run], c.status)
        /\ phase' = [phase EXCEPT ![c.run] = c.status]
        /\ UNCHANGED <<page, undo, sheet>>
    BY <1>4 DEF ServeResult, Arrived, AtStage
  <2>2. c.run \in Runs /\ c.token = c.run /\ c.token # None
    BY <1>a, <2>1 DEF TokenVerifies, MaybeRun
  <2>3. c.status \in {"APPLIED", "FAILED"}
    BY <1>0, <2>1, CallType DEF Said
  <2>4. /\ \A t \in Slots \ {s} : calls'[t] = calls[t]
        /\ d.op = c.op /\ d.run = c.run /\ d.token = c.token /\ d.status = c.status
        /\ d.orphan = c.orphan /\ (d.stage = "begun" => c.status = "APPLIED")
    <3>1. CASE c.status = "APPLIED"
      <4>1. d = [c EXCEPT !.stage = "begun"] /\ \A t \in Slots \ {s} : calls'[t] = calls[t]
        BY <1>4, <3>1 DEF ServeResult, TypeOK, CallsOK
      <4> QED BY <1>a, <3>1, <4>1 DEF Call
    <3>2. CASE c.status # "APPLIED"
      BY <1>4, <1>b, <3>2 DEF ServeResult
    <3> QED BY <3>1, <3>2
  <2>5. Approved(c.run) /\ (c.status = "APPLIED" => sheet[c.run] > 0)
    BY <1>a, <2>1, <2>2 DEF CallChain, ResultChain
  <2>6. Order(phase[c.run]) <= Order(c.status) /\ c.status \in StoredStatus
    BY <2>1, <2>3 DEF CanTransition, StoredStatus
  <2>7. phase'[c.run] = c.status
    BY <2>1, <2>2 DEF TypeOK
  <2>8. CallChain(calls[s])'
    BY <1>a, <2>1, <2>2, <2>3, <2>4, <2>5, <2>7, OrderFacts
       DEF CallChain, ApproveChain, ResultChain, PlanChain, Approved
  <2>9. Alone'
    BY <2>1, <2>4 DEF SidebarChain, Alone
  <2>10. \A t \in Slots \ {s} :
            calls[t] # None /\ calls[t].op = "plan" /\ calls[t].stage = "begun"
            => calls[t].run # c.run
    BY <2>5, OrderFacts DEF SidebarChain, PlanChain, Approved
  <2>11. Awaited(s, "result")' => Awaited(s, "result")
    BY <1>0, <2>4 DEF Awaited
  <2> QED BY <1>0, <2>1, <2>2, <2>4, <2>5, <2>6, <2>8, <2>9, <2>10, <2>11, PhaseStep
<1>5. CASE MarkUndo(s)
  <2>1. /\ c.op = "result" /\ c.stage = "begun" /\ Reply(s, "ok")
        /\ undo' = [undo EXCEPT ![c.run] = "available"]
        /\ UNCHANGED <<page, phase, sheet>>
    BY <1>5 DEF MarkUndo, AtStage
  <2>2. c.run \in Runs /\ phase[c.run] = "APPLIED"
    BY <1>a, <2>1 DEF CallChain, ResultChain
  <2>3. sheet[c.run] > 0
    BY <2>2 DEF SidebarChain, AppliedWasExecuted
  <2>4. \A r \in Runs : undo'[r] # "none" => undo[r] # "none" \/ sheet[r] > 0
    BY <2>1, <2>3 DEF TypeOK
  <2>5. Follows(d, c)
    BY <1>b, <2>1 DEF Follows
  <2> QED BY <1>0, <1>b, <2>1, <2>4, <2>5, CalmStep
<1>6. CASE ServePrepareUndo(s)
  <2> DEFINE e == [c EXCEPT !.token = c.run]
  <2>1. c.op = "prepare_undo" /\ UNCHANGED <<page, phase, undo, sheet>>
    BY <1>6 DEF ServePrepareUndo, Arrived, AtStage, backend
  <2>2. d = Served(e, "ok") /\ \A t \in Slots \ {s} : calls'[t] = calls[t]
    BY <1>6 DEF ServePrepareUndo, TypeOK, CallsOK
  <2>3. e \in Call /\ e.op = c.op /\ e.run = c.run /\ e.orphan = c.orphan
    BY <1>a DEF Call
  <2>4. d.op = c.op /\ d.run = c.run /\ d.orphan = c.orphan /\ d.stage = "served"
    BY <2>2, <2>3 DEF Served, Call
  <2>5. Follows(d, c)
    BY <2>1, <2>4 DEF Follows
  <2> QED BY <1>0, <2>1, <2>2, <2>5, CalmStep
<1>7. CASE ServeUndoResult(s)
  <2>1. c.op = "undo_result" /\ Reply(s, "ok") /\ UNCHANGED <<page, phase, sheet>>
    BY <1>7 DEF ServeUndoResult, Arrived, AtStage
  <2>2. \A r \in Runs : undo'[r] # "none" => undo[r] # "none"
    BY <1>7 DEF ServeUndoResult, TypeOK
  <2>3. Follows(d, c)
    BY <1>b, <2>1 DEF Follows
  <2> QED BY <1>0, <1>b, <2>1, <2>2, <2>3, CalmStep
<1>8. CASE Refuse(s)
  <2>1. Reply(s, "error") /\ UNCHANGED <<page, phase, undo, sheet>>
    BY <1>8 DEF Refuse, backend
  <2>2. Follows(d, c)
    BY <1>b, <2>1 DEF Follows
  <2> QED BY <1>0, <1>b, <2>1, <2>2, CalmStep
<1>9. CASE Fail(s)
  <2>1. UNCHANGED <<page, phase, undo, sheet>>
    BY <1>9 DEF Fail, backend
  <2>2. d = [c EXCEPT !.reply = "failure"] /\ \A t \in Slots \ {s} : calls'[t] = calls[t]
    BY <1>9 DEF Fail, TypeOK, CallsOK
  <2>3. Follows(d, c)
    BY <1>a, <2>2 DEF Follows, Call
  <2> QED BY <1>0, <2>1, <2>2, <2>3, CalmStep
<1> QED BY <1>1, <1>2, <1>3, <1>4, <1>5, <1>6, <1>7, <1>8, <1>9 DEF Answer

LEMMA HandleChain ==
    ASSUME TypeOK, TypeOK', SidebarChain, NEW s \in Slots, Handle(s)
    PROVE  SidebarChain'
<1> DEFINE c == calls[s]
           d == calls'[s]
<1>0. calls[s] # None
  BY DEF Handle, OnPlan, OnPlanError, OnApprove, OnApproveError, OnResult, OnPrepareUndo,
         OnPrepareUndoError, OnUndoResult, OnFail, Ignore, Back
<1>a. CallChain(c) /\ c \in Call /\ c.run \in MaybeRun /\ c.token \in MaybeRun
  BY <1>0, CallType DEF SidebarChain, CallChain
<1>b. ASSUME Finish(s)
      PROVE  /\ \A t \in Slots \ {s} : calls'[t] = calls[t]
             /\ d = None \/ Follows(d, c)
             /\ d # None => d.orphan /\ d.op = c.op /\ d.run = c.run /\ d.reply = c.reply
                            /\ d.token = c.token /\ d.status = c.status /\ d.stage = c.stage
  BY <1>0, <1>a, <1>b, FinishSlot DEF Finished, Call, Follows
<1>c. UNCHANGED <<phase, undo, sheet>>
  BY DEF Handle, OnPlan, OnPlanError, OnApprove, OnApproveError, OnResult, OnPrepareUndo,
         OnPrepareUndoError, OnUndoResult, OnFail, Ignore, backend
<1>d. ASSUME Finish(s), page'.bundle = page.bundle, page'.token = page.token,
             page'.apply.enabled => page.apply.enabled
      PROVE  SidebarChain'
  BY <1>0, <1>b, <1>c, <1>d, CalmStep
<1>1. CASE OnPlan(s)
  BY <1>1, <1>d DEF OnPlan, TypeOK, Page, Button
<1>2. CASE OnPlanError(s)
  BY <1>2, <1>d DEF OnPlanError, TypeOK, Page
<1>3. CASE OnApprove(s)
  <2> DEFINE r == c.run
  <2>1. /\ c.op = "approve" /\ c.reply = "ok" /\ Finish(s)
        /\ page'.token = r /\ page'.bundle = r /\ page'.apply.enabled = page.apply.enabled
    BY <1>3 DEF OnApprove, Back, TypeOK, Page, Button
  <2>2. r # None => Approved(r) /\ sheet[r] = 0
    BY <1>a, <2>1 DEF CallChain, ApproveChain
  <2>3. \A t \in Slots : Awaited(t, "result")' => Awaited(t, "result")
    BY <1>0, <1>b, <2>1 DEF Awaited
  <2>4. PageChain'
    BY <1>c, <2>1, <2>2, <2>3 DEF SidebarChain, PageChain, Approved
  <2>5. \A t \in Slots \ {s} :
           calls[t] # None /\ calls[t].op = "approve" /\ calls[t].reply = "ok" /\ r # None
           => calls[t].run # r
    BY <1>0, <2>1 DEF SidebarChain, Alone
  <2>6. ASSUME NEW t \in Slots, calls'[t] # None
        PROVE  (ApproveChain(calls[t]) /\ ResultChain(calls[t]) /\ PlanChain(calls[t]))'
    <3>1. CASE t = s
      <4>1. d # None /\ d.orphan /\ d.op = "approve" /\ d.run = r /\ c.stage # "served"
        BY <1>0, <1>b, <2>1, <2>6, <3>1, FinishSlot DEF Finished
      <4>2. r = None
        BY <1>a, <2>1, <4>1 DEF CallChain, ApproveChain
      <4> QED BY <3>1, <4>1, <4>2 DEF ApproveChain, ResultChain, PlanChain
    <3>2. CASE t # s
      <4>1. /\ calls'[t] = calls[t] /\ calls[t] # None
            /\ ApproveChain(calls[t]) /\ ResultChain(calls[t]) /\ PlanChain(calls[t])
        BY <1>b, <2>1, <2>6, <3>2 DEF SidebarChain
      <4>2. ApproveChain(calls[t])'
        BY <1>c, <2>1, <2>5, <3>2, <4>1 DEF ApproveChain, Approved
      <4>3. ResultChain(calls[t])'
        BY <1>c, <2>1, <2>2, <4>1 DEF ResultChain, Approved
      <4>4. PlanChain(calls[t])'
        BY <1>c, <4>1 DEF PlanChain
      <4> QED BY <4>2, <4>3, <4>4
    <3> QED BY <3>1, <3>2
  <2>7. Alone'
    BY <1>0, <1>b, <2>1 DEF SidebarChain, Alone
  <2>8. (AppliedOnce /\ AppliedWasExecuted /\ ExecutedWasApproved)'
    BY <1>c DEF SidebarChain, AppliedOnce, AppliedWasExecuted, ExecutedWasApproved
  <2> QED BY <2>4, <2>6, <2>7, <2>8 DEF SidebarChain
<1>4. CASE OnApproveError(s)
  BY <1>4, <1>d DEF OnApproveError, TypeOK, Page, Button
<1>5. CASE OnResult(s)
  <2>1. c.op = "result" /\ ~c.orphan /\ Finish(s)
    BY <1>5 DEF OnResult, Back
  <2>2. page'.bundle = page.bundle /\ page'.token = page.token
    BY <1>5 DEF OnResult, TypeOK, Page
  <2>3. CASE c.status = "APPLIED"
    BY <1>5, <1>d, <2>1, <2>2, <2>3 DEF OnResult, TypeOK, Page, Button
  <2>4. CASE c.status # "APPLIED"
    <3>1. c.status = "FAILED"
      BY <1>0, <2>1, <2>4, CallType DEF Said
    <3>2. page.bundle # None => sheet[page.bundle] = 0
      BY <1>a, <2>1, <3>1 DEF CallChain, ResultChain
    <3>3. Awaited(s, "result")
      BY <1>0, <2>1 DEF Awaited
    <3>4. \A t \in Slots : ~Awaited(t, "result")'
      BY <1>b, <2>1, <3>3 DEF SidebarChain, PageChain, Awaited
    <3> QED BY <1>0, <1>b, <1>c, <2>1, <2>2, <3>2, <3>4, CalmStep
  <2> QED BY <2>3, <2>4
<1>6. CASE OnPrepareUndo(s)
  <2> DEFINE e == NewCall("undo_result", page.runId, c.token, "none")
  <2>1. page' = page
    BY <1>6 DEF OnPrepareUndo
  <2>2. CASE Finish(s)
    BY <1>d, <2>1, <2>2
  <2>3. CASE calls' = [calls EXCEPT ![s] = e]
    <3>1. d = e /\ \A t \in Slots \ {s} : calls'[t] = calls[t]
      BY <2>3 DEF TypeOK, CallsOK
    <3>2. Fresh(d)
      BY <3>1 DEF Fresh, NewCall
    <3> QED BY <1>c, <2>1, <3>1, <3>2, CalmStep
  <2> QED BY <1>6, <2>2, <2>3 DEF OnPrepareUndo
<1>7. CASE OnPrepareUndoError(s)
  BY <1>7, <1>d DEF OnPrepareUndoError, TypeOK, Page, Button
<1>8. CASE OnUndoResult(s)
  BY <1>8, <1>d DEF OnUndoResult, TypeOK, Page, Button
<1>9. CASE OnFail(s)
  BY <1>9, <1>d DEF OnFail, TypeOK, Page
<1>10. CASE Ignore(s)
  BY <1>10, <1>d DEF Ignore
<1> QED BY <1>1, <1>2, <1>3, <1>4, <1>5, <1>6, <1>7, <1>8, <1>9, <1>10 DEF Handle

\* A reload takes the bundle away from the page and the page away from its calls.
LEMMA ReloadChain ==
    ASSUME TypeOK, TypeOK', SidebarChain, Reload
    PROVE  SidebarChain'
<1>1. /\ page'.bundle = None /\ page'.token = None
      /\ UNCHANGED <<phase, undo, sheet>>
  BY DEF Reload, Loaded, backend
<1>2. \A s \in Slots : ~Awaited(s, "result")'
  BY ReloadSlots DEF Awaited, Call
<1>3. PageChain'
  BY <1>1, <1>2 DEF PageChain
<1>4. ASSUME NEW s \in Slots, calls'[s] # None
      PROVE  /\ calls[s] # None /\ calls'[s].orphan
             /\ calls'[s].op = calls[s].op /\ calls'[s].run = calls[s].run
             /\ calls'[s].token = calls[s].token /\ calls'[s].status = calls[s].status
             /\ calls'[s].stage = calls[s].stage /\ calls'[s].reply = calls[s].reply
  <2>1. calls[s] # None /\ calls'[s] = [calls[s] EXCEPT !.orphan = TRUE]
    BY <1>4, ReloadSlots
  <2> QED BY <2>1, CallType DEF Call
<1>5. ASSUME NEW s \in Slots, calls'[s] # None
      PROVE  (ApproveChain(calls[s]) /\ ResultChain(calls[s]) /\ PlanChain(calls[s]))'
  <2>1. calls[s] # None /\ CallChain(calls[s])
    BY <1>4, <1>5 DEF SidebarChain, CallChain
  <2>2. ApproveChain(calls[s])'
    BY <1>1, <1>4, <1>5, <2>1 DEF CallChain, ApproveChain, Approved
  <2>3. ResultChain(calls[s])'
    BY <1>1, <1>4, <1>5, <2>1 DEF CallChain, ResultChain, Approved
  <2>4. PlanChain(calls[s])'
    BY <1>1, <1>4, <1>5, <2>1 DEF CallChain, PlanChain
  <2> QED BY <2>2, <2>3, <2>4
<1>6. Alone'
  BY <1>4 DEF SidebarChain, Alone
<1>7. (AppliedOnce /\ AppliedWasExecuted /\ ExecutedWasApproved)'
  BY <1>1 DEF SidebarChain, AppliedOnce, AppliedWasExecuted, ExecutedWasApproved
<1> QED BY <1>3, <1>5, <1>6, <1>7 DEF SidebarChain

LEMMA InitChain == Init => SidebarChain
  BY DEF Init, Loaded, SidebarChain, PageChain, Awaited, Alone, AppliedOnce,
         AppliedWasExecuted, ExecutedWasApproved

LEMMA NextChain ==
    ASSUME TypeOK, TypeOK', SidebarChain, [Next]_vars
    PROVE  SidebarChain'
<1>1. CASE UNCHANGED vars
  <2>1. /\ PageChain' /\ Alone'
        /\ (AppliedOnce /\ AppliedWasExecuted /\ ExecutedWasApproved)'
    BY <1>1 DEF vars, SidebarChain, PageChain, Awaited, Approved, Alone, AppliedOnce,
                AppliedWasExecuted, ExecutedWasApproved
  <2>2. \A s \in Slots : (calls[s] # None =>
           ApproveChain(calls[s]) /\ ResultChain(calls[s]) /\ PlanChain(calls[s]))'
    BY <1>1 DEF vars, SidebarChain, ApproveChain, ResultChain, PlanChain, Approved
  <2> QED BY <2>1, <2>2 DEF SidebarChain
<1> QED BY <1>1, UserChain, AnswerChain, HandleChain, ReloadChain DEF Next

\* The chain from an approval to a stored report holds in every state, whatever
\* is late, lost, abandoned or reloaded.
THEOREM SidebarChainHolds == Spec => []SidebarChain
<1>1. TypeOK /\ TypeOK' /\ SidebarChain /\ [Next]_vars => SidebarChain'
  BY NextChain
<1> QED BY <1>1, InitChain, TypeCorrect, PTL DEF Spec

\* A bundle is applied at most once, whatever is clicked, late or lost.
THEOREM AppliedOnceHolds == Spec => []AppliedOnce
  BY SidebarChainHolds, PTL DEF SidebarChain

\* The backend holds a run APPLIED, or its undo open, only when the bundle of this
\* run was applied.
THEOREM AppliedWasExecutedHolds == Spec => []AppliedWasExecuted
  BY SidebarChainHolds, PTL DEF SidebarChain

\* Nothing is applied before the backend has approved it.
THEOREM ExecutedWasApprovedHolds == Spec => []ExecutedWasApproved
  BY SidebarChainHolds, PTL DEF SidebarChain

-----------------------------------------------------------------------------
(* The lifecycle of a run *)

\* The mapped approvals.
Approvals == [r \in Runs |-> IF Order(phase[r]) >= Order("APPROVED") THEN 1 ELSE 0]

LEMMA SameTransition ==
    \A from, to : CanTransition(from, to) <=> Lifecycle!CanTransition(from, to)
  BY DEF CanTransition, Lifecycle!CanTransition, Order, Lifecycle!Order

LEMMA InitRefines == Init => Lifecycle!LifecycleInit
  BY OrderFacts DEF Init, Lifecycle!LifecycleInit

LEMMA StutterRefines ==
    ASSUME UNCHANGED <<phase, undo>>
    PROVE  UNCHANGED Lifecycle!lifecycle
  BY DEF Lifecycle!lifecycle

\* Moving one run without approving it leaves the mapped approvals alone.
LEMMA ApprovalsKept ==
    ASSUME TypeOK, NEW r \in Runs, NEW to, phase' = [phase EXCEPT ![r] = to],
           Order(phase[r]) >= Order("APPROVED") <=> Order(to) >= Order("APPROVED")
    PROVE  Approvals' = Approvals
  BY DEF Approvals, TypeOK

LEMMA AnswerRefines ==
    ASSUME TypeOK, SidebarChain, NEW s \in Slots, Answer(s)
    PROVE  Lifecycle!LifecycleNext \/ UNCHANGED Lifecycle!lifecycle
<1> DEFINE c == calls[s]
<1>0. calls[s] # None
  BY DEF Answer, StartPlan, ServePlan, ServeApprove, ServeResult, MarkUndo,
         ServePrepareUndo, ServeUndoResult, Refuse, Fail, Arrived, AtStage
<1>a. CallChain(c) /\ c.run \in MaybeRun /\ c.token \in MaybeRun
  BY <1>0, CallType DEF SidebarChain, CallChain
<1>1. CASE StartPlan(s)
  <2>1. PICK r \in Runs : phase[r] = "NONE" /\ phase' = [phase EXCEPT ![r] = "CREATED"]
    BY <1>1 DEF StartPlan
  <2>2. Approvals' = Approvals /\ undo' = undo
    <3>1. ~(Order(phase[r]) >= Order("APPROVED")) /\ ~(Order("CREATED") >= Order("APPROVED"))
      BY <2>1, OrderFacts
    <3> QED BY <1>1, <2>1, <3>1, ApprovalsKept DEF StartPlan
  <2>3. Lifecycle!Create(r)
    BY <2>1, <2>2 DEF Approvals, Lifecycle!Create, Lifecycle!Move
  <2> QED BY <2>3 DEF Lifecycle!LifecycleNext
<1>2. CASE ServePlan(s)
  <2>1. PICK r \in Runs : r = c.run /\ phase[r] = "CREATED"
    BY <1>a, <1>2 DEF ServePlan, AtStage, CallChain, PlanChain
  <2>2. phase' = [phase EXCEPT ![r] = "PREVIEW_READY"] /\ undo' = undo
    BY <1>2, <2>1 DEF ServePlan
  <2>3. Approvals' = Approvals
    <3>1. /\ ~(Order(phase[r]) >= Order("APPROVED"))
          /\ ~(Order("PREVIEW_READY") >= Order("APPROVED"))
      BY <2>1, OrderFacts
    <3> QED BY <2>2, <3>1, ApprovalsKept
  <2>4. Lifecycle!Preview(r)
    BY <2>1, <2>2, <2>3 DEF Approvals, Lifecycle!Preview, Lifecycle!Move
  <2> QED BY <2>4 DEF Lifecycle!LifecycleNext
<1>3. CASE ServeApprove(s)
  <2>0. /\ phase[c.run] = "PREVIEW_READY" /\ undo' = undo
        /\ phase' = [phase EXCEPT ![c.run] = "APPROVED"]
    BY <1>3 DEF ServeApprove
  <2>1. CASE c.run = None
    <3>1. phase' = phase
      BY <2>0, <2>1, SidebarAssumption DEF TypeOK
    <3> QED BY <2>0, <3>1, StutterRefines
  <2>2. CASE c.run # None
    <3>1. PICK r \in Runs : r = c.run
      BY <1>a, <2>2 DEF MaybeRun
    <3>2. phase[r] = "PREVIEW_READY" /\ phase' = [phase EXCEPT ![r] = "APPROVED"]
      BY <2>0, <3>1
    <3>3. Approvals' = [Approvals EXCEPT ![r] = @ + 1]
      <4>1. Approvals[r] = 0 /\ Approvals'[r] = 1
        BY <3>2, OrderFacts DEF Approvals, TypeOK
      <4>2. \A x \in Runs \ {r} : Approvals'[x] = Approvals[x]
        BY <3>2 DEF Approvals, TypeOK
      <4>3. Approvals \in [Runs -> Nat] /\ Approvals' \in [Runs -> Nat]
        BY DEF Approvals
      <4> QED BY <4>1, <4>2, <4>3
    <3>4. Lifecycle!Approve(r)
      BY <2>0, <3>2, <3>3 DEF Approvals, Lifecycle!Approve, Lifecycle!Move
    <3> QED BY <3>4 DEF Lifecycle!LifecycleNext
  <2> QED BY <2>1, <2>2
<1>4. CASE ServeResult(s)
  <2>1. /\ c.op = "result" /\ TokenVerifies(c) /\ undo' = undo
        /\ CanTransition(phase[c.run], c.status)
        /\ phase' = [phase EXCEPT ![c.run] = c.status]
    BY <1>4 DEF ServeResult, Arrived, AtStage
  <2>2. PICK r \in Runs : r = c.run /\ r = c.token /\ c.token # None
    BY <1>a, <2>1 DEF TokenVerifies, MaybeRun
  <2>3. PICK to \in {"APPLIED", "FAILED"} : to = c.status
    BY <1>0, <2>1, CallType DEF Said
  <2>4. Order(phase[r]) >= Order("APPROVED")
    BY <1>a, <2>1, <2>2 DEF CallChain, ResultChain, Approved
  <2>5. phase[r] \in {"APPROVED", "APPLIED", "FAILED"}
    <3>1. phase[r] \in StoredStatus
      BY DEF TypeOK
    <3> QED BY <2>4, <3>1, OrderFacts DEF StoredStatus
  <2>6. phase' = [phase EXCEPT ![r] = to] /\ CanTransition(phase[r], to)
    BY <2>1, <2>2, <2>3
  <2>7. Approvals' = Approvals
    <3>1. Order(to) >= Order("APPROVED")
      BY <2>3, OrderFacts
    <3> QED BY <2>4, <2>6, <3>1, ApprovalsKept
  <2>8. Lifecycle!Settle(r, to)
    BY <2>1, <2>5, <2>6, <2>7, SameTransition DEF Approvals, Lifecycle!Settle
  <2> QED BY <2>3, <2>8 DEF Lifecycle!LifecycleNext
<1>5. CASE MarkUndo(s)
  <2>1. PICK r \in Runs : r = c.run /\ phase[r] = "APPLIED"
    BY <1>a, <1>5 DEF MarkUndo, AtStage, CallChain, ResultChain
  <2>2. undo' = [undo EXCEPT ![r] = "available"] /\ phase' = phase
    BY <1>5, <2>1 DEF MarkUndo
  <2>3. Lifecycle!OpenUndo(r)
    BY <2>1, <2>2 DEF Lifecycle!OpenUndo
  <2> QED BY <2>3 DEF Lifecycle!LifecycleNext
<1>6. CASE ServeUndoResult(s)
  <2>1. PICK r \in Runs : r = c.run
    BY <1>a, <1>6 DEF ServeUndoResult, TokenVerifies, MaybeRun
  <2>2. /\ phase' = phase
        /\ undo' = [undo EXCEPT ![r] = IF undo[r] = "none" THEN "none" ELSE "consumed"]
    BY <1>6, <2>1 DEF ServeUndoResult
  <2>3. CASE undo[r] = "available"
    <3>1. Lifecycle!CloseUndo(r)
      BY <2>2, <2>3 DEF Lifecycle!CloseUndo
    <3> QED BY <3>1 DEF Lifecycle!LifecycleNext
  <2>4. CASE undo[r] # "available"
    <3>1. undo' = undo
      BY <2>2, <2>4 DEF TypeOK
    <3> QED BY <2>2, <3>1, StutterRefines
  <2> QED BY <2>3, <2>4
<1>7. CASE ServePrepareUndo(s) \/ Refuse(s) \/ Fail(s)
  BY <1>7, StutterRefines DEF ServePrepareUndo, Refuse, Fail, backend
<1> QED BY <1>1, <1>2, <1>3, <1>4, <1>5, <1>6, <1>7 DEF Answer

LEMMA NextRefines ==
    ASSUME TypeOK, SidebarChain, [Next]_vars
    PROVE  [Lifecycle!LifecycleNext]_(Lifecycle!lifecycle)
<1>1. ASSUME NEW s \in Slots, User(s) PROVE UNCHANGED <<phase, undo>>
  BY <1>1 DEF User, Send, Approve, Apply, Undo, backend
<1>2. ASSUME NEW s \in Slots, Handle(s) PROVE UNCHANGED <<phase, undo>>
  BY <1>2 DEF Handle, OnPlan, OnPlanError, OnApprove, OnApproveError, OnResult,
              OnPrepareUndo, OnPrepareUndoError, OnUndoResult, OnFail, Ignore, backend
<1>3. Reload \/ UNCHANGED vars => UNCHANGED <<phase, undo>>
  BY DEF Reload, backend, vars
<1> QED BY <1>1, <1>2, <1>3, StutterRefines, AnswerRefines DEF Next

\* Page and backend together implement the lifecycle of a run.
THEOREM Refinement == Spec => KeepsToLifecycle
<1>1. TypeOK /\ SidebarChain /\ [Next]_vars
         => [Lifecycle!LifecycleNext]_(Lifecycle!lifecycle)
  BY NextRefines
<1> QED BY <1>1, InitRefines, TypeCorrect, SidebarChainHolds, PTL
        DEF Spec, KeepsToLifecycle, Lifecycle!LifecycleSpec

-----------------------------------------------------------------------------
(* A busy page *)

\* The plan the page waits for is untouched by what happens to another call.
LEMMA BusyFrame ==
    ASSUME BusyWaits, NEW s \in Slots, page'.busy => page.busy,
           \A t \in Slots \ {s} : calls'[t] = calls[t],
           Awaited(s, "plan") => Awaited(s, "plan")'
    PROVE  BusyWaits'
<1> SUFFICES ASSUME page.busy, page'.busy
             PROVE  \E t \in Slots : Awaited(t, "plan")'
  BY DEF BusyWaits
<1>1. PICK t \in Slots : Awaited(t, "plan")
  BY DEF BusyWaits
<1>2. Awaited(t, "plan")'
  BY <1>1 DEF Awaited
<1> QED BY <1>2

LEMMA UserBusy ==
    ASSUME TypeOK, BusyWaits, NEW s \in Slots, User(s)
    PROVE  BusyWaits'
<1>1. ASSUME NEW c \in Call, Said(c), Submit(s, c), page'.busy => page.busy PROVE BusyWaits'
  <2>1. calls[s] = None /\ \A t \in Slots \ {s} : calls'[t] = calls[t]
    BY <1>1, SubmitSlot
  <2> QED BY <1>1, <2>1, BusyFrame DEF Awaited
<1>2. CASE Send(s)
  <2> DEFINE c == NewCall("plan", None, None, "none")
  <2>1. c \in Call /\ Said(c) /\ c.op = "plan" /\ c.orphan = FALSE /\ c # None
    BY NewCallType, SidebarAssumption DEF MaybeRun, NewCall
  <2>2. calls'[s] = c
    BY <1>2, <2>1, SubmitSlot DEF Send
  <2> HIDE DEF c
  <2>3. Awaited(s, "plan")'
    BY <2>1, <2>2 DEF Awaited
  <2> QED BY <2>3 DEF BusyWaits
<1>3. CASE Approve(s)
  <2> DEFINE c == NewCall("approve", page.runId, None, "none")
  <2>1. c \in Call /\ Said(c)
    BY PageType, NewCallType DEF MaybeRun
  <2>2. Submit(s, c) /\ page'.busy = page.busy
    BY <1>3 DEF Approve, TypeOK, Page
  <2> QED BY <1>1, <2>1, <2>2
<1>4. CASE Apply(s)
  <2>1. page'.busy = page.busy
    BY <1>4 DEF Apply, TypeOK, Page
  <2>2. ASSUME NEW status \in {"APPLIED", "FAILED"},
               Submit(s, NewCall("result", page.runId, page.token, status))
        PROVE  BusyWaits'
    <3> DEFINE c == NewCall("result", page.runId, page.token, status)
    <3>1. c \in Call /\ Said(c)
      BY PageType, NewCallType
    <3> QED BY <1>1, <2>1, <2>2, <3>1
  <2>3. CASE UNCHANGED <<calls, sheet>>
    BY <2>1, <2>3, BusyFrame DEF Awaited
  <2> QED BY <1>4, <2>2, <2>3 DEF Apply
<1>5. CASE Undo(s)
  <2> DEFINE c == NewCall("prepare_undo", page.runId, None, "none")
  <2>1. c \in Call /\ Said(c)
    BY PageType, NewCallType DEF MaybeRun
  <2>2. Submit(s, c) /\ page'.busy = page.busy
    BY <1>5 DEF Undo, TypeOK, Page
  <2> QED BY <1>1, <2>1, <2>2
<1> QED BY <1>2, <1>3, <1>4, <1>5 DEF User

\* Serving a call, or failing it, leaves it awaited.
LEMMA AnswerBusy ==
    ASSUME TypeOK, BusyWaits, NEW s \in Slots, Answer(s)
    PROVE  BusyWaits'
<1>1. page' = page /\ calls[s] # None
  BY DEF Answer, StartPlan, ServePlan, ServeApprove, ServeResult, MarkUndo, ServePrepareUndo,
         ServeUndoResult, Refuse, Fail, AtStage, Arrived
<1>2. ASSUME NEW d \in Call, calls' = [calls EXCEPT ![s] = d],
             d.op = calls[s].op, d.orphan = calls[s].orphan
      PROVE  BusyWaits'
  <2>1. calls'[s] = d /\ \A t \in Slots \ {s} : calls'[t] = calls[t]
    BY <1>2 DEF TypeOK, CallsOK
  <2>2. d # None
    BY SidebarAssumption
  <2>3. Awaited(s, "plan") => Awaited(s, "plan")'
    BY <1>2, <2>1, <2>2 DEF Awaited
  <2> QED BY <1>1, <2>1, <2>3, BusyFrame
<1>3. ASSUME NEW reply \in {"ok", "error"}, Reply(s, reply) PROVE BusyWaits'
  <2> DEFINE d == Served(calls[s], reply)
  <2>1. calls[s] \in Call
    BY <1>1, CallType
  <2>2. d \in Call /\ d.op = calls[s].op /\ d.orphan = calls[s].orphan
    BY <2>1 DEF Served, Call
  <2>3. calls' = [calls EXCEPT ![s] = d]
    BY <1>3 DEF Reply, TypeOK, CallsOK
  <2> HIDE DEF d
  <2> QED BY <1>2, <2>2, <2>3
<1>4. CASE StartPlan(s)
  <2>1. PICK r \in Runs : calls' = [calls EXCEPT ![s].stage = "begun", ![s].run = r]
    BY <1>4 DEF StartPlan
  <2> DEFINE d == [calls[s] EXCEPT !.stage = "begun", !.run = r]
  <2>2. calls[s] \in Call
    BY <1>1, CallType
  <2>3. d \in Call /\ d.op = calls[s].op /\ d.orphan = calls[s].orphan
    BY <2>2 DEF Call, MaybeRun
  <2>4. calls' = [calls EXCEPT ![s] = d]
    BY <2>1 DEF TypeOK, CallsOK
  <2> HIDE DEF d
  <2> QED BY <1>2, <2>3, <2>4
<1>5. CASE ServeResult(s)
  <2>1. CASE calls' = [calls EXCEPT ![s].stage = "begun"]
    <3> DEFINE d == [calls[s] EXCEPT !.stage = "begun"]
    <3>1. calls[s] \in Call
      BY <1>1, CallType
    <3>2. d \in Call /\ d.op = calls[s].op /\ d.orphan = calls[s].orphan
      BY <3>1 DEF Call
    <3>3. calls' = [calls EXCEPT ![s] = d]
      BY <2>1 DEF TypeOK, CallsOK
    <3> HIDE DEF d
    <3> QED BY <1>2, <3>2, <3>3
  <2>2. CASE Reply(s, "ok")
    BY <1>3, <2>2
  <2> QED BY <1>5, <2>1, <2>2 DEF ServeResult
<1>6. CASE ServePrepareUndo(s)
  <2> DEFINE c == [calls[s] EXCEPT !.token = calls[s].run]
             d == Served(c, "ok")
  <2>1. calls[s] \in Call
    BY <1>1, CallType
  <2>2. c \in Call /\ c.op = calls[s].op /\ c.orphan = calls[s].orphan
    BY <2>1 DEF Call
  <2>3. calls' = [calls EXCEPT ![s] = d]
    BY <1>6 DEF ServePrepareUndo, TypeOK, CallsOK
  <2> HIDE DEF c
  <2>4. d \in Call /\ d.op = c.op /\ d.orphan = c.orphan
    BY <2>2 DEF Served, Call
  <2> HIDE DEF d
  <2> QED BY <1>2, <2>2, <2>3, <2>4
<1>7. CASE Fail(s)
  <2> DEFINE d == [calls[s] EXCEPT !.reply = "failure"]
  <2>1. calls[s] \in Call
    BY <1>1, CallType
  <2>2. d \in Call /\ d.op = calls[s].op /\ d.orphan = calls[s].orphan
    BY <2>1 DEF Call
  <2>3. calls' = [calls EXCEPT ![s] = d]
    BY <1>7 DEF Fail, TypeOK, CallsOK
  <2> HIDE DEF d
  <2> QED BY <1>2, <2>2, <2>3
<1>8. CASE ServePlan(s) \/ ServeApprove(s) \/ MarkUndo(s) \/ ServeUndoResult(s) \/ Refuse(s)
  <2>1. Reply(s, "ok") \/ Reply(s, "error")
    BY <1>8 DEF ServePlan, ServeApprove, MarkUndo, ServeUndoResult, Refuse
  <2> QED BY <1>3, <2>1
<1> QED BY <1>4, <1>5, <1>6, <1>7, <1>8 DEF Answer

\* A handler ends the wait for a plan only when it enables Send again.
LEMMA HandleBusy ==
    ASSUME TypeOK, BusyWaits, NEW s \in Slots, Handle(s)
    PROVE  BusyWaits'
<1>1. CASE OnPlan(s) \/ OnPlanError(s) \/ OnFail(s)
  <2>1. page'.busy = FALSE
    BY <1>1 DEF OnPlan, OnPlanError, OnFail, TypeOK, Page
  <2> QED BY <2>1 DEF BusyWaits
<1>2. ASSUME ~Awaited(s, "plan"), calls[s] # None, page'.busy = page.busy,
             Finish(s) \/ \E c : calls' = [calls EXCEPT ![s] = c]
      PROVE  BusyWaits'
  <2>1. \A t \in Slots \ {s} : calls'[t] = calls[t]
    BY <1>2 DEF Finish, TypeOK, CallsOK
  <2> QED BY <1>2, <2>1, BusyFrame
<1>3. CASE OnApprove(s) \/ OnApproveError(s) \/ OnResult(s) \/ OnPrepareUndoError(s)
           \/ OnUndoResult(s)
  <2>1. Finish(s) /\ calls[s] # None /\ calls[s].op # "plan"
    BY <1>3 DEF OnApprove, OnApproveError, OnResult, OnPrepareUndoError, OnUndoResult, Back
  <2>2. page'.busy = page.busy
    BY <1>3 DEF OnApprove, OnApproveError, OnResult, OnPrepareUndoError, OnUndoResult, TypeOK, Page
  <2> QED BY <1>2, <2>1, <2>2 DEF Awaited
<1>4. CASE OnPrepareUndo(s)
  <2>1. /\ calls[s] # None /\ calls[s].op # "plan" /\ page' = page
        /\ Finish(s) \/ \E c : calls' = [calls EXCEPT ![s] = c]
    BY <1>4 DEF OnPrepareUndo, Back
  <2> QED BY <1>2, <2>1 DEF Awaited
<1>5. CASE Ignore(s)
  <2>1. /\ Finish(s) /\ calls[s] # None /\ page' = page
        /\ calls[s].op # "plan" \/ calls[s].orphan
    BY <1>5 DEF Ignore, Back
  <2> QED BY <1>2, <2>1 DEF Awaited
<1> QED BY <1>1, <1>3, <1>4, <1>5 DEF Handle

\* A page is busy only while it waits for the reply to a plan: none of its handlers,
\* in whatever order replies come, leaves Send disabled with nothing under way.
THEOREM BusyWaitsHolds == Spec => []BusyWaits
<1>1. Init => BusyWaits
  BY DEF Init, Loaded, BusyWaits
<1>2. ASSUME TypeOK, BusyWaits, [Next]_vars PROVE BusyWaits'
  <2>1. CASE Reload
    BY <2>1 DEF Reload, Loaded, BusyWaits
  <2>2. CASE UNCHANGED vars
    BY <1>2, <2>2 DEF vars, BusyWaits, Awaited
  <2> QED BY <1>2, <2>1, <2>2, UserBusy, AnswerBusy, HandleBusy DEF Next
<1> QED BY <1>1, <1>2, TypeCorrect, PTL DEF Spec
=============================================================================
