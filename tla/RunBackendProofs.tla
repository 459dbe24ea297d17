-------------------------- MODULE RunBackendProofs --------------------------
(***************************************************************************)
(* Proofs about RunBackend, for every set of runs, slots and plans, every  *)
(* time to live and both values of Overlap.                                *)
(***************************************************************************)
EXTENDS RunBackend, TLAPS

\* The vocabulary of statuses: what a row may hold is in the order, and the
\* order is the one the handlers rely on.
LEMMA OrderFacts ==
    /\ \A s \in StoredStatus : Order(s) \in Nat
    /\ Order("NONE") = 0
    /\ Order("CREATED") = 1
    /\ Order("PREVIEW_READY") = 3
    /\ Order("APPROVED") = 6
    /\ Order("APPLIED") = 8
    /\ Order("FAILED") = 9
  BY DEF Order, StoredStatus

\* A report moves a run to a status a row can hold.
LEMMA OutcomeType ==
    ASSUME NEW report \in Reports, NEW status \in StoredStatus
    PROVE  Outcome(report, status) \in StoredStatus
  BY DEF Outcome, Reports, StoredStatus

LEMMA OutcomeNoneType ==
    ASSUME NEW report \in Reports \cup {"NONE"}, NEW status \in StoredStatus
    PROVE  Outcome(report, status) \in StoredStatus
  BY DEF Outcome, Reports, StoredStatus

\* A token built for a run is a token.
LEMMA BuildTokenType ==
    ASSUME NEW r \in Runs, NEW hash \in MaybePlan, NEW targets \in MaybePlan,
           NEW for \in {"apply", "undo"}, NEW bundle \in MaybePlan, now \in Nat
    PROVE  BuildToken(r, hash, targets, for, bundle) \in Token
  BY RunBackendAssumption DEF BuildToken, Token

LEMMA ActionTargetsType ==
    ASSUME NEW p \in MaybePlan
    PROVE  ActionTargets(p) \in MaybePlan
  BY DEF ActionTargets, MaybePlan

\* Taking a request leaves the requests well typed.
LEMMA OpenType ==
    ASSUME TypeOK, NEW s \in Slots, NEW r \in Runs, NEW op \in Operations,
           NEW run \in Row, NEW token \in Token \cup {Nil}, NEW report \in Reports \cup {"NONE"},
           NEW hash \in MaybePlan, Open(s, r, op, run, token, report, hash)
    PROVE  reqs' \in [Slots -> Request \cup {Nil}]
  BY DEF TypeOK, Open, Request, Bodies

LEMMA CloseType ==
    ASSUME TypeOK, NEW s \in Slots, Close(s)
    PROVE  reqs' \in [Slots -> Request \cup {Nil}]
  BY DEF TypeOK, Close

LEMMA StoreType ==
    ASSUME TypeOK, NEW r \in Runs, NEW run \in Row, Store(r, run)
    PROVE  row' \in [Runs -> Row]
  BY DEF TypeOK, Store

\* What an open request holds.
LEMMA RequestType ==
    ASSUME TypeOK, NEW s \in Slots, reqs[s] # Nil
    PROVE  /\ reqs[s] \in Request
           /\ reqs[s].run \in Runs
           /\ reqs[s].snap \in Row
           /\ reqs[s].snap.status \in StoredStatus
           /\ reqs[s].snap.hash \in MaybePlan
           /\ reqs[s].snap.targets \in MaybePlan
           /\ reqs[s].plan \in MaybePlan
           /\ reqs[s].report \in Reports \cup {"NONE"}
           /\ reqs[s].op \in Operations
  BY DEF TypeOK, Request, Row

LEMMA NoRowType == NoRow \in Row
  BY DEF NoRow, Row, StoredStatus, MaybePlan

-----------------------------------------------------------------------------
(* Type correctness *)

LEMMA LoadedType ==
    ASSUME TypeOK, NEW r \in Runs
    PROVE  row[r] \in Row
  BY DEF TypeOK

LEMMA InitType == Init => TypeOK
  BY NoRowType DEF Init, TypeOK, StoredStatus, MaybePlan

LEMMA ReceiveType ==
    ASSUME TypeOK, NEW s \in Slots, NEW r \in Runs, Receive(s, r)
    PROVE  TypeOK'
<1>1. CASE CreatePlan(s, r)
  <2>1. Created \in Row
    BY DEF Created, NoRow, Row, StoredStatus, MaybePlan
  <2>2. reqs' \in [Slots -> Request \cup {Nil}]
    BY <1>1, <2>1, OpenType DEF CreatePlan, Operations, MaybePlan
  <2>3. row' \in [Runs -> Row]
    BY <1>1, <2>1, StoreType DEF CreatePlan
  <2> QED BY <1>1, <2>2, <2>3 DEF CreatePlan, TypeOK, history
<1>2. CASE OpenApprove(s, r)
  <2>1. reqs' \in [Slots -> Request \cup {Nil}]
    BY <1>2, OpenType, LoadedType DEF OpenApprove, Operations, MaybePlan
  <2> QED BY <1>2, <2>1 DEF OpenApprove, TypeOK, history, durable
<1>3. CASE OpenResult(s, r)
  <2>1. PICK token \in held[r], report \in Reports :
              Open(s, r, "result", row[r], token, report, Nil)
    BY <1>3 DEF OpenResult
  <2>2. token \in Token
    BY <2>1 DEF TypeOK
  <2>3. reqs' \in [Slots -> Request \cup {Nil}]
    BY <2>1, <2>2, OpenType, LoadedType DEF Operations, MaybePlan
  <2>4. reports' \in [Runs -> Nat]
    BY <1>3 DEF OpenResult, TypeOK
  <2> QED BY <1>3, <2>3, <2>4 DEF OpenResult, TypeOK, durable
<1>4. CASE OpenPrepareUndo(s, r)
  <2>1. reqs' \in [Slots -> Request \cup {Nil}]
    BY <1>4, OpenType, LoadedType DEF OpenPrepareUndo, Operations, MaybePlan
  <2> QED BY <1>4, <2>1 DEF OpenPrepareUndo, TypeOK, history, durable
<1>5. CASE OpenUndoResult(s, r)
  <2>1. PICK token \in held[r] : Open(s, r, "undo_result", row[r], token, "NONE", Nil)
    BY <1>5 DEF OpenUndoResult
  <2>2. token \in Token
    BY <2>1 DEF TypeOK
  <2>3. reqs' \in [Slots -> Request \cup {Nil}]
    BY <2>1, <2>2, OpenType, LoadedType DEF Operations, MaybePlan
  <2> QED BY <1>5, <2>3 DEF OpenUndoResult, TypeOK, history, durable
<1> QED BY <1>1, <1>2, <1>3, <1>4, <1>5 DEF Receive

LEMMA ProceedType ==
    ASSUME TypeOK, NEW s \in Slots, Proceed(s)
    PROVE  TypeOK'
<1> DEFINE q == reqs[s]
<1>1. CASE FinishPlan(s)
  <2>1. q # Nil
    BY <1>1 DEF FinishPlan, Running, Waiting
  <2>2. PICK p \in Plans :
          LET run == [q.snap EXCEPT !.status = "PREVIEW_READY", !.hash = p,
                                    !.expires = now + PreviewTTL]
          IN /\ Store(q.run, run)
             /\ plans' = [plans EXCEPT ![q.run] = p]
             /\ reqs' = [reqs EXCEPT ![s].pc = "auditing", ![s].snap = run]
    BY <1>1 DEF FinishPlan
  <2> DEFINE run == [q.snap EXCEPT !.status = "PREVIEW_READY", !.hash = p,
                                   !.expires = now + PreviewTTL]
  <2>3. run \in Row
    <3>1. now + PreviewTTL \in Nat
      BY RunBackendAssumption DEF TypeOK
    <3>2. "PREVIEW_READY" \in StoredStatus /\ p \in MaybePlan
      BY DEF StoredStatus, MaybePlan
    <3> QED BY <2>1, <3>1, <3>2, RequestType DEF Row
  <2>4. row' \in [Runs -> Row]
    BY <2>1, <2>2, <2>3, RequestType, StoreType
  <2>5. plans' \in [Runs -> MaybePlan]
    BY <2>2 DEF TypeOK, MaybePlan
  <2>6. [q EXCEPT !.pc = "auditing", !.snap = run] \in Request
    BY <2>1, <2>3, RequestType DEF Request
  <2>7. reqs' = [reqs EXCEPT ![s] = [q EXCEPT !.pc = "auditing", !.snap = run]]
    BY <2>2 DEF TypeOK
  <2>8. reqs' \in [Slots -> Request \cup {Nil}]
    BY <2>6, <2>7 DEF TypeOK
  <2> QED BY <1>1, <2>4, <2>5, <2>8 DEF FinishPlan, TypeOK, history
<1>2. CASE RejectPlan(s)
  <2>1. reqs' \in [Slots -> Request \cup {Nil}]
    BY <1>2, CloseType DEF RejectPlan
  <2> QED BY <1>2, <2>1 DEF RejectPlan, TypeOK, history, durable
<1>3. CASE FinishApprove(s)
  <2>1. q # Nil
    BY <1>3 DEF FinishApprove, Running, Waiting
  <2>2. ActionTargets(q.plan) \in MaybePlan
    BY <2>1, RequestType, ActionTargetsType
  <2>3. [q.snap EXCEPT !.status = "APPROVED", !.targets = ActionTargets(q.plan),
                       !.result = "NONE"] \in Row
    BY <2>1, <2>2, RequestType DEF Row, StoredStatus
  <2>4. row' \in [Runs -> Row]
    BY <1>3, <2>1, <2>3, RequestType, StoreType DEF FinishApprove
  <2>5. reqs' \in [Slots -> Request \cup {Nil}]
    BY <1>3, CloseType DEF FinishApprove
  <2>6. BuildToken(q.run, q.snap.hash, ActionTargets(q.plan), "apply", q.plan) \in Token
    BY <2>1, <2>2, RequestType, BuildTokenType DEF TypeOK
  <2>7. held' \in [Runs -> SUBSET Token]
    BY <1>3, <2>1, <2>6, RequestType DEF FinishApprove, TypeOK
  <2>8. approvals' \in [Runs -> Nat]
    BY <1>3, <2>1, RequestType DEF FinishApprove, TypeOK
  <2> QED BY <1>3, <2>4, <2>5, <2>7, <2>8 DEF FinishApprove, TypeOK
<1>4. CASE FinishResult(s)
  <2>1. q # Nil
    BY <1>4 DEF FinishResult, Running, Waiting
  <2>2. q.token # Nil /\ q.op = "result"
    BY <1>4 DEF FinishResult, Verifies, Running
  <2> DEFINE to  == Outcome(q.report, q.snap.status)
             run == [q.snap EXCEPT !.status = to, !.result = q.report]
  <2>3. to \in StoredStatus
    BY <2>1, RequestType, OutcomeNoneType
  <2>4. run \in Row
    BY <2>1, <2>3, RequestType DEF Row
  <2>5. row' \in [Runs -> Row]
    BY <1>4, <2>1, <2>4, RequestType, StoreType DEF FinishResult
  <2>p. PICK body \in Bodies :
          reqs' = [reqs EXCEPT ![s].pc = "auditing", ![s].snap = run, ![s].body = body]
    BY <1>4 DEF FinishResult
  <2>6. [q EXCEPT !.pc = "auditing", !.snap = run, !.body = body] \in Request
    BY <2>1, <2>4, <2>p, RequestType DEF Request
  <2>7. reqs' = [reqs EXCEPT ![s] = [q EXCEPT !.pc = "auditing", !.snap = run, !.body = body]]
    BY <2>p DEF TypeOK
  <2>8. reqs' \in [Slots -> Request \cup {Nil}]
    BY <2>6, <2>7 DEF TypeOK
  <2> QED BY <1>4, <2>5, <2>8 DEF FinishResult, TypeOK, history
<1>5. CASE RecordAudit(s)
  <2>1. q # Nil
    BY <1>5 DEF RecordAudit
  <2>2. audit' \in [Runs -> [StoredStatus -> Nat]]
    BY <1>5, <2>1, RequestType DEF RecordAudit, TypeOK
  <2>3. [q EXCEPT !.pc = "marking"] \in Request
    BY <2>1, RequestType DEF Request
  <2>4. reqs' = [reqs EXCEPT ![s] = [q EXCEPT !.pc = "marking"]] \/ Close(s)
    BY <1>5 DEF RecordAudit, TypeOK
  <2>5. reqs' \in [Slots -> Request \cup {Nil}]
    BY <2>3, <2>4, CloseType DEF TypeOK
  <2>6. torn' \subseteq Runs \X StoredStatus \X {"crash", "body"}
    BY <1>5 DEF RecordAudit, TypeOK
  <2> QED BY <1>5, <2>2, <2>5, <2>6 DEF RecordAudit, TypeOK
<1>6. CASE MarkUndo(s)
  <2>1. reqs' \in [Slots -> Request \cup {Nil}]
    BY <1>6, CloseType DEF MarkUndo
  <2>2. torn' \subseteq Runs \X StoredStatus \X {"crash", "body"}
    BY <1>6 DEF MarkUndo, TypeOK
  <2> QED BY <1>6, <2>1, <2>2 DEF MarkUndo, TypeOK
<1>c. CASE Choke(s)
  <2>1. q # Nil
    BY <1>c DEF Choke
  <2>2. reqs' \in [Slots -> Request \cup {Nil}]
    BY <1>c, CloseType DEF Choke
  <2>3. torn' \subseteq Runs \X StoredStatus \X {"crash", "body"}
    BY <1>c, <2>1, RequestType DEF Choke, TypeOK
  <2> QED BY <1>c, <2>2, <2>3 DEF Choke, TypeOK, durable
<1>7. CASE FinishPrepareUndo(s)
  <2>1. q # Nil
    BY <1>7 DEF FinishPrepareUndo, Running, Waiting
  <2>2. BuildToken(q.run, q.snap.hash, q.snap.targets, "undo", Nil) \in Token
    BY <2>1, RequestType, BuildTokenType DEF TypeOK, MaybePlan
  <2>3. held' \in [Runs -> SUBSET Token]
    BY <1>7, <2>1, <2>2, RequestType DEF FinishPrepareUndo, TypeOK
  <2>4. reqs' \in [Slots -> Request \cup {Nil}]
    BY <1>7, CloseType DEF FinishPrepareUndo
  <2> QED BY <1>7, <2>3, <2>4 DEF FinishPrepareUndo, TypeOK, history, durable
<1>8. CASE FinishUndoResult(s)
  <2>1. reqs' \in [Slots -> Request \cup {Nil}]
    BY <1>8, CloseType DEF FinishUndoResult
  <2>2. undo' \in [Runs -> {"none", "available", "consumed"}]
    BY <1>8 DEF FinishUndoResult, TypeOK
  <2> QED BY <1>8, <2>1, <2>2 DEF FinishUndoResult, TypeOK, history
<1>9. CASE Refuse(s)
  <2>1. reqs' \in [Slots -> Request \cup {Nil}]
    BY <1>9, CloseType DEF Refuse
  <2> QED BY <1>9, <2>1 DEF Refuse, TypeOK, history, durable
<1> QED BY <1>1, <1>2, <1>3, <1>4, <1>5, <1>6, <1>c, <1>7, <1>8, <1>9 DEF Proceed

LEMMA OtherType ==
    ASSUME TypeOK, Tick \/ Crash \/ UNCHANGED vars \/ \E s \in Slots : Disconnect(s)
    PROVE  TypeOK'
<1>1. CASE Tick
  BY <1>1 DEF Tick, TypeOK, durable, volatile, history
<1>2. CASE Crash
  <2>1. torn' \subseteq Runs \X StoredStatus \X {"crash", "body"}
    BY <1>2, RequestType DEF Crash, TypeOK
  <2>2. reqs' \in [Slots -> Request \cup {Nil}] /\ plans' \in [Runs -> MaybePlan]
    BY <1>2 DEF Crash, MaybePlan
  <2> QED BY <1>2, <2>1, <2>2 DEF Crash, TypeOK, durable
<1>3. CASE UNCHANGED vars
  BY <1>3 DEF vars, TypeOK, durable, volatile, history
<1>4. ASSUME NEW s \in Slots, Disconnect(s) PROVE TypeOK'
  <2>1. reqs' \in [Slots -> Request \cup {Nil}]
    BY <1>4, CloseType DEF Disconnect
  <2> QED BY <1>4, <2>1 DEF Disconnect, TypeOK, history, durable
<1> QED BY <1>1, <1>2, <1>3, <1>4

LEMMA NextType == TypeOK /\ [Next]_vars => TypeOK'
  BY ReceiveType, ProceedType, OtherType DEF Next

\* In every behaviour of the server the state is well typed: whatever overlaps,
\* crashes and is retried, a row never holds a status that only memory holds.
THEOREM TypeCorrect == Spec => []TypeOK
  BY InitType, NextType, PTL DEF Spec

-----------------------------------------------------------------------------
(* The chain from an issued bundle to an open undo *)

\* Tokens are not taken back and audit entries are not deleted.
Grows ==
    \A r \in Runs :
        /\ held[r] \subseteq held'[r]
        /\ audit[r]["APPLIED"] > 0 => audit'[r]["APPLIED"] > 0

\* A step that touches one slot preserves the chain when it preserves the links
\* of the tables and leaves that slot entitled to what it holds.
LEMMA ChainFrame ==
    ASSUME TypeOK, TypeOK', ApplyChain, NEW s \in Slots, Grows,
           \A t \in Slots \ {s} : reqs'[t] = reqs[t],
           (reqs[s] # Nil => RequestChain(reqs[s]))',
           UndoFollowsApply',
           \A r \in Runs : held'[r] # {} => approvals'[r] > 0
    PROVE  ApplyChain'
<1>1. ASSUME NEW t \in Slots, reqs'[t] # Nil PROVE RequestChain(reqs[t])'
  <2>1. CASE t = s
    BY <1>1, <2>1
  <2>2. CASE t # s
    <3>1. reqs'[t] = reqs[t] /\ reqs[t] # Nil /\ reqs[t].run \in Runs
      BY <1>1, <2>2, RequestType
    <3>2. RequestChain(reqs[t])
      BY <3>1 DEF ApplyChain
    <3> QED BY <3>1, <3>2 DEF RequestChain, Grows
  <2> QED BY <2>1, <2>2
<1> QED BY <1>1 DEF ApplyChain

\* Taking a request touches no table; the new request must be entitled.
LEMMA ChainOpen ==
    ASSUME TypeOK, TypeOK', ApplyChain, NEW s \in Slots, NEW r \in Runs,
           NEW op \in Operations, NEW run \in Row, NEW token, NEW report, NEW hash,
           Open(s, r, op, run, token, report, hash),
           UNCHANGED <<undo, audit, held, approvals>>,
           op \in {"result", "undo_result"} => token \in held[r],
           op = "approve" => run.status = "PREVIEW_READY",
           op = "plan" => run.status = "CREATED"
    PROVE  ApplyChain'
<1>1. \A t \in Slots \ {s} : reqs'[t] = reqs[t]
  BY DEF Open, TypeOK
<1>2. reqs'[s] = [op |-> op, pc |-> "awaiting", run |-> r, snap |-> run,
                  plan |-> plans[r], token |-> token, report |-> report,
                  body |-> "sound", hash |-> hash]
  BY DEF Open, TypeOK
<1>3. RequestChain(reqs[s])'
  BY <1>2 DEF RequestChain
<1>4. Grows /\ UndoFollowsApply' /\ \A x \in Runs : held'[x] # {} => approvals'[x] > 0
  BY DEF Grows, ApplyChain, UndoFollowsApply
<1> QED BY <1>1, <1>3, <1>4, ChainFrame

\* Ending a request: the links of the tables are all there is to show.
LEMMA ChainClose ==
    ASSUME TypeOK, TypeOK', ApplyChain, NEW s \in Slots, Close(s), Grows,
           UndoFollowsApply',
           \A r \in Runs : held'[r] # {} => approvals'[r] > 0
    PROVE  ApplyChain'
<1>1. reqs'[s] = Nil /\ \A t \in Slots \ {s} : reqs'[t] = reqs[t]
  BY DEF Close, TypeOK
<1> QED BY <1>1, ChainFrame

\* Steps that touch none of the tables of the chain.
LEMMA ChainTables ==
    ASSUME ApplyChain, UNCHANGED <<undo, audit, held, approvals>>
    PROVE  /\ Grows
           /\ UndoFollowsApply'
           /\ \A r \in Runs : held'[r] # {} => approvals'[r] > 0
  BY DEF ApplyChain, Grows, UndoFollowsApply

LEMMA ReceiveChain ==
    ASSUME TypeOK, TypeOK', ApplyChain, NEW s \in Slots, NEW r \in Runs, Receive(s, r)
    PROVE  ApplyChain'
<1>1. CASE CreatePlan(s, r)
  <2>1. Created \in Row /\ Created.status = "CREATED"
    BY DEF Created, NoRow, Row, StoredStatus, MaybePlan
  <2> QED BY <1>1, <2>1, ChainOpen DEF CreatePlan, history, Operations
<1>2. CASE OpenApprove(s, r)
  BY <1>2, ChainOpen, LoadedType DEF OpenApprove, history, durable, Operations
<1>3. CASE OpenResult(s, r)
  BY <1>3, ChainOpen, LoadedType DEF OpenResult, durable, Operations
<1>4. CASE OpenPrepareUndo(s, r)
  BY <1>4, ChainOpen, LoadedType DEF OpenPrepareUndo, history, durable, Operations
<1>5. CASE OpenUndoResult(s, r)
  BY <1>5, ChainOpen, LoadedType DEF OpenUndoResult, history, durable, Operations
<1> QED BY <1>1, <1>2, <1>3, <1>4, <1>5 DEF Receive

LEMMA ProceedChain ==
    ASSUME TypeOK, TypeOK', ApplyChain, NEW s \in Slots, Proceed(s)
    PROVE  ApplyChain'
<1> DEFINE q == reqs[s]
<1>0. q # Nil => RequestChain(q) /\ q.run \in Runs /\ q \in Request
  BY RequestType DEF ApplyChain
<1>1. CASE FinishPlan(s)
  <2>1. q # Nil /\ q.op = "plan"
    BY <1>1 DEF FinishPlan, Running, Waiting
  <2>2. PICK run : reqs' = [reqs EXCEPT ![s].pc = "auditing", ![s].snap = run]
    BY <1>1 DEF FinishPlan
  <2>3. reqs'[s].op = "plan" /\ reqs'[s].pc = "auditing"
    BY <2>1, <2>2, RequestType DEF TypeOK, Request
  <2>4. RequestChain(reqs[s])'
    BY <2>3 DEF RequestChain
  <2>5. \A t \in Slots \ {s} : reqs'[t] = reqs[t]
    BY <2>2 DEF TypeOK
  <2>6. UNCHANGED <<undo, audit, held, approvals>>
    BY <1>1 DEF FinishPlan, history
  <2> QED BY <2>4, <2>5, <2>6, ChainTables, ChainFrame
<1>2. CASE RejectPlan(s)
  BY <1>2, ChainTables, ChainClose DEF RejectPlan, durable, history
<1>3. CASE FinishApprove(s)
  <2>1. q # Nil
    BY <1>3 DEF FinishApprove, Running, Waiting
  <2>2. \A r \in Runs : approvals'[r] >= approvals[r]
    BY <1>0, <1>3, <2>1 DEF FinishApprove, TypeOK
  <2>3. approvals'[q.run] > 0
    BY <1>0, <1>3, <2>1 DEF FinishApprove, TypeOK
  <2>4. \A r \in Runs : held[r] \subseteq held'[r] /\ (r # q.run => held'[r] = held[r])
    BY <1>3 DEF FinishApprove, TypeOK
  <2>5. undo' = undo /\ audit' = audit /\ Close(s)
    BY <1>3 DEF FinishApprove
  <2>6. UndoFollowsApply'
    BY <2>2, <2>5 DEF ApplyChain, UndoFollowsApply, TypeOK
  <2>7. ASSUME NEW r \in Runs, held'[r] # {} PROVE approvals'[r] > 0
    <3>1. approvals[r] \in Nat /\ approvals'[r] \in Nat
      BY DEF TypeOK
    <3>2. r # q.run => approvals[r] > 0
      BY <2>4, <2>7 DEF ApplyChain
    <3> QED BY <2>2, <2>3, <3>1, <3>2
  <2>8. Grows
    BY <2>4, <2>5 DEF Grows
  <2> QED BY <2>5, <2>6, <2>7, <2>8, ChainClose
<1>4. CASE FinishResult(s)
  <2>1. q # Nil /\ q.op = "result" /\ q.pc = "awaiting"
    BY <1>4 DEF FinishResult, Running, Waiting
  <2> DEFINE to  == Outcome(q.report, q.snap.status)
             run == [q.snap EXCEPT !.status = to, !.result = q.report]
  <2>p. PICK body \in Bodies :
          reqs' = [reqs EXCEPT ![s].pc = "auditing", ![s].snap = run, ![s].body = body]
    BY <1>4 DEF FinishResult
  <2> DEFINE qq == [q EXCEPT !.pc = "auditing", !.snap = run, !.body = body]
  <2>2. reqs' = [reqs EXCEPT ![s] = qq]
    BY <2>p DEF TypeOK
  <2>3. run.status = to
    BY <2>1, RequestType DEF Row
  <2>4. /\ reqs'[s].op = "result" /\ reqs'[s].pc = "auditing"
        /\ reqs'[s].run = q.run /\ reqs'[s].token = q.token
        /\ reqs'[s].report = q.report /\ reqs'[s].snap = run
    BY <1>0, <2>1, <2>2 DEF TypeOK, Request
  <2>5. q.report = "APPLIED" => to = "APPLIED"
    BY DEF Outcome
  <2>6. UNCHANGED <<undo, audit, held, approvals>>
    BY <1>4 DEF FinishResult, history
  <2>7. RequestChain(reqs[s])'
    BY <1>0, <2>1, <2>3, <2>4, <2>5, <2>6 DEF RequestChain
  <2>8. \A t \in Slots \ {s} : reqs'[t] = reqs[t]
    BY <2>2 DEF TypeOK
  <2> QED BY <2>6, <2>7, <2>8, ChainTables, ChainFrame
<1>5. CASE RecordAudit(s)
  <2>1. q # Nil /\ q.pc = "auditing"
    BY <1>5 DEF RecordAudit
  <2>2. audit' = [audit EXCEPT ![q.run][q.snap.status] = @ + 1]
    BY <1>5 DEF RecordAudit
  <2>3. \A r \in Runs : audit'[r]["APPLIED"] >= audit[r]["APPLIED"]
    BY <1>0, <2>1, <2>2, RequestType DEF TypeOK, StoredStatus
  <2>4. UNCHANGED <<undo, held, approvals>>
    BY <1>5 DEF RecordAudit
  <2>5. Grows /\ UndoFollowsApply' /\ \A r \in Runs : held'[r] # {} => approvals'[r] > 0
    <3>1. \A r \in Runs : audit[r]["APPLIED"] \in Nat /\ audit'[r]["APPLIED"] \in Nat
      BY DEF TypeOK, StoredStatus
    <3> QED BY <2>3, <2>4, <3>1 DEF Grows, ApplyChain, UndoFollowsApply
  <2>6. CASE q.op = "result" /\ q.report = "APPLIED"
    <3>1. reqs' = [reqs EXCEPT ![s] = [q EXCEPT !.pc = "marking"]]
      BY <1>5, <2>6 DEF RecordAudit, TypeOK
    <3>2. q.snap.status = "APPLIED"
      BY <1>0, <2>1, <2>6 DEF RequestChain
    <3>3. audit'[q.run]["APPLIED"] > 0
      BY <1>0, <2>1, <2>2, <3>2 DEF TypeOK, StoredStatus
    <3>4. /\ reqs'[s].op = "result" /\ reqs'[s].pc = "marking"
          /\ reqs'[s].run = q.run /\ reqs'[s].token = q.token
          /\ reqs'[s].snap = q.snap
      BY <1>0, <2>1, <2>6, <3>1 DEF TypeOK, Request
    <3>5. RequestChain(reqs[s])'
      BY <1>0, <2>1, <2>4, <2>6, <3>2, <3>3, <3>4 DEF RequestChain
    <3>6. \A t \in Slots \ {s} : reqs'[t] = reqs[t]
      BY <3>1 DEF TypeOK
    <3> QED BY <2>5, <3>5, <3>6, ChainFrame
  <2>7. CASE ~(q.op = "result" /\ q.report = "APPLIED")
    <3>1. Close(s)
      BY <1>5, <2>7 DEF RecordAudit
    <3> QED BY <2>5, <3>1, ChainClose
  <2> QED BY <2>6, <2>7
<1>6. CASE MarkUndo(s)
  <2>1. q # Nil /\ q.pc = "marking" /\ Close(s)
    BY <1>6 DEF MarkUndo
  <2>2. /\ undo' = [undo EXCEPT ![q.run] = "available"]
        /\ UNCHANGED <<audit, held, approvals>>
    BY <1>6 DEF MarkUndo
  <2>3. audit[q.run]["APPLIED"] > 0 /\ approvals[q.run] > 0
    BY <1>0, <2>1 DEF RequestChain, ApplyChain
  <2>4. UndoFollowsApply'
    BY <2>2, <2>3 DEF ApplyChain, UndoFollowsApply, TypeOK
  <2>5. Grows /\ \A r \in Runs : held'[r] # {} => approvals'[r] > 0
    BY <2>2 DEF Grows, ApplyChain
  <2> QED BY <2>1, <2>4, <2>5, ChainClose
<1>c. CASE Choke(s)
  BY <1>c, ChainTables, ChainClose DEF Choke, durable
<1>7. CASE FinishPrepareUndo(s)
  <2>1. q # Nil /\ undo[q.run] = "available" /\ Close(s)
    BY <1>7 DEF FinishPrepareUndo, Running, Waiting
  <2>2. UNCHANGED <<undo, audit, approvals>>
    BY <1>7 DEF FinishPrepareUndo, durable, history
  <2>3. \A r \in Runs : held[r] \subseteq held'[r] /\ (r # q.run => held'[r] = held[r])
    BY <1>7 DEF FinishPrepareUndo, TypeOK
  <2>4. approvals[q.run] > 0
    BY <1>0, <2>1 DEF ApplyChain, UndoFollowsApply
  <2>5. \A r \in Runs : held'[r] # {} => approvals'[r] > 0
    BY <2>2, <2>3, <2>4 DEF ApplyChain
  <2>6. Grows /\ UndoFollowsApply'
    BY <2>2, <2>3 DEF Grows, ApplyChain, UndoFollowsApply
  <2> QED BY <2>1, <2>5, <2>6, ChainClose
<1>8. CASE FinishUndoResult(s)
  <2>1. Close(s) /\ UNCHANGED <<audit, held, approvals>>
    BY <1>8 DEF FinishUndoResult, history
  <2>2. \A r \in Runs : undo'[r] # "none" => undo[r] # "none"
    BY <1>8 DEF FinishUndoResult, TypeOK
  <2>3. /\ Grows /\ UndoFollowsApply'
        /\ \A r \in Runs : held'[r] # {} => approvals'[r] > 0
    BY <2>1, <2>2 DEF Grows, ApplyChain, UndoFollowsApply
  <2> QED BY <2>1, <2>3, ChainClose
<1>9. CASE Refuse(s)
  BY <1>9, ChainTables, ChainClose DEF Refuse, durable, history
<1> QED BY <1>1, <1>2, <1>3, <1>4, <1>5, <1>6, <1>c, <1>7, <1>8, <1>9 DEF Proceed

LEMMA OtherChain ==
    ASSUME TypeOK, TypeOK', ApplyChain,
           Tick \/ Crash \/ UNCHANGED vars \/ \E s \in Slots : Disconnect(s)
    PROVE  ApplyChain'
<1>1. CASE Tick \/ UNCHANGED vars
  BY <1>1 DEF Tick, vars, durable, volatile, history, ApplyChain, UndoFollowsApply,
              RequestChain
<1>2. CASE Crash
  BY <1>2 DEF Crash, durable, ApplyChain, UndoFollowsApply
<1>3. ASSUME NEW s \in Slots, Disconnect(s) PROVE ApplyChain'
  BY <1>3, ChainTables, ChainClose DEF Disconnect, durable, history
<1> QED BY <1>1, <1>2, <1>3

LEMMA InitChain == Init => ApplyChain
  BY DEF Init, ApplyChain, UndoFollowsApply

\* The chain holds in every state the server reaches.
THEOREM ApplyChainHolds == Spec => []ApplyChain
<1>1. TypeOK /\ TypeOK' /\ ApplyChain /\ [Next]_vars => ApplyChain'
  BY ReceiveChain, ProceedChain, OtherChain DEF Next
<1> QED BY <1>1, InitChain, TypeCorrect, PTL DEF Spec

\* Whatever overlaps, crashes, expires or is retried, undo_state never has a row
\* for a run whose apply is not in the audit table and whose bundle was not
\* issued by :approve.
THEOREM UndoFollowsApplyHolds == Spec => []UndoFollowsApply
  BY ApplyChainHolds, PTL DEF ApplyChain
-----------------------------------------------------------------------------
(* Reports settle what they store *)

Final == {"APPLIED", "FAILED"}

\* What is covered stays covered.
Keeps == \A r \in Runs, st \in Final : Covered(r, st) => Covered(r, st)'

LEMMA KeepsTables ==
    ASSUME UNCHANGED <<undo, audit, torn>>
    PROVE  Keeps
  BY DEF Keeps, Covered, Torn, Settled

\* A step that touches one slot keeps every final status covered when the object
\* in that slot and the rows it stores are answered for, and when it does not
\* leave behind what it was about to settle.
LEMMA CoverFrame ==
    ASSUME FinalCovered, NEW s \in Slots, Keeps, TypeOK, TypeOK',
           \A t \in Slots \ {s} : reqs'[t] = reqs[t],
           \A r \in Runs, st \in Final :
              reqs'[s] # Nil /\ reqs'[s].run = r /\ reqs'[s].snap.status = st
              => Covered(r, st)' \/ Settling(reqs'[s], st),
           \A r \in Runs, st \in Final :
              reqs[s] # Nil /\ reqs[s].run = r /\ Settling(reqs[s], st)
              => \/ Covered(r, st)'
                 \/ reqs'[s] # Nil /\ reqs'[s].run = r /\ Settling(reqs'[s], st),
           \A r \in Runs, st \in Final : row'[r].status = st
              => \/ row[r].status = st
                 \/ Covered(r, st)'
                 \/ reqs'[s] # Nil /\ reqs'[s].run = r /\ Settling(reqs'[s], st)
    PROVE  FinalCovered'
<1>1. ASSUME NEW st \in Final, NEW t \in Slots, NEW r \in Runs,
             reqs'[t] # Nil, reqs'[t].run = r, reqs'[t].snap.status = st
      PROVE  Covered(r, st)' \/ Settling(reqs'[t], st)
  <2>1. CASE t = s
    BY <1>1, <2>1
  <2>2. CASE t # s
    <3>1. reqs'[t] = reqs[t]
      BY <1>1, <2>2
    <3>2. Covered(r, st) \/ Settling(reqs[t], st)
      BY <1>1, <3>1 DEF FinalCovered, Final
    <3> QED BY <3>1, <3>2 DEF Keeps
  <2> QED BY <2>1, <2>2
<1>2. ASSUME NEW st \in Final, NEW r \in Runs, row'[r].status = st
      PROVE  \/ Covered(r, st)'
             \/ \E t \in Slots : reqs'[t] # Nil /\ reqs'[t].run = r /\ Settling(reqs'[t], st)
  <2>1. CASE row[r].status = st
    <3>1. CASE Covered(r, st)
      BY <3>1 DEF Keeps
    <3>2. CASE ~Covered(r, st)
      <4>1. PICK t \in Slots : reqs[t] # Nil /\ reqs[t].run = r /\ Settling(reqs[t], st)
        BY <2>1, <3>2 DEF FinalCovered, Final
      <4> QED BY <4>1
    <3> QED BY <3>1, <3>2
  <2>2. CASE row[r].status # st
    BY <1>2, <2>2
  <2> QED BY <2>1, <2>2
<1>3. \A t \in Slots : reqs'[t] # Nil => reqs'[t].run \in Runs
  BY DEF TypeOK, Request
<1>4. \A st \in Final, t \in Slots :
        (reqs[t] # Nil /\ reqs[t].snap.status = st
           => Covered(reqs[t].run, st) \/ Settling(reqs[t], st))'
  BY <1>1, <1>3
<1>5. \A st \in Final, r \in Runs :
        (row[r].status = st
           => \/ Covered(r, st)
              \/ \E t \in Slots : reqs[t] # Nil /\ reqs[t].run = r /\ Settling(reqs[t], st))'
  BY <1>2
<1> QED BY <1>4, <1>5 DEF FinalCovered, Final

\* While the loop is free, nothing is on its way: whatever final status a row or
\* an object shows is covered.
LEMMA FreeCovered ==
    ASSUME TypeOK, FinalCovered, LoopFree, NEW st \in Final
    PROVE  /\ \A r \in Runs : row[r].status = st => Covered(r, st)
           /\ \A s \in Slots : reqs[s] # Nil /\ reqs[s].snap.status = st
                                 => Covered(reqs[s].run, st)
  BY DEF FinalCovered, LoopFree, Settling, Final

\* Taking a request: its object is the stored row, which is covered.
LEMMA CoverOpen ==
    ASSUME TypeOK, TypeOK', FinalCovered, NEW s \in Slots, NEW r \in Runs,
           NEW op, NEW run, NEW token, NEW report, NEW hash,
           Open(s, r, op, run, token, report, hash),
           run = row[r] \/ run.status \notin Final,
           \A x \in Runs : row'[x] = row[x] \/ row'[x].status \notin Final,
           UNCHANGED <<undo, audit, torn>>
    PROVE  FinalCovered'
<1>1. \A t \in Slots \ {s} : reqs'[t] = reqs[t]
  BY DEF Open, TypeOK
<1>2. reqs[s] = Nil /\ LoopFree /\ Keeps
  BY KeepsTables DEF Open
<1>3. reqs'[s] = [op |-> op, pc |-> "awaiting", run |-> r, snap |-> run,
                  plan |-> plans[r], token |-> token, report |-> report,
                  body |-> "sound", hash |-> hash]
  BY DEF Open, TypeOK
<1>4. \A st \in Final : reqs'[s].snap.status = st => Covered(r, st)'
  BY <1>2, <1>3, FreeCovered DEF Keeps
<1> QED BY <1>1, <1>2, <1>3, <1>4, CoverFrame

\* Ending a request that was about to settle nothing.
LEMMA CoverClose ==
    ASSUME TypeOK, TypeOK', FinalCovered, NEW s \in Slots, Close(s), Keeps,
           \A r \in Runs, st \in Final :
              reqs[s] # Nil /\ reqs[s].run = r /\ Settling(reqs[s], st) => Covered(r, st)',
           \A r \in Runs : row'[r] = row[r] \/ row'[r].status \notin Final
    PROVE  FinalCovered'
<1>1. reqs'[s] = Nil /\ \A t \in Slots \ {s} : reqs'[t] = reqs[t]
  BY DEF Close, TypeOK
<1> QED BY <1>1, CoverFrame

LEMMA ReceiveCover ==
    ASSUME TypeOK, TypeOK', FinalCovered, NEW s \in Slots, NEW r \in Runs, Receive(s, r)
    PROVE  FinalCovered'
<1>1. CASE CreatePlan(s, r)
  <2>1. Created.status = "CREATED"
    BY DEF Created, NoRow
  <2>2. \A x \in Runs : row'[x] = row[x] \/ row'[x].status \notin Final
    BY <1>1, <2>1 DEF CreatePlan, Store, TypeOK, Final
  <2> QED BY <1>1, <2>1, <2>2, CoverOpen DEF CreatePlan, history, Final
<1>2. CASE OpenApprove(s, r)
  BY <1>2, CoverOpen DEF OpenApprove, history, durable
<1>3. CASE OpenResult(s, r)
  BY <1>3, CoverOpen DEF OpenResult, durable
<1>4. CASE OpenPrepareUndo(s, r)
  BY <1>4, CoverOpen DEF OpenPrepareUndo, history, durable
<1>5. CASE OpenUndoResult(s, r)
  BY <1>5, CoverOpen DEF OpenUndoResult, history, durable
<1> QED BY <1>1, <1>2, <1>3, <1>4, <1>5 DEF Receive

LEMMA ProceedCover ==
    ASSUME TypeOK, TypeOK', ApplyChain, FinalCovered, NEW s \in Slots, Proceed(s)
    PROVE  FinalCovered'
<1> DEFINE q == reqs[s]
<1>0. q # Nil => RequestChain(q) /\ q.run \in Runs /\ q \in Request
  BY RequestType DEF ApplyChain
<1>w. ASSUME Waiting(s) PROVE \A st \in Final : ~Settling(q, st)
  BY <1>w DEF Waiting, Settling
<1>1. CASE FinishPlan(s)
  <2>1. q # Nil /\ Waiting(s)
    BY <1>1 DEF FinishPlan, Running, Waiting
  <2>2. PICK p \in Plans :
          LET run == [q.snap EXCEPT !.status = "PREVIEW_READY", !.hash = p,
                                    !.expires = now + PreviewTTL]
          IN /\ Store(q.run, run)
             /\ reqs' = [reqs EXCEPT ![s].pc = "auditing", ![s].snap = run]
    BY <1>1 DEF FinishPlan
  <2> DEFINE run == [q.snap EXCEPT !.status = "PREVIEW_READY", !.hash = p,
                                   !.expires = now + PreviewTTL]
  <2>3. run.status = "PREVIEW_READY"
    BY <2>1, RequestType DEF Row
  <2>4. reqs'[s].snap = run /\ \A t \in Slots \ {s} : reqs'[t] = reqs[t]
    BY <1>0, <2>1, <2>2 DEF TypeOK, Request
  <2>5. \A r \in Runs : row'[r] = row[r] \/ row'[r].status \notin Final
    BY <2>2, <2>3 DEF Store, TypeOK, Final
  <2>6. Keeps
    BY <1>1, KeepsTables DEF FinishPlan, history
  <2>7. reqs'[s].snap.status \notin Final
    BY <2>3, <2>4 DEF Final
  <2>8. \A t \in Slots \ {s} : reqs'[t] = reqs[t]
    BY <2>4
  <2>9. \A st \in Final : ~Settling(q, st)
    BY <1>w, <2>1
  <2> HIDE DEF q, run
  <2>10. \A r \in Runs, st \in Final : row'[r].status = st => row[r].status = st
    BY <2>5
  <2> QED BY <2>6, <2>7, <2>8, <2>9, <2>10, CoverFrame DEF q
<1>2. CASE RejectPlan(s)
  BY <1>2, <1>w, KeepsTables, CoverClose DEF RejectPlan, Running, durable, history
<1>3. CASE FinishApprove(s)
  <2>1. Waiting(s) /\ q # Nil /\ Close(s)
    BY <1>3 DEF FinishApprove, Running, Waiting
  <2>2. [q.snap EXCEPT !.status = "APPROVED", !.targets = ActionTargets(q.plan),
                       !.result = "NONE"].status = "APPROVED"
    BY <2>1, RequestType DEF Row
  <2>3. \A r \in Runs : row'[r] = row[r] \/ row'[r].status \notin Final
    BY <1>3, <2>2 DEF FinishApprove, Store, TypeOK, Final
  <2>4. Keeps
    BY <1>3, KeepsTables DEF FinishApprove
  <2> QED BY <1>w, <2>1, <2>3, <2>4, CoverClose
<1>4. CASE FinishResult(s)
  <2>1. q # Nil /\ Waiting(s) /\ LoopFree
    BY <1>4 DEF FinishResult, Running, Waiting
  <2> DEFINE to  == Outcome(q.report, q.snap.status)
             run == [q.snap EXCEPT !.status = to, !.result = q.report]
  <2>p. PICK body \in Bodies :
          reqs' = [reqs EXCEPT ![s].pc = "auditing", ![s].snap = run, ![s].body = body]
    BY <1>4 DEF FinishResult
  <2> DEFINE qq == [q EXCEPT !.pc = "auditing", !.snap = run, !.body = body]
  <2>2. reqs' = [reqs EXCEPT ![s] = qq]
    BY <2>p DEF TypeOK
  <2>3. run.status = to
    BY <2>1, RequestType DEF Row
  <2>4. /\ reqs'[s].pc = "auditing" /\ reqs'[s].run = q.run /\ reqs'[s].op = "result"
        /\ reqs'[s].report = q.report /\ reqs'[s].snap = run
    BY <1>0, <1>4, <2>1, <2>2 DEF TypeOK, Request, FinishResult, Running
  <2>5. Keeps
    BY <1>4, KeepsTables DEF FinishResult, history
  <2>6. ASSUME NEW r \in Runs, r = q.run, NEW st \in Final, to = st
        PROVE  Covered(r, st)' \/ Settling(reqs'[s], st)
    <3>1. CASE q.report = "APPLIED" \/ st = "FAILED"
      BY <2>1, <2>3, <2>4, <2>6, <3>1 DEF Settling, Outcome, Final
    <3>2. CASE q.report # "APPLIED" /\ st = "APPLIED"
      <4>1. q.snap.status = st
        BY <2>6, <3>2 DEF Outcome
      <4>2. Covered(r, st)
        BY <2>1, <2>6, <4>1, FreeCovered
      <4> QED BY <2>5, <4>2 DEF Keeps
    <3> QED BY <2>6, <3>1, <3>2 DEF Final
  <2>7. \A r \in Runs : row'[r] = IF r = q.run THEN run ELSE row[r]
    BY <1>4 DEF FinishResult, Store, TypeOK
  <2>8. \A t \in Slots \ {s} : reqs'[t] = reqs[t]
    BY <2>2 DEF TypeOK
  <2>9. reqs'[s] # Nil
    <3>1. to \in StoredStatus
      BY <2>1, RequestType, OutcomeNoneType
    <3>2. q.report \in Reports \cup {"NONE"} /\ q.snap \in Row
      BY <2>1, RequestType
    <3>3. run \in Row
      BY <3>1, <3>2 DEF Row
    <3>4. qq \in Request
      BY <1>0, <2>1, <2>p, <3>3 DEF Request
    <3> QED BY <2>2, <3>4, NilAssumption DEF TypeOK
  <2>10. \A r \in Runs, st \in Final : reqs'[s].run = r /\ reqs'[s].snap.status = st
            => Covered(r, st)' \/ Settling(reqs'[s], st)
    BY <2>3, <2>4, <2>6
  <2>11. \A r \in Runs, st \in Final : row'[r].status = st
            => \/ row[r].status = st
               \/ Covered(r, st)'
               \/ reqs'[s].run = r /\ Settling(reqs'[s], st)
    BY <2>3, <2>4, <2>6, <2>7
  <2> QED BY <1>w, <2>1, <2>5, <2>8, <2>9, <2>10, <2>11, CoverFrame
<1>5. CASE RecordAudit(s)
  <2>1. q # Nil /\ q.pc = "auditing"
    BY <1>5 DEF RecordAudit
  <2>2. audit' = [audit EXCEPT ![q.run][q.snap.status] = @ + 1]
    BY <1>5 DEF RecordAudit
  <2>3. row' = row /\ undo' = undo
    BY <1>5 DEF RecordAudit
  <2>4. ASSUME NEW r \in Runs, NEW st \in Final
        PROVE  /\ audit[r][st] > 0 => audit'[r][st] > 0
               /\ r = q.run /\ st = q.snap.status => audit'[r][st] > 0
    BY <1>0, <2>1, <2>2, RequestType DEF TypeOK, StoredStatus, Final
  <2>5. Keeps
    <3> SUFFICES ASSUME NEW r \in Runs, NEW st \in Final, Covered(r, st)
                 PROVE  Covered(r, st)'
      BY DEF Keeps
    <3>1. CASE Settled(r, st)
      BY <2>3, <2>4, <3>1 DEF Settled, Covered
    <3>2. CASE Torn(r, st) /\ ~Torn(r, st)'
      <4>1. r = q.run /\ st = "FAILED" /\ q.snap.status = "FAILED"
        BY <1>5, <3>2 DEF RecordAudit, Torn, Healed
      <4> QED BY <2>4, <4>1 DEF Settled, Covered
    <3> QED BY <3>1, <3>2 DEF Covered
  <2>6. ASSUME NEW r \in Runs, r = q.run, Settling(q, "FAILED")
        PROVE  Covered(r, "FAILED")'
    BY <2>4, <2>6 DEF Settling, Covered, Settled, Final
  <2>7. CASE q.op = "result" /\ q.report = "APPLIED"
    <3>1. reqs' = [reqs EXCEPT ![s] = [q EXCEPT !.pc = "marking"]]
      BY <1>5, <2>7 DEF RecordAudit, TypeOK
    <3>2. q.snap.status = "APPLIED"
      BY <1>0, <2>1, <2>7 DEF RequestChain
    <3>3. /\ reqs'[s].pc = "marking" /\ reqs'[s].report = "APPLIED"
          /\ reqs'[s].run = q.run /\ reqs'[s].snap = q.snap /\ reqs'[s].op = "result"
      BY <1>0, <2>1, <2>7, <3>1 DEF TypeOK, Request
    <3>4. \A st \in Final : reqs'[s].snap.status = st => Settling(reqs'[s], st)
      BY <3>2, <3>3 DEF Settling
    <3>5. reqs'[s] # Nil
      BY <1>0, <2>1, <3>1, NilAssumption, ZenonT(30) DEF TypeOK, Request
    <3>6. \A st \in Final : Settling(q, st) => Settling(reqs'[s], st)
      BY <3>3, <3>4 DEF Settling
    <3>7. \A t \in Slots \ {s} : reqs'[t] = reqs[t]
      BY <3>1 DEF TypeOK
    <3> QED BY <2>3, <2>5, <3>3, <3>4, <3>5, <3>6, <3>7, CoverFrame
  <2>8. CASE ~(q.op = "result" /\ q.report = "APPLIED")
    <3>1. Close(s)
      BY <1>5, <2>8 DEF RecordAudit
    <3>2. ~Settling(q, "APPLIED")
      BY <2>1, <2>8 DEF Settling
    <3> QED BY <2>3, <2>5, <2>6, <3>1, <3>2, CoverClose DEF Final
  <2> QED BY <2>7, <2>8
<1>6. CASE MarkUndo(s)
  <2>1. q # Nil /\ q.pc = "marking" /\ Close(s) /\ UNCHANGED <<row, audit>>
    BY <1>6 DEF MarkUndo
  <2>2. undo' = [undo EXCEPT ![q.run] = "available"] /\ torn' = torn \ Healed(q.run, "APPLIED")
    BY <1>6 DEF MarkUndo
  <2>3. ASSUME NEW r \in Runs, r = q.run PROVE Covered(r, "APPLIED")'
    BY <1>0, <2>1, <2>2, <2>3 DEF RequestChain, Covered, Settled, TypeOK
  <2>4. Keeps
    <3> SUFFICES ASSUME NEW r \in Runs, NEW st \in Final, Covered(r, st)
                 PROVE  Covered(r, st)'
      BY DEF Keeps
    <3>1. CASE Settled(r, st)
      BY <1>0, <2>1, <2>2, <3>1 DEF Settled, Covered, TypeOK
    <3>2. CASE Torn(r, st) /\ ~Torn(r, st)'
      <4>1. r = q.run /\ st = "APPLIED"
        BY <2>2, <3>2 DEF Torn, Healed
      <4> QED BY <2>3, <4>1
    <3> QED BY <3>1, <3>2 DEF Covered
  <2> QED BY <2>1, <2>3, <2>4, CoverClose DEF Settling
<1>c. CASE Choke(s)
  <2>1. q # Nil /\ Close(s) /\ UNCHANGED durable
    BY <1>c DEF Choke
  <2>2. torn' = torn \cup {<<q.run, q.snap.status, "body">>}
    BY <1>c DEF Choke
  <2>3. Keeps
    BY <2>1, <2>2 DEF Keeps, Covered, Torn, Settled, durable
  <2>4. ASSUME NEW r \in Runs, NEW st \in Final, q.run = r, Settling(q, st)
        PROVE  Covered(r, st)'
    BY <2>2, <2>4 DEF Settling, Covered, Torn
  <2> QED BY <2>1, <2>3, <2>4, CoverClose DEF durable
<1>7. CASE FinishPrepareUndo(s)
  BY <1>7, <1>w, KeepsTables, CoverClose DEF FinishPrepareUndo, Running, durable, history
<1>8. CASE FinishUndoResult(s)
  <2>1. Keeps
    BY <1>8 DEF FinishUndoResult, Keeps, Covered, Torn, Settled, TypeOK, history
  <2> QED BY <1>8, <1>w, <2>1, CoverClose DEF FinishUndoResult, Running
<1>9. CASE Refuse(s)
  BY <1>9, <1>w, KeepsTables, CoverClose DEF Refuse, durable, history
<1> QED BY <1>1, <1>2, <1>3, <1>4, <1>5, <1>6, <1>c, <1>7, <1>8, <1>9 DEF Proceed

LEMMA OtherCover ==
    ASSUME TypeOK, TypeOK', FinalCovered,
           Tick \/ Crash \/ UNCHANGED vars \/ \E s \in Slots : Disconnect(s)
    PROVE  FinalCovered'
<1>1. CASE Tick \/ UNCHANGED vars
  BY <1>1 DEF Tick, vars, durable, volatile, history, FinalCovered, Covered, Torn,
              Settled
<1>2. CASE Crash
  <2>1. Keeps
    BY <1>2 DEF Crash, durable, Keeps, Covered, Torn, Settled
  <2>2. \A s \in Slots, r \in Runs, st \in Final :
           reqs[s] # Nil /\ reqs[s].run = r /\ Settling(reqs[s], st) => Covered(r, st)'
    BY <1>2 DEF Crash, Settling, Waiting, Covered, Torn
  <2>3. row' = row /\ \A s \in Slots : reqs'[s] = Nil
    BY <1>2 DEF Crash, durable
  <2> QED BY <2>1, <2>2, <2>3 DEF FinalCovered, Keeps, Final
<1>3. ASSUME NEW s \in Slots, Disconnect(s) PROVE FinalCovered'
  <2>1. \A st \in Final : ~Settling(reqs[s], st)
    BY <1>3 DEF Disconnect, Waiting, Settling
  <2> QED BY <1>3, <2>1, KeepsTables, CoverClose DEF Disconnect, durable, history
<1> QED BY <1>1, <1>2, <1>3

LEMMA InitCover == Init => FinalCovered
  BY DEF Init, FinalCovered, NoRow

\* In every state a final status is covered, or a handler is on its way to it.
THEOREM FinalCoveredHolds == Spec => []FinalCovered
<1>1. TypeOK /\ TypeOK' /\ ApplyChain /\ FinalCovered /\ [Next]_vars => FinalCovered'
  BY ReceiveCover, ProceedCover, OtherCover DEF Next
<1> QED BY <1>1, InitCover, TypeCorrect, ApplyChainHolds, PTL DEF Spec

\* Whatever overlaps, is retried or held back, a run that is stored APPLIED or
\* FAILED has its audit entries and its undo row once the handlers are done,
\* unless a handler of a report of that status was cut on its way: by a crash, or
\* by a body it could not sum or bind.
THEOREM ReportsCompleteHolds == Spec => []ReportsComplete
<1>1. TypeOK /\ FinalCovered => ReportsComplete
  BY FreeCovered DEF ReportsComplete, Final
<1> QED BY <1>1, FinalCoveredHolds, TypeCorrect, PTL
=============================================================================
