-------------------------- MODULE RunSerialProofs ---------------------------
(***************************************************************************)
(* What RunBackend guarantees when requests about a run do not overlap,    *)
(* for every set of runs, slots and plans and every time to live: tokens   *)
(* agree with the stored run, a bundle is issued once, the status never    *)
(* goes back, lapsed runs are frozen, and the promised lifecycle           *)
(* (RunLifecycle) is implemented.                                          *)
(***************************************************************************)
EXTENDS RunBackendProofs

\* A step that touches one slot and one run keeps requests fresh when no other
\* request is about that run and the slot holds the new row.
LEMMA FreshFrame ==
    ASSUME TypeOK, FreshRequests, NEW s \in Slots, NEW r \in Runs,
           \A t \in Slots \ {s} : /\ reqs'[t] = reqs[t]
                                  /\ reqs[t] # Nil => reqs[t].run # r,
           reqs'[s] # Nil => reqs'[s].run = r /\ reqs'[s].snap = row'[r],
           \A x \in Runs \ {r} : row'[x] = row[x]
    PROVE  FreshRequests'
<1>1. ASSUME NEW t \in Slots, reqs'[t] # Nil
      PROVE  reqs'[t].snap = row'[reqs'[t].run]
  <2>1. CASE t = s BY <1>1, <2>1
  <2>2. CASE t # s BY <1>1, <2>2, RequestType DEF FreshRequests
  <2> QED BY <2>1, <2>2
<1>2. ASSUME NEW t \in Slots, NEW u \in Slots, t # u, reqs'[t] # Nil, reqs'[u] # Nil
      PROVE  reqs'[t].run # reqs'[u].run
  BY <1>2 DEF FreshRequests
<1> QED BY <1>1, <1>2 DEF FreshRequests

\* Taking a request when no other request about the run is open.
LEMMA FreshOpen ==
    ASSUME TypeOK, FreshRequests, ~Overlap, NEW s \in Slots, NEW r \in Runs,
           NEW op, NEW run, NEW token, NEW report, NEW hash,
           Open(s, r, op, run, token, report, hash),
           row'[r] = run,
           \A x \in Runs \ {r} : row'[x] = row[x]
    PROVE  FreshRequests'
<1>1. \A t \in Slots \ {s} : /\ reqs'[t] = reqs[t]
                             /\ reqs[t] # Nil => reqs[t].run # r
  BY DEF Open, TypeOK
<1>2. reqs'[s] = [op |-> op, pc |-> "awaiting", run |-> r, snap |-> run,
                  plan |-> plans[r], token |-> token, report |-> report,
                  body |-> "sound", hash |-> hash]
  BY DEF Open, TypeOK
<1>3. reqs'[s].run = r /\ reqs'[s].snap = row'[r]
  BY <1>2
<1> QED BY <1>1, <1>3, FreshFrame

\* Going on with a request: only the row of its run may change.
LEMMA FreshProceed ==
    ASSUME TypeOK, FreshRequests, NEW s \in Slots, reqs[s] # Nil,
           \A t \in Slots \ {s} : reqs'[t] = reqs[t],
           reqs'[s] # Nil => /\ reqs'[s].run = reqs[s].run
                             /\ reqs'[s].snap = row'[reqs[s].run],
           \A x \in Runs \ {reqs[s].run} : row'[x] = row[x]
    PROVE  FreshRequests'
<1>1. reqs[s].run \in Runs
  BY RequestType
<1>2. \A t \in Slots \ {s} : reqs[t] # Nil => reqs[t].run # reqs[s].run
  BY DEF FreshRequests
<1> QED BY <1>1, <1>2, FreshFrame

LEMMA FreshClose ==
    ASSUME TypeOK, FreshRequests, NEW s \in Slots, reqs[s] # Nil, Close(s),
           \A x \in Runs \ {reqs[s].run} : row'[x] = row[x]
    PROVE  FreshRequests'
<1>1. reqs'[s] = Nil /\ \A t \in Slots \ {s} : reqs'[t] = reqs[t]
  BY DEF Close, TypeOK
<1> QED BY <1>1, FreshProceed

\* The three facts about rows, approvals and tokens.
Tables == NotIssuedBefore /\ IssuedOnce /\ TokensAgreeWithRow

LEMMA TablesFrame ==
    ASSUME Tables, UNCHANGED <<row, approvals, held>>
    PROVE  Tables'
  BY DEF Tables, NotIssuedBefore, IssuedOnce, TokensAgreeWithRow

\* Before the approval there is neither a bundle nor a token.
LEMMA NothingOut ==
    ASSUME TypeOK, ApplyChain, Tables, NEW r \in Runs,
           row[r].status \in {"NONE", "CREATED", "PREVIEW_READY"}
    PROVE  approvals[r] = 0 /\ held[r] = {}
<1>1. Order(row[r].status) < Order("APPROVED")
  BY OrderFacts
<1>2. approvals[r] = 0
  BY <1>1 DEF Tables, NotIssuedBefore
<1> QED BY <1>2 DEF ApplyChain

\* Writing the row of a run about which nothing is out.
LEMMA TablesEarly ==
    ASSUME TypeOK, TypeOK', ApplyChain, Tables, NEW r \in Runs,
           row[r].status \in {"NONE", "CREATED", "PREVIEW_READY"},
           \A x \in Runs \ {r} : row'[x] = row[x],
           UNCHANGED <<approvals, held>>
    PROVE  Tables'
<1>1. approvals[r] = 0 /\ held[r] = {}
  BY NothingOut
<1> QED BY <1>1 DEF Tables, NotIssuedBefore, IssuedOnce, TokensAgreeWithRow

LEMMA ReceiveSerial ==
    ASSUME TypeOK, TypeOK', ApplyChain, SerialInv, ~Overlap,
           NEW s \in Slots, NEW r \in Runs, Receive(s, r)
    PROVE  SerialInv'
<1>0. FreshRequests /\ Tables
  BY DEF SerialInv, Tables
<1>1. CASE CreatePlan(s, r)
  <2>1. row' = [row EXCEPT ![r] = Created]
    BY <1>1 DEF CreatePlan, Store
  <2>2. row'[r] = Created /\ \A x \in Runs \ {r} : row'[x] = row[x]
    BY <2>1 DEF TypeOK
  <2>3. FreshRequests'
    BY <1>0, <1>1, <2>2, FreshOpen DEF CreatePlan
  <2>4. row[r].status = "NONE"
    BY <1>1 DEF CreatePlan, NoRow
  <2>5. Tables'
    BY <1>0, <1>1, <2>2, <2>4, TablesEarly DEF CreatePlan, history
  <2> QED BY <2>3, <2>5 DEF SerialInv, Tables
<1>2. ASSUME UNCHANGED <<row, approvals, held>>,
             NEW op, NEW token, NEW report, NEW hash,
             Open(s, r, op, row[r], token, report, hash)
      PROVE  SerialInv'
  <2>1. row'[r] = row[r] /\ \A x \in Runs \ {r} : row'[x] = row[x]
    BY <1>2
  <2>2. FreshRequests'
    BY <1>0, <1>2, <2>1, FreshOpen
  <2>3. Tables'
    BY <1>0, <1>2, TablesFrame
  <2> QED BY <2>2, <2>3 DEF SerialInv, Tables
<1>3. CASE OpenApprove(s, r)
  BY <1>2, <1>3 DEF OpenApprove, durable, history
<1>4. CASE OpenResult(s, r)
  BY <1>2, <1>4 DEF OpenResult, durable
<1>5. CASE OpenPrepareUndo(s, r)
  BY <1>2, <1>5 DEF OpenPrepareUndo, durable, history
<1>6. CASE OpenUndoResult(s, r)
  BY <1>2, <1>6 DEF OpenUndoResult, durable, history
<1> QED BY <1>1, <1>3, <1>4, <1>5, <1>6 DEF Receive

\* What going on with a request that is not stale does to the row of its run:
\* nothing, or the Run object is stored with its status moved forward.
LEMMA ProceedRow ==
    ASSUME TypeOK, TypeOK', ApplyChain, NEW s \in Slots, Proceed(s),
           reqs[s] # Nil => reqs[s].snap = row[reqs[s].run]
    PROVE  /\ reqs[s] # Nil
           /\ \A x \in Runs \ {reqs[s].run} : row'[x] = row[x]
           /\ Order(row[reqs[s].run].status) <= Order(row'[reqs[s].run].status)
<1> DEFINE q == reqs[s]
<1>0. q # Nil
  BY DEF Proceed, FinishPlan, RejectPlan, FinishApprove, FinishResult, RecordAudit,
         MarkUndo, Choke, FinishPrepareUndo, FinishUndoResult, Refuse, Running, Waiting
<1>1. q.snap = row[q.run] /\ RequestChain(q) /\ q.run \in Runs /\ q.snap \in Row
  BY <1>0, RequestType DEF ApplyChain
<1>2. ASSUME NEW run \in Row, Store(q.run, run), Order(q.snap.status) <= Order(run.status)
      PROVE  /\ \A x \in Runs \ {q.run} : row'[x] = row[x]
             /\ Order(row[q.run].status) <= Order(row'[q.run].status)
  BY <1>1, <1>2 DEF Store, TypeOK
<1>3. CASE row' = row
  <2>1. Order(row[q.run].status) \in Nat
    BY <1>1, OrderFacts DEF Row
  <2> QED BY <1>0, <1>3, <2>1
<1>4. CASE FinishPlan(s)
  <2>1. q.snap.status = "CREATED"
    BY <1>1, <1>4 DEF FinishPlan, Running, Waiting, RequestChain
  <2>2. PICK p \in Plans :
          Store(q.run, [q.snap EXCEPT !.status = "PREVIEW_READY", !.hash = p,
                                      !.expires = now + PreviewTTL])
    BY <1>4 DEF FinishPlan
  <2> DEFINE run == [q.snap EXCEPT !.status = "PREVIEW_READY", !.hash = p,
                                   !.expires = now + PreviewTTL]
  <2>3. run \in Row /\ run.status = "PREVIEW_READY"
    <3>1. now + PreviewTTL \in Nat
      BY RunBackendAssumption DEF TypeOK
    <3>2. "PREVIEW_READY" \in StoredStatus /\ p \in MaybePlan
      BY DEF StoredStatus, MaybePlan
    <3> QED BY <1>1, <3>1, <3>2 DEF Row
  <2>4. Order(q.snap.status) <= Order(run.status)
    BY <2>1, <2>3, OrderFacts
  <2>5. Store(q.run, run)
    BY <2>2
  <2> HIDE DEF run
  <2> QED BY <1>0, <1>2, <2>3, <2>4, <2>5
<1>5. CASE FinishApprove(s)
  <2>1. q.snap.status = "PREVIEW_READY"
    BY <1>1, <1>5 DEF FinishApprove, Running, Waiting, RequestChain
  <2> DEFINE run == [q.snap EXCEPT !.status = "APPROVED",
                                   !.targets = ActionTargets(q.plan), !.result = "NONE"]
  <2>2. run \in Row /\ run.status = "APPROVED"
    BY <1>0, <1>1, RequestType, ActionTargetsType DEF Row, StoredStatus
  <2>3. Store(q.run, run)
    BY <1>5 DEF FinishApprove
  <2>4. Order(q.snap.status) <= Order(run.status)
    BY <2>1, <2>2, OrderFacts
  <2> HIDE DEF run
  <2> QED BY <1>0, <1>2, <2>2, <2>3, <2>4
<1>6. CASE FinishResult(s)
  <2> DEFINE to  == Outcome(q.report, q.snap.status)
             run == [q.snap EXCEPT !.status = to, !.result = q.report]
  <2>1. run \in Row /\ run.status = to
    BY <1>0, <1>1, RequestType, OutcomeNoneType DEF Row
  <2>2. Store(q.run, run) /\ CanTransition(q.snap.status, to)
    BY <1>6 DEF FinishResult
  <2> QED BY <1>0, <1>2, <2>1, <2>2 DEF CanTransition
<1>7. CASE ~(FinishPlan(s) \/ FinishApprove(s) \/ FinishResult(s))
  <2>1. row' = row
    BY <1>7 DEF Proceed, RejectPlan, RecordAudit, MarkUndo, Choke, FinishPrepareUndo,
                FinishUndoResult, Refuse, durable
  <2> QED BY <1>3, <2>1
<1> QED BY <1>4, <1>5, <1>6, <1>7

LEMMA ProceedFresh ==
    ASSUME TypeOK, TypeOK', ApplyChain, FreshRequests, NEW s \in Slots, Proceed(s)
    PROVE  FreshRequests'
<1> DEFINE q == reqs[s]
<1>0. /\ q # Nil /\ q \in Request /\ q.run \in Runs /\ q.snap = row[q.run]
      /\ \A x \in Runs \ {q.run} : row'[x] = row[x]
  BY ProceedRow, RequestType DEF FreshRequests
<1>1. CASE Close(s)
  BY <1>0, <1>1, FreshClose
<1>2. ASSUME NEW run, Store(q.run, run),
             NEW body,
             reqs' = [reqs EXCEPT ![s].pc = "auditing", ![s].snap = run, ![s].body = body]
      PROVE  FreshRequests'
  <2>1. row'[q.run] = run
    BY <1>0, <1>2 DEF Store, TypeOK
  <2>2. reqs' = [reqs EXCEPT ![s] = [q EXCEPT !.pc = "auditing", !.snap = run, !.body = body]]
    BY <1>2 DEF TypeOK
  <2>3. reqs'[s] = [q EXCEPT !.pc = "auditing", !.snap = run, !.body = body]
    BY <2>2 DEF TypeOK
  <2>4. reqs'[s].run = q.run /\ reqs'[s].snap = run
    BY <1>0, <2>3 DEF Request
  <2>5. \A t \in Slots \ {s} : reqs'[t] = reqs[t]
    BY <2>2 DEF TypeOK
  <2> QED BY <1>0, <2>1, <2>4, <2>5, FreshProceed
<1>3. CASE FinishPlan(s)
  <2>1. PICK run : Store(q.run, run) /\ reqs' = [reqs EXCEPT ![s].pc = "auditing", ![s].snap = run]
    BY <1>3 DEF FinishPlan
  <2>2. reqs' = [reqs EXCEPT ![s].pc = "auditing", ![s].snap = run, ![s].body = q.body]
    <3>1. [q EXCEPT !.pc = "auditing", !.snap = run, !.body = q.body]
              = [q EXCEPT !.pc = "auditing", !.snap = run]
      BY <1>0 DEF Request
    <3> QED BY <2>1, <3>1 DEF TypeOK
  <2> QED BY <1>2, <2>1, <2>2
<1>4. CASE FinishResult(s)
  BY <1>2, <1>4 DEF FinishResult
<1>5. CASE RecordAudit(s) /\ ~Close(s)
  <2>1. reqs' = [reqs EXCEPT ![s].pc = "marking"] /\ row' = row
    BY <1>5 DEF RecordAudit
  <2>2. reqs'[s] = [q EXCEPT !.pc = "marking"] /\ \A t \in Slots \ {s} : reqs'[t] = reqs[t]
    BY <2>1 DEF TypeOK
  <2>3. reqs'[s].run = q.run /\ reqs'[s].snap = row'[q.run]
    BY <1>0, <2>1, <2>2 DEF Request
  <2> QED BY <1>0, <2>2, <2>3, FreshProceed
<1> QED BY <1>1, <1>3, <1>4, <1>5 DEF Proceed, RejectPlan, FinishApprove, MarkUndo, Choke,
                                     FinishPrepareUndo, FinishUndoResult, Refuse

LEMMA ProceedTables ==
    ASSUME TypeOK, TypeOK', ApplyChain, FreshRequests, Tables, NEW s \in Slots, Proceed(s)
    PROVE  Tables'
<1> DEFINE q == reqs[s]
           r == q.run
<1>0. /\ q # Nil /\ q \in Request /\ r \in Runs /\ q.snap = row[r] /\ q.snap \in Row
      /\ \A x \in Runs \ {r} : row'[x] = row[x]
      /\ Order(row[r].status) <= Order(row'[r].status)
      /\ RequestChain(q)
  BY ProceedRow, RequestType DEF FreshRequests, ApplyChain
<1>1. CASE FinishPlan(s)
  <2>1. row[r].status = "CREATED"
    BY <1>0, <1>1 DEF FinishPlan, Running, Waiting, RequestChain
  <2>2. UNCHANGED <<approvals, held>>
    BY <1>1 DEF FinishPlan, history
  <2> HIDE DEF q, r
  <2> QED BY <1>0, <2>1, <2>2, TablesEarly
<1>2. CASE FinishApprove(s)
  <2> DEFINE targets == ActionTargets(q.plan)
             token   == BuildToken(r, q.snap.hash, targets, "apply", q.plan)
             run     == [q.snap EXCEPT !.status = "APPROVED", !.targets = targets,
                                       !.result = "NONE"]
  <2>1. row[r].status = "PREVIEW_READY"
    BY <1>0, <1>2 DEF FinishApprove, Running, Waiting, RequestChain
  <2>2. approvals[r] = 0 /\ held[r] = {}
    BY <1>0, <2>1, NothingOut
  <2>3. /\ approvals' = [approvals EXCEPT ![r] = @ + 1]
        /\ held' = [held EXCEPT ![r] = @ \cup {token}] \/ held' = held
        /\ Store(r, run)
    BY <1>2 DEF FinishApprove
  <2>4. approvals'[r] = 1 /\ \A x \in Runs \ {r} : approvals'[x] = approvals[x]
    BY <1>0, <2>2, <2>3 DEF TypeOK
  <2>5. held'[r] \subseteq {token} /\ \A x \in Runs \ {r} : held'[x] = held[x]
    BY <1>0, <2>2, <2>3 DEF TypeOK
  <2>6. row'[r] = run
    BY <1>0, <2>3 DEF Store, TypeOK
  <2>7. run.status = "APPROVED" /\ run.hash = q.snap.hash /\ run.targets = targets
    BY <1>0 DEF Row
  <2>8. token.run = r /\ token.hash = q.snap.hash /\ token.targets = targets
    BY DEF BuildToken
  <2> HIDE DEF q, r, token, run, targets
  <2>9. IssuedOnce'
    BY <1>0, <2>4 DEF IssuedOnce, Tables
  <2>10. NotIssuedBefore'
    BY <1>0, <2>4, <2>6, <2>7, OrderFacts DEF NotIssuedBefore, Tables
  <2>11. TokensAgreeWithRow'
    BY <1>0, <2>5, <2>6, <2>7, <2>8 DEF TokensAgreeWithRow, Tables
  <2> QED BY <2>9, <2>10, <2>11 DEF Tables
<1>3. CASE FinishResult(s)
  <2> DEFINE run == [q.snap EXCEPT !.status = Outcome(q.report, q.snap.status),
                                   !.result = q.report]
  <2>1. UNCHANGED <<approvals, held>> /\ Store(r, run) /\ q.op = "result"
    BY <1>3 DEF FinishResult, history, Running
  <2>2. approvals[r] > 0
    BY <1>0, <2>1 DEF RequestChain, ApplyChain
  <2>3. row'[r] = run
    BY <1>0, <2>1 DEF Store, TypeOK
  <2>4. run.hash = row[r].hash /\ run.targets = row[r].targets
    BY <1>0 DEF Row
  <2> HIDE DEF q, r, run
  <2>5. Order(row[r].status) \in Nat /\ Order(row'[r].status) \in Nat
    BY <1>0, OrderFacts DEF TypeOK, Row
  <2>6. ~(Order(row[r].status) < Order("APPROVED"))
    BY <1>0, <2>2 DEF Tables, NotIssuedBefore, TypeOK
  <2>7. NotIssuedBefore'
    BY <1>0, <2>1, <2>5, <2>6, OrderFacts DEF Tables, NotIssuedBefore
  <2>8. IssuedOnce'
    BY <2>1 DEF Tables, IssuedOnce
  <2>9. TokensAgreeWithRow'
    BY <1>0, <2>1, <2>3, <2>4 DEF Tables, TokensAgreeWithRow
  <2> QED BY <2>7, <2>8, <2>9 DEF Tables
<1>4. CASE FinishPrepareUndo(s)
  <2> DEFINE token == BuildToken(r, q.snap.hash, q.snap.targets, "undo", Nil)
  <2>1. /\ UNCHANGED <<row, approvals>>
        /\ held' = [held EXCEPT ![r] = @ \cup {token}]
    BY <1>4 DEF FinishPrepareUndo, durable, history
  <2>2. token.run = r /\ token.hash = row[r].hash /\ token.targets = row[r].targets
    BY <1>0 DEF BuildToken
  <2> HIDE DEF q, r, token
  <2>3. TokensAgreeWithRow'
    BY <1>0, <2>1, <2>2 DEF Tables, TokensAgreeWithRow, TypeOK
  <2> QED BY <2>1, <2>3 DEF Tables, NotIssuedBefore, IssuedOnce
<1>5. CASE ~(FinishPlan(s) \/ FinishApprove(s) \/ FinishResult(s) \/ FinishPrepareUndo(s))
  <2>1. UNCHANGED <<row, approvals, held>>
    BY <1>5 DEF Proceed, RejectPlan, RecordAudit, MarkUndo, Choke, FinishUndoResult, Refuse,
                durable, history
  <2> QED BY <2>1, TablesFrame
<1> QED BY <1>1, <1>2, <1>3, <1>4, <1>5

LEMMA OtherSerial ==
    ASSUME TypeOK, SerialInv,
           Tick \/ Crash \/ UNCHANGED vars \/ \E s \in Slots : Disconnect(s)
    PROVE  SerialInv'
<1>0. FreshRequests /\ Tables
  BY DEF SerialInv, Tables
<1>1. UNCHANGED <<row, approvals, held>>
  <2>1. CASE Tick \/ Crash \/ UNCHANGED vars
    BY <2>1 DEF Tick, Crash, vars, durable, history
  <2>2. ASSUME NEW s \in Slots, Disconnect(s) PROVE UNCHANGED <<row, approvals, held>>
    BY <2>2 DEF Disconnect, durable, history
  <2> QED BY <2>1, <2>2
<1>2. Tables'
  BY <1>0, <1>1, TablesFrame
<1>3. ASSUME Tick \/ UNCHANGED vars PROVE FreshRequests'
  BY <1>0, <1>1, <1>3 DEF Tick, vars, volatile, FreshRequests
<1>4. ASSUME Crash PROVE FreshRequests'
  BY <1>4 DEF Crash, FreshRequests
<1>5. ASSUME NEW s \in Slots, Disconnect(s) PROVE FreshRequests'
  <2>1. reqs[s] # Nil /\ Close(s)
    BY <1>5 DEF Disconnect, Waiting
  <2> QED BY <1>0, <1>1, <2>1, FreshClose
<1> QED BY <1>2, <1>3, <1>4, <1>5 DEF SerialInv, Tables

LEMMA InitSerial == Init => SerialInv
  BY DEF Init, SerialInv, FreshRequests, NotIssuedBefore, IssuedOnce, TokensAgreeWithRow

LEMMA NextSerial ==
    ASSUME ~Overlap, TypeOK, TypeOK', ApplyChain, SerialInv, [Next]_vars
    PROVE  SerialInv'
<1>1. ASSUME NEW s \in Slots, Proceed(s) PROVE SerialInv'
  <2>1. FreshRequests /\ Tables
    BY DEF SerialInv, Tables
  <2> QED BY <1>1, <2>1, ProceedFresh, ProceedTables DEF SerialInv, Tables
<1> QED BY <1>1, ReceiveSerial, OtherSerial DEF Next

\* No step of a run without overlapping requests moves its status back.
LEMMA StatusForward ==
    ASSUME TypeOK, TypeOK', ApplyChain, SerialInv, [Next]_vars
    PROVE  \A r \in Runs : Order(row[r].status) <= Order(row'[r].status)
<1>0. \A r \in Runs : Order(row[r].status) \in Nat /\ Order(row'[r].status) \in Nat
  BY OrderFacts DEF TypeOK, Row
<1>1. ASSUME UNCHANGED row
      PROVE  \A r \in Runs : Order(row[r].status) <= Order(row'[r].status)
  BY <1>0, <1>1
<1>2. ASSUME NEW s \in Slots, Proceed(s)
      PROVE  \A r \in Runs : Order(row[r].status) <= Order(row'[r].status)
  <2>1. reqs[s] # Nil => reqs[s].snap = row[reqs[s].run]
    BY DEF SerialInv, FreshRequests
  <2>2. /\ \A x \in Runs \ {reqs[s].run} : row'[x] = row[x]
        /\ Order(row[reqs[s].run].status) <= Order(row'[reqs[s].run].status)
    BY <1>2, <2>1, ProceedRow
  <2> QED BY <1>0, <2>2
<1>3. ASSUME NEW s \in Slots, NEW r \in Runs, CreatePlan(s, r)
      PROVE  \A x \in Runs : Order(row[x].status) <= Order(row'[x].status)
  <2>1. /\ \A x \in Runs \ {r} : row'[x] = row[x]
        /\ row[r].status = "NONE"
    BY <1>3 DEF CreatePlan, Store, NoRow, TypeOK
  <2>2. Order(row[r].status) = 0
    BY <2>1, OrderFacts
  <2> QED BY <1>0, <2>1, <2>2
<1>4. ASSUME NEW s \in Slots, NEW r \in Runs, Receive(s, r), ~CreatePlan(s, r)
      PROVE  UNCHANGED row
  BY <1>4 DEF Receive, OpenApprove, OpenResult, OpenPrepareUndo, OpenUndoResult, durable
<1>5. ASSUME Tick \/ Crash \/ UNCHANGED vars PROVE UNCHANGED row
  BY <1>5 DEF Tick, Crash, vars, durable
<1>6. ASSUME NEW s \in Slots, Disconnect(s) PROVE UNCHANGED row
  BY <1>6 DEF Disconnect, durable
<1> QED BY <1>1, <1>2, <1>3, <1>4, <1>5, <1>6 DEF Next

-----------------------------------------------------------------------------
(* Theorems *)

\* Without overlap, requests are never stale and the tables agree.
THEOREM SerialInvHolds == ~Overlap => (Spec => []SerialInv)
<1> SUFFICES ASSUME ~Overlap PROVE Spec => []SerialInv
  OBVIOUS
<1>1. TypeOK /\ TypeOK' /\ ApplyChain /\ SerialInv /\ [Next]_vars => SerialInv'
  BY NextSerial
<1> QED BY <1>1, InitSerial, TypeCorrect, ApplyChainHolds, PTL DEF Spec

\* Without overlap, every token a client holds agrees with the stored run.
THEOREM TokensAgree == ~Overlap => (Spec => []TokensAgreeWithRow)
<1>1. SerialInv => TokensAgreeWithRow
  BY DEF SerialInv
<1> QED BY <1>1, SerialInvHolds, PTL

\* Without overlap, the bundle of a run is issued at most once.
THEOREM IssuedAtMostOnce == ~Overlap => (Spec => []IssuedOnce)
<1>1. SerialInv => IssuedOnce
  BY DEF SerialInv
<1> QED BY <1>1, SerialInvHolds, PTL

\* Without overlap, the status of a run never goes back.
THEOREM StatusMovesForward == ~Overlap => (Spec => StatusNeverReturns)
<1> SUFFICES ASSUME ~Overlap PROVE Spec => StatusNeverReturns
  OBVIOUS
<1>1. TypeOK /\ TypeOK' /\ ApplyChain /\ SerialInv /\ [Next]_vars
         => [\A r \in Runs : Order(row[r].status) <= Order(row'[r].status)]_vars
  BY StatusForward
<1> QED BY <1>1, SerialInvHolds, TypeCorrect, ApplyChainHolds, PTL DEF Spec, StatusNeverReturns

\* Whatever overlaps, a status goes back only by storing a stale Run object.
THEOREM OnlyStaleWritesMoveBack == Spec => OnlyStaleWritesReturn
<1> DEFINE A == \A s \in Slots :
          reqs[s] # Nil /\ reqs'[s] # reqs[s] /\ reqs[s].snap = row[reqs[s].run]
          => Order(row[reqs[s].run].status) <= Order(row'[reqs[s].run].status)
<1>1. TypeOK /\ TypeOK' /\ ApplyChain /\ [Next]_vars => [A]_vars
  <2> SUFFICES ASSUME TypeOK, TypeOK', ApplyChain, Next,
                      NEW s \in Slots, reqs[s] # Nil, reqs'[s] # reqs[s],
                      reqs[s].snap = row[reqs[s].run]
               PROVE  Order(row[reqs[s].run].status) <= Order(row'[reqs[s].run].status)
    OBVIOUS
  <2>0. reqs[s].run \in Runs /\ Order(row[reqs[s].run].status) \in Nat
    BY RequestType, OrderFacts DEF TypeOK, Row
  <2>1. CASE UNCHANGED row
    BY <2>0, <2>1
  <2>2. CASE Proceed(s)
    BY <2>2, ProceedRow
  <2>3. ASSUME NEW t \in Slots, Proceed(t), t # s PROVE FALSE
    BY <2>3 DEF Proceed, FinishPlan, RejectPlan, FinishApprove, FinishResult, RecordAudit,
         MarkUndo, Choke, FinishPrepareUndo, FinishUndoResult, Refuse, Close, TypeOK
  <2>4. ASSUME NEW t \in Slots, NEW r \in Runs, Receive(t, r) PROVE FALSE
    BY <2>4 DEF Receive, CreatePlan, OpenApprove, OpenResult, OpenPrepareUndo,
         OpenUndoResult, Open, TypeOK
  <2>5. ASSUME Tick \/ Crash PROVE UNCHANGED row
    BY <2>5 DEF Tick, Crash, durable
  <2>6. ASSUME NEW t \in Slots, Disconnect(t) PROVE UNCHANGED row
    BY <2>6 DEF Disconnect, durable
  <2> QED BY <2>1, <2>2, <2>3, <2>4, <2>5, <2>6 DEF Next
<1> QED BY <1>1, TypeCorrect, ApplyChainHolds, PTL DEF Spec, OnlyStaleWritesReturn

-----------------------------------------------------------------------------
(* The promised lifecycle *)

\* The mapped status of every run.
Phase == [r \in Runs |-> row[r].status]

\* The lifecycle compares statuses as the backend does.
LEMMA SameTransition ==
    \A from, to : CanTransition(from, to) <=> Lifecycle!CanTransition(from, to)
  BY DEF CanTransition, Lifecycle!CanTransition, Order, Lifecycle!Order

\* Storing a Run object changes the mapped status of its run and no other.
LEMMA PhaseStored ==
    ASSUME TypeOK, NEW r \in Runs, NEW run, Store(r, run)
    PROVE  Phase' = [Phase EXCEPT ![r] = run.status]
  BY DEF Phase, Store, TypeOK

LEMMA InitRefines == Init => Lifecycle!LifecycleInit
  BY DEF Init, NoRow, Lifecycle!LifecycleInit

\* A step that leaves rows, approvals and undo alone is a stutter.
LEMMA StutterRefines ==
    ASSUME UNCHANGED <<row, approvals, undo>>
    PROVE  UNCHANGED Lifecycle!lifecycle
  BY DEF Lifecycle!lifecycle

\* Taking a request: creating the run, or a stutter.
LEMMA ReceiveRefines ==
    ASSUME TypeOK, NEW s \in Slots, NEW r \in Runs, Receive(s, r)
    PROVE  Lifecycle!LifecycleNext \/ UNCHANGED Lifecycle!lifecycle
<1>1. CASE CreatePlan(s, r)
  <2>1. Store(r, Created) /\ Created.status = "CREATED" /\ Phase[r] = "NONE"
    BY <1>1 DEF CreatePlan, Created, NoRow, Phase
  <2>2. Phase' = [Phase EXCEPT ![r] = "CREATED"]
    BY <2>1, PhaseStored
  <2>3. Lifecycle!Create(r)
    BY <1>1, <2>1, <2>2 DEF CreatePlan, history, Phase, Lifecycle!Create, Lifecycle!Move
  <2> QED BY <2>3 DEF Lifecycle!LifecycleNext
<1>2. CASE ~CreatePlan(s, r)
  BY <1>2, StutterRefines DEF Receive, OpenApprove, OpenResult, OpenPrepareUndo,
                              OpenUndoResult, durable, history
<1> QED BY <1>1, <1>2

\* What the checks of :result have established about the row by the time it is
\* stored: the run has been approved.
LEMMA ReportedIsApproved ==
    ASSUME TypeOK, ApplyChain, SerialInv, NEW s \in Slots, reqs[s] # Nil,
           reqs[s].op = "result"
    PROVE  row[reqs[s].run].status \in {"APPROVED", "APPLIED", "FAILED"}
<1>1. reqs[s].run \in Runs /\ reqs[s].token \in held[reqs[s].run]
  BY RequestType DEF ApplyChain, RequestChain
<1>2. approvals[reqs[s].run] > 0 /\ approvals[reqs[s].run] \in Nat
  BY <1>1 DEF ApplyChain, TypeOK
<1>3. ~(Order(row[reqs[s].run].status) < Order("APPROVED"))
  BY <1>1, <1>2 DEF SerialInv, NotIssuedBefore
<1>4. row[reqs[s].run].status \in StoredStatus
  BY <1>1 DEF TypeOK, Row
<1> QED BY <1>3, <1>4, OrderFacts DEF StoredStatus

LEMMA ProceedRefines ==
    ASSUME TypeOK, TypeOK', ApplyChain, SerialInv, NEW s \in Slots, Proceed(s)
    PROVE  Lifecycle!LifecycleNext \/ UNCHANGED Lifecycle!lifecycle
<1> DEFINE q == reqs[s]
<1>a. q # Nil /\ q.run \in Runs
  BY ProceedRow, RequestType DEF SerialInv, FreshRequests
<1>b. PICK r \in Runs : q.run = r
  BY <1>a
<1>0. /\ q \in Request /\ q.run = r /\ q.snap = row[r] /\ q.snap \in Row
      /\ RequestChain(q) /\ Phase[r] = row[r].status
  BY <1>a, <1>b, RequestType DEF SerialInv, FreshRequests, ApplyChain, Phase
<1>1. CASE FinishPlan(s)
  <2>1. Phase[r] = "CREATED" /\ UNCHANGED <<approvals, undo>>
    BY <1>0, <1>1 DEF FinishPlan, Running, Waiting, RequestChain, history
  <2>2. PICK p \in Plans :
          Store(r, [q.snap EXCEPT !.status = "PREVIEW_READY", !.hash = p,
                                  !.expires = now + PreviewTTL])
    BY <1>0, <1>1 DEF FinishPlan
  <2> DEFINE run == [q.snap EXCEPT !.status = "PREVIEW_READY", !.hash = p,
                                   !.expires = now + PreviewTTL]
  <2>3. run.status = "PREVIEW_READY" /\ Store(r, run)
    BY <1>0, <2>2 DEF Row
  <2> HIDE DEF q, run
  <2>4. Phase' = [Phase EXCEPT ![r] = "PREVIEW_READY"]
    BY <1>0, <2>3, PhaseStored
  <2>5. Lifecycle!Preview(r)
    BY <2>1, <2>4 DEF Phase, Lifecycle!Preview, Lifecycle!Move
  <2> QED BY <1>0, <2>5 DEF Lifecycle!LifecycleNext
<1>2. CASE FinishApprove(s)
  <2>1. /\ Phase[r] = "PREVIEW_READY" /\ undo' = undo
        /\ approvals' = [approvals EXCEPT ![r] = @ + 1]
    BY <1>0, <1>2 DEF FinishApprove, Running, Waiting, RequestChain
  <2> DEFINE run == [q.snap EXCEPT !.status = "APPROVED",
                                   !.targets = ActionTargets(q.plan), !.result = "NONE"]
  <2>2. run.status = "APPROVED" /\ Store(r, run)
    BY <1>0, <1>2 DEF FinishApprove, Row
  <2> HIDE DEF q, run
  <2>3. Phase' = [Phase EXCEPT ![r] = "APPROVED"]
    BY <1>0, <2>2, PhaseStored
  <2>4. Lifecycle!Approve(r)
    BY <2>1, <2>3 DEF Phase, Lifecycle!Approve, Lifecycle!Move
  <2> QED BY <1>0, <2>4 DEF Lifecycle!LifecycleNext
<1>3. CASE FinishResult(s)
  <2> DEFINE to  == Outcome(q.report, q.snap.status)
             run == [q.snap EXCEPT !.status = to, !.result = q.report]
  <2>1. /\ Phase[r] \in {"APPROVED", "APPLIED", "FAILED"}
        /\ UNCHANGED <<approvals, undo>> /\ CanTransition(Phase[r], to)
    BY <1>a, <1>0, <1>3, ReportedIsApproved DEF FinishResult, Running, history
  <2>2. run.status = to /\ Store(r, run)
    BY <1>0, <1>3 DEF FinishResult, Row
  <2>3. to \in {"APPLIED", "FAILED", Phase[r]}
    BY <1>0 DEF Outcome
  <2> HIDE DEF q, run, to
  <2>4. Phase' = [Phase EXCEPT ![r] = to]
    BY <1>0, <2>2, PhaseStored
  <2>5. CASE to \in {"APPLIED", "FAILED"}
    <3>1. PICK outcome \in {"APPLIED", "FAILED"} : to = outcome
      BY <2>5
    <3>2. Lifecycle!Settle(r, outcome)
      BY <2>1, <2>4, <3>1, SameTransition DEF Phase, Lifecycle!Settle
    <3> QED BY <3>2 DEF Lifecycle!LifecycleNext
  <2>6. CASE to = Phase[r]
    <3>1. Phase' = Phase
      BY <2>4, <2>6 DEF Phase
    <3> QED BY <2>1, <3>1 DEF Phase, Lifecycle!lifecycle
  <2> QED BY <2>3, <2>5, <2>6
<1>4. CASE MarkUndo(s)
  <2>1. /\ Phase[r] = "APPLIED" /\ row' = row /\ approvals' = approvals
        /\ undo' = [undo EXCEPT ![r] = "available"]
    BY <1>0, <1>4 DEF MarkUndo, RequestChain
  <2> HIDE DEF q
  <2>2. Lifecycle!OpenUndo(r)
    BY <2>1 DEF Phase, Lifecycle!OpenUndo
  <2> QED BY <1>0, <2>2 DEF Lifecycle!LifecycleNext
<1>5. CASE FinishUndoResult(s)
  <2>1. /\ UNCHANGED <<row, approvals>>
        /\ undo' = [undo EXCEPT ![r] = IF @ = "none" THEN "none" ELSE "consumed"]
    BY <1>0, <1>5 DEF FinishUndoResult, history
  <2> HIDE DEF q
  <2>2. CASE undo[r] = "available"
    <3>1. Lifecycle!CloseUndo(r)
      BY <2>1, <2>2 DEF Phase, Lifecycle!CloseUndo
    <3> QED BY <1>0, <3>1 DEF Lifecycle!LifecycleNext
  <2>3. CASE undo[r] \in {"none", "consumed"}
    <3>1. undo' = undo
      BY <2>1, <2>3 DEF TypeOK
    <3> QED BY <2>1, <3>1, StutterRefines
  <2> QED BY <1>0, <2>2, <2>3 DEF TypeOK
<1>6. CASE RejectPlan(s) \/ RecordAudit(s) \/ Choke(s) \/ FinishPrepareUndo(s) \/ Refuse(s)
  BY <1>6, StutterRefines DEF RejectPlan, RecordAudit, Choke, FinishPrepareUndo, Refuse,
                              durable, history
<1> QED BY <1>1, <1>2, <1>3, <1>4, <1>5, <1>6 DEF Proceed

LEMMA NextRefines ==
    ASSUME TypeOK, TypeOK', ApplyChain, SerialInv, [Next]_vars
    PROVE  [Lifecycle!LifecycleNext]_(Lifecycle!lifecycle)
<1>1. ASSUME Tick \/ Crash \/ UNCHANGED vars PROVE UNCHANGED Lifecycle!lifecycle
  BY <1>1, StutterRefines DEF Tick, Crash, vars, durable, history
<1>2. ASSUME NEW s \in Slots, Disconnect(s) PROVE UNCHANGED Lifecycle!lifecycle
  BY <1>2, StutterRefines DEF Disconnect, durable, history
<1> QED BY <1>1, <1>2, ReceiveRefines, ProceedRefines DEF Next

-----------------------------------------------------------------------------
(* An expired run *)

\* Going on with a request about a lapsed run leaves its tables alone.
LEMMA ProceedFrozen ==
    ASSUME TypeOK, TypeOK', ApplyChain, SerialInv, NEW r \in Runs, Lapsed(r),
           NEW s \in Slots, Proceed(s)
    PROVE  row'[r] = row[r] /\ audit'[r] = audit[r] /\ undo'[r] = undo[r]
<1> DEFINE q == reqs[s]
<1>0. /\ q # Nil /\ q.run \in Runs /\ q.snap = row[q.run] /\ RequestChain(q)
      /\ q.pc = "awaiting" /\ now \in Nat
      /\ \A x \in Runs \ {q.run} : row'[x] = row[x]
  BY ProceedRow, RequestType DEF SerialInv, FreshRequests, ApplyChain, Lapsed, LoopFree, TypeOK
<1>1. row[r].status \in {"APPROVED", "APPLIED", "FAILED"}
  <2>1. row[r].status \in StoredStatus
    BY DEF TypeOK, Row
  <2>2. Order(row[r].status) >= 6
    BY OrderFacts DEF Lapsed
  <2> QED BY <2>1, <2>2, OrderFacts DEF StoredStatus
<1>2. ~RecordAudit(s) /\ ~MarkUndo(s) /\ ~Choke(s)
  BY <1>0 DEF RecordAudit, MarkUndo, Choke
<1>3. CASE q.run # r
  BY <1>0, <1>2, <1>3 DEF Proceed, FinishPlan, RejectPlan, FinishApprove, FinishResult,
                  FinishPrepareUndo, FinishUndoResult, Refuse, TypeOK, durable
<1>4. CASE q.run = r
  <2>1. ~Verifies(q) \/ q.op \notin {"result", "undo_result"}
    <3> SUFFICES ASSUME Verifies(q), q.op \in {"result", "undo_result"} PROVE FALSE
      OBVIOUS
    <3>1. q.token \in held[r] /\ q.token.exp >= now
      BY <1>0, <1>4 DEF RequestChain, Verifies
    <3>2. q.token.exp < now /\ q.token.exp \in Nat
      BY <3>1 DEF Lapsed, TypeOK, Token
    <3> QED BY <1>0, <3>1, <3>2
  <2>2. ~FinishResult(s) /\ ~FinishUndoResult(s)
    BY <2>1 DEF FinishResult, FinishUndoResult, Running
  <2>3. ~FinishPlan(s) /\ ~FinishApprove(s)
    BY <1>0, <1>1, <1>4 DEF FinishPlan, FinishApprove, Running, Waiting, RequestChain
  <2> QED BY <1>2, <2>2, <2>3 DEF Proceed, RejectPlan, FinishPrepareUndo, Refuse, durable
<1> QED BY <1>3, <1>4

LEMMA NextFrozen ==
    ASSUME TypeOK, TypeOK', ApplyChain, SerialInv, [Next]_vars, NEW r \in Runs, Lapsed(r)
    PROVE  row'[r] = row[r] /\ audit'[r] = audit[r] /\ undo'[r] = undo[r]
<1>1. ASSUME UNCHANGED durable
      PROVE  row'[r] = row[r] /\ audit'[r] = audit[r] /\ undo'[r] = undo[r]
  BY <1>1 DEF durable
<1>2. ASSUME NEW s \in Slots, NEW x \in Runs, CreatePlan(s, x)
      PROVE  row'[r] = row[r] /\ audit'[r] = audit[r] /\ undo'[r] = undo[r]
  <2>1. row[x].status = "NONE" /\ ~(Order("NONE") >= Order("APPROVED"))
    BY <1>2, OrderFacts DEF CreatePlan, NoRow
  <2>2. x # r
    BY <2>1 DEF Lapsed
  <2> QED BY <1>2, <2>2 DEF CreatePlan, Store, TypeOK
<1>3. ASSUME NEW s \in Slots, NEW x \in Runs, Receive(s, x), ~CreatePlan(s, x)
      PROVE  UNCHANGED durable
  BY <1>3 DEF Receive, OpenApprove, OpenResult, OpenPrepareUndo, OpenUndoResult
<1>4. ASSUME Tick \/ Crash \/ UNCHANGED vars PROVE UNCHANGED durable
  BY <1>4 DEF Tick, Crash, vars
<1>5. ASSUME NEW s \in Slots, Disconnect(s) PROVE UNCHANGED durable
  BY <1>5 DEF Disconnect
<1> QED BY <1>1, <1>2, <1>3, <1>4, <1>5, ProceedFrozen DEF Next

-----------------------------------------------------------------------------
(* Theorems *)

\* Without overlap, the handlers, with their requests, tokens, clock, crashes
\* and four stores, implement the lifecycle of a run.
THEOREM Refinement == ~Overlap => (Spec => ImplementsLifecycle)
<1> SUFFICES ASSUME ~Overlap PROVE Spec => ImplementsLifecycle
  OBVIOUS
<1>1. TypeOK /\ TypeOK' /\ ApplyChain /\ SerialInv /\ [Next]_vars
         => [Lifecycle!LifecycleNext]_(Lifecycle!lifecycle)
  BY NextRefines
<1> QED BY <1>1, InitRefines, SerialInvHolds, TypeCorrect, ApplyChainHolds, PTL
        DEF Spec, ImplementsLifecycle, Lifecycle!LifecycleSpec

\* Without overlap, an approved run whose tokens have expired keeps its row, its
\* audit entries and its undo state.
THEOREM LapsedIsFrozen == ~Overlap => (Spec => FrozenWhenLapsed)
<1> SUFFICES ASSUME ~Overlap PROVE Spec => FrozenWhenLapsed
  OBVIOUS
<1>1. TypeOK /\ TypeOK' /\ ApplyChain /\ SerialInv /\ [Next]_vars
         => [\A r \in Runs : Lapsed(r) =>
                row'[r] = row[r] /\ audit'[r] = audit[r] /\ undo'[r] = undo[r]]_vars
  BY NextFrozen
<1> QED BY <1>1, SerialInvHolds, TypeCorrect, ApplyChainHolds, PTL DEF Spec, FrozenWhenLapsed
=============================================================================
