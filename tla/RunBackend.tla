----------------------------- MODULE RunBackend -----------------------------
(***************************************************************************)
(* The run API of the backend (backend/app/api/routes.py) over its stores: *)
(* the runs, audit and undo_state tables, durable and committed one        *)
(* statement at a time, and the plan cache of the process, lost when it    *)
(* restarts.                                                               *)
(*                                                                         *)
(* One process with one event loop serves the requests. A handler runs     *)
(* without interruption except where it awaits: planning awaits the        *)
(* provider, every other handler reads the run from the database and THEN  *)
(* awaits the request body. Between two commits of one handler nothing can *)
(* intervene but a crash, or an exception of the handler itself: the body  *)
(* of a report is used after its row is stored.                            *)
(***************************************************************************)
EXTENDS RunStatus, FiniteSets

CONSTANTS
    Runs,        \* run identifiers
    Slots,       \* requests the server has open at one time
    Plans,       \* plans the planner may accept; a plan stands for its hash
    Targetless,  \* the plans no action of which has a target (NO_OP only)
    Overlap,     \* TRUE: two requests about one run may be open together
    PreviewTTL,  \* preview_ttl_seconds, in clock ticks
    ApprovalTTL, \* approval_ttl_seconds, in clock ticks
    MaxTime,     \* bound: the clock stops here
    MaxReports,  \* bound: :result requests per run
    Nil          \* no plan, no token, no request

\* What a :result request may report: APPLIED, one of the four failures the
\* handler knows (FAILED_PARTIAL stands for them all), or any other string, the
\* field being a plain one.
Reports == {"APPLIED", "FAILED_PARTIAL", "UNKNOWN"}

\* What the handler can do with the parts of a :result body that are typed `Any':
\* all it needs; not sum affected_cells over action_results (null, a text, a sum
\* of more than 64 bits); not bind the ref of after_snapshot (a list, an object).
Bodies == {"sound", "uncountable", "unbindable"}

ASSUME RunBackendAssumption ==
    /\ Targetless \subseteq Plans
    /\ Overlap \in BOOLEAN
    /\ PreviewTTL \in Nat /\ ApprovalTTL \in Nat
    /\ MaxTime \in Nat /\ MaxReports \in Nat
    /\ Nil \notin Plans

VARIABLES
    row,        \* row[r]: the row of r in the runs table
    undo,       \* undo[r]: the row of r in undo_state
    audit,      \* audit[r][s]: entries of r with status s in the audit table
    plans,      \* plans[r]: the plan cache entry of r; lost on a restart
    reqs,       \* reqs[s]: the request in slot s, or Nil
    held,       \* held[r]: approval tokens for r that reached a client
    now,        \* the wall clock
    approvals,  \* history: how often a bundle of r was issued
    reports,    \* bound's counter: :result requests received for r
    torn        \* history: <<r, status, cause>> whose handler a crash or its body
                \* cut between commits

durable  == <<row, undo, audit>>
volatile == <<plans, reqs>>
history  == <<approvals, reports, torn>>
vars     == <<durable, volatile, held, now, history>>

-----------------------------------------------------------------------------
(* Data *)

MaybePlan == Plans \cup {Nil}

\* The columns of a runs row the handlers read back. `result' stands for
\* last_result_status.
Row == [status  : StoredStatus,
        hash    : MaybePlan,
        expires : Nat,
        targets : MaybePlan,
        result  : Reports \cup {"NONE"}]

NoRow == [status |-> "NONE", hash |-> Nil, expires |-> 0,
          targets |-> Nil, result |-> "NONE"]

\* A signed approval token: what its signature covers and its expiry. The last
\* two fields are the reply it came with: which handler issued it, and the plan
\* whose actions the bundle lists (Nil: none, and for the snapshot bundle of an
\* undo).
Token == [run : Runs, hash : MaybePlan, targets : MaybePlan, exp : Nat,
          for : {"apply", "undo"}, bundle : MaybePlan]

\* The target list the handler derives from a plan, and from no plan at all.
ActionTargets(p) == IF p \in Targetless THEN Nil ELSE p

Operations == {"plan", "approve", "result", "prepare_undo", "undo_result"}

\* An open request: the Run object it loaded (snap, plan) and its body.
Request ==
    [op    : Operations,
     pc    : {"awaiting", "auditing", "marking"},
     run   : Runs,
     snap  : Row,
     plan  : MaybePlan,
     token : Token \cup {Nil},
     report: Reports \cup {"NONE"},
     body  : Bodies,
     hash  : MaybePlan]

ASSUME NilAssumption == Nil \notin Token /\ Nil \notin Request

BuildToken(r, hash, targets, for, bundle) ==
    [run |-> r, hash |-> hash, targets |-> targets,
     exp |-> now + ApprovalTTL, for |-> for, bundle |-> bundle]

\* Faulty variant: an expired token still verifies.
VerifiesForEver(q) ==
    /\ q.token # Nil
    /\ q.token.run = q.run
    /\ q.token.hash = q.snap.hash
    /\ q.token.targets = q.snap.targets

\* The token is checked against the Run object the request loaded.
Verifies(q) ==
    /\ q.token # Nil
    /\ q.token.exp >= now
    /\ q.token.run = q.run
    /\ q.token.hash = q.snap.hash
    /\ q.token.targets = q.snap.targets

\* The status a report moves the run to.
Outcome(report, status) ==
    CASE report = "APPLIED"        -> "APPLIED"
      [] report = "FAILED_PARTIAL" -> "FAILED"
      [] OTHER                     -> status

-----------------------------------------------------------------------------
(* The event loop *)

Waiting(s) == reqs[s] # Nil /\ reqs[s].pc = "awaiting"

\* No handler is between two of its commits.
LoopFree == \A s \in Slots : reqs[s] # Nil => reqs[s].pc = "awaiting"

Running(s, op) == LoopFree /\ Waiting(s) /\ reqs[s].op = op

Close(s) == reqs' = [reqs EXCEPT ![s] = Nil]

\* A request about r begins: its handler holds a Run object and the cached plan.
Open(s, r, op, run, token, report, hash) ==
    /\ LoopFree
    /\ reqs[s] = Nil
    /\ Overlap \/ \A t \in Slots : reqs[t] # Nil => reqs[t].run # r
    /\ reqs' = [reqs EXCEPT ![s] =
           [op |-> op, pc |-> "awaiting", run |-> r, snap |-> run,
            plan |-> plans[r], token |-> token, report |-> report,
            body |-> "sound", hash |-> hash]]

\* Faulty variant: the UPDATE leaves the action_targets column out.
StoreWithoutTargets(r, run) ==
    row' = [row EXCEPT ![r] = [run EXCEPT !.targets = row[r].targets]]

\* SqliteRunStore.update: every column is overwritten from the Run object.
Store(r, run) == row' = [row EXCEPT ![r] = run]

-----------------------------------------------------------------------------
(* POST /runs:plan *)

Created == [NoRow EXCEPT !.status = "CREATED"]

\* Faulty variant: the row is created after the move to PLANNING.
CreatePlanAsPlanning(s, r) ==
    /\ row[r] = NoRow
    /\ Open(s, r, "plan", Created, Nil, "NONE", Nil)
    /\ Store(r, [Created EXCEPT !.status = "PLANNING"])
    /\ UNCHANGED <<undo, audit, plans, held, now, history>>

CreatePlan(s, r) ==
    /\ row[r] = NoRow
    /\ Open(s, r, "plan", Created, Nil, "NONE", Nil)
    /\ Store(r, Created)
    /\ UNCHANGED <<undo, audit, plans, held, now, history>>

\* The planner returned a plan: the preview is stored, its audit entry is next.
FinishPlan(s) ==
    LET q == reqs[s] IN
    /\ Running(s, "plan")
    /\ \E p \in Plans :
          LET run == [q.snap EXCEPT !.status = "PREVIEW_READY", !.hash = p,
                                    !.expires = now + PreviewTTL]
          IN /\ Store(q.run, run)
             /\ plans' = [plans EXCEPT ![q.run] = p]
             /\ reqs' = [reqs EXCEPT ![s].pc = "auditing", ![s].snap = run]
    /\ UNCHANGED <<undo, audit, held, now, history>>

\* More context is needed or planning failed: REJECTED in memory only, the row
\* stays as it was created.
RejectPlan(s) ==
    /\ Running(s, "plan")
    /\ Close(s)
    /\ UNCHANGED <<durable, plans, held, now, history>>

-----------------------------------------------------------------------------
(* POST /runs/{id}:approve *)

\* Faulty variant: any stored run can be approved.
OpenApproveAnyStatus(s, r) ==
    /\ row[r] # NoRow
    /\ \E hash \in Plans : Open(s, r, "approve", row[r], Nil, "NONE", hash)
    /\ UNCHANGED <<durable, plans, held, now, history>>

\* The status is checked on the row loaded before the body is awaited.
OpenApprove(s, r) ==
    /\ row[r].status = "PREVIEW_READY"
    /\ \E hash \in Plans : Open(s, r, "approve", row[r], Nil, "NONE", hash)
    /\ UNCHANGED <<durable, plans, held, now, history>>

Approvable(q) == q.hash = q.snap.hash /\ now <= q.snap.expires

\* The reply carries the token and the bundle; it may be lost on its way.
FinishApprove(s) ==
    LET q       == reqs[s]
        targets == ActionTargets(q.plan)
        token   == BuildToken(q.run, q.snap.hash, targets, "apply", q.plan)
    IN
    /\ Running(s, "approve")
    /\ Approvable(q)
    /\ CanTransition(q.snap.status, "APPROVED")
    /\ Store(q.run, [q.snap EXCEPT !.status = "APPROVED", !.targets = targets,
                                   !.result = "NONE"])
    /\ approvals' = [approvals EXCEPT ![q.run] = @ + 1]
    /\ \/ held' = [held EXCEPT ![q.run] = @ \cup {token}]
       \/ held' = held
    /\ Close(s)
    /\ UNCHANGED <<undo, audit, plans, now, reports, torn>>

-----------------------------------------------------------------------------
(* POST /runs/{id}:result *)

OpenResult(s, r) ==
    /\ reports[r] < MaxReports
    /\ \E token \in held[r], report \in Reports :
          Open(s, r, "result", row[r], token, report, Nil)
    /\ reports' = [reports EXCEPT ![r] = @ + 1]
    /\ UNCHANGED <<durable, plans, held, now, approvals, torn>>

\* Faulty variant: undo is opened before the audit entry is written.
FinishResultOpensUndo(s) ==
    LET q   == reqs[s]
        to  == Outcome(q.report, q.snap.status)
        run == [q.snap EXCEPT !.status = to, !.result = q.report]
    IN
    /\ Running(s, "result")
    /\ Verifies(q)
    /\ CanTransition(q.snap.status, to)
    /\ Store(q.run, run)
    /\ undo' = [undo EXCEPT ![q.run] = IF to = "APPLIED" THEN "available" ELSE @]
    /\ \E body \in Bodies :
          reqs' = [reqs EXCEPT ![s].pc = "auditing", ![s].snap = run, ![s].body = body]
    /\ UNCHANGED <<audit, plans, held, now, history>>

\* The body has arrived: the token is verified and the row stored before the
\* parts of it are used that the next two commits need.
FinishResult(s) ==
    LET q   == reqs[s]
        to  == Outcome(q.report, q.snap.status)
        run == [q.snap EXCEPT !.status = to, !.result = q.report]
    IN
    /\ Running(s, "result")
    /\ Verifies(q)
    /\ CanTransition(q.snap.status, to)
    /\ Store(q.run, run)
    /\ \E body \in Bodies :
          reqs' = [reqs EXCEPT ![s].pc = "auditing", ![s].snap = run, ![s].body = body]
    /\ UNCHANGED <<undo, audit, plans, held, now, history>>

\* What a report of status st that completes heals: whatever had cut another one.
Healed(r, st) == {r} \X {st} \X {"crash", "body"}

\* Faulty variant: the report ends with its audit entry, undo is never opened.
RecordAuditOnly(s) ==
    LET q == reqs[s] IN
    /\ q # Nil /\ q.pc = "auditing" /\ q.body # "uncountable"
    /\ audit' = [audit EXCEPT ![q.run][q.snap.status] = @ + 1]
    /\ Close(s)
    /\ torn' = IF q.snap.status = "FAILED" THEN torn \ Healed(q.run, "FAILED") ELSE torn
    /\ UNCHANGED <<row, undo, plans, held, now, approvals, reports>>

\* Faulty variant: every report opens undo, failures too.
RecordAuditMarksAll(s) ==
    LET q == reqs[s] IN
    /\ q # Nil /\ q.pc = "auditing" /\ q.body # "uncountable"
    /\ audit' = [audit EXCEPT ![q.run][q.snap.status] = @ + 1]
    /\ IF q.op = "result" THEN reqs' = [reqs EXCEPT ![s].pc = "marking"] ELSE Close(s)
    /\ torn' = IF q.snap.status = "FAILED" THEN torn \ Healed(q.run, "FAILED") ELSE torn
    /\ UNCHANGED <<row, undo, plans, held, now, approvals, reports>>

\* The audit entry of a planned run or of a report, in a commit of its own.
RecordAudit(s) ==
    LET q    == reqs[s]
        mark == q.op = "result" /\ q.report = "APPLIED"
    IN
    /\ q # Nil /\ q.pc = "auditing" /\ q.body # "uncountable"
    /\ audit' = [audit EXCEPT ![q.run][q.snap.status] = @ + 1]
    /\ IF mark THEN reqs' = [reqs EXCEPT ![s].pc = "marking"] ELSE Close(s)
    /\ torn' = IF q.snap.status = "FAILED" THEN torn \ Healed(q.run, "FAILED") ELSE torn
    /\ UNCHANGED <<row, undo, plans, held, now, approvals, reports>>

\* UndoService.mark_available, the last commit of an APPLIED report.
MarkUndo(s) ==
    LET q == reqs[s] IN
    /\ q # Nil /\ q.pc = "marking" /\ q.body # "unbindable"
    /\ undo' = [undo EXCEPT ![q.run] = "available"]
    /\ torn' = torn \ Healed(q.run, "APPLIED")
    /\ Close(s)
    /\ UNCHANGED <<row, audit, plans, held, now, approvals, reports>>

\* The sum of the affected cells raises before the audit entry is written, or
\* sqlite3 refuses the snapshot ref after it: a 500, and what was committed stays.
Choke(s) ==
    LET q == reqs[s] IN
    /\ q # Nil
    /\ \/ q.pc = "auditing" /\ q.body = "uncountable"
       \/ q.pc = "marking" /\ q.body = "unbindable"
    /\ torn' = torn \cup {<<q.run, q.snap.status, "body">>}
    /\ Close(s)
    /\ UNCHANGED <<durable, plans, held, now, approvals, reports>>

-----------------------------------------------------------------------------
(* POST /runs/{id}:prepare-undo and :undo-result *)

OpenPrepareUndo(s, r) ==
    /\ row[r] # NoRow
    /\ Open(s, r, "prepare_undo", row[r], Nil, "NONE", Nil)
    /\ UNCHANGED <<durable, plans, held, now, history>>

\* Availability is read after the body, the token is built from the Run object
\* loaded before it.
FinishPrepareUndo(s) ==
    LET q == reqs[s] IN
    /\ Running(s, "prepare_undo")
    /\ undo[q.run] = "available"
    /\ held' = [held EXCEPT ![q.run] = @ \cup
                   {BuildToken(q.run, q.snap.hash, q.snap.targets, "undo", Nil)}]
    /\ Close(s)
    /\ UNCHANGED <<durable, plans, now, history>>

OpenUndoResult(s, r) ==
    /\ \E token \in held[r] : Open(s, r, "undo_result", row[r], token, "NONE", Nil)
    /\ UNCHANGED <<durable, plans, held, now, history>>

\* UndoService.consume: whatever the reported status; no row, no effect.
FinishUndoResult(s) ==
    LET q == reqs[s] IN
    /\ Running(s, "undo_result")
    /\ Verifies(q)
    /\ undo' = [undo EXCEPT ![q.run] = IF @ = "none" THEN "none" ELSE "consumed"]
    /\ Close(s)
    /\ UNCHANGED <<row, audit, plans, held, now, history>>

-----------------------------------------------------------------------------
(* Refusals, lost connections, the clock, restarts *)

\* The handler answers 401, 409 or 500 and has changed nothing.
Refused(q) ==
    CASE q.op = "approve"      -> ~Approvable(q)
      [] q.op = "result"       -> \/ ~Verifies(q)
                                  \/ ~CanTransition(q.snap.status,
                                          Outcome(q.report, q.snap.status))
      [] q.op = "prepare_undo" -> undo[q.run] # "available"
      [] q.op = "undo_result"  -> ~Verifies(q)
      [] OTHER                 -> FALSE

Refuse(s) ==
    /\ LoopFree /\ Waiting(s)
    /\ Refused(reqs[s])
    /\ Close(s)
    /\ UNCHANGED <<durable, plans, held, now, history>>

\* The client goes away before its body has arrived, or the body is refused or
\* chokes the handler before anything is stored (422, 500).
Disconnect(s) ==
    /\ LoopFree /\ Waiting(s)
    /\ reqs[s].op # "plan"
    /\ Close(s)
    /\ UNCHANGED <<durable, plans, held, now, history>>

Tick ==
    /\ LoopFree
    /\ now < MaxTime
    /\ now' = now + 1
    /\ UNCHANGED <<durable, volatile, held, history>>

\* The process dies and is restarted: open requests and the plan cache go.
Crash ==
    /\ reqs'  = [s \in Slots |-> Nil]
    /\ plans' = [r \in Runs |-> Nil]
    /\ torn'  = torn \cup {<<reqs[s].run, reqs[s].snap.status, "crash">> :
                              s \in {t \in Slots : reqs[t] # Nil /\ ~Waiting(t)}}
    /\ UNCHANGED <<durable, held, now, approvals, reports>>

-----------------------------------------------------------------------------

Init ==
    /\ row       = [r \in Runs |-> NoRow]
    /\ undo      = [r \in Runs |-> "none"]
    /\ audit     = [r \in Runs |-> [s \in StoredStatus |-> 0]]
    /\ plans     = [r \in Runs |-> Nil]
    /\ reqs      = [s \in Slots |-> Nil]
    /\ held      = [r \in Runs |-> {}]
    /\ now       = 0
    /\ approvals = [r \in Runs |-> 0]
    /\ reports   = [r \in Runs |-> 0]
    /\ torn      = {}

\* The server takes a request.
Receive(s, r) ==
    \/ CreatePlan(s, r)
    \/ OpenApprove(s, r)
    \/ OpenResult(s, r)
    \/ OpenPrepareUndo(s, r)
    \/ OpenUndoResult(s, r)

\* The server carries on with a request it has taken.
Proceed(s) ==
    \/ FinishPlan(s)
    \/ RejectPlan(s)
    \/ FinishApprove(s)
    \/ FinishResult(s)
    \/ RecordAudit(s)
    \/ MarkUndo(s)
    \/ Choke(s)
    \/ FinishPrepareUndo(s)
    \/ FinishUndoResult(s)
    \/ Refuse(s)

Next ==
    \/ \E s \in Slots, r \in Runs : Receive(s, r)
    \/ \E s \in Slots : Proceed(s) \/ Disconnect(s)
    \/ Tick
    \/ Crash

Spec == Init /\ [][Next]_vars

\* The event loop never leaves a handler between two commits for ever. Nothing
\* is assumed of clients, whose body may never arrive, nor of the planner, which
\* a provider can keep waiting (see Streaming).
Fairness ==
    \A s \in Slots :
        /\ WF_vars(RecordAudit(s))
        /\ WF_vars(MarkUndo(s))
        /\ WF_vars(Choke(s))

FairSpec == Spec /\ Fairness

-----------------------------------------------------------------------------
(* Properties *)

\* The types of the state. Rows and Run objects hold the columns the handlers
\* read; a token is held for the run it was signed for.
TypeOK ==
    /\ row \in [Runs -> Row]
    /\ undo \in [Runs -> {"none", "available", "consumed"}]
    /\ audit \in [Runs -> [StoredStatus -> Nat]]
    /\ plans \in [Runs -> MaybePlan]
    /\ reqs \in [Slots -> Request \cup {Nil}]
    /\ held \in [Runs -> SUBSET Token]
    /\ now \in Nat
    /\ approvals \in [Runs -> Nat]
    /\ reports \in [Runs -> Nat]
    /\ torn \subseteq Runs \X StoredStatus \X {"crash", "body"}

\* Undo is never on record ahead of what it undoes: when undo_state has a row
\* for a run, the audit table shows the apply, and the bundle that was applied
\* had been issued by :approve. report_result commits the run, the audit entry
\* and the undo row in this order, each after the token was verified, and the
\* order has to survive crashes, retries and overlapping requests.
UndoFollowsApply ==
    \A r \in Runs : undo[r] # "none" => audit[r]["APPLIED"] > 0 /\ approvals[r] > 0

\* Status st of run r has reached the tables behind the row.
Settled(r, st) ==
    /\ audit[r][st] > 0
    /\ st = "APPLIED" => undo[r] # "none"

\* A handler was cut on its way to settle status st of run r: by a crash, or by
\* the body it was given.
Torn(r, st) == \E cause \in {"crash", "body"} : <<r, st, cause>> \in torn

\* Status st of run r is in all its tables, or a handler was cut on the way.
Covered(r, st) == Settled(r, st) \/ Torn(r, st)

\* A settled run is settled in all three tables, an APPLIED run in the audit
\* table and in undo_state, a FAILED one in the audit table, unless the handler
\* of such a report was cut between its commits: by a crash, or by a body whose
\* affected cells cannot be summed or whose snapshot ref cannot be bound, for
\* report_result stores the row before it uses either. A report of the same
\* status that completes heals what was torn; one of the other status does not,
\* for a handler that still holds the torn row may store it again.
ReportsComplete ==
    LoopFree =>
        \A r \in Runs, st \in {"APPLIED", "FAILED"} :
            row[r].status = st => Covered(r, st)

\* As long as requests about a run do not overlap, every token that reached a
\* client agrees with the stored run, also across restarts: until it expires,
\* :result and :undo-result accept it.
TokensAgreeWithRow ==
    \A r \in Runs : \A t \in held[r] :
        /\ t.run = r
        /\ t.hash = row[r].hash
        /\ t.targets = row[r].targets

\* As long as requests about a run do not overlap, :approve issues the bundle of
\* a run at most once, whatever is retried, refused or lost: the status check of
\* approve_plan is what keeps a plan from being executed twice.
IssuedOnce == \A r \in Runs : approvals[r] <= 1

\* As long as requests about a run do not overlap, its status never goes back
\* (Run.transition, ARCHITECTURE.md "A run cannot return to an earlier state").
StatusNeverReturns ==
    [][\A r \in Runs : Order(row[r].status) <= Order(row'[r].status)]_vars

\* Also with overlapping requests, a status goes back only when a handler stores
\* a Run object that another request has made stale since it was loaded.
OnlyStaleWritesReturn ==
    [][\A s \in Slots :
          reqs[s] # Nil /\ reqs'[s] # reqs[s] /\ reqs[s].snap = row[reqs[s].run]
          => Order(row[reqs[s].run].status) <= Order(row'[reqs[s].run].status)]_vars

\* The states of r in which no handler is between two commits and every token
\* that reached a client has expired.
Lapsed(r) ==
    /\ LoopFree
    /\ Order(row[r].status) >= Order("APPROVED")
    /\ \A t \in held[r] : t.exp < now

\* As long as requests about a run do not overlap, an approved run whose tokens
\* have expired is frozen: no report, no undo and no approval changes its row,
\* its audit entries or its undo state until :prepare-undo issues a new token.
FrozenWhenLapsed ==
    [][\A r \in Runs : Lapsed(r) =>
          row'[r] = row[r] /\ audit'[r] = audit[r] /\ undo'[r] = undo[r]]_vars

\* The abstract run this component implements when requests do not overlap.
Lifecycle == INSTANCE RunLifecycle WITH
    phase <- [r \in Runs |-> row[r].status], approvals <- approvals, undo <- undo

\* Every step of the handlers is a step of the promised lifecycle of a run, or
\* leaves it alone.
ImplementsLifecycle == Lifecycle!LifecycleSpec

\* An APPLIED report whose row was stored, and whose body the handler can use,
\* gets its undo row unless the process dies on the way: neither the audit commit
\* in between nor a request that came to nothing before it stands in its way.
AppliedGetsUndo ==
    \A s \in Slots, r \in Runs :
        (reqs[s] # Nil /\ reqs[s].pc = "auditing" /\ reqs[s].run = r
            /\ reqs[s].op = "result" /\ reqs[s].report = "APPLIED"
            /\ reqs[s].body = "sound")
        ~> (undo[r] = "available" \/ <<r, "APPLIED", "crash">> \in torn)

-----------------------------------------------------------------------------
(* Inductive invariants *)

\* What an open request is entitled to, by the checks already behind it.
RequestChain(q) ==
    /\ q.op \in {"result", "undo_result"} => q.token \in held[q.run]
    /\ q.op = "approve" => q.snap.status = "PREVIEW_READY"
    /\ q.op = "plan" /\ q.pc = "awaiting" => q.snap.status = "CREATED"
    /\ q.pc = "auditing" /\ q.op = "result" /\ q.report = "APPLIED"
          => q.snap.status = "APPLIED"
    /\ q.pc = "marking" => /\ q.op = "result"
                           /\ q.snap.status = "APPLIED"
                           /\ audit[q.run]["APPLIED"] > 0

\* The chain from an issued bundle to an open undo, link by link: a token stems
\* from an approval, a request from a token, an undo row from an audited apply.
\* It holds whatever overlaps and crashes.
ApplyChain ==
    /\ UndoFollowsApply
    /\ \A r \in Runs : held[r] # {} => approvals[r] > 0
    /\ \A s \in Slots : reqs[s] # Nil => RequestChain(reqs[s])

\* The handler of q is between its commits and on its way to settle status st.
Settling(q, st) ==
    /\ q.op = "result" /\ q.snap.status = st
    /\ \/ st = "APPLIED" /\ q.report = "APPLIED" /\ q.pc \in {"auditing", "marking"}
       \/ st = "FAILED" /\ q.pc = "auditing"

\* A final status, in a row or in the Run object of a request, is covered or
\* about to be settled: an object loaded while the loop is free is covered, and
\* stays so however long its body is awaited.
FinalCovered ==
    \A st \in {"APPLIED", "FAILED"} :
        /\ \A s \in Slots :
              reqs[s] # Nil /\ reqs[s].snap.status = st
              => Covered(reqs[s].run, st) \/ Settling(reqs[s], st)
        /\ \A r \in Runs :
              row[r].status = st
              => \/ Covered(r, st)
                 \/ \E s \in Slots : /\ reqs[s] # Nil /\ reqs[s].run = r
                                     /\ Settling(reqs[s], st)

\* Without overlap the Run object of the only open request about a run is the
\* stored row, which is what makes the checks on the object checks on the row.
FreshRequests ==
    /\ \A s, t \in Slots :
          s # t /\ reqs[s] # Nil /\ reqs[t] # Nil => reqs[s].run # reqs[t].run
    /\ \A s \in Slots : reqs[s] # Nil => reqs[s].snap = row[reqs[s].run]

\* No bundle is out before the row says APPROVED.
NotIssuedBefore ==
    \A r \in Runs : Order(row[r].status) < Order("APPROVED") => approvals[r] = 0

SerialInv == FreshRequests /\ NotIssuedBefore /\ IssuedOnce /\ TokensAgreeWithRow

-----------------------------------------------------------------------------
(* What a document says and the code does not do *)

\* ARCHITECTURE.md, section 3 step 6: :approve "checks the plan hash and returns
\* a short-lived execution bundle", the canonical plan under that hash. The
\* bundle of a reply lists the actions of the plan its hash names.
BundleIsThePlan ==
    \A r \in Runs : \A t \in held[r] : t.for = "apply" => t.bundle = t.hash
=============================================================================
