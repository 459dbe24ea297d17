# A TLA+ model of the spreadsheet agent

The program is an assistant for Google Sheets. A sidebar (`apps-script/`) sends the
selection and a prompt to a FastAPI backend (`backend/app/`), which asks a language
model for a plan of cell edits, validates it and stores a *run*. The user approves the
preview; the sidebar receives a signed, expiring token and the action bundle, edits
the sheet and reports the result; an undo goes the same way back.

This directory holds TLA+ models of the parts whose correctness depends on order,
interleaving, time or failure, the TLC configurations that check them, and TLAPS proofs.

## 1. Inventory

| part | source | state it keeps | operations |
|---|---|---|---|
| run API | `backend/app/api/routes.py` | none of its own; one Run object per open request | `create_plan`, `approve_plan`, `report_result`, `prepare_undo`, `undo_result`; read-only: `get_run`, `stream_status`, `list_audit`, `get_metrics` |
| run lifecycle | `runs/service.py`, `domain/types.py` | status of a Run object; run tokens and stream text (memory) | `Run.transition`, `register_token`, `resolve_token`, `append_stream_text`, `clear_stream_text` |
| stores | `persistence/db.py`, `runs_repo.py`, `audit_repo.py`, `runs/undo.py` | tables `runs`, `audit`, `undo_state` (durable); plan cache (memory) | `create`, `get`, `update`, `record`, `mark_available`, `is_available`, `consume` |
| approval tokens | `api/contracts.py` | none; tokens are held by clients | `build_approval_token`, `verify_approval_token` |
| planner | `planning/planner.py`, `planning/safety.py` | none across requests | `plan`, `parse_plan`, `_repair` |
| model router, registry | `providers/router.py`, `providers/registry.py` | adapters by name | `route`, `rank_keep_order`, `ordered_targets` |
| provider adapters | `providers/implementations/*.py` | HTTP client; Hermes: the cached model list | `complete`, `list_models`, `health` |
| capabilities | `api/capabilities.py` | none of its own | `capabilities` |
| policy, tool registry | `policy/service.py`, `tools/registry.py`, `core/ids.py` | none | `validate_plan` and its parts, `plan_changed_cells`, `parse_a1` |
| context engine | `context/engine.py` | none | `pack_context`, `build_messages`, `count_context_cells` |
| rate limiter | `api/ratelimit.py` | a list of instants per client (memory) | `_allow` |
| client authentication | `api/auth.py` | token hashes from the settings | `_authenticated` |
| wiring | `main.py`, `core/settings.py`, `core/errors.py` | none | `create_app`, error handlers |
| action executor | `apps-script/ActionExecutor.gs` | the spreadsheet; a before-snapshot per apply | `applyBundle`, `executeAction`, `restoreSnapshot` |
| sidebar | `apps-script/Sidebar.html`, `ApiClient.gs`, `ContextCapture.gs`, `Code.gs` | `STATE` of the page: run, hash, token, bundle, busy | `doSend`, `onPlan`, `doApprove`, `doApply`, `doUndo`, stream polling |

How they interact. The sidebar calls the backend over HTTP; every `google.script.run`
call answers through a callback, so replies may arrive in any order. One uvicorn process
with one event loop serves all requests (`backend/Dockerfile`); SQLite calls are
synchronous, so a handler is interrupted only where it awaits, but every store operation
commits on a connection of its own, and the container restarts the process when it dies
(`docker-compose.yml`, `restart: unless-stopped`). `create_plan` awaits the planner,
which calls providers one after another through the router and feeds the stream text of
the run, which a second request polls. `GET /v1/capabilities` awaits the model list of
Hermes. The other mutating handlers read the run from the
database, then await the request body, then check and store.

What is hard here:

- a handler checks and stores a Run object that may be stale after the await;
- `update` overwrites every column, so a stale object erases what others wrote;
- row, audit entry and undo mark are separate commits; a crash or an error at the body of the
  report may come between them;
- the plan exists in memory only, the row that refers to it is durable;
- replies get lost, requests are repeated, tokens expire meanwhile;
- stream text is shared by attempts, runs and pollers, and what is polled, what the adapter
  collects and what the planner parses are three copies of it;
- clients refresh the model list at once, and each writes the cache when its own reply comes;
- the context, the plan's ranges and the selection are read by the same parser, whose
  error has no handler;
- replies reach the sidebar in another order than the requests were made, and a script may
  be over while the backend still works for it.

Which components are modelled, and how far, is listed in `PROJECT.json` (`components`);
section 7 says why the others are not.

What makes each part correct:

- **run API, lifecycle, stores**: a run moves forward only; its bundle is issued once;
  what a client holds agrees with what is stored; undo is on record only for an apply
  that is audited; the three tables agree unless a report was cut between its commits.
- **planner, router, adapters**: a poller sees the beginning of one answer; the number of
  provider calls is bounded; what was shown is what is parsed; the reported route is that of
  an answer; planning comes closer to its verdict with every exchange, and ends unless a provider
  keeps one alive.
- **policy**: no accepted plan touches a protected or merged range it was told of or changes
  more cells than the limit; number of cells and risk of the preview are computed from the plan,
  not taken from the model; a request ends in a status of its own unless Python cannot read a
  range of the request or the JSON of the answer.
- **rate limiter**: no window of 60 s holds more than the limit, and nobody is refused
  while the window is not full; who does not authenticate takes nobody's place.
- **model list**: a list older than its time to live is not served.
- **executor**: an apply is whole, a rollback restores, cells outside the targets are left
  alone, literals do not turn into formulas.
- **sidebar**: a bundle is applied once and only after its approval, a report never counts
  for another run, the page does not stay busy.

## 2. Modules

| module | models | extends |
|---|---|---|
| `RunStatus` | the status order and `Run.transition` | |
| `RunLifecycle` | the abstract run: what the run service promises, without storage, requests, tokens or clock | `RunStatus` |
| `RunBackend` | the five mutating handlers over the three tables, the plan cache, open requests, tokens, clock and crashes | `RunStatus`; refines `RunLifecycle` |
| `Ranking` | `ordered_targets` and `rank_keep_order` | |
| `Planning` | `Planner.plan`, `ModelRouter.route`, stream text, run tokens, polling, restarts | |
| `Streaming` | the adapters below `Planning`: the HTTP exchange of an attempt, its lines, the collected answer, the local provider, the reported route | `Planning`, whose steps it extends |
| `Policy` | `validate_plan` action by action, `parse_a1`, `plan_changed_cells` | |
| `PlanCheck` | one planning request from body to reply around `Policy`: context count, schema, one repair, text scan, preview, every problem and its status | `Policy` |
| `RateLimit` | `RateLimitMiddleware` | |
| `ModelList` | `list_models` of Hermes with its cache | |
| `Gateway` | what a request passes before its handler: authentication, then the limiter, then `capabilities` with the model list | `RateLimit`, whose steps it extends; instance of `ModelList` |
| `Executor` | `applyBundle` step by step, with edits of other users | |
| `Sidebar` | the page, its calls and replies, with the backend as the lifecycle seen through them | `RunStatus`; refines `RunLifecycle` |
| `MC*` | the instances TLC checks | |
| `RunBackendProofs`, `RunSerialProofs` | proofs about `RunBackend`, without and with the assumption that requests about a run do not overlap; the second also its refinement | |
| `PlanningProofs`, `PolicyProofs`, `GatewayProofs`, `ExecutorProofs`, `SidebarProofs` | proofs about `Planning` and `Streaming`, `Policy` and `PlanCheck`, `RateLimit`, `ModelList` and `Gateway`, `Executor`, `Sidebar` | |
| `Iteration` | lemmas: induction over the natural numbers, functions defined step by step, running sums | |

`RunBackend` and `Sidebar` meet in `RunLifecycle`: the handlers and their tables implement
it as long as requests about one run do not overlap, and the page, whose replies come from
such a backend, never leaves it.

A definition called `Faulty variant` in a comment is a plausible bug; it is used by no
specification and serves to show that a property notices it (`mutants` in `PROJECT.json`).

### How state and actions correspond to the code

**RunBackend.** `row`, `undo`, `audit` are the tables; a value is one row with the columns
the handlers read back. `plans` is `SqliteRunStore._plan_cache`, `held` the tokens in
replies that reached a client, `now` the wall clock, `reqs` the handlers that have begun
and not ended. A handler is split exactly where the program can be interrupted. `Open...`
runs to the first `await` and remembers the Run object it loaded (`snap`) and its plan.
`Finish...` runs from there to the first commit; `RecordAudit` and `MarkUndo` are the
second and third commit. While a handler is between two commits nothing else but a crash
may happen (`LoopFree`), because there is no await between them. `action_results` and
`after_snapshot` of a report are typed `Any` inside, so its `body` is one the handler can deal
with, one whose `affected_cells` it cannot sum (`routes.py:206`, before the audit entry), or one
whose `ref` it cannot bind (`:215`, before the undo mark); in the last two cases `Choke` ends the
handler in a 500 between its commits. A token is the record of what its HMAC covers.
`Disconnect` is the `ClientDisconnect` of `request.body()` and every other error before
anything is stored, `Refuse` every 401, 404, 409 and 500 after the await.

`approvals`, `reports` and `torn` are history: how often a bundle was issued, how many
reports came (bounded), and of which run a report was cut between its commits, with the
status it had stored and whether a crash or its body was the cause, until a report of that
status completes.

**Planning.** `call[r]` is the local state of `Planner.plan` and `ModelRouter.route` of one
request. `Attempt` is one turn of the loop: `on_attempt_start` clears the text, the target
is called. `Delta` is `append_stream_text`, `ProviderFails` either `except` branch,
`ProviderAnswers` the return to `Planner.plan` with its verdict or the one repair.

**Streaming.** Each step is a step of `Planning` with conjuncts of its own, or leaves the
variables of `Planning` alone; that is how the module is written, and no claim. `http[r]` is the
exchange under way: the request is posted, its stream open. `parts[r]` is the list the adapter
joins to the answer, beside the text the poller reads. `PassOn` is a `data:` line with text,
`KeepAlive` a line the loop passes over, `Trickle` a read that brings some bytes but neither the
head of the response nor, without streaming, the whole of its body, `EndOfStream` `[DONE]` or the
end of the body, `Fail` every branch that raises. `PassWhole` and `ReplyWhole` are the local
provider, whose one call on `on_delta` is not separated from its return by an await; the two
steps admit more interleavings than the code. `route[r]` is the metadata `Planner.plan`
returns. `beat` only makes `KeepAlive` and `Trickle` steps that can be told from none.

**Policy.** `CheckAction` is one turn of the loop of `validate_plan` with every call it
makes, `Outcome` its verdict in the order of the calls: the `ValueError` of `parse_a1` is
an outcome of its own. A range is two corners, in any order, or a text `parse_a1` does not
read. `parse_a1` also reads the beginning of texts that go on (`Sheet1!A1:B2` gives it the cells
from `SHEET1` to `B2`, `ids.py:65`, a `re.match` without end): such a text is to the model the
rectangle `parse_a1` returns, which is not what the text means. The add-on as it is sends no
protected and no merged ranges (`ContextCapture.gs:28-40`); `req.guarded` is what another client
of the same API may send.

**PlanCheck.** `stage` is how far `create_plan` has got. `ReadContext` is
`count_context_cells` with its limit, `Parse` and `DoesNotParse` are `parse_plan` with the one
repair, then `Policy` runs, then the texts are scanned and the reply is built. Each `raise` is
a problem, `Status` the response the handlers of `main.py` make of it; `ValueError` has none
and becomes a 500 of the server. `answer` says what of the answer Python's JSON cannot do:
`DoesNotLoad` is an error of `json.loads` that is no `JSONDecodeError` (an integer of more than
4300 digits, deep nesting), so that there is no repair, `DoesNotEncode` an accepted plan that
`plan_hash` or the reply cannot write out (half a surrogate pair in `arguments`). A preview has the risk of `_risk_of` and the count of
`plan_changed_cells`.

**RateLimit.** `bucket[k]` is the list kept under `k`; `Grant` and `Refuse` are the two
results of `_allow`, both after trimming. `granted` is history.

**Gateway, ModelList.** `Request` follows the order in which `main.py` stacks the middlewares:
the one added last runs first, so an unauthenticated request is refused before it is counted.
The paths are the four kinds the code tells apart. `asking[c]` is a `list_models` that waits
for Hermes, with the instant `now` it took before; `Fetched` stores the list it brings
whatever is in the cache by then. A list is named by the instant Hermes made it.

**Executor.** `grid` and `format` are the sheet, `job` the position of the script. Each
`TakeSnapshot`, `Execute` and `Restore` handles one action or snapshot, so others edit in
between (`Edit`) and the script may be stopped in between (`Stop`). One content stands for
the matrix of an action, and `fits` says how the matrix fits its target.

**Sidebar.** `page` is `STATE` with the visibility of the three buttons; `calls` are the
`google.script.run` calls under way, each with the backend's `stage` and the page's `reply`.
User actions are `do...`, `StartPlan`, `MarkUndo` and `Serve...` the backend, `On...` the
handlers. A script may fail before, while or after the backend serves its call, and the
backend goes on all the same. `Reload` opens the sidebar anew. A call nobody waits for is an
orphan. The commits of a report are two steps with nothing between them (`LoopFree`).

## 3. Runs

| run | instance | what it shows |
|---|---|---|
| `run_serial` | one run, one request at a time, two plans (one without targets), three ticks, three reports, crashes | the tables refine `RunLifecycle`; tokens agree with the row; the bundle is issued once; the status only goes forward; a run whose tokens have expired is left alone |
| `run_overlap` | one run, two open requests, three reports, no tick, fair event loop | undo follows an audited apply; reports are complete unless torn; only stale objects take a status back; an applied run gets its undo unless its handler crashes or chokes |
| `plan_stream` | two requests, one shared run token, Hermes before the local provider, two chunks per attempt, restarts, fair exchanges | a poll sees the beginning of one answer; an accepted plan was parsed from what was shown; the route is of an answer; calls are bounded; every exchange that completes something brings a verdict closer; planning ends or a provider keeps an exchange alive for ever |
| `policy_check` | a request from body to reply; two sheets of two by two cells; plans of up to two actions, in the schema or not, every readable selection and protected range, one unreadable range, contexts that fit, are too large or unreadable | accepted plans keep clear of protected cells and stay below the limit; cells and risk of the preview are recomputed; only an unreadable range of the request or an answer beyond Python's JSON goes unhandled |
| `rate_window` | three clients of one host, one with a header of its own, one with a token that is not configured; two requests in two ticks, lists kept for two, three ticks; restarts | the limit is exact at both edges of the window; strangers take nobody's place; a served list is current; every request to Hermes was counted |
| `apply_bundle` | two cells, nine bundles, two edits by others | rollback, apply, exact targets, literals |
| `sidebar_replies` | two runs, two calls under way, scripts that fail while their call goes on, reloads, fair replies | what is applied and reported, whatever order replies come in; page and backend keep to `RunLifecycle`; Send comes back |
| `finding_*` | see section 6 | a counterexample to a sentence of a document |

### Bounds, and why they are enough

- *Runs.* Requests about different runs meet only in the event loop and in a crash. Tables,
  tokens and cache are functions of the run, and no guard compares two runs, except that
  a token names its run; `Sidebar` has two runs for that. The theorems hold for any number.
- *Slots.* A stale object needs two requests about one run, one that loads and one that
  stores meanwhile.
- *Clock.* `run_serial` runs two ticks beyond either time to live, so a preview and a token
  lapse in both orders. In `run_overlap` the clock stands still, since nothing it checks is about
  expiry; the proofs of its properties include the clock.
- *Reports.* Two retries after a first report: APPLIED after FAILED and FAILED after APPLIED. With
  two requests open, a crash can also fall into one report while a stale third is still to come.
- *Planning, Streaming.* `MaxAttempts` 2 is what the ranking leaves after the target without
  adapter was dropped: one over the network and one local, so a streamed attempt may fail in
  its middle before the local one answers. Two chunks tell an order and a remnant from a beginning.
- *Policy.* In a grid of two by two, ranges contain each other, touch, cross and are
  disjoint. Two actions reach the sum and the second turn of the loop, three targetless
  ones the limit on actions. `PlanCheck` adds each way to miss the schema that the policy or
  the preview would depend on, and a context on either side of the limit.
- *Gateway.* Three ticks are one more than a window and than the time a list is kept, so both
  lapse while an older request to Hermes is still under way.
- *Executor.* Two cells give targets that are equal, nested and disjoint. Two edits: one
  before and one after any step.
- *Sidebar.* Two calls under way give every reordering of two replies; the counter of
  applications saturates at two, one more than the property allows.

`CHECK_DEADLOCK FALSE` is set where the system ends: a plan has its verdict, a bundle its
result.

## 4. Fairness

- `RunBackend`: weak fairness of `RecordAudit`, `MarkUndo` and `Choke`, which follow the first
  commit without an await. Nothing is assumed of planning: a provider may keep it from ending.
- `Streaming`: weak fairness of the exchange: bytes arrive, the body ends, or the read times
  out (`provider_timeout_seconds`). The timeout is per read and no other deadline is kept, so
  a provider that sends comment lines, or a body byte by byte, for ever keeps its attempt alive.
  That case (`KeptWaiting`) is part of the property (`SettlesUnlessKeptAlive`), not excluded by an assumption. A stream of text
  ends, because `max_output_tokens` bounds an answer (`MaxDeltas`).
- `Sidebar`: the backend is done with a call sooner or later, Apps Script ends every
  execution, at its time limit if need be, and the browser runs every handler.

Nothing is assumed of users, clients or other editors: a body may never arrive, a preview
may never be approved.

## 5. Proofs

Every theorem holds for all values of the constants that satisfy the module's `ASSUME`s. Most
only type the constants and keep the `Nil` values apart from the others. Three say more:
`ExecutorAssumption`, that the actions of a bundle are well formed and literals and formulas
are told apart; `PlanningAssumption`, that the ranking lists targets with an adapter;
`StreamingAssumption`, that an answer may have a chunk.

**Induction.** The library's induction theorems take an operator, which no installed prover
instantiates. `Iteration` states what is needed about sets instead: a set of numbers has a least
element (from the well-foundedness of finite subsets), so a set that holds 0 and successors holds
all (`SetInduction`), so a function defined step by step exists on all of its domain (`Iterates`).
Proofs about the sheet after n actions or the sum over n targets use the set of the n at which the
claim holds.

**RunBackend, whatever overlaps and crashes.** `TypeCorrect`: rows hold only the six
statuses `StoredStatus` names. `ApplyChainHolds`: undo follows an audited apply. By itself
this is not inductive: a `MarkUndo` relies on what its request did two steps before, and a
report on how its token came to the client. `ApplyChain` adds these links (issued bundle,
held token, open request, audited apply) and is inductive; `UndoFollowsApplyHolds` follows.
`OnlyStaleWritesMoveBack`: a status goes back only by storing an object that is not the
stored row. `ReportsCompleteHolds`: a row that says APPLIED or FAILED has its audit entry, and an
APPLIED one its undo, unless the report that stored it was cut by a crash or by its own body.
`FinalCovered` is the inductive form: it speaks of the object of every open request too, for a stale
one may be stored again, and allows a request that stands between its commits, where nothing but
its own next commit or error, or a crash, can come first. The attempt found that `torn` has to remember which status was
cut: a later, complete report of the other status would otherwise pass for the repair of the first.

**RunBackend, one request about a run at a time** (`~Overlap`). `SerialInv`: the object of
the open request *is* the stored row (`FreshRequests`), no bundle is out before the row
says APPROVED, and at most one is. From it follow `TokensAgree`, `IssuedAtMostOnce`,
`StatusMovesForward`, the refinement of `RunLifecycle` (`Refinement`: the initial state maps
to the initial state, each action to a lifecycle step or a stutter) and `LapsedIsFrozen`.
The assumption is needed: `finding_regress` refutes `StatusNeverReturns` without it.

**Planning.** `TypeCorrect` with `AttemptInv` (the attempt under way is one of the ranked
targets), `CallsAreBounded` through `CallsInv` (calls are counted against round and
attempt), `TextIsOneAnswer` through `TextInv` (the text of every run is the beginning of
one attempt's answer, also of a run that is over, which is what makes polls safe).

**Streaming.** The module extends the steps of `Planning`, so what is proved of `Planning` holds
with the adapters in place (the lemma `AdaptersPlan`, by definition; `AdaptersKeepBounds`).
`ParsedIsWhatWasShown` needs that the collected chunks *are* the text under the run while an
attempt streams (`SameChunks`), and that no other run writes there. `ReportedAnswered` rests on
`RouteInv`: it relates the stored route to the attempt under way, in the first round and in
the repair.

Why planning ends is proved up to the fairness. `Left(r)` counts the steps a run is from its
verdict: an attempt outweighs the steps of an exchange, and the attempts of the repair count as
long as the request may need one. `ExchangesComeCloser`: each step of an exchange except bytes
that complete nothing lowers it, nobody else raises it; `DistanceIsBounded`: it is at most
`2 * MaxAttempts * (MaxDeltas + 2)` and positive while the run is planned. What is left to TLC
is that an exchange goes on at all.

**Policy, PlanCheck.** `OverlapIsExact`: the four comparisons of `_ranges_overlap` hold exactly
if the rectangles share a cell. With it, `PolicyHolds`: what the loop has passed keeps clear of
the protected ranges and has the registry's risk (`PassedInv`). `RequestKeepsGuarded` and
`AnswersAreHandled` (but for answers beyond Python's JSON) say it of the whole request: `PlanInv` ties the stage to the verdict, so
that the policy's turn begins with the first action and a reply follows its verdict.
`RequestIsBounded`: a rectangle has as many cells as the product the code computes
(`CountIsExact`), the matrix of a write fits its target (`MatrixFits`), and the union of targets has
no more cells than their sum (`TotalIsEnough`, over the running sums of the plan), so a plan
within the limit changes no more cells than the limit. `PreviewsAreRecomputed` rests on `ReplyInv`: a
preview is built from the plan that was accepted, and a plan of NO_OPs, which passes before the
sum is looked at, changes nothing and has risk low.

**RateLimit, Gateway.** `LimitIsExact`: the kept instants are the end of all that were granted,
and what was dropped is stale (`WindowInv`). Both directions of the limit follow. The gateway
extends the steps of the limiter, so they hold behind authentication too (`GatewayLimitIsExact`).
They speak of one life of the process: a restart forgets the buckets, and `granted` with them. `StrangersAreNotCounted` and `CallsArePaidFor` follow from the order of
the middlewares. `NoStaleList` from `CacheInv`: a list is no older than its stamp, because the
stamp is taken before Hermes is asked.

**Executor.** `ScriptInv` follows the script: before the snapshots are complete nothing is touched
(`NotBegun`), a snapshot holds what its cells held when the script began unless somebody edited
them since (`SnapshotsHold`), after i actions the sheet is what i actions leave (`ExecutedSoFar`),
and what a rollback has passed is back in place. None of these is inductive alone: a restore
is right only because every target was saved before the first write, and overlapping snapshots are
written back only because each was taken of the untouched sheet. `RolledBackIsRestoredHolds`,
`AppliedIsWholeHolds`, `OnlyTargetsChangeHolds` and `NoFormulaFromLiteralHolds` follow, for any
sheet, bundle and number of edits by others.

**Sidebar.** `SidebarChain` says what the page holds and what each call carries, whether or not
anybody waits for it: `PageChain` (a bundle on the page belongs to an approved run and can be applied
only while it has not been and no report is awaited), `ApproveChain`, `ResultChain` and `PlanChain`
for the calls, and `Alone`, that no two calls are ahead of each other with the same run.
`AppliedOnce` alone is not inductive: the reply to an approval, still on its way, would bring a
bundle that was applied. `AppliedOnceHolds`, `AppliedWasExecutedHolds`, `ExecutedWasApprovedHolds`
and the refinement of `RunLifecycle` (`Refinement`) follow for any number of runs and calls.
`BusyWaitsHolds` is the part of `SendComesBack` that needs no fairness: a busy page waits for
the reply to a plan.

A poll is shown the beginning of one answer of some run, so the theorems that say so
(`TextIsOneAnswer`, `AdaptersKeepBounds`) assume that there is a run.

Model-checked only: the liveness properties `AppliedGetsUndo`,
`SettlesUnlessKeptAlive` and `SendComesBack`, which the prover does not reach. Every safety
property of a passing run has a theorem. `Ranking` has none: `SelectSeq` is defined by recursion
inside the standard module, where the prover does not see it.

## 6. Where the code and its documents disagree

Shown by a run:

| run | code | document |
|---|---|---|
| `finding_regress` | two `:approve` requests overlap; the slower one stores APPROVED over APPLIED (`routes.py:136`, `:167`) | `ARCHITECTURE.md:84` "A run cannot return to an earlier state." |
| `finding_restart_bundle` | after a restart a preview is approved with an empty bundle under the old hash (`routes.py:161`) | `ARCHITECTURE.md:69` "checks the plan hash and returns a short-lived execution bundle" |
| `finding_repair_profile` | the repair is routed without the profile (`planner.py:134`) | `HERMES_INTEGRATION.md:93` "only Hermes targets are eligible" |
| `finding_other_sheet` | the scope check never reads the sheet (`policy/service.py:47`) | `ARCHITECTURE.md:56` "out-of-context targets" |
| `finding_duplicate_plan` | the failure of `:approve` enables Send while a plan is under way (`Sidebar.html:292`) | `GOOGLE_SHEETS_ADDON.md:17` "Disable duplicate submission" |

Read in the code while modelling, without a run of their own:

- a repeated report is stored and audited again and reopens a consumed undo;
  `apply_attempt_id` is not compared (`routes.py:203`; `ARCHITECTURE.md:112`);
- a crash after the first commit of a report leaves an APPLIED run without audit entry and
  without undo, and so does, without any crash, a report the API accepts whose `affected_cells`
  is null or no number (`routes.py:206`), or without undo one whose `ref` is a list or an object
  (`routes.py:215`; `ACCEPTANCE_CRITERIA.md:13` "Applied runs appear in audit");
- an answer with an integer of more than 4300 digits or nested too deeply is not repaired but
  ends in a 500 (`planner.py:40-43`), and so does an accepted plan with half a surrogate pair in
  `arguments` (`planner.py:58-59`, `routes.py:106`), where `ARCHITECTURE.md:67` promises
  "a preview or a typed rejection";
- risk goes by the type of an action alone: FORMAT_RANGE and ADD_SHEET are low however broad, and
  nothing is raised for formulas or contents that are overwritten (`tools/registry.py:27-34`;
  `SECURITY_GUARDRAILS.md:31` "Formula overwrite, clearing non-empty cells, broad formatting, and
  new sheets raise risk/confirmation", `ARCHITECTURE.md:102` "the preview marks elevated risk").
  `PreviewIsRecomputed` says that the registry's risk is shown, not that it is the right one;
- `parse_a1` reads the beginning of texts it should refuse, such as a range with its sheet
  (`ids.py:65-66`);
- after a rollback was reported, Apply is enabled again; when the second attempt succeeds,
  its report is refused (FAILED does not go to APPLIED) and the sheet stays changed under a
  FAILED run (`Sidebar.html:261`, `runs/service.py:37-42`);
- an `:approve` that failed leaves Approve disabled, also for the next plan
  (`Sidebar.html:233`, `:290-294`);
- the router falls back after every `ProviderError`, retryable or not (`router.py:84`;
  `PROVIDER_ADAPTERS.md:101`);
- a repaired plan is stored with the route of the answer it replaced (`planner.py:114`;
  `ACCEPTANCE_CRITERIA.md:13`); `RouteIsOfAnAnswer` states what does hold of it;
- a stream that ends without `[DONE]` counts as complete and `finish_reason` is not looked at
  (`openai_compatible.py:156-175`); a cut answer usually does not parse and costs the repair;
- `timeout_ms` of a model request is set and never read: there is no deadline for an attempt;
- `list_models` promises the configured model "on any failure" (`hermes.py:57-59`), but an
  answer of another shape (`"data": null`) raises a TypeError nobody handles (`hermes.py:77`);
- a client may be shown an older list of models after a newer one: the reply that comes last
  wins, whatever it was asked (`hermes.py:84`);
- plans of NO_OPs only pass before the number of actions is looked at (`policy/service.py:88`);
- the metrics count audit entries, not runs, and a rejected run has none (`routes.py:356-384`);
- a script that runs into its time limit leaves the backend planning, so the user who sends
  again has two runs, the first unknown to the page (`ApiClient.gs:14`);
- the add-on sends no `x-client-token`, so the limiter counts per host (`ratelimit.py:38`;
  `API_CONTRACTS.md:183`), and the setting `burst` is not read;
- snapshots hold no formats (`ActionExecutor.gs:113`; `GOOGLE_SHEETS_ADDON.md:56`), nothing is
  compared with the preview before an apply (`ACCEPTANCE_CRITERIA.md:9`), a rollback writes
  literals back without escape (`ActionExecutor.gs:131`; `ACCEPTANCE_CRITERIA.md:12`),
  `overwrite_formulas` is not read (`ACCEPTANCE_CRITERIA.md:11`), and ADD_SHEET and NO_OP, which
  have no target, always throw (`ActionExecutor.gs:47`; `TOOL_REGISTRY.md:50`);
- policy takes the longest row for the width of a ragged matrix, accepts plans that mix
  NO_OP and writes, and ignores protected ranges it cannot read;
- undo sends an empty snapshot and reports RESTORED whatever it restored
  (`Sidebar.html:277`; `ACCEPTANCE_CRITERIA.md:14`), and Apply stays disabled after the next
  plan, because only a failed apply enables it;
- `applyBundle` is a function of the server script and is not in the page that calls it
  (`Sidebar.html:252`). `Sidebar` models the call as written, the throw among its outcomes.

## 7. What is not modelled

- *packing and layout of the prompt, the rest of the schemas, lengths*: functions of their
  input without state that decide nothing else here.
- *settings*: validated once at start-up, defaults included; they are the constants.
- *in-memory stores*: used by tests only.
- *stream bubble, capabilities and selection capture of the page*: the bubble and its timer
  start and end with `busy`, and its polls only read; see the plan.
- *read-only handlers and queries, `rank` and `_score`, `estimate_cost`, `health`* (no caller or
  no state).
- *what an undo restores*: the page sends an empty snapshot, so the bundle is empty.
- SQLite is taken to commit a statement or not; HMAC and SHA-256 are taken as injective.

## 8. Plan

Done, in this order: `RunBackend` with its lifecycle and proofs, `Planning`, `RateLimit`,
`Executor`, `Policy`, `Sidebar`; then `Streaming`, `ModelList` and `Gateway`, `PlanCheck` with
their proofs, and `Sidebar` over the lifecycle; then the proofs of `Executor`, `Sidebar`,
`ReportsComplete`, the number of changed cells and the preview, and why planning ends. Next:

1. an abstract apply (the whole bundle, nothing, or a script that stopped) implemented by
   `Executor`, and a composition of `Sidebar` and `Executor` over it, so that the cells, the row
   and the report are related in one module;
2. `Ranking` with a filter the prover sees: the ranking lists targets with an adapter, in the
   configured order, and for the Hermes profile Hermes targets only;
3. the stream bubble of the page with its timer and late polls; `build_undo_bundle` with a
   snapshot that is not empty.
