----------------------------- MODULE PlanCheck ------------------------------
(***************************************************************************)
(* POST /v1/runs:plan from the body to the reply, for one request: the     *)
(* size of the context (context/engine.py), the answer and its schema, one *)
(* repair (planning/planner.py), the policy check (Policy), the scan of    *)
(* the texts (planning/safety.py), and the preview or the problem that is  *)
(* replied (api/routes.py, core/errors.py, main.py).                       *)
(***************************************************************************)
EXTENDS Policy

CONSTANTS
    Contexts,   \* the ranges of the contexts a request may bring, as sequences
    MaxContext, \* max_context_cells
    Nil         \* no reply yet

ASSUME PlanCheckAssumption ==
    /\ Contexts \subseteq Seq(Text)
    /\ MaxContext \in Nat

VARIABLES
    context, \* the ranges of the context
    answer,  \* what is odd about the latest answer, for a JSON library
    stage,   \* how far the request has got
    reply    \* the reply, or Nil

planVars == <<vars, context, answer, stage, reply>>

-----------------------------------------------------------------------------
(* Replies *)

Problems == {"PayloadTooLarge", "ValidationError", "HardLimitError", "SchemaValidationError",
             "PolicyViolationError", "ProvidersExhaustedError", "ValueError"}

\* The status of a problem; what is no domain error is answered by the server.
Status(problem) ==
    CASE problem \in {"PayloadTooLarge", "HardLimitError"} -> 413
      [] problem \in {"ValidationError", "SchemaValidationError", "PolicyViolationError"} -> 422
      [] problem = "ProvidersExhaustedError" -> 502
      [] problem = "ValueError" -> 500

\* A reply; only a preview has a risk and a number of cells.
Reply(status, risk, cells) == [status |-> status, risk |-> risk, cells |-> cells]

Raise(problem) ==
    /\ reply' = Reply(Status(problem), "none", 0)
    /\ stage' = "done"
    /\ UNCHANGED <<vars, context>>

\* _risk_of: the highest of the risks the actions carry.
RiskOf(p) ==
    LET risks == {p[n].risk : n \in 1..Len(p)}
    IN  CASE risks = {}                                  -> "none"
          [] "high" \in risks                            -> "high"
          [] "high" \notin risks /\ "medium" \in risks   -> "medium"
          [] risks = {"low"}                             -> "low"

-----------------------------------------------------------------------------
(* The context and the answer *)

Goto(next) == stage' = next /\ UNCHANGED <<context, reply>>

\* count_context_cells
ContextCells ==
    LET total[n \in 0..Len(context)] ==
            IF n = 0 THEN 0 ELSE total[n - 1] + CellCount(context[n])
    IN  total[Len(context)]

ContextReadable == \A n \in 1..Len(context) : Readable(context[n])

\* Faulty variant: nothing is said of the risk of a NO_OP.
MatchesSchemaAnyRisk(p) ==
    \A n \in 1..Len(p) :
        /\ p[n].target = None <=> p[n].type \in {"ADD_SHEET", "NO_OP"}
        /\ p[n].type \in MatrixTypes => p[n].rows # <<>>

\* The schema of a plan, where the policy depends on it.
MatchesSchema(p) ==
    \A n \in 1..Len(p) :
        /\ p[n].target = None <=> p[n].type \in {"ADD_SHEET", "NO_OP"}
        /\ p[n].type \in MatrixTypes => p[n].rows # <<>>
        /\ p[n].type = "NO_OP" => p[n].risk = "low"

\* More than max_request_bytes, or no PlanRequest.
RefuseBody ==
    /\ stage = "body"
    /\ Raise("PayloadTooLarge") \/ Raise("ValidationError")
    /\ UNCHANGED answer

\* The cells of the context are counted; parse_a1 raises for a range it cannot read.
ReadContext ==
    /\ stage = "body"
    /\ \/ ~ContextReadable /\ Raise("ValueError")
       \/ ContextReadable /\ ContextCells > MaxContext /\ Raise("HardLimitError")
       \/ ContextReadable /\ ContextCells <= MaxContext /\ Goto("asked") /\ UNCHANGED vars
    /\ UNCHANGED answer

Waiting == stage \in {"asked", "repair"}

Exhausted == Waiting /\ Raise("ProvidersExhaustedError") /\ UNCHANGED answer

\* The arguments of these actions are checked by the JSON schema alone, which takes
\* strings that cannot be written out again, such as half of a surrogate pair.
TakesAnything(p) == \E n \in 1..Len(p) : p[n].type \notin {"NO_OP", "CLEAR_RANGE"}

\* A plan that matches the schema goes to the policy, from the first action on.
Parse ==
    /\ Waiting
    /\ plan' \in {p \in Plans : MatchesSchema(p)}
    /\ \/ answer' = "plain"
       \/ TakesAnything(plan') /\ answer' = "unencodable"
    /\ i' = 1 /\ verdict' = "checking"
    /\ Goto("policy")
    /\ UNCHANGED req

\* No JSON object, or one that does not match: one repair.
DoesNotParse ==
    /\ \/ stage = "asked" /\ Goto("repair") /\ UNCHANGED vars
       \/ stage = "repair" /\ Raise("SchemaValidationError")
    /\ answer' = "plain"

\* An integer of more digits than Python converts, or JSON nested too deeply, is
\* no JSONDecodeError: it is neither repaired nor a problem of the domain.
DoesNotLoad ==
    /\ Waiting
    /\ answer' = "unloadable"
    /\ Raise("ValueError")

-----------------------------------------------------------------------------
(* The verdict and the reply *)

Check ==
    /\ stage = "policy"
    /\ Next
    /\ UNCHANGED <<context, answer, stage, reply>>

\* An accepted plan whose texts carry a marker is refused all the same.
Conclude ==
    /\ stage = "policy"
    /\ \/ verdict = "rejected" /\ Raise("PolicyViolationError")
       \/ verdict = "raised" /\ Raise("ValueError")
       \/ Accepted /\ Raise("PolicyViolationError")
    /\ UNCHANGED answer

\* The preview, of the plan as the policy left it.
Preview ==
    /\ stage = "policy" /\ Accepted /\ answer = "plain"
    /\ reply' = Reply(200, RiskOf(plan), PlanChangedCells)
    /\ stage' = "done"
    /\ UNCHANGED <<vars, context, answer>>

\* plan_hash, or else the reply, cannot write the accepted plan out.
DoesNotEncode ==
    /\ stage = "policy" /\ Accepted /\ answer = "unencodable"
    /\ Raise("ValueError")
    /\ UNCHANGED answer

PlanInit ==
    /\ req \in Requests /\ context \in Contexts
    /\ plan = <<>> /\ i = 1 /\ verdict = "checking"
    /\ stage = "body" /\ answer = "none" /\ reply = Nil

PlanNext ==
    \/ RefuseBody \/ ReadContext
    \/ Exhausted \/ Parse \/ DoesNotParse \/ DoesNotLoad
    \/ Check \/ Conclude \/ Preview \/ DoesNotEncode

PlanSpec == PlanInit /\ [][PlanNext]_planVars

-----------------------------------------------------------------------------
(* Properties *)

\* The types of the state.
PlanTypeOK ==
    /\ TypeOK
    /\ context \in Contexts
    /\ answer \in {"none", "plain", "unloadable", "unencodable"}
    /\ stage \in {"body", "asked", "repair", "policy", "done"}
    /\ reply = Nil \/ reply \in [status : {200, 413, 422, 500, 502},
                                 risk   : Risks \cup {"none"},
                                 cells  : Nat]

Previewed == reply # Nil /\ reply.status = 200

\* The order of the risks.
Severity == [none |-> 0, low |-> 1, medium |-> 2, high |-> 3]

\* The preview is computed from the plan and not taken from the model: whatever the
\* model declared, and by whichever way the plan was accepted, its risk is the
\* highest that the registry gives to the type of one of the actions, and the number
\* of cells is no less than what the plan really changes and no more than the
\* limit. That a type is risky enough is not said: nothing but the type counts,
\* neither what is overwritten nor how much.
PreviewIsRecomputed ==
    Previewed =>
        /\ plan = <<>> => reply.risk = "none"
        /\ plan # <<>> => \E n \in 1..Len(plan) : reply.risk = DefaultRisk(plan[n].type)
        /\ \A n \in 1..Len(plan) :
              Severity[DefaultRisk(plan[n].type)] <= Severity[reply.risk]
        /\ reply.cells <= MaxChanged
        /\ reply.cells >= Cardinality(UNION {Changes(plan[n]) :
                              n \in {m \in 1..Len(plan) : ChangesCells(plan[m])}})

\* Of the server's own errors no plan is the cause by its targets, its matrices or
\* its missing the schema: there is a range of the request that parse_a1 cannot read,
\* or an answer that Python's JSON cannot read in or write out.
UnhandledOnlyForUnreadable ==
    reply # Nil /\ reply.status = 500 =>
        \/ ~Readable(req.selection.range) \/ ~ContextReadable
        \/ answer \in {"unloadable", "unencodable"}

-----------------------------------------------------------------------------
(* Inductive invariant *)

\* The schema sees to the risk of a NO_OP, which the policy does not always.
NoOpsAreLow == \A n \in 1..Len(plan) : plan[n].type = "NO_OP" => plan[n].risk = "low"

\* There is one reply, and a preview says what the policy left.
ReplyInv ==
    /\ stage # "done" => reply = Nil
    /\ NoOpsAreLow
    /\ Previewed =>
          Accepted /\ reply.risk = RiskOf(plan) /\ reply.cells = PlanChangedCells
=============================================================================
