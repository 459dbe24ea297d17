------------------------------ MODULE Planning ------------------------------
(***************************************************************************)
(* What happens while create_plan awaits the planner: the router tries     *)
(* the ranked targets one after another (providers/router.py), the planner *)
(* asks once more when the answer does not parse (planning/planner.py),    *)
(* and the text an attempt streams is collected under the run for a second *)
(* request that polls it by the client's run token (runs/service.py,       *)
(* stream_status). Run tokens and stream text live in the process only.    *)
(***************************************************************************)
EXTENDS Naturals, Sequences, FiniteSets

CONSTANTS
    Runs,          \* planning requests, one run each
    ClientTokens,  \* run tokens clients choose; nothing forbids using one twice
    Targets,       \* the providers that have an adapter
    Ranked,        \* Ranked[profile]: what rank_keep_order returns
    HermesTargets, \* "hermes" and the configured Hermes profile
    MaxAttempts,   \* max_provider_attempts
    MaxDeltas,     \* bound: chunks an attempt streams
    Nil            \* no token, no target, nothing polled

\* The routing profiles the code tells apart; "auto" stands for every other name.
Profiles == {"auto", "hermes"}

ASSUME PlanningAssumption ==
    /\ Ranked \in [Profiles -> Seq(Targets)]
    /\ MaxAttempts \in Nat \ {0} /\ MaxDeltas \in Nat
    /\ Nil \notin Targets /\ Nil \notin ClientTokens /\ Nil \notin Runs

VARIABLES
    tokens,  \* tokens[k]: the run registered under run token k
    text,    \* text[r]: the chunks collected under r
    call,    \* call[r]: how far planning of r has got
    seen,    \* seen[k]: the chunks the latest poll for k returned
    calls,   \* history: provider calls made for r; counts to one over the limit
    asked    \* history: the targets called for r

vars == <<tokens, text, call, seen, calls, asked>>

-----------------------------------------------------------------------------
(* Data *)

\* How many of the ranked targets are tried.
Limit(profile) ==
    IF Len(Ranked[profile]) < MaxAttempts THEN Len(Ranked[profile]) ELSE MaxAttempts

\* default_routing_profile, used when route is called without a profile.
DefaultProfile == "auto"

\* A chunk of streamed text: whose, from which attempt, and its position.
Chunk == [run : Runs, attempt : Nat, n : Nat]

Chunks(r, attempt, n) == [i \in 1..n |-> [run |-> r, attempt |-> attempt, n |-> i]]

\* Planning of a run. Round 1 is the request, round 2 the repair.
Call == [state   : {"new", "calling", "accepted", "rejected", "lost"},
         profile : Profiles,
         streams : BOOLEAN,
         round   : {1, 2},
         attempt : Nat,
         sent    : Nat]

New == [state |-> "new", profile |-> "auto", streams |-> FALSE, round |-> 1,
        attempt |-> 0, sent |-> 0]

Calling(r) == call[r].state = "calling"

\* The profile route was called with in this round.
RoutedProfile(c) == IF c.round = 1 THEN c.profile ELSE DefaultProfile

\* Faulty variant: the profile is taken for the id of a target.
CurrentTargetIsProfile(c) == c.profile

CurrentTarget(c) == Ranked[RoutedProfile(c)][c.attempt]

CountCall(r) == calls' = [calls EXCEPT ![r] = IF @ > 2 * MaxAttempts THEN @ ELSE @ + 1]

-----------------------------------------------------------------------------
(* The steps of ModelRouter.route and Planner.plan *)

\* Faulty variant: the text of the failed attempt is kept.
AttemptKeepsText(r, c) ==
    IF c.attempt <= Limit(RoutedProfile(c))
    THEN /\ call'  = [call EXCEPT ![r] = [c EXCEPT !.sent = 0]]
         /\ asked' = [asked EXCEPT ![r] = @ \cup {CurrentTarget(c)}]
         /\ CountCall(r)
         /\ text'  = text
    ELSE /\ call' = [call EXCEPT ![r] = [c EXCEPT !.state = "rejected"]]
         /\ UNCHANGED <<text, calls, asked>>

\* Faulty variant: after the last target the router starts over.
AttemptForEver(r, c) ==
    LET d == [c EXCEPT !.sent = 0,
                       !.attempt = IF @ <= Limit(RoutedProfile(c)) THEN @ ELSE 1]
    IN  /\ call'  = [call EXCEPT ![r] = d]
        /\ asked' = [asked EXCEPT ![r] = @ \cup {CurrentTarget(d)}]
        /\ CountCall(r)
        /\ text'  = IF d.round = 1 /\ d.streams THEN [text EXCEPT ![r] = <<>>] ELSE text

\* The loop of route enters attempt c.attempt, which first discards what was
\* streamed; behind the last target all have failed. The repair round is routed
\* without callbacks, so it neither discards nor streams.
Attempt(r, c) ==
    IF c.attempt <= Limit(RoutedProfile(c))
    THEN /\ call'  = [call EXCEPT ![r] = [c EXCEPT !.sent = 0]]
         /\ asked' = [asked EXCEPT ![r] = @ \cup {CurrentTarget(c)}]
         /\ CountCall(r)
         /\ text'  = IF c.round = 1 /\ c.streams THEN [text EXCEPT ![r] = <<>>] ELSE text
    ELSE /\ call' = [call EXCEPT ![r] = [c EXCEPT !.state = "rejected"]]
         /\ UNCHANGED <<text, calls, asked>>

Settled(r, verdict, c) ==
    /\ call' = [call EXCEPT ![r] = [c EXCEPT !.state = verdict]]
    /\ UNCHANGED <<text, calls, asked>>

\* create_plan: the run token is registered before anything can fail. A context
\* over the limit is refused before the first call.
StartPlan(r) ==
    /\ call[r].state = "new"
    /\ \E profile \in Profiles, k \in ClientTokens \cup {Nil} :
          LET c == [call[r] EXCEPT !.state = "calling", !.profile = profile,
                                   !.streams = (k # Nil), !.attempt = 1]
          IN  /\ tokens' = IF k = Nil THEN tokens ELSE [tokens EXCEPT ![k] = r]
              /\ Attempt(r, c) \/ Settled(r, "rejected", c)
    /\ UNCHANGED seen

\* Faulty variant: a chunk replaces the text instead of being appended.
DeltaReplaces(r) ==
    LET c == call[r] IN
    /\ Calling(r)
    /\ c.round = 1 /\ c.streams /\ c.sent < MaxDeltas
    /\ text' = [text EXCEPT ![r] =
                   <<[run |-> r, attempt |-> c.attempt, n |-> c.sent + 1]>>]
    /\ call' = [call EXCEPT ![r].sent = @ + 1]
    /\ UNCHANGED <<tokens, seen, calls, asked>>

\* The provider streams a chunk of its answer, if anyone listens.
Delta(r) ==
    LET c == call[r] IN
    /\ Calling(r)
    /\ c.round = 1 /\ c.streams /\ c.sent < MaxDeltas
    /\ text' = [text EXCEPT ![r] =
                   Append(@, [run |-> r, attempt |-> c.attempt, n |-> c.sent + 1])]
    /\ call' = [call EXCEPT ![r].sent = @ + 1]
    /\ UNCHANGED <<tokens, seen, calls, asked>>

\* The attempt fails, possibly in the middle of a stream: whatever the failure,
\* the next target is tried.
ProviderFails(r) ==
    /\ Calling(r)
    /\ Attempt(r, [call[r] EXCEPT !.attempt = @ + 1])
    /\ UNCHANGED <<tokens, seen>>

\* Faulty variant: the repair is repaired, too.
ProviderAnswersAgain(r) ==
    /\ Calling(r)
    /\ \/ \E verdict \in {"accepted", "rejected"} : Settled(r, verdict, call[r])
       \/ Attempt(r, [call[r] EXCEPT !.round = 2, !.attempt = 1])
    /\ UNCHANGED <<tokens, seen>>

\* The attempt answers. An answer that parses goes through policy; one that does
\* not is repaired once, by a request routed afresh.
ProviderAnswers(r) ==
    /\ Calling(r)
    /\ \/ \E verdict \in {"accepted", "rejected"} : Settled(r, verdict, call[r])
       \/ /\ call[r].round = 1
          /\ Attempt(r, [call[r] EXCEPT !.round = 2, !.attempt = 1])
    /\ UNCHANGED <<tokens, seen>>

-----------------------------------------------------------------------------
(* Polling and restarts *)

\* GET /runs/by-token/{client_run_token}:stream-status
StreamStatus(k) ==
    /\ tokens[k] # Nil
    /\ seen' = [seen EXCEPT ![k] = text[tokens[k]]]
    /\ UNCHANGED <<tokens, text, call, calls, asked>>

\* The process dies: planning in progress is lost, so are tokens and text.
Restart ==
    /\ tokens' = [k \in ClientTokens |-> Nil]
    /\ text'   = [r \in Runs |-> <<>>]
    /\ call'   = [r \in Runs |->
                    IF Calling(r) THEN [call[r] EXCEPT !.state = "lost"] ELSE call[r]]
    /\ UNCHANGED <<seen, calls, asked>>

-----------------------------------------------------------------------------

Init ==
    /\ tokens = [k \in ClientTokens |-> Nil]
    /\ text   = [r \in Runs |-> <<>>]
    /\ call   = [r \in Runs |-> New]
    /\ seen   = [k \in ClientTokens |-> <<>>]
    /\ calls  = [r \in Runs |-> 0]
    /\ asked  = [r \in Runs |-> {}]

Plan(r) == StartPlan(r) \/ Delta(r) \/ ProviderFails(r) \/ ProviderAnswers(r)

Next ==
    \/ \E r \in Runs : Plan(r)
    \/ \E k \in ClientTokens : StreamStatus(k)
    \/ Restart

Spec == Init /\ [][Next]_vars

-----------------------------------------------------------------------------
(* Properties *)

\* The types of the state.
TypeOK ==
    /\ tokens \in [ClientTokens -> Runs \cup {Nil}]
    /\ text \in [Runs -> Seq(Chunk)]
    /\ call \in [Runs -> Call]
    /\ seen \in [ClientTokens -> Seq(Chunk)]
    /\ calls \in [Runs -> Nat]
    /\ asked \in [Runs -> SUBSET Targets]

\* While an attempt of the request streams, the text under its run is what this
\* attempt has streamed so far, without a remnant of an attempt that failed and
\* without a gap (ModelRouter.route, on_attempt_start).
TextIsTheAttempt ==
    \A r \in Runs : Calling(r) /\ call[r].round = 1 /\ call[r].streams =>
        text[r] = Chunks(r, call[r].attempt, call[r].sent)

\* Whenever a client polls, and whoever else plans under the same token
\* meanwhile, the partial text it is shown is the beginning of one answer: of one
\* run, from one attempt, from its first chunk on, also across restarts.
PollsSeeOneAnswer ==
    \A k \in ClientTokens : \E r \in Runs, attempt \in 0..MaxAttempts :
        seen[k] = Chunks(r, attempt, Len(seen[k]))

\* Planning one run calls providers at most max_provider_attempts times for the
\* request and as often again for its one repair, however they fail or answer.
CallsBounded == \A r \in Runs : calls[r] <= 2 * MaxAttempts

-----------------------------------------------------------------------------
(* Inductive invariants *)

\* The attempt under way asks one of the ranked targets.
AttemptInv ==
    \A r \in Runs : Calling(r) => call[r].attempt \in 1..Limit(RoutedProfile(call[r]))

\* Stream text is always the beginning of one answer, the running attempt's own
\* while it streams.
TextInv ==
    /\ TextIsTheAttempt
    /\ \A r \in Runs : \E attempt \in 0..MaxAttempts :
          text[r] = Chunks(r, attempt, Len(text[r]))
    /\ PollsSeeOneAnswer

\* The calls made are those of the attempts so far.
CallsInv ==
    \A r \in Runs :
        /\ call[r].state = "new" => calls[r] = 0 /\ call[r].round = 1
        /\ Calling(r) /\ call[r].round = 1 => calls[r] <= call[r].attempt
        /\ Calling(r) /\ call[r].round = 2 => calls[r] <= MaxAttempts + call[r].attempt
        /\ calls[r] <= 2 * MaxAttempts

-----------------------------------------------------------------------------
(* What a document says and the code does not do *)

\* HERMES_INTEGRATION.md, section 7: for profile hermes, only Hermes targets are
\* eligible.
HermesOnly ==
    \A r \in Runs : call[r].profile = "hermes" => asked[r] \subseteq HermesTargets
=============================================================================
