------------------------------ MODULE Streaming ------------------------------
(***************************************************************************)
(* Planning with the provider adapters in detail: the HTTP exchange of an  *)
(* attempt and its stream of lines (providers/implementations/             *)
(* openai_compatible.py, which Hermes shares), the local provider          *)
(* (fake.py), and the route that is reported with the plan (router.py,     *)
(* planner.py). Its steps are those of Planning, each with what the        *)
(* adapter does to the exchange, and steps of the exchange alone.          *)
(***************************************************************************)
EXTENDS Planning

CONSTANT Local \* the targets whose adapter answers without a network

\* Who answered, after how many that did not.
Route == [provider : Targets, fallbacks : Nat]

ASSUME StreamingAssumption == Local \subseteq Targets /\ MaxDeltas > 0 /\ Nil \notin Route

VARIABLES
    http,  \* http[r]: the exchange of the attempt under way
    parts, \* parts[r]: the chunks the adapter has collected in this attempt
    route, \* route[r]: the provider and the fallbacks reported with the plan, or Nil
    beat   \* the parity of what arrives and completes nothing

exchange   == <<http, parts, route, beat>>
streamVars == <<vars, exchange>>

-----------------------------------------------------------------------------

\* The adapter was given on_delta.
Streams(r) == call[r].round = 1 /\ call[r].streams

IsLocal(r) == CurrentTarget(call[r]) \in Local

In(r, phase) == Calling(r) /\ http[r] = phase

\* complete is called for the next target, if there is one.
Begin(r) ==
    /\ http'  = [http EXCEPT ![r] = IF call'[r].state = "calling" THEN "posted" ELSE "none"]
    /\ parts' = [parts EXCEPT ![r] = <<>>]

\* Faulty variant: the first of the ranked targets is reported.
RouteOfRanking(c) ==
    [provider |-> Ranked[RoutedProfile(c)][1], fallbacks |-> c.attempt - 1]

\* route_metadata: who answered, after how many that did not.
RouteOf(c) == [provider |-> CurrentTarget(c), fallbacks |-> c.attempt - 1]

-----------------------------------------------------------------------------
(* The steps of an exchange *)

Start(r) ==
    /\ StartPlan(r)
    /\ Begin(r)
    /\ UNCHANGED <<route, beat>>

\* Status 200 of a streaming request: its lines follow.
Accept(r) ==
    /\ In(r, "posted") /\ ~IsLocal(r) /\ Streams(r)
    /\ http' = [http EXCEPT ![r] = "open"]
    /\ UNCHANGED <<vars, parts, route, beat>>

\* A data line with text is collected and passed on.
PassOn(r) ==
    /\ In(r, "open")
    /\ Delta(r)
    /\ parts' = [parts EXCEPT ![r] =
                    Append(@, [run |-> r, attempt |-> call[r].attempt, n |-> call[r].sent + 1])]
    /\ UNCHANGED <<http, route, beat>>

\* A line without text, a comment or an event without content, is passed over.
KeepAlive(r) ==
    /\ In(r, "open")
    /\ beat' = ~beat
    /\ UNCHANGED <<vars, http, parts, route>>

\* Bytes arrive that complete neither the head of a response nor the body of one
\* that does not stream: httpx takes the timeout for each read.
Trickle(r) ==
    /\ In(r, "posted") /\ ~IsLocal(r)
    /\ beat' = ~beat
    /\ UNCHANGED <<vars, http, parts, route>>

\* The provider sends something and the exchange is where it was.
KeptWaiting(r) == KeepAlive(r) \/ Trickle(r)

\* The adapter returns its answer to the router, the router to the planner. An
\* answer without text does not parse. The repair is routed for its content only.
Answer(r) ==
    /\ ProviderAnswers(r)
    /\ (Streams(r) /\ parts[r] = <<>>) => call'[r].round = 2
    /\ route' = IF call[r].round = 1 THEN [route EXCEPT ![r] = RouteOf(call[r])] ELSE route
    /\ Begin(r)
    /\ UNCHANGED beat

\* [DONE], or the connection is closed in order: the chunks are the answer.
EndOfStream(r) == In(r, "open") /\ Answer(r)

\* Status 200 of a request that does not stream.
Reply(r) == In(r, "posted") /\ ~IsLocal(r) /\ ~Streams(r) /\ Answer(r)

\* FakeProviderAdapter.complete passes the whole content on, once.
PassWhole(r) ==
    /\ In(r, "posted") /\ IsLocal(r)
    /\ Delta(r)
    /\ parts' = [parts EXCEPT ![r] =
                    Append(@, [run |-> r, attempt |-> call[r].attempt, n |-> call[r].sent + 1])]
    /\ http'  = [http EXCEPT ![r] = "whole"]
    /\ UNCHANGED <<route, beat>>

ReplyWhole(r) ==
    /\ \/ In(r, "whole")
       \/ In(r, "posted") /\ IsLocal(r) /\ ~Streams(r)
    /\ Answer(r)

\* A status other than 200, a timeout, a broken connection, an event that is no
\* JSON, a fixture that says so: the adapter raises, the router goes on.
Fail(r) ==
    /\ In(r, "posted") \/ In(r, "open")
    /\ ProviderFails(r)
    /\ Begin(r)
    /\ UNCHANGED <<route, beat>>

Poll(k) == StreamStatus(k) /\ UNCHANGED exchange

Die ==
    /\ Restart
    /\ http'  = [r \in Runs |-> "none"]
    /\ parts' = [r \in Runs |-> <<>>]
    /\ UNCHANGED <<route, beat>>

-----------------------------------------------------------------------------

StreamInit ==
    /\ Init
    /\ http  = [r \in Runs |-> "none"]
    /\ parts = [r \in Runs |-> <<>>]
    /\ route = [r \in Runs |-> Nil]
    /\ beat  = FALSE

\* The adapter goes on with an exchange.
Exchange(r) ==
    \/ Accept(r)
    \/ PassOn(r)
    \/ KeptWaiting(r)
    \/ EndOfStream(r)
    \/ Reply(r)
    \/ PassWhole(r)
    \/ ReplyWhole(r)
    \/ Fail(r)

StreamNext ==
    \/ \E r \in Runs : Start(r) \/ Exchange(r)
    \/ \E k \in ClientTokens : Poll(k)
    \/ Die

StreamSpec == StreamInit /\ [][StreamNext]_streamVars

\* Something arrives or the read times out (provider_timeout_seconds, which the
\* client takes for each read): an exchange goes on, be it with a line without
\* text or with bytes that complete nothing.
StreamFairSpec == StreamSpec /\ \A r \in Runs : WF_streamVars(Exchange(r))

-----------------------------------------------------------------------------
(* Properties *)

\* The types of the state.
StreamTypeOK ==
    /\ TypeOK
    /\ http \in [Runs -> {"none", "posted", "open", "whole"}]
    /\ parts \in [Runs -> Seq(Chunk)]
    /\ route \in [Runs -> Route \cup {Nil}]
    /\ beat \in BOOLEAN

\* What the planner parses is what the client was shown while it waited: when a
\* streamed answer is accepted, the text polled under the run is, to the last
\* chunk, what the adapter collected, whatever attempts failed before in the
\* middle of their streams and whoever shares the token. And it is not empty.
AcceptedWasShown ==
    [][\A r \in Runs :
          (Calling(r) /\ Streams(r) /\ call'[r].state = "accepted") =>
              text[r] = parts[r] /\ parts[r] # <<>>]_streamVars

\* The route that is stored and audited with an accepted plan names the target
\* whose answer the plan is, and counts the calls made for nothing. For a plan that
\* was repaired it is the route of the answer it replaced: still a target that was
\* called, and still of the ranking of the request.
RouteIsOfAnAnswer ==
    \A r \in Runs : call[r].state = "accepted" =>
        /\ route[r] # Nil
        /\ route[r].provider = Ranked[call[r].profile][route[r].fallbacks + 1]
        /\ route[r].provider \in asked[r]
        /\ call[r].round = 1 =>
              route[r] = RouteOf(call[r]) /\ calls[r] = route[r].fallbacks + 1
        /\ call[r].round = 2 => calls[r] > route[r].fallbacks + 1

\* Planning comes to a verdict, with no more than the timeout of each read, unless
\* a provider keeps sending what completes nothing: lines without text in a
\* stream, single bytes of a response that does not stream or of its head.
SettlesUnlessKeptAlive ==
    \A r \in Runs : (Calling(r) ~> ~Calling(r)) \/ []<><<KeptWaiting(r)>>_streamVars

-----------------------------------------------------------------------------
(* Why planning ends *)

\* The attempts left to planning after the one under way, those of the repair
\* included.
AttemptsLeft(c) ==
    IF c.round = 1 THEN Limit(c.profile) - c.attempt + Limit(DefaultProfile)
                   ELSE Limit(DefaultProfile) - c.attempt

\* The steps left to an exchange: it is accepted, passes its chunks on and ends.
StepsLeft(c, phase) ==
    CASE phase = "posted" -> MaxDeltas + 2
      [] phase = "open"   -> MaxDeltas - c.sent + 1
      [] OTHER            -> 1

LeftOf(c, phase) ==
    IF c.state = "calling" THEN AttemptsLeft(c) * (MaxDeltas + 2) + StepsLeft(c, phase) ELSE 0

\* How many steps r is from its verdict at most.
Left(r) == LeftOf(call[r], http[r])

\* Planning has so many steps before it and none behind them: each attempt of the
\* request and of its repair is begun, streamed and ended at most once.
LeftBounded ==
    \A r \in Runs : Calling(r) => Left(r) \in 1..(2 * MaxAttempts * (MaxDeltas + 2))

\* Every step of an exchange but those that complete nothing brings planning closer
\* to its verdict, whichever attempt fails, answers or is followed by a repair, and nothing
\* that other runs, pollers or a restart do takes it further away.
PlanningComesCloser ==
    [][\A r \in Runs : Calling(r) =>
          /\ Left(r)' <= Left(r)
          /\ Exchange(r) => KeptWaiting(r) \/ Left(r)' < Left(r)]_streamVars

-----------------------------------------------------------------------------
(* Inductive invariants *)

\* While an attempt streams, the adapter and the run store hold the same chunks.
SameChunks ==
    \A r \in Runs : Calling(r) /\ Streams(r) =>
        parts[r] = Chunks(r, call[r].attempt, call[r].sent)

\* The route of r names a target that was called at this place of the ranking.
Reported(r) ==
    /\ route[r] # Nil
    /\ route[r].provider = Ranked[call[r].profile][route[r].fallbacks + 1]
    /\ route[r].provider \in asked[r]

\* In round 1 every call made is an attempt, the last the current one; in round 2
\* the route is that of the answer that did not parse.
RouteInv ==
    \A r \in Runs :
        /\ Calling(r) /\ call[r].round = 1 =>
              calls[r] = call[r].attempt /\ CurrentTarget(call[r]) \in asked[r]
        /\ Calling(r) /\ call[r].round = 2 =>
              Reported(r) /\ calls[r] > route[r].fallbacks + 1
        /\ call[r].state = "accepted" => Reported(r)
        /\ call[r].state = "accepted" /\ call[r].round = 1 =>
              route[r] = RouteOf(call[r]) /\ calls[r] = route[r].fallbacks + 1
        /\ call[r].state = "accepted" /\ call[r].round = 2 =>
              calls[r] > route[r].fallbacks + 1

\* A run that is being planned has an exchange, and streamed no more than an
\* answer holds.
ExchangeInv ==
    \A r \in Runs : Calling(r) => http[r] # "none" /\ call[r].sent <= MaxDeltas
=============================================================================
