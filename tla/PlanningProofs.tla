--------------------------- MODULE PlanningProofs ---------------------------
(***************************************************************************)
(* Planning and the adapters, for every set of runs, run tokens, targets   *)
(* and chunks, every ranking and every limit: the state is typed, stream   *)
(* text is the beginning of one answer, and provider calls are bounded;    *)
(* the adapters' exchanges are steps of Planning, a plan is parsed from    *)
(* the text that was shown, the route reported is that of an answer, and   *)
(* every step but an empty line brings planning closer to its verdict.     *)
(***************************************************************************)
EXTENDS Streaming, TLAPS

\* The fields of a call in progress.
LEMMA CallType ==
    ASSUME TypeOK, NEW r \in Runs
    PROVE  /\ call[r] \in Call /\ call[r].profile \in Profiles /\ call[r].round \in {1, 2}
           /\ call[r].attempt \in Nat /\ call[r].sent \in Nat /\ call[r].streams \in BOOLEAN
  BY DEF TypeOK, Call

\* A profile is tried on so many targets, and those are targets.
LEMMA LimitType ==
    ASSUME NEW p \in Profiles
    PROVE  /\ Limit(p) \in Nat /\ Limit(p) <= MaxAttempts
           /\ \A i \in 1..Limit(p) : Ranked[p][i] \in Targets
<1>1. Ranked[p] \in Seq(Targets) /\ MaxAttempts \in Nat
  BY PlanningAssumption
<1>2. Len(Ranked[p]) \in Nat
  BY <1>1
<1> QED BY <1>1, <1>2 DEF Limit

LEMMA RoutedType == \A c \in Call : RoutedProfile(c) \in Profiles
  BY DEF RoutedProfile, Call, Profiles, DefaultProfile

\* What entering an attempt does to the run, and to nothing else.
LEMMA AttemptStep ==
    ASSUME TypeOK, NEW r \in Runs, NEW c \in Call, c.attempt > 0, Attempt(r, c)
    PROVE  /\ call \in [Runs -> Call] /\ call' \in [Runs -> Call]
           /\ text' \in [Runs -> Seq(Chunk)]
           /\ calls' \in [Runs -> Nat]
           /\ asked' \in [Runs -> SUBSET Targets]
           /\ \A x \in Runs \ {r} :
                 call'[x] = call[x] /\ text'[x] = text[x] /\ calls'[x] = calls[x]
           /\ \/ /\ c.attempt <= Limit(RoutedProfile(c))
                 /\ call'[r] = [c EXCEPT !.sent = 0]
                 /\ text'[r] = IF c.round = 1 /\ c.streams THEN <<>> ELSE text[r]
                 /\ calls'[r] <= calls[r] + 1
              \/ /\ call'[r] = [c EXCEPT !.state = "rejected"]
                 /\ text'[r] = text[r]
                 /\ calls'[r] = calls[r]
<1>0. c.attempt \in Nat /\ RoutedProfile(c) \in Profiles
  BY RoutedType DEF Call
<1>1. CASE c.attempt <= Limit(RoutedProfile(c))
  <2>1. /\ call'  = [call EXCEPT ![r] = [c EXCEPT !.sent = 0]]
        /\ asked' = [asked EXCEPT ![r] = @ \cup {CurrentTarget(c)}]
        /\ calls' = [calls EXCEPT ![r] = IF @ > 2 * MaxAttempts THEN @ ELSE @ + 1]
        /\ text'  = IF c.round = 1 /\ c.streams THEN [text EXCEPT ![r] = <<>>] ELSE text
    BY <1>1 DEF Attempt, CountCall
  <2>2. CurrentTarget(c) \in Targets
    BY <1>0, <1>1, LimitType DEF CurrentTarget
  <2>3. [c EXCEPT !.sent = 0] \in Call
    BY DEF Call
  <2>4. <<>> \in Seq(Chunk)
    OBVIOUS
  <2>5. calls' \in [Runs -> Nat] /\ calls'[r] <= calls[r] + 1
        /\ \A x \in Runs \ {r} : calls'[x] = calls[x]
    BY <2>1 DEF TypeOK
  <2>6. asked' \in [Runs -> SUBSET Targets]
    BY <2>1, <2>2 DEF TypeOK
  <2>7. /\ call' \in [Runs -> Call] /\ call'[r] = [c EXCEPT !.sent = 0]
        /\ \A x \in Runs \ {r} : call'[x] = call[x]
    BY <2>1, <2>3 DEF TypeOK
  <2>8. /\ text' \in [Runs -> Seq(Chunk)]
        /\ text'[r] = IF c.round = 1 /\ c.streams THEN <<>> ELSE text[r]
        /\ \A x \in Runs \ {r} : text'[x] = text[x]
    BY <2>1, <2>4 DEF TypeOK
  <2> QED BY <1>1, <2>5, <2>6, <2>7, <2>8 DEF TypeOK
<1>2. CASE ~(c.attempt <= Limit(RoutedProfile(c)))
  <2>1. /\ call' = [call EXCEPT ![r] = [c EXCEPT !.state = "rejected"]]
        /\ UNCHANGED <<text, calls, asked>>
    BY <1>2 DEF Attempt
  <2>2. [c EXCEPT !.state = "rejected"] \in Call
    BY DEF Call
  <2> QED BY <2>1, <2>2 DEF TypeOK
<1> QED BY <1>1, <1>2

LEMMA SettledStep ==
    ASSUME TypeOK, NEW r \in Runs, NEW c \in Call, NEW verdict \in {"accepted", "rejected"},
           Settled(r, verdict, c)
    PROVE  /\ call' \in [Runs -> Call]
           /\ text' = text /\ calls' = calls /\ asked' = asked
           /\ \A x \in Runs \ {r} : call'[x] = call[x]
           /\ call'[r] = [c EXCEPT !.state = verdict]
<1>1. [c EXCEPT !.state = verdict] \in Call
  BY DEF Call
<1> QED BY <1>1 DEF Settled, TypeOK

\* The two forms a step of the planner takes: an attempt is entered, or planning
\* settles. Both work on a call record of this shape.
LEMMA StartStep ==
    ASSUME TypeOK, NEW r \in Runs, StartPlan(r)
    PROVE  /\ call[r].state = "new" /\ seen' = seen
           /\ tokens' \in [ClientTokens -> Runs \cup {Nil}]
           /\ \E c \in Call :
                 /\ c.state = "calling" /\ c.attempt = 1 /\ c.round = call[r].round
                 /\ Attempt(r, c) \/ Settled(r, "rejected", c)
<1>1. PICK p \in Profiles, k \in ClientTokens \cup {Nil} :
        LET c == [call[r] EXCEPT !.state = "calling", !.profile = p,
                                 !.streams = (k # Nil), !.attempt = 1]
        IN  /\ tokens' = IF k = Nil THEN tokens ELSE [tokens EXCEPT ![k] = r]
            /\ Attempt(r, c) \/ Settled(r, "rejected", c)
  BY DEF StartPlan
<1> DEFINE c == [call[r] EXCEPT !.state = "calling", !.profile = p,
                                !.streams = (k # Nil), !.attempt = 1]
<1>2. c \in Call /\ c.state = "calling" /\ c.attempt = 1 /\ c.round = call[r].round
  BY CallType DEF Call
<1>3. tokens' \in [ClientTokens -> Runs \cup {Nil}]
  BY <1>1 DEF TypeOK
<1>4. Attempt(r, c) \/ Settled(r, "rejected", c)
  BY <1>1
<1> HIDE DEF c
<1> QED BY <1>2, <1>3, <1>4 DEF StartPlan

LEMMA FailStep ==
    ASSUME TypeOK, NEW r \in Runs, ProviderFails(r)
    PROVE  /\ Calling(r) /\ UNCHANGED <<tokens, seen>>
           /\ \E c \in Call :
                 /\ c.state = "calling" /\ c.attempt = call[r].attempt + 1
                 /\ c.round = call[r].round
                 /\ Attempt(r, c)
<1> DEFINE c == [call[r] EXCEPT !.attempt = @ + 1]
<1>1. Attempt(r, c)
  BY DEF ProviderFails
<1>2. /\ c \in Call /\ c.state = call[r].state /\ c.attempt = call[r].attempt + 1
      /\ c.round = call[r].round
  <2> DEFINE q == call[r]
  <2>1. q \in Call /\ q.attempt + 1 \in Nat
    BY CallType
  <2> HIDE DEF q
  <2>2. c = [q EXCEPT !.attempt = q.attempt + 1]
    BY DEF q
  <2>3. c \in Call /\ c.attempt = q.attempt + 1 /\ c.state = q.state /\ c.round = q.round
    BY <2>1, <2>2 DEF Call
  <2> QED BY <2>3 DEF q
<1> HIDE DEF c
<1> QED BY <1>1, <1>2 DEF ProviderFails, Calling

LEMMA AnswerStep ==
    ASSUME TypeOK, NEW r \in Runs, ProviderAnswers(r),
           call[r].attempt \in 1..Limit(RoutedProfile(call[r]))
    PROVE  /\ Calling(r) /\ UNCHANGED <<tokens, seen>>
           /\ \E c \in Call :
                 \/ Settled(r, "accepted", c) /\ c.attempt = call[r].attempt
                 \/ Settled(r, "rejected", c) /\ c.attempt = call[r].attempt
                 \/ /\ call[r].round = 1 /\ c.state = "calling"
                    /\ c.attempt = 1 /\ c.round = 2
                    /\ Attempt(r, c)
<1> DEFINE q      == call[r]
           repair == [q EXCEPT !.round = 2, !.attempt = 1]
<1>1. q \in Call
  BY CallType
<1>2. /\ repair \in Call /\ repair.state = q.state /\ repair.attempt = 1
      /\ repair.round = 2
  BY <1>1 DEF Call
<1>3. \/ \E verdict \in {"accepted", "rejected"} : Settled(r, verdict, q)
      \/ q.round = 1 /\ Attempt(r, repair)
  BY DEF ProviderAnswers
<1>4. q.state = "calling" /\ UNCHANGED <<tokens, seen>>
  BY DEF ProviderAnswers, Calling
<1> HIDE DEF repair
<1> QED BY <1>1, <1>2, <1>3, <1>4 DEF Calling

-----------------------------------------------------------------------------
(* Types and attempts *)

\* Entering an attempt keeps the types and the bound on attempts.
LEMMA AttemptTypes ==
    ASSUME TypeOK, AttemptInv, NEW r \in Runs, NEW c \in Call, c.attempt > 0, Attempt(r, c),
           tokens' \in [ClientTokens -> Runs \cup {Nil}], seen' = seen
    PROVE  TypeOK' /\ AttemptInv'
<1>1. TypeOK'
  BY AttemptStep DEF TypeOK
<1>2. ASSUME NEW x \in Runs \ {r} PROVE call'[x] = call[x]
  BY AttemptStep
<1>3. call'[r].state = "calling" => call'[r].attempt \in 1..Limit(RoutedProfile(call'[r]))
  <2>0. RoutedProfile(c) \in Profiles /\ c.attempt \in Nat
    BY RoutedType DEF Call
  <2>1. CASE /\ c.attempt <= Limit(RoutedProfile(c))
             /\ call'[r] = [c EXCEPT !.sent = 0]
    <3>1. call'[r].attempt = c.attempt /\ RoutedProfile(call'[r]) = RoutedProfile(c)
      BY <2>1 DEF RoutedProfile, Call
    <3> QED BY <2>0, <2>1, <3>1, LimitType
  <2>2. CASE call'[r] = [c EXCEPT !.state = "rejected"]
    BY <2>2 DEF Call
  <2> QED BY <2>1, <2>2, AttemptStep
<1> QED BY <1>1, <1>2, <1>3 DEF AttemptInv, Calling

LEMMA SettledTypes ==
    ASSUME TypeOK, AttemptInv, NEW r \in Runs, NEW c \in Call,
           NEW verdict \in {"accepted", "rejected"}, Settled(r, verdict, c),
           tokens' \in [ClientTokens -> Runs \cup {Nil}], seen' = seen
    PROVE  TypeOK' /\ AttemptInv'
<1>0. /\ call' \in [Runs -> Call]
      /\ text' = text /\ calls' = calls /\ asked' = asked
      /\ \A x \in Runs \ {r} : call'[x] = call[x]
      /\ call'[r] = [c EXCEPT !.state = verdict]
  BY SettledStep, ZenonT(30)
<1>1. TypeOK'
  BY <1>0 DEF TypeOK
<1>2. call'[r].state = verdict
  BY <1>0 DEF Call
<1>3. verdict # "calling"
  OBVIOUS
<1> QED BY <1>0, <1>1, <1>2, <1>3 DEF AttemptInv, Calling

LEMMA NextTypes ==
    ASSUME TypeOK, AttemptInv, [Next]_vars
    PROVE  TypeOK' /\ AttemptInv'
<1>1. ASSUME NEW r \in Runs, StartPlan(r) PROVE TypeOK' /\ AttemptInv'
  <2>1. PICK c \in Call : /\ c.state = "calling" /\ c.attempt = 1
                          /\ Attempt(r, c) \/ Settled(r, "rejected", c)
    BY <1>1, StartStep
  <2> QED BY <1>1, <2>1, StartStep, AttemptTypes, SettledTypes
<1>2. ASSUME NEW r \in Runs, Delta(r) PROVE TypeOK' /\ AttemptInv'
  <2> DEFINE q     == call[r]
             chunk == [run |-> r, attempt |-> q.attempt, n |-> q.sent + 1]
             next  == [q EXCEPT !.sent = q.sent + 1]
  <2>1. q \in Call /\ q.attempt \in Nat /\ q.sent \in Nat
    BY CallType
  <2>2. chunk \in Chunk
    BY <2>1 DEF Chunk
  <2>3. next \in Call /\ next.attempt = q.attempt /\ RoutedProfile(next) = RoutedProfile(q)
    BY <2>1 DEF Call, RoutedProfile
  <2>4. /\ text' = [text EXCEPT ![r] = Append(@, chunk)]
        /\ call' = [call EXCEPT ![r] = next]
        /\ UNCHANGED <<tokens, seen, calls, asked>>
        /\ Calling(r)
    BY <1>2 DEF Delta, TypeOK
  <2> HIDE DEF chunk, next
  <2>5. TypeOK'
    BY <2>2, <2>3, <2>4 DEF TypeOK
  <2> QED BY <2>3, <2>4, <2>5 DEF AttemptInv, Calling, TypeOK
<1>3. ASSUME NEW r \in Runs, ProviderFails(r) PROVE TypeOK' /\ AttemptInv'
  <2>1. PICK c \in Call : c.attempt = call[r].attempt + 1 /\ Attempt(r, c)
    BY <1>3, FailStep
  <2>2. c.attempt > 0 /\ tokens' = tokens /\ seen' = seen
    BY <1>3, <2>1, FailStep, CallType
  <2> QED BY <2>1, <2>2, AttemptTypes DEF TypeOK
<1>4. ASSUME NEW r \in Runs, ProviderAnswers(r) PROVE TypeOK' /\ AttemptInv'
  <2>0. call[r].attempt \in 1..Limit(RoutedProfile(call[r]))
    BY <1>4 DEF ProviderAnswers, AttemptInv
  <2>1. PICK c \in Call : \/ Settled(r, "accepted", c)
                          \/ Settled(r, "rejected", c)
                          \/ c.attempt = 1 /\ Attempt(r, c)
    BY <1>4, <2>0, AnswerStep
  <2>2. tokens' = tokens /\ seen' = seen
    BY <1>4, <2>0, AnswerStep
  <2>3. tokens' \in [ClientTokens -> Runs \cup {Nil}] /\ seen' = seen
    BY <2>2 DEF TypeOK
  <2>4. CASE c.attempt = 1 /\ Attempt(r, c)
    BY <2>3, <2>4, AttemptTypes
  <2>5. ASSUME NEW verdict \in {"accepted", "rejected"}, Settled(r, verdict, c)
        PROVE  TypeOK' /\ AttemptInv'
    BY <2>3, <2>5, SettledTypes
  <2> QED BY <2>1, <2>4, <2>5
<1>5. ASSUME NEW k \in ClientTokens, StreamStatus(k) PROVE TypeOK' /\ AttemptInv'
  <2>1. tokens[k] \in Runs /\ text[tokens[k]] \in Seq(Chunk)
    BY <1>5 DEF StreamStatus, TypeOK
  <2> QED BY <1>5, <2>1 DEF StreamStatus, TypeOK, AttemptInv, Calling
<1>6. CASE Restart
  <2>1. ASSUME NEW r \in Runs PROVE call'[r] \in Call /\ call'[r].state # "calling"
    <3>1. call[r] \in Call
      BY CallType
    <3> QED BY <1>6, <3>1 DEF Restart, Calling, Call
  <2>2. call' \in [Runs -> Call]
    BY <1>6, <2>1 DEF Restart
  <2>3. <<>> \in Seq(Chunk)
    OBVIOUS
  <2>4. TypeOK'
    BY <1>6, <2>2, <2>3 DEF Restart, TypeOK
  <2> QED BY <2>1, <2>4 DEF AttemptInv, Calling
<1>7. CASE UNCHANGED vars
  BY <1>7 DEF vars, TypeOK, AttemptInv, Calling
<1> QED BY <1>1, <1>2, <1>3, <1>4, <1>5, <1>6, <1>7 DEF Next, Plan

-----------------------------------------------------------------------------
(* The number of calls *)

LEMMA AttemptCalls ==
    ASSUME TypeOK, AttemptInv, AttemptInv', CallsInv, NEW r \in Runs, NEW c \in Call,
           c.attempt > 0, c.state = "calling", Attempt(r, c),
           c.round = 1 => calls[r] < c.attempt,
           c.round = 2 => calls[r] < MaxAttempts + c.attempt
    PROVE  CallsInv'
<1> DEFINE d == call'[r]
<1>0. /\ calls[r] \in Nat /\ calls'[r] \in Nat /\ c.attempt \in Nat /\ MaxAttempts \in Nat
      /\ c.round \in {1, 2} /\ RoutedProfile(c) \in Profiles
      /\ d.state = "calling" => d.attempt \in 1..MaxAttempts
  <2>1. calls' \in [Runs -> Nat] /\ call' \in [Runs -> Call]
    BY AttemptStep
  <2>2. d.state = "calling" => d.attempt \in 1..Limit(RoutedProfile(d))
    BY DEF AttemptInv, Calling
  <2>3. RoutedProfile(d) \in Profiles
    BY <2>1, RoutedType
  <2>4. Limit(RoutedProfile(d)) \in Nat /\ Limit(RoutedProfile(d)) <= MaxAttempts
    BY <2>3, LimitType
  <2>5. MaxAttempts \in Nat /\ calls[r] \in Nat /\ calls'[r] \in Nat
    BY <2>1, PlanningAssumption DEF TypeOK
  <2>6. c.attempt \in Nat /\ c.round \in {1, 2} /\ RoutedProfile(c) \in Profiles
    BY RoutedType DEF Call
  <2> HIDE DEF d
  <2>7. d.state = "calling" => d.attempt \in 1..MaxAttempts
    BY <2>2, <2>4, <2>5
  <2> QED BY <2>5, <2>6, <2>7
<1>1. ASSUME NEW x \in Runs \ {r} PROVE call'[x] = call[x] /\ calls'[x] = calls[x]
  BY AttemptStep
<1>2. CASE c.attempt <= Limit(RoutedProfile(c)) /\ d = [c EXCEPT !.sent = 0]
           /\ calls'[r] <= calls[r] + 1
  <2>1. d.attempt = c.attempt /\ d.round = c.round /\ d.state = "calling"
    BY <1>2 DEF Call
  <2> HIDE DEF d
  <2>2. /\ d.round = 1 => calls'[r] <= d.attempt
        /\ d.round = 2 => calls'[r] <= MaxAttempts + d.attempt
    BY <1>0, <1>2, <2>1
  <2>3. calls'[r] <= 2 * MaxAttempts
    BY <1>0, <2>1, <2>2
  <2> QED BY <1>1, <2>1, <2>2, <2>3 DEF CallsInv, Calling, d
<1>3. CASE d = [c EXCEPT !.state = "rejected"] /\ calls'[r] = calls[r]
  <2>1. d.state = "rejected"
    BY <1>3 DEF Call
  <2> QED BY <1>1, <1>3, <2>1 DEF CallsInv, Calling
<1> QED BY <1>2, <1>3, AttemptStep

\* Settling counts no call.
LEMMA SettledCalls ==
    ASSUME TypeOK, CallsInv, NEW r \in Runs, NEW c \in Call,
           NEW verdict \in {"accepted", "rejected"}, Settled(r, verdict, c)
    PROVE  CallsInv'
<1>0. /\ call' \in [Runs -> Call]
      /\ text' = text /\ calls' = calls /\ asked' = asked
      /\ \A x \in Runs \ {r} : call'[x] = call[x]
      /\ call'[r] = [c EXCEPT !.state = verdict]
  BY SettledStep
<1>1. /\ calls' = calls /\ call'[r] = [c EXCEPT !.state = verdict]
      /\ \A x \in Runs \ {r} : call'[x] = call[x]
  BY <1>0
<1>2. call'[r].state = verdict /\ verdict \notin {"new", "calling"}
  BY <1>1 DEF Call
<1> QED BY <1>1, <1>2 DEF CallsInv, Calling

LEMMA NextCalls ==
    ASSUME TypeOK, AttemptInv, AttemptInv', CallsInv, [Next]_vars
    PROVE  CallsInv'
<1>0. MaxAttempts \in Nat
  BY PlanningAssumption
<1>1. ASSUME NEW r \in Runs, StartPlan(r) PROVE CallsInv'
  <2>1. PICK c \in Call : /\ c.state = "calling" /\ c.attempt = 1 /\ c.round = call[r].round
                          /\ Attempt(r, c) \/ Settled(r, "rejected", c)
    BY <1>1, StartStep
  <2>2. calls[r] = 0 /\ c.round = 1
    BY <1>1, <2>1, StartStep DEF CallsInv
  <2> QED BY <1>0, <2>1, <2>2, AttemptCalls, SettledCalls
<1>2. ASSUME NEW r \in Runs, Delta(r) PROVE CallsInv'
  <2>1. /\ call' = [call EXCEPT ![r].sent = @ + 1]
        /\ calls' = calls
    BY <1>2 DEF Delta
  <2>2. ASSUME NEW x \in Runs
        PROVE  /\ call'[x].state = call[x].state /\ call'[x].round = call[x].round
               /\ call'[x].attempt = call[x].attempt
    <3>1. call[x] \in Call /\ call' = [call EXCEPT ![r] = [call[r] EXCEPT !.sent = @ + 1]]
      BY <2>1, CallType DEF TypeOK
    <3> QED BY <3>1 DEF Call, TypeOK
  <2> QED BY <2>1, <2>2 DEF CallsInv, Calling
<1>3. ASSUME NEW r \in Runs, ProviderFails(r) PROVE CallsInv'
  <2>1. PICK c \in Call : /\ c.state = "calling" /\ c.attempt = call[r].attempt + 1
                          /\ c.round = call[r].round /\ Attempt(r, c)
    BY <1>3, FailStep
  <2>2. /\ call[r].round = 1 => calls[r] <= call[r].attempt
        /\ call[r].round = 2 => calls[r] <= MaxAttempts + call[r].attempt
    BY <1>3, FailStep DEF CallsInv
  <2>3. calls[r] \in Nat /\ call[r].attempt \in Nat
    BY CallType DEF TypeOK
  <2>4. /\ c.round = 1 => calls[r] < c.attempt
        /\ c.round = 2 => calls[r] < MaxAttempts + c.attempt
        /\ c.attempt > 0
    BY <1>0, <2>1, <2>2, <2>3
  <2> QED BY <2>1, <2>4, AttemptCalls
<1>4. ASSUME NEW r \in Runs, ProviderAnswers(r) PROVE CallsInv'
  <2>0. call[r].attempt \in 1..Limit(RoutedProfile(call[r])) /\ Calling(r)
    BY <1>4 DEF ProviderAnswers, AttemptInv
  <2>1. PICK c \in Call : \/ Settled(r, "accepted", c)
                          \/ Settled(r, "rejected", c)
                          \/ /\ call[r].round = 1 /\ c.state = "calling"
                             /\ c.attempt = 1 /\ c.round = 2 /\ Attempt(r, c)
    BY <1>4, <2>0, AnswerStep
  <2>2. CASE /\ call[r].round = 1 /\ c.state = "calling"
             /\ c.attempt = 1 /\ c.round = 2 /\ Attempt(r, c)
    <3>1. calls[r] <= call[r].attempt /\ calls[r] \in Nat
      BY <2>0, <2>2 DEF CallsInv, TypeOK
    <3>2. call[r].attempt <= MaxAttempts /\ call[r].attempt \in Nat
      BY <1>0, <2>0, CallType, RoutedType, LimitType
    <3>3. calls[r] < MaxAttempts + c.attempt
      BY <1>0, <2>2, <3>1, <3>2
    <3> QED BY <2>2, <3>3, AttemptCalls
  <2>3. ASSUME NEW verdict \in {"accepted", "rejected"}, Settled(r, verdict, c)
        PROVE  CallsInv'
    BY <2>3, SettledCalls
  <2> QED BY <2>1, <2>2, <2>3
<1>5. ASSUME NEW k \in ClientTokens, StreamStatus(k) PROVE CallsInv'
  BY <1>5 DEF StreamStatus, CallsInv, Calling
<1>6. CASE Restart
  <2>1. ASSUME NEW r \in Runs
        PROVE  /\ call'[r].state # "calling"
               /\ call'[r].state = "new" => call[r].state = "new" /\ call'[r] = call[r]
    <3>1. call[r] \in Call
      BY CallType
    <3> QED BY <1>6, <3>1 DEF Restart, Calling, Call
  <2> QED BY <1>6, <2>1 DEF Restart, CallsInv, Calling
<1>7. CASE UNCHANGED vars
  BY <1>7 DEF vars, CallsInv, Calling
<1> QED BY <1>1, <1>2, <1>3, <1>4, <1>5, <1>6, <1>7 DEF Next, Plan

-----------------------------------------------------------------------------
(* The streamed text *)

\* The beginning of an answer, grown by its next chunk, is a beginning of it; its
\* length is the number of chunks.
LEMMA ChunksGrow ==
    ASSUME NEW r \in Runs, NEW a \in Nat, NEW n \in Nat
    PROVE  /\ Append(Chunks(r, a, n), [run |-> r, attempt |-> a, n |-> n + 1])
                 = Chunks(r, a, n + 1)
           /\ Len(Chunks(r, a, n)) = n
           /\ Chunks(r, a, 0) = <<>>
  BY DEF Chunks

\* A step that changes text and call of one run only.
LEMMA TextFrame ==
    ASSUME TextInv, NEW r \in Runs, seen' = seen,
           \A x \in Runs \ {r} : call'[x] = call[x] /\ text'[x] = text[x],
           \E attempt \in 0..MaxAttempts : text'[r] = Chunks(r, attempt, Len(text'[r])),
           call'[r].state = "calling" /\ call'[r].round = 1 /\ call'[r].streams
              => text'[r] = Chunks(r, call'[r].attempt, call'[r].sent)
    PROVE  TextInv'
<1>1. TextIsTheAttempt'
  BY DEF TextInv, TextIsTheAttempt, Calling
<1>2. PollsSeeOneAnswer'
  BY DEF TextInv, PollsSeeOneAnswer
<1> QED BY <1>1, <1>2 DEF TextInv

LEMMA AttemptText ==
    ASSUME TypeOK, TextInv, NEW r \in Runs, NEW c \in Call, c.attempt > 0, Attempt(r, c),
           seen' = seen
    PROVE  TextInv'
<1>0. 0 \in 0..MaxAttempts /\ c.attempt \in Nat
  BY PlanningAssumption DEF Call
<1>1. \A x \in Runs \ {r} : call'[x] = call[x] /\ text'[x] = text[x]
  BY AttemptStep
<1>2. Chunks(r, 0, 0) = <<>> /\ Chunks(r, c.attempt, 0) = <<>> /\ Len(<<>>) = 0
  BY <1>0, ChunksGrow
<1>3. \E attempt \in 0..MaxAttempts : text'[r] = Chunks(r, attempt, Len(text'[r]))
  <2>1. text'[r] = text[r] \/ text'[r] = <<>>
    BY AttemptStep
  <2> QED BY <1>0, <1>2, <2>1 DEF TextInv
<1>4. call'[r].state = "calling" /\ call'[r].round = 1 /\ call'[r].streams
         => text'[r] = Chunks(r, call'[r].attempt, call'[r].sent)
  <2>1. CASE /\ call'[r] = [c EXCEPT !.sent = 0]
             /\ text'[r] = IF c.round = 1 /\ c.streams THEN <<>> ELSE text[r]
    <3>1. /\ call'[r].round = c.round /\ call'[r].streams = c.streams
          /\ call'[r].attempt = c.attempt /\ call'[r].sent = 0
      BY <2>1 DEF Call
    <3> QED BY <1>2, <2>1, <3>1
  <2>2. CASE call'[r] = [c EXCEPT !.state = "rejected"]
    BY <2>2 DEF Call
  <2> QED BY <2>1, <2>2, AttemptStep
<1> QED BY <1>1, <1>3, <1>4, TextFrame

LEMMA SettledText ==
    ASSUME TypeOK, TextInv, NEW r \in Runs, NEW c \in Call,
           NEW verdict \in {"accepted", "rejected"}, Settled(r, verdict, c), seen' = seen
    PROVE  TextInv'
<1>0. /\ call' \in [Runs -> Call]
      /\ text' = text /\ calls' = calls /\ asked' = asked
      /\ \A x \in Runs \ {r} : call'[x] = call[x]
      /\ call'[r] = [c EXCEPT !.state = verdict]
  BY SettledStep
<1>1. /\ text' = text /\ call'[r] = [c EXCEPT !.state = verdict]
      /\ \A x \in Runs \ {r} : call'[x] = call[x]
  BY <1>0
<1>2. call'[r].state # "calling"
  BY <1>1 DEF Call
<1>3. \E attempt \in 0..MaxAttempts : text'[r] = Chunks(r, attempt, Len(text'[r]))
  BY <1>1 DEF TextInv
<1> QED BY <1>1, <1>2, <1>3, TextFrame

LEMMA NextText ==
    ASSUME TypeOK, AttemptInv, TextInv, [Next]_vars
    PROVE  TextInv'
<1>1. ASSUME NEW r \in Runs, StartPlan(r) PROVE TextInv'
  <2>1. PICK c \in Call : /\ c.attempt = 1
                          /\ Attempt(r, c) \/ Settled(r, "rejected", c)
    BY <1>1, StartStep
  <2>2. seen' = seen
    BY <1>1, StartStep
  <2> QED BY <2>1, <2>2, AttemptText, SettledText
<1>2. ASSUME NEW r \in Runs, Delta(r) PROVE TextInv'
  <2> DEFINE q     == call[r]
             chunk == [run |-> r, attempt |-> q.attempt, n |-> q.sent + 1]
             next  == [q EXCEPT !.sent = q.sent + 1]
  <2>1. /\ q \in Call /\ q.attempt \in Nat /\ q.sent \in Nat /\ q.attempt \in 0..MaxAttempts
    BY <1>2, CallType, RoutedType, LimitType, PlanningAssumption DEF Delta, AttemptInv
  <2>2. /\ text' = [text EXCEPT ![r] = Append(@, chunk)]
        /\ call' = [call EXCEPT ![r] = next]
        /\ seen' = seen
        /\ text[r] = Chunks(r, q.attempt, q.sent)
    BY <1>2 DEF Delta, TypeOK, TextInv, TextIsTheAttempt
  <2>3. next.attempt = q.attempt /\ next.sent = q.sent + 1
    BY <2>1 DEF Call
  <2>4. Append(text[r], chunk) = Chunks(r, q.attempt, q.sent + 1)
        /\ Len(Chunks(r, q.attempt, q.sent + 1)) = q.sent + 1
    BY <2>1, <2>2, ChunksGrow
  <2> HIDE DEF chunk, next, q
  <2>5. text'[r] = Chunks(r, q.attempt, q.sent + 1) /\ call'[r] = next
        /\ \A x \in Runs \ {r} : call'[x] = call[x] /\ text'[x] = text[x]
    BY <2>2, <2>4 DEF TypeOK
  <2> QED BY <2>1, <2>2, <2>3, <2>4, <2>5, TextFrame
<1>3. ASSUME NEW r \in Runs, ProviderFails(r) PROVE TextInv'
  <2>1. PICK c \in Call : c.attempt = call[r].attempt + 1 /\ Attempt(r, c)
    BY <1>3, FailStep
  <2>2. c.attempt > 0 /\ seen' = seen
    BY <1>3, <2>1, FailStep, CallType
  <2> QED BY <2>1, <2>2, AttemptText
<1>4. ASSUME NEW r \in Runs, ProviderAnswers(r) PROVE TextInv'
  <2>0. call[r].attempt \in 1..Limit(RoutedProfile(call[r]))
    BY <1>4 DEF ProviderAnswers, AttemptInv
  <2>1. PICK c \in Call : \/ Settled(r, "accepted", c)
                          \/ Settled(r, "rejected", c)
                          \/ c.attempt = 1 /\ Attempt(r, c)
    BY <1>4, <2>0, AnswerStep
  <2>2. seen' = seen
    BY <1>4, <2>0, AnswerStep
  <2>3. ASSUME NEW verdict \in {"accepted", "rejected"}, Settled(r, verdict, c)
        PROVE  TextInv'
    BY <2>2, <2>3, SettledText
  <2>4. CASE c.attempt = 1 /\ Attempt(r, c)
    BY <2>2, <2>4, AttemptText
  <2> QED BY <2>1, <2>3, <2>4
<1>5. ASSUME NEW k \in ClientTokens, StreamStatus(k) PROVE TextInv'
  <2>1. /\ tokens[k] \in Runs /\ UNCHANGED <<text, call>>
        /\ seen' = [seen EXCEPT ![k] = text[tokens[k]]]
    BY <1>5 DEF StreamStatus, TypeOK
  <2>2. PollsSeeOneAnswer'
    <3>1. \E attempt \in 0..MaxAttempts :
             text[tokens[k]] = Chunks(tokens[k], attempt, Len(text[tokens[k]]))
      BY <2>1 DEF TextInv
    <3>2. seen'[k] = text[tokens[k]] /\ \A l \in ClientTokens \ {k} : seen'[l] = seen[l]
      BY <2>1 DEF TypeOK
    <3> QED BY <2>1, <3>1, <3>2 DEF TextInv, PollsSeeOneAnswer
  <2> QED BY <2>1, <2>2 DEF TextInv, TextIsTheAttempt, Calling
<1>6. CASE Restart
  <2>1. ASSUME NEW r \in Runs PROVE ~Calling(r)' /\ text'[r] = <<>>
    <3>1. call[r] \in Call
      BY CallType
    <3> QED BY <1>6, <3>1 DEF Restart, Calling, Call
  <2>2. \A r \in Runs : Chunks(r, 0, 0) = <<>> /\ Len(<<>>) = 0
    BY ChunksGrow
  <2>3. 0 \in 0..MaxAttempts /\ seen' = seen
    BY <1>6, PlanningAssumption DEF Restart
  <2> QED BY <2>1, <2>2, <2>3 DEF TextInv, TextIsTheAttempt, PollsSeeOneAnswer
<1>7. CASE UNCHANGED vars
  BY <1>7 DEF vars, TextInv, TextIsTheAttempt, PollsSeeOneAnswer, Calling
<1> QED BY <1>1, <1>2, <1>3, <1>4, <1>5, <1>6, <1>7 DEF Next, Plan

-----------------------------------------------------------------------------
(* Theorems *)

LEMMA InitTypes == Init => TypeOK /\ AttemptInv
  BY DEF Init, TypeOK, AttemptInv, Calling, New, Call, Profiles

LEMMA InitCalls == Init => CallsInv
  BY PlanningAssumption DEF Init, CallsInv, Calling, New

LEMMA InitText == Init /\ Runs # {} => TextInv
<1> SUFFICES ASSUME Init, Runs # {} PROVE TextInv
  OBVIOUS
<1>1. \A r \in Runs : Chunks(r, 0, 0) = <<>> /\ Len(<<>>) = 0
  BY ChunksGrow
<1>2. 0 \in 0..MaxAttempts
  BY PlanningAssumption
<1> QED BY <1>1, <1>2 DEF Init, TextInv, TextIsTheAttempt, PollsSeeOneAnswer, Calling, New

\* Every reachable state is well typed and the attempt under way asks a ranked
\* target.
THEOREM TypeCorrect == Spec => [](TypeOK /\ AttemptInv)
<1>1. Init => TypeOK /\ AttemptInv
  BY InitTypes
<1>2. TypeOK /\ AttemptInv /\ [Next]_vars => TypeOK' /\ AttemptInv'
  BY NextTypes
<1> QED BY <1>1, <1>2, PTL DEF Spec

\* However providers fail and answer, planning a run makes at most
\* max_provider_attempts calls, and as many again for the repair.
THEOREM CallsAreBounded == Spec => []CallsBounded
<1>1. CallsInv => CallsBounded
  BY DEF CallsInv, CallsBounded
<1>2. TypeOK /\ AttemptInv /\ AttemptInv' /\ CallsInv /\ [Next]_vars => CallsInv'
  BY NextCalls
<1> QED BY <1>1, <1>2, InitCalls, TypeCorrect, PTL DEF Spec

\* Stream text holds what the attempt under way has streamed, and polls only ever
\* see the beginning of one answer.
THEOREM TextIsOneAnswer == Runs # {} => (Spec => [](TextIsTheAttempt /\ PollsSeeOneAnswer))
<1> SUFFICES ASSUME Runs # {} PROVE Spec => [](TextIsTheAttempt /\ PollsSeeOneAnswer)
  OBVIOUS
<1>1. Init => TextInv
  BY InitText
<1>2. TypeOK /\ AttemptInv /\ TextInv /\ [Next]_vars => TextInv'
  BY NextText
<1>3. TextInv => TextIsTheAttempt /\ PollsSeeOneAnswer
  BY DEF TextInv
<1> QED BY <1>1, <1>2, <1>3, TypeCorrect, PTL DEF Spec

-----------------------------------------------------------------------------
(* The adapters *)

LEMMA StepOfPlanning == [StreamNext]_streamVars => [Next]_vars
<1> SUFFICES ASSUME [StreamNext]_streamVars PROVE [Next]_vars
  OBVIOUS
<1>1. ASSUME NEW r \in Runs, Start(r) PROVE [Next]_vars
  BY <1>1 DEF Start, Next, Plan
<1>2. ASSUME NEW r \in Runs, Exchange(r) PROVE [Next]_vars
  <2>1. UNCHANGED vars \/ Plan(r)
    BY <1>2 DEF Exchange, Accept, PassOn, KeptWaiting, KeepAlive, Trickle, EndOfStream,
                Reply, PassWhole, ReplyWhole, Fail, Answer, Plan
  <2> QED BY <2>1 DEF Next
<1>3. ASSUME NEW k \in ClientTokens, Poll(k) PROVE [Next]_vars
  BY <1>3 DEF Poll, Next
<1>4. CASE Die
  BY <1>4 DEF Die, Next
<1>5. CASE UNCHANGED streamVars
  BY <1>5 DEF streamVars
<1> QED BY <1>1, <1>2, <1>3, <1>4, <1>5 DEF StreamNext

\* Streaming extends the steps of Planning, so what holds of Planning holds of it.
LEMMA AdaptersPlan == StreamSpec => Spec
<1>1. StreamInit => Init
  BY DEF StreamInit
<1> QED BY <1>1, StepOfPlanning, PTL DEF StreamSpec, Spec

\* So no more calls are made than Planning allows, and a poll shows the beginning
\* of one answer.
THEOREM AdaptersKeepBounds ==
    Runs # {} => (StreamSpec => [](CallsBounded /\ PollsSeeOneAnswer))
  BY AdaptersPlan, CallsAreBounded, TextIsOneAnswer, PTL

-----------------------------------------------------------------------------
(* What entering an attempt does *)

\* Which target is asked and what is counted when an attempt is entered.
LEMMA AttemptAsks ==
    ASSUME TypeOK, NEW r \in Runs, NEW c \in Call, c.attempt > 0, Attempt(r, c),
           calls[r] <= 2 * MaxAttempts
    PROVE  /\ \A x \in Runs \ {r} : asked'[x] = asked[x]
           /\ asked[r] \subseteq asked'[r]
           /\ \/ /\ call'[r] = [c EXCEPT !.sent = 0] /\ calls'[r] = calls[r] + 1
                 /\ CurrentTarget(c) \in asked'[r]
              \/ call'[r] = [c EXCEPT !.state = "rejected"]
<1>1. CASE c.attempt <= Limit(RoutedProfile(c))
  <2>1. /\ call'  = [call EXCEPT ![r] = [c EXCEPT !.sent = 0]]
        /\ asked' = [asked EXCEPT ![r] = @ \cup {CurrentTarget(c)}]
        /\ calls' = [calls EXCEPT ![r] = IF @ > 2 * MaxAttempts THEN @ ELSE @ + 1]
    BY <1>1 DEF Attempt, CountCall
  <2>2. calls[r] \in Nat /\ MaxAttempts \in Nat
    BY PlanningAssumption DEF TypeOK
  <2>3. calls'[r] = calls[r] + 1
    BY <2>1, <2>2 DEF TypeOK
  <2> QED BY <2>1, <2>3 DEF TypeOK
<1>2. CASE ~(c.attempt <= Limit(RoutedProfile(c)))
  BY <1>2 DEF Attempt, TypeOK
<1> QED BY <1>1, <1>2

\* The record of an attempt that was entered.
LEMMA Entered ==
    ASSUME NEW c \in Call
    PROVE  LET d == [c EXCEPT !.sent = 0] IN
           /\ d.state = c.state /\ d.profile = c.profile /\ d.streams = c.streams
           /\ d.round = c.round /\ d.attempt = c.attempt /\ d.sent = 0
           /\ CurrentTarget(d) = CurrentTarget(c)
<1> DEFINE d == [c EXCEPT !.sent = 0]
<1>1. /\ d.state = c.state /\ d.profile = c.profile /\ d.streams = c.streams
      /\ d.round = c.round /\ d.attempt = c.attempt /\ d.sent = 0
  BY DEF Call
<1> HIDE DEF d
<1>2. CurrentTarget(d) = CurrentTarget(c)
  BY <1>1 DEF CurrentTarget, RoutedProfile
<1> QED BY <1>1, <1>2 DEF d

\* The record of a call that was settled.
LEMMA Ended ==
    ASSUME NEW c \in Call, NEW verdict \in {"accepted", "rejected", "lost"}
    PROVE  LET d == [c EXCEPT !.state = verdict] IN
           /\ d.state = verdict /\ d.profile = c.profile /\ d.streams = c.streams
           /\ d.round = c.round /\ d.attempt = c.attempt /\ d.sent = c.sent
           /\ CurrentTarget(d) = CurrentTarget(c)
<1> DEFINE d == [c EXCEPT !.state = verdict]
<1>1. /\ d.state = verdict /\ d.profile = c.profile /\ d.streams = c.streams
      /\ d.round = c.round /\ d.attempt = c.attempt /\ d.sent = c.sent
  BY DEF Call
<1> HIDE DEF d
<1>2. CurrentTarget(d) = CurrentTarget(c)
  BY <1>1 DEF CurrentTarget, RoutedProfile
<1> QED BY <1>1, <1>2 DEF d

\* Entering an attempt accepts nothing and touches no other run.
LEMMA EnterAccepts ==
    ASSUME TypeOK, NEW r \in Runs, NEW c \in Call, c.attempt > 0, c.state = "calling",
           Attempt(r, c)
    PROVE  /\ call'[r].state # "accepted"
           /\ \A x \in Runs \ {r} : call'[x] = call[x]
<1>1. ASSUME call'[r] = [c EXCEPT !.sent = 0] PROVE call'[r].state # "accepted"
  BY <1>1, Entered
<1>2. ASSUME call'[r] = [c EXCEPT !.state = "rejected"] PROVE call'[r].state # "accepted"
  <2>1. call'[r].state = "rejected"
    BY <1>2, Ended
  <2> QED BY <2>1
<1>3. \A x \in Runs \ {r} : call'[x] = call[x]
  BY AttemptStep
<1>4. \/ call'[r] = [c EXCEPT !.sent = 0]
      \/ call'[r] = [c EXCEPT !.state = "rejected"]
  BY AttemptStep
<1> QED BY <1>1, <1>2, <1>3, <1>4

\* Settling a call is all that happens.
LEMMA SettlesOne ==
    ASSUME TypeOK, NEW r \in Runs, NEW c \in Call,
           \E verdict \in {"accepted", "rejected"} : Settled(r, verdict, c)
    PROVE  /\ \A x \in Runs \ {r} : call'[x] = call[x]
           /\ \/ call'[r] = [c EXCEPT !.state = "accepted"]
              \/ call'[r] = [c EXCEPT !.state = "rejected"] /\ call'[r].state = "rejected"
           /\ UNCHANGED <<text, calls, asked>>
<1>1. PICK verdict \in {"accepted", "rejected"} : Settled(r, verdict, c)
  OBVIOUS
<1>2. /\ call' \in [Runs -> Call]
      /\ text' = text /\ calls' = calls /\ asked' = asked
      /\ \A x \in Runs \ {r} : call'[x] = call[x]
      /\ call'[r] = [c EXCEPT !.state = verdict]
  BY <1>1, SettledStep, ZenonT(30)
<1>3. call'[r].state = verdict
  BY <1>2, Ended
<1> QED BY <1>2, <1>3

-----------------------------------------------------------------------------
(* The chunks *)

ChunksInv == parts \in [Runs -> Seq(Chunk)] /\ SameChunks

\* The adapter of a new attempt, or of none, has collected nothing.
LEMMA BeginChunks ==
    ASSUME TypeOK, ChunksInv, NEW r \in Runs, NEW c \in Call, c.attempt > 0, Begin(r),
           \/ Attempt(r, c)
           \/ \E verdict \in {"accepted", "rejected"} : Settled(r, verdict, c)
    PROVE  ChunksInv'
<1>1. parts' = [parts EXCEPT ![r] = <<>>]
  BY DEF Begin
<1>2. /\ parts' \in [Runs -> Seq(Chunk)] /\ parts'[r] = <<>>
      /\ \A x \in Runs \ {r} : parts'[x] = parts[x]
  <2>1. <<>> \in Seq(Chunk)
    OBVIOUS
  <2> QED BY <1>1, <2>1 DEF ChunksInv
<1>3. \A x \in Runs \ {r} : call'[x] = call[x]
  <2>1. CASE Attempt(r, c)
    BY <2>1, AttemptStep
  <2>2. CASE \E verdict \in {"accepted", "rejected"} : Settled(r, verdict, c)
    BY <2>2, SettlesOne
  <2> QED BY <2>1, <2>2
<1>4. call'[r].state = "calling" => parts'[r] = Chunks(r, call'[r].attempt, call'[r].sent)
  <2>1. CASE call'[r] = [c EXCEPT !.sent = 0]
    <3>1. call'[r].attempt \in Nat /\ call'[r].sent = 0
      BY <2>1, Entered DEF Call
    <3> QED BY <1>2, <3>1, ChunksGrow
  <2>2. CASE \E verdict \in {"accepted", "rejected"} : call'[r] = [c EXCEPT !.state = verdict]
    <3>1. PICK verdict \in {"accepted", "rejected"} : call'[r] = [c EXCEPT !.state = verdict]
      BY <2>2
    <3> QED BY <3>1, Ended
  <2>3. CASE Attempt(r, c)
    BY <2>1, <2>2, <2>3, AttemptStep
  <2>4. CASE \E verdict \in {"accepted", "rejected"} : Settled(r, verdict, c)
    BY <2>2, <2>4, SettlesOne
  <2> QED BY <2>3, <2>4
<1> QED BY <1>2, <1>3, <1>4 DEF ChunksInv, SameChunks, Calling, Streams

\* The adapter collects what it passes on.
LEMMA DeltaChunks ==
    ASSUME TypeOK, ChunksInv, NEW r \in Runs, Delta(r),
           parts' = [parts EXCEPT ![r] = Append(@, [run |-> r, attempt |-> call[r].attempt,
                                                    n |-> call[r].sent + 1])]
    PROVE  ChunksInv'
<1> DEFINE q     == call[r]
           chunk == [run |-> r, attempt |-> q.attempt, n |-> q.sent + 1]
           next  == [q EXCEPT !.sent = q.sent + 1]
<1>1. q \in Call /\ q.attempt \in Nat /\ q.sent \in Nat
  BY CallType
<1>2. /\ parts[r] = Chunks(r, q.attempt, q.sent) /\ parts[r] \in Seq(Chunk)
      /\ parts' = [parts EXCEPT ![r] = Append(parts[r], chunk)]
      /\ call' = [call EXCEPT ![r] = next]
  BY DEF Delta, Calling, Streams, ChunksInv, SameChunks, TypeOK
<1>3. next.attempt = q.attempt /\ next.sent = q.sent + 1
  BY <1>1 DEF Call
<1>4. Append(parts[r], chunk) = Chunks(r, q.attempt, q.sent + 1)
  BY <1>1, <1>2, ChunksGrow
<1>5. chunk \in Chunk
  BY <1>1 DEF Chunk
<1> HIDE DEF chunk, next, q
<1>6. /\ parts' \in [Runs -> Seq(Chunk)] /\ parts'[r] = Chunks(r, next.attempt, next.sent)
      /\ call'[r] = next
      /\ \A x \in Runs \ {r} : call'[x] = call[x] /\ parts'[x] = parts[x]
  <2>1. Append(parts[r], chunk) \in Seq(Chunk)
    BY <1>2, <1>5
  <2> QED BY <1>2, <1>3, <1>4, <2>1 DEF ChunksInv, TypeOK
<1> QED BY <1>6 DEF ChunksInv, SameChunks, Calling, Streams

\* What an exchange that ends hands to the planner: the verdict on it, or a repair.
LEMMA AnswerForm ==
    ASSUME TypeOK, NEW r \in Runs, ProviderAnswers(r)
    PROVE  LET q      == call[r]
               repair == [q EXCEPT !.round = 2, !.attempt = 1]
           IN  /\ q \in Call /\ repair \in Call /\ repair.state = "calling"
               /\ repair.attempt = 1 /\ repair.round = 2 /\ repair.profile = q.profile
               /\ \/ \E verdict \in {"accepted", "rejected"} : Settled(r, verdict, q)
                  \/ q.round = 1 /\ Attempt(r, repair)
<1>1. call[r] \in Call /\ call[r].state = "calling"
  BY CallType DEF ProviderAnswers, Calling
<1> QED BY <1>1 DEF ProviderAnswers, Call

\* A failed attempt is followed by the next.
LEMMA FailForm ==
    ASSUME TypeOK, NEW r \in Runs, ProviderFails(r)
    PROVE  LET q    == call[r]
               next == [q EXCEPT !.attempt = q.attempt + 1]
           IN  /\ q \in Call /\ next \in Call /\ next.state = "calling"
               /\ next.attempt = q.attempt + 1 /\ next.round = q.round
               /\ next.profile = q.profile
               /\ Attempt(r, next)
<1> DEFINE q    == call[r]
           next == [q EXCEPT !.attempt = q.attempt + 1]
<1>1. q \in Call /\ q.state = "calling" /\ q.attempt + 1 \in Nat
  BY CallType DEF ProviderFails, Calling
<1>2. Attempt(r, next)
  BY DEF ProviderFails
<1> HIDE DEF q
<1>3. /\ next \in Call /\ next.state = "calling" /\ next.attempt = q.attempt + 1
      /\ next.round = q.round /\ next.profile = q.profile
  BY <1>1 DEF Call
<1> QED BY <1>1, <1>2, <1>3 DEF q

LEMMA NextChunks ==
    ASSUME TypeOK, AttemptInv, ChunksInv, [StreamNext]_streamVars
    PROVE  ChunksInv'
<1>1. ASSUME NEW r \in Runs, Start(r) PROVE ChunksInv'
  <2>1. PICK c \in Call : /\ c.attempt = 1
                          /\ Attempt(r, c) \/ Settled(r, "rejected", c)
    BY <1>1, StartStep DEF Start
  <2> QED BY <1>1, <2>1, BeginChunks DEF Start
<1>2. ASSUME NEW r \in Runs, PassOn(r) \/ PassWhole(r) PROVE ChunksInv'
  BY <1>2, DeltaChunks DEF PassOn, PassWhole
<1>3. ASSUME NEW r \in Runs, Answer(r) PROVE ChunksInv'
  <2>1. call[r].attempt > 0
    BY <1>3, CallType, RoutedType, LimitType DEF Answer, ProviderAnswers, AttemptInv
  <2> DEFINE q      == call[r]
             repair == [q EXCEPT !.round = 2, !.attempt = 1]
  <2>2. /\ q \in Call /\ repair \in Call /\ repair.attempt = 1
        /\ \/ \E verdict \in {"accepted", "rejected"} : Settled(r, verdict, q)
           \/ Attempt(r, repair)
    BY <1>3, AnswerForm DEF Answer
  <2>3. Begin(r) /\ q.attempt > 0
    BY <1>3, <2>1 DEF Answer
  <2> HIDE DEF q, repair
  <2> QED BY <2>2, <2>3, BeginChunks
<1>4. ASSUME NEW r \in Runs, Fail(r) PROVE ChunksInv'
  <2>1. PICK c \in Call : c.attempt = call[r].attempt + 1 /\ Attempt(r, c)
    BY <1>4, FailForm DEF Fail
  <2>2. c.attempt > 0
    BY <2>1, CallType
  <2> QED BY <1>4, <2>1, <2>2, BeginChunks DEF Fail
<1>5. ASSUME UNCHANGED <<call, parts>> PROVE ChunksInv'
  BY <1>5 DEF ChunksInv, SameChunks, Calling, Streams
<1>6. CASE Die
  <2>1. \A r \in Runs : ~Calling(r)'
    <3>1. ASSUME NEW r \in Runs PROVE ~Calling(r)'
      <4>1. call[r] \in Call
        BY CallType
      <4> QED BY <1>6, <4>1 DEF Die, Restart, Calling, Call
    <3> QED BY <3>1
  <2>2. parts' \in [Runs -> Seq(Chunk)]
    <3>1. <<>> \in Seq(Chunk)
      OBVIOUS
    <3> QED BY <1>6, <3>1 DEF Die
  <2> QED BY <2>1, <2>2 DEF ChunksInv, SameChunks
<1>7. ASSUME NEW r \in Runs, Accept(r) \/ KeptWaiting(r) PROVE ChunksInv'
  BY <1>5, <1>7 DEF Accept, KeptWaiting, KeepAlive, Trickle, vars
<1>8. ASSUME NEW k \in ClientTokens, Poll(k) PROVE ChunksInv'
  BY <1>5, <1>8 DEF Poll, StreamStatus, exchange
<1>9. CASE UNCHANGED streamVars
  BY <1>5, <1>9 DEF streamVars, vars, exchange
<1> QED BY <1>1, <1>2, <1>3, <1>4, <1>6, <1>7, <1>8, <1>9
        DEF StreamNext, Exchange, EndOfStream, Reply, ReplyWhole

LEMMA StreamTypes == StreamSpec => [](TypeOK /\ AttemptInv /\ CallsInv)
<1>1. TypeOK /\ AttemptInv /\ AttemptInv' /\ CallsInv /\ [Next]_vars => CallsInv'
  BY NextCalls
<1> QED BY <1>1, InitCalls, AdaptersPlan, TypeCorrect, PTL DEF Spec

LEMMA ChunksInvariant == StreamSpec => []ChunksInv
<1>1. StreamInit => ChunksInv
  <2>1. <<>> \in Seq(Chunk)
    OBVIOUS
  <2> QED BY <2>1 DEF StreamInit, Init, New, ChunksInv, SameChunks, Calling
<1>2. TypeOK /\ AttemptInv /\ ChunksInv /\ [StreamNext]_streamVars => ChunksInv'
  BY NextChunks
<1> QED BY <1>1, <1>2, StreamTypes, PTL DEF StreamSpec
-----------------------------------------------------------------------------
(* Acceptance *)

\* Only an answer is accepted.
LEMMA OnlyAnswersAccept ==
    ASSUME TypeOK, AttemptInv, StreamNext, NEW r \in Runs,
           call[r].state = "calling", call'[r].state = "accepted"
    PROVE  Answer(r)
<1>1. ASSUME NEW x \in Runs, Start(x) PROVE FALSE
  <2>1. call[x].state = "new"
    BY <1>1 DEF Start, StartPlan
  <2>2. x # r
    BY <2>1
  <2>3. PICK c \in Call : /\ c.attempt = 1 /\ c.state = "calling"
                          /\ Attempt(x, c) \/ Settled(x, "rejected", c)
    BY <1>1, StartStep DEF Start
  <2>4. CASE Attempt(x, c)
    <3>1. \A y \in Runs \ {x} : call'[y] = call[y]
      BY <2>3, <2>4, EnterAccepts
    <3> QED BY <2>2, <3>1
  <2>5. CASE Settled(x, "rejected", c)
    <3>1. \A y \in Runs \ {x} : call'[y] = call[y]
      BY <2>5, SettlesOne
    <3> QED BY <2>2, <3>1
  <2> QED BY <2>3, <2>4, <2>5
<1>2. ASSUME NEW x \in Runs, PassOn(x) \/ PassWhole(x) PROVE FALSE
  <2>1. call' = [call EXCEPT ![x].sent = @ + 1]
    BY <1>2 DEF PassOn, PassWhole, Delta
  <2>2. call'[r].state = call[r].state
    BY <2>1, CallType DEF TypeOK, Call
  <2> QED BY <2>2
<1>3. ASSUME NEW x \in Runs, Answer(x), x # r PROVE FALSE
  <2> DEFINE q      == call[x]
             repair == [q EXCEPT !.round = 2, !.attempt = 1]
  <2>1. /\ q \in Call /\ repair \in Call /\ repair.attempt = 1 /\ repair.state = "calling"
        /\ \/ \E verdict \in {"accepted", "rejected"} : Settled(x, verdict, q)
           \/ Attempt(x, repair)
    BY <1>3, AnswerForm DEF Answer
  <2> HIDE DEF q, repair
  <2>2. CASE Attempt(x, repair)
    <3>1. \A y \in Runs \ {x} : call'[y] = call[y]
      BY <2>1, <2>2, EnterAccepts
    <3> QED BY <1>3, <3>1
  <2>3. CASE \E verdict \in {"accepted", "rejected"} : Settled(x, verdict, q)
    <3>1. \A y \in Runs \ {x} : call'[y] = call[y]
      BY <2>1, <2>3, SettlesOne
    <3> QED BY <1>3, <3>1
  <2> QED BY <2>1, <2>2, <2>3
<1>4. ASSUME NEW x \in Runs, Fail(x) PROVE FALSE
  <2> DEFINE q    == call[x]
             next == [q EXCEPT !.attempt = q.attempt + 1]
  <2>1. /\ next \in Call /\ next.state = "calling" /\ next.attempt > 0 /\ Attempt(x, next)
    BY <1>4, FailForm, CallType DEF Fail
  <2> HIDE DEF q, next
  <2>2. call'[x].state # "accepted" /\ \A y \in Runs \ {x} : call'[y] = call[y]
    BY <2>1, EnterAccepts
  <2> QED BY <2>2
<1>5. ASSUME UNCHANGED call PROVE FALSE
  BY <1>5
<1>6. CASE Die
  BY <1>6, CallType DEF Die, Restart, Calling, Call
<1> QED BY <1>1, <1>2, <1>3, <1>4, <1>5, <1>6
        DEF StreamNext, Exchange, EndOfStream, Reply, ReplyWhole, Accept, KeptWaiting,
            KeepAlive, Trickle, Poll, StreamStatus, vars

\* An answer that is accepted is accepted in its own round.
LEMMA AcceptedKeepsRound ==
    ASSUME TypeOK, NEW r \in Runs, ProviderAnswers(r), call'[r].state = "accepted"
    PROVE  call'[r] = [call[r] EXCEPT !.state = "accepted"] /\ call'[r].round = call[r].round
<1> DEFINE q      == call[r]
           repair == [q EXCEPT !.round = 2, !.attempt = 1]
<1>1. /\ q \in Call /\ repair \in Call /\ repair.state = "calling" /\ repair.attempt = 1
      /\ \/ \E verdict \in {"accepted", "rejected"} : Settled(r, verdict, q)
         \/ Attempt(r, repair)
  BY AnswerForm
<1> HIDE DEF q, repair
<1>2. CASE Attempt(r, repair)
  BY <1>1, <1>2, EnterAccepts
<1>3. ASSUME \E verdict \in {"accepted", "rejected"} : Settled(r, verdict, q)
      PROVE  call'[r] = [q EXCEPT !.state = "accepted"] /\ call'[r].round = q.round
  <2>1. call'[r] = [q EXCEPT !.state = "accepted"]
    BY <1>1, <1>3, SettlesOne
  <2> QED BY <1>1, <2>1, Ended
<1> QED BY <1>1, <1>2, <1>3 DEF q

\* When a streamed answer is accepted, what the client has been shown is what the
\* planner parsed, to the last chunk, and there was something to parse.
THEOREM ParsedIsWhatWasShown == StreamSpec => AcceptedWasShown
<1> DEFINE Shown(r) == (Calling(r) /\ Streams(r) /\ call'[r].state = "accepted") =>
                           text[r] = parts[r] /\ parts[r] # <<>>
<1>1. ASSUME TypeOK, AttemptInv, TextIsTheAttempt, ChunksInv, StreamNext, NEW r \in Runs
      PROVE  Shown(r)
  <2> SUFFICES ASSUME Calling(r), Streams(r), call'[r].state = "accepted"
               PROVE  parts[r] # <<>>
    BY <1>1 DEF TextIsTheAttempt, ChunksInv, SameChunks, Streams
  <2>1. call[r].round = 1 /\ call[r].state = "calling" /\ call[r] \in Call
    BY <1>1, CallType DEF Streams, Calling
  <2>2. Answer(r)
    BY <1>1, <2>1, OnlyAnswersAccept
  <2>3. call'[r].round = 1
    BY <1>1, <2>1, <2>2, AcceptedKeepsRound DEF Answer
  <2> QED BY <2>2, <2>3 DEF Answer
<1>2. StreamSpec => []TextIsTheAttempt
  <2>1. CASE Runs # {}
    BY <2>1, AdaptersPlan, TextIsOneAnswer, PTL
  <2>2. CASE Runs = {}
    <3>1. TextIsTheAttempt
      BY <2>2 DEF TextIsTheAttempt
    <3> QED BY <3>1, PTL
  <2> QED BY <2>1, <2>2
<1>3. ASSUME TypeOK, AttemptInv, TextIsTheAttempt, ChunksInv, [StreamNext]_streamVars
      PROVE  [\A r \in Runs :
                (Calling(r) /\ Streams(r) /\ call'[r].state = "accepted") =>
                    text[r] = parts[r] /\ parts[r] # <<>>]_streamVars
  BY <1>1, <1>3
<1> QED BY <1>2, <1>3, StreamTypes, ChunksInvariant, PTL DEF StreamSpec, AcceptedWasShown

-----------------------------------------------------------------------------
(* The route *)

\* What RouteInv says of one run.
RouteOk(r) ==
    /\ Calling(r) /\ call[r].round = 1 =>
          calls[r] = call[r].attempt /\ CurrentTarget(call[r]) \in asked[r]
    /\ Calling(r) /\ call[r].round = 2 =>
          Reported(r) /\ calls[r] > route[r].fallbacks + 1
    /\ call[r].state = "accepted" => Reported(r)
    /\ call[r].state = "accepted" /\ call[r].round = 1 =>
          route[r] = RouteOf(call[r]) /\ calls[r] = route[r].fallbacks + 1
    /\ call[r].state = "accepted" /\ call[r].round = 2 =>
          calls[r] > route[r].fallbacks + 1

RouteTyped == route \in [Runs -> Route \cup {Nil}] /\ RouteInv

LEMMA RouteAt == RouteInv <=> \A r \in Runs : RouteOk(r)
  BY DEF RouteInv, RouteOk

\* A step that changes the call of one run only.
LEMMA RouteFrame ==
    ASSUME RouteTyped, NEW r \in Runs, route' \in [Runs -> Route \cup {Nil}],
           \A x \in Runs \ {r} : /\ call'[x] = call[x] /\ calls'[x] = calls[x]
                                 /\ asked'[x] = asked[x] /\ route'[x] = route[x],
           RouteOk(r)'
    PROVE  RouteTyped'
<1>1. ASSUME NEW x \in Runs \ {r} PROVE RouteOk(x)'
  BY <1>1, RouteAt DEF RouteTyped, RouteOk, Calling, Reported
<1>2. \A x \in Runs : RouteOk(x)'
  BY <1>1
<1>3. RouteInv'
  BY <1>2 DEF RouteInv, RouteOk
<1> QED BY <1>3 DEF RouteTyped

\* A target of the ranking at the place where the call is.
LEMMA RouteType ==
    ASSUME TypeOK, AttemptInv, NEW r \in Runs, Calling(r)
    PROVE  /\ RouteOf(call[r]) \in Route
           /\ RouteOf(call[r]).provider = CurrentTarget(call[r])
           /\ RouteOf(call[r]).fallbacks + 1 = call[r].attempt
<1>1. /\ call[r].attempt \in 1..Limit(RoutedProfile(call[r]))
      /\ RoutedProfile(call[r]) \in Profiles /\ call[r].attempt \in Nat
  BY CallType, RoutedType DEF AttemptInv
<1>2. CurrentTarget(call[r]) \in Targets /\ call[r].attempt - 1 \in Nat
  BY <1>1, LimitType DEF CurrentTarget
<1> QED BY <1>1, <1>2 DEF RouteOf, Route

\* An answer that is not repaired is reported, one that is repaired was.
LEMMA AnswerRoute ==
    ASSUME TypeOK, AttemptInv, CallsInv, RouteTyped, NEW r \in Runs, Answer(r)
    PROVE  RouteTyped'
<1> DEFINE q      == call[r]
           repair == [q EXCEPT !.round = 2, !.attempt = 1]
<1>1. /\ q \in Call /\ repair \in Call /\ repair.state = "calling" /\ repair.attempt = 1
      /\ repair.round = 2 /\ repair.profile = q.profile
      /\ \/ \E verdict \in {"accepted", "rejected"} : Settled(r, verdict, q)
         \/ q.round = 1 /\ Attempt(r, repair)
  BY AnswerForm DEF Answer
<1>2. /\ Calling(r) /\ q.round \in {1, 2} /\ q.state = "calling"
      /\ calls[r] \in Nat /\ calls[r] <= 2 * MaxAttempts /\ q.attempt \in Nat
      /\ RouteOf(q) \in Route /\ RouteOf(q).provider = CurrentTarget(q)
      /\ RouteOf(q).fallbacks + 1 = q.attempt
  BY CallType, RouteType DEF Answer, ProviderAnswers, Calling, CallsInv, TypeOK
<1>3. route' = IF q.round = 1 THEN [route EXCEPT ![r] = RouteOf(q)] ELSE route
  BY DEF Answer
<1>4. RouteOk(r)
  BY RouteAt DEF RouteTyped
<1>5. Nil \notin Route
  BY StreamingAssumption
<1> HIDE DEF q, repair
<1>6. /\ route' \in [Runs -> Route \cup {Nil}]
      /\ \A x \in Runs \ {r} : route'[x] = route[x]
      /\ route'[r] = IF q.round = 1 THEN RouteOf(q) ELSE route[r]
  BY <1>2, <1>3 DEF RouteTyped
<1>7. ASSUME NEW d \in Call, call'[r] = d, d.profile = q.profile, d.round = q.round,
             d.attempt = q.attempt, d.state = "accepted", calls' = calls, asked' = asked
      PROVE  RouteOk(r)'
  <2>1. RouteOf(d) = RouteOf(q) /\ CurrentTarget(q) = Ranked[RoutedProfile(q)][q.attempt]
    BY <1>7 DEF RouteOf, CurrentTarget, RoutedProfile
  <2>2. CASE q.round = 1
    <3>1. /\ route'[r] = RouteOf(q) /\ route'[r] # Nil
          /\ calls[r] = q.attempt /\ CurrentTarget(q) \in asked[r]
      BY <1>2, <1>4, <1>5, <1>6, <2>2 DEF RouteOk, q
    <3>2. /\ route'[r].provider = Ranked[q.profile][route'[r].fallbacks + 1]
          /\ route'[r].provider \in asked[r]
          /\ calls[r] = route'[r].fallbacks + 1
      BY <1>2, <2>1, <2>2, <3>1 DEF RoutedProfile
    <3> QED BY <1>7, <2>1, <2>2, <3>1, <3>2 DEF RouteOk, Reported, Calling
  <2>3. CASE q.round = 2
    <3>1. route'[r] = route[r] /\ Reported(r) /\ calls[r] > route[r].fallbacks + 1
      BY <1>2, <1>4, <1>6, <2>3 DEF RouteOk, q
    <3> QED BY <1>7, <2>3, <3>1 DEF RouteOk, Reported, Calling, q
  <2> QED BY <1>2, <2>2, <2>3
<1>8. ASSUME call'[r].state = "rejected" PROVE RouteOk(r)'
  BY <1>8 DEF RouteOk, Calling
<1>9. CASE \E verdict \in {"accepted", "rejected"} : Settled(r, verdict, q)
  <2>1. /\ \A x \in Runs \ {r} : call'[x] = call[x]
        /\ \/ call'[r] = [q EXCEPT !.state = "accepted"]
           \/ call'[r] = [q EXCEPT !.state = "rejected"] /\ call'[r].state = "rejected"
        /\ UNCHANGED <<text, calls, asked>>
    BY <1>1, <1>9, SettlesOne
  <2>2. ASSUME call'[r] = [q EXCEPT !.state = "accepted"] PROVE RouteOk(r)'
    <3> DEFINE d == [q EXCEPT !.state = "accepted"]
    <3>1. d \in Call
      BY <1>1 DEF Call
    <3>2. /\ d.profile = q.profile /\ d.round = q.round /\ d.attempt = q.attempt
          /\ d.state = "accepted"
      BY <1>1, Ended
    <3>3. call'[r] = d
      BY <2>2
    <3> HIDE DEF d
    <3> QED BY <1>7, <2>1, <3>1, <3>2, <3>3
  <2>3. RouteOk(r)'
    BY <1>8, <2>1, <2>2
  <2>4. \A x \in Runs \ {r} : /\ call'[x] = call[x] /\ calls'[x] = calls[x]
                              /\ asked'[x] = asked[x] /\ route'[x] = route[x]
    BY <1>6, <2>1
  <2> QED BY <1>6, <2>3, <2>4, RouteFrame
<1>10. CASE q.round = 1 /\ Attempt(r, repair)
  <2>1. /\ \A x \in Runs \ {r} : asked'[x] = asked[x]
        /\ asked[r] \subseteq asked'[r]
        /\ \/ call'[r] = [repair EXCEPT !.sent = 0] /\ calls'[r] = calls[r] + 1
           \/ call'[r] = [repair EXCEPT !.state = "rejected"]
    BY <1>1, <1>2, <1>10, AttemptAsks
  <2>2. \A x \in Runs \ {r} :
           call'[x] = call[x] /\ text'[x] = text[x] /\ calls'[x] = calls[x]
    <3>1. repair \in Call /\ repair.attempt > 0 /\ Attempt(r, repair)
      BY <1>1, <1>10
    <3> QED BY <3>1, AttemptStep
  <2>3. /\ calls[r] = q.attempt /\ CurrentTarget(q) \in asked[r]
        /\ CurrentTarget(q) = Ranked[q.profile][q.attempt]
    BY <1>2, <1>4, <1>10 DEF RouteOk, CurrentTarget, RoutedProfile, q
  <2>4. /\ route'[r] # Nil /\ route'[r].provider \in asked'[r]
        /\ route'[r].provider = Ranked[q.profile][route'[r].fallbacks + 1]
        /\ route'[r].fallbacks + 1 = calls[r]
    <3>1. route'[r] = RouteOf(q) /\ RouteOf(q).provider \in asked'[r]
      BY <1>2, <1>6, <1>10, <2>1, <2>3
    <3>2. RouteOf(q) # Nil /\ RouteOf(q).provider = Ranked[q.profile][RouteOf(q).fallbacks + 1]
      BY <1>2, <1>5, <2>3
    <3> QED BY <1>2, <2>3, <3>1, <3>2
  <2>5. ASSUME call'[r] = [repair EXCEPT !.sent = 0], calls'[r] = calls[r] + 1
        PROVE  RouteOk(r)'
    <3>1. call'[r].round = 2 /\ call'[r].profile = q.profile /\ call'[r].state = "calling"
      BY <1>1, <2>5, Entered
    <3> QED BY <1>2, <2>4, <2>5, <3>1 DEF RouteOk, Reported, Calling
  <2>6. ASSUME call'[r] = [repair EXCEPT !.state = "rejected"] PROVE RouteOk(r)'
    <3>1. call'[r].state = "rejected"
      BY <1>1, <2>6, Ended
    <3> QED BY <1>8, <3>1
  <2>7. RouteOk(r)'
    BY <2>1, <2>5, <2>6
  <2>8. \A x \in Runs \ {r} : /\ call'[x] = call[x] /\ calls'[x] = calls[x]
                              /\ asked'[x] = asked[x] /\ route'[x] = route[x]
    BY <1>6, <2>1, <2>2
  <2> QED BY <1>6, <2>7, <2>8, RouteFrame
<1> QED BY <1>1, <1>9, <1>10

\* The attempt after one that failed asks the next target and is counted.
LEMMA FailRoute ==
    ASSUME TypeOK, AttemptInv, CallsInv, RouteTyped, NEW r \in Runs, Fail(r)
    PROVE  RouteTyped'
<1> DEFINE q    == call[r]
           next == [q EXCEPT !.attempt = q.attempt + 1]
<1>1. /\ q \in Call /\ next \in Call /\ next.state = "calling"
      /\ next.attempt = q.attempt + 1 /\ next.round = q.round /\ next.profile = q.profile
      /\ Attempt(r, next)
  BY FailForm DEF Fail
<1>2. /\ Calling(r) /\ q.round \in {1, 2} /\ q.state = "calling" /\ q.attempt \in Nat
      /\ calls[r] \in Nat /\ calls[r] <= 2 * MaxAttempts
      /\ route' = route
  BY CallType DEF Fail, ProviderFails, Calling, CallsInv, TypeOK
<1>3. RouteOk(r)
  BY RouteAt DEF RouteTyped
<1> HIDE DEF q, next
<1>4. next.attempt > 0
  BY <1>1, <1>2
<1>5. /\ \A x \in Runs \ {r} : asked'[x] = asked[x]
      /\ asked[r] \subseteq asked'[r]
      /\ \/ /\ call'[r] = [next EXCEPT !.sent = 0] /\ calls'[r] = calls[r] + 1
            /\ CurrentTarget(next) \in asked'[r]
         \/ call'[r] = [next EXCEPT !.state = "rejected"]
  BY <1>1, <1>2, <1>4, AttemptAsks
<1>6. \A x \in Runs \ {r} :
         call'[x] = call[x] /\ text'[x] = text[x] /\ calls'[x] = calls[x]
  BY <1>1, <1>4, AttemptStep
<1>7. ASSUME /\ call'[r] = [next EXCEPT !.sent = 0] /\ calls'[r] = calls[r] + 1
             /\ CurrentTarget(next) \in asked'[r]
      PROVE  RouteOk(r)'
  <2>1. /\ call'[r].round = q.round /\ call'[r].profile = q.profile
        /\ call'[r].attempt = q.attempt + 1 /\ call'[r].state = "calling"
        /\ CurrentTarget(call'[r]) = CurrentTarget(next)
    BY <1>1, <1>7, Entered
  <2>2. CASE q.round = 1
    <3>1. calls[r] = q.attempt
      BY <1>2, <1>3, <2>2 DEF RouteOk, q
    <3> QED BY <1>2, <1>7, <2>1, <2>2, <3>1 DEF RouteOk, Calling
  <2>3. CASE q.round = 2
    <3>1. /\ Reported(r) /\ calls[r] > route[r].fallbacks + 1
          /\ calls'[r] > route[r].fallbacks + 1
      <4>1. Reported(r) /\ calls[r] > route[r].fallbacks + 1
        BY <1>2, <1>3, <2>3 DEF RouteOk, q
      <4>2. route[r] \in Route
        BY <4>1 DEF Reported, RouteTyped
      <4>3. route[r].fallbacks \in Nat
        BY <4>2 DEF Route
      <4> QED BY <1>2, <1>7, <4>1, <4>3
    <3> QED BY <1>2, <1>5, <1>7, <2>1, <2>3, <3>1 DEF RouteOk, Reported, Calling, q
  <2> QED BY <1>2, <2>2, <2>3
<1>8. ASSUME call'[r] = [next EXCEPT !.state = "rejected"] PROVE RouteOk(r)'
  <2>1. call'[r].state = "rejected"
    BY <1>1, <1>8, Ended
  <2> QED BY <2>1 DEF RouteOk, Calling
<1>9. RouteOk(r)'
  BY <1>5, <1>7, <1>8
<1>10. \A x \in Runs \ {r} : /\ call'[x] = call[x] /\ calls'[x] = calls[x]
                             /\ asked'[x] = asked[x] /\ route'[x] = route[x]
  BY <1>2, <1>5, <1>6
<1>11. route' \in [Runs -> Route \cup {Nil}]
  BY <1>2 DEF RouteTyped
<1> QED BY <1>9, <1>10, <1>11, RouteFrame

\* The first attempt is the first call.
LEMMA StartRoute ==
    ASSUME TypeOK, CallsInv, RouteTyped, NEW r \in Runs, Start(r)
    PROVE  RouteTyped'
<1>1. PICK c \in Call : /\ c.state = "calling" /\ c.attempt = 1 /\ c.round = call[r].round
                        /\ Attempt(r, c) \/ Settled(r, "rejected", c)
  BY StartStep DEF Start
<1>2. /\ call[r].round = 1 /\ calls[r] = 0 /\ calls[r] <= 2 * MaxAttempts
      /\ route' = route /\ route \in [Runs -> Route \cup {Nil}]
  BY DEF Start, StartPlan, CallsInv, RouteTyped
<1>3. ASSUME call'[r].state = "rejected" PROVE RouteOk(r)'
  BY <1>3 DEF RouteOk, Calling
<1>4. CASE Attempt(r, c)
  <2>1. /\ \A x \in Runs \ {r} : asked'[x] = asked[x]
        /\ \/ /\ call'[r] = [c EXCEPT !.sent = 0] /\ calls'[r] = calls[r] + 1
              /\ CurrentTarget(c) \in asked'[r]
           \/ call'[r] = [c EXCEPT !.state = "rejected"]
    BY <1>1, <1>2, <1>4, AttemptAsks
  <2>2. \A x \in Runs \ {r} :
           call'[x] = call[x] /\ text'[x] = text[x] /\ calls'[x] = calls[x]
    <3>1. c.attempt > 0
      BY <1>1
    <3> QED BY <1>4, <3>1, AttemptStep
  <2>3. ASSUME /\ call'[r] = [c EXCEPT !.sent = 0] /\ calls'[r] = calls[r] + 1
               /\ CurrentTarget(c) \in asked'[r]
        PROVE  RouteOk(r)'
    <3>1. /\ call'[r].round = 1 /\ call'[r].attempt = 1 /\ call'[r].state = "calling"
          /\ CurrentTarget(call'[r]) = CurrentTarget(c)
      BY <1>1, <1>2, <2>3, Entered
    <3> QED BY <1>2, <2>3, <3>1 DEF RouteOk, Calling
  <2>4. ASSUME call'[r] = [c EXCEPT !.state = "rejected"] PROVE RouteOk(r)'
    <3>1. call'[r].state = "rejected"
      BY <2>4, Ended
    <3> QED BY <1>3, <3>1
  <2>5. RouteOk(r)'
    BY <2>1, <2>3, <2>4
  <2>6. \A x \in Runs \ {r} : /\ call'[x] = call[x] /\ calls'[x] = calls[x]
                              /\ asked'[x] = asked[x] /\ route'[x] = route[x]
    BY <1>2, <2>1, <2>2
  <2>7. route' \in [Runs -> Route \cup {Nil}]
    BY <1>2
  <2> QED BY <2>5, <2>6, <2>7, RouteFrame
<1>5. CASE Settled(r, "rejected", c)
  <2>1. /\ call' \in [Runs -> Call]
        /\ text' = text /\ calls' = calls /\ asked' = asked
        /\ \A x \in Runs \ {r} : call'[x] = call[x]
        /\ call'[r] = [c EXCEPT !.state = "rejected"]
    BY <1>5, SettledStep
  <2>2. call'[r].state = "rejected"
    BY <2>1, Ended
  <2>3. RouteOk(r)'
    BY <1>3, <2>2
  <2>4. \A x \in Runs \ {r} : /\ call'[x] = call[x] /\ calls'[x] = calls[x]
                              /\ asked'[x] = asked[x] /\ route'[x] = route[x]
    BY <1>2, <2>1
  <2>5. route' \in [Runs -> Route \cup {Nil}]
    BY <1>2
  <2> QED BY <2>3, <2>4, <2>5, RouteFrame
<1> QED BY <1>1, <1>4, <1>5

\* A chunk changes nothing the route speaks of.
LEMMA DeltaRoute ==
    ASSUME TypeOK, RouteTyped, NEW r \in Runs, Delta(r), route' = route
    PROVE  RouteTyped'
<1> DEFINE q    == call[r]
           next == [q EXCEPT !.sent = q.sent + 1]
<1>1. q \in Call /\ q.state = "calling"
  BY CallType DEF Delta, Calling
<1>2. /\ call' = [call EXCEPT ![r] = next] /\ calls' = calls /\ asked' = asked
  BY DEF Delta
<1> HIDE DEF q
<1>3. /\ next.state = "calling" /\ next.profile = q.profile /\ next.round = q.round
      /\ next.attempt = q.attempt
  BY <1>1 DEF Call
<1> HIDE DEF next
<1>4. call'[r] = next /\ \A x \in Runs \ {r} : call'[x] = call[x]
  BY <1>2 DEF TypeOK
<1>5. CurrentTarget(next) = CurrentTarget(q)
  BY <1>3 DEF CurrentTarget, RoutedProfile
<1>6. RouteOk(r)
  BY RouteAt DEF RouteTyped
<1>7. RouteOk(r)'
  BY <1>1, <1>2, <1>3, <1>4, <1>5, <1>6 DEF RouteOk, Reported, Calling, q
<1>8. route' \in [Runs -> Route \cup {Nil}]
  BY DEF RouteTyped
<1> QED BY <1>2, <1>4, <1>7, <1>8, RouteFrame

LEMMA NextRoute ==
    ASSUME TypeOK, AttemptInv, CallsInv, RouteTyped, [StreamNext]_streamVars
    PROVE  RouteTyped'
<1>1. ASSUME NEW r \in Runs, Start(r) PROVE RouteTyped'
  BY <1>1, StartRoute
<1>2. ASSUME NEW r \in Runs, PassOn(r) \/ PassWhole(r) PROVE RouteTyped'
  BY <1>2, DeltaRoute DEF PassOn, PassWhole
<1>3. ASSUME NEW r \in Runs, Answer(r) PROVE RouteTyped'
  BY <1>3, AnswerRoute
<1>4. ASSUME NEW r \in Runs, Fail(r) PROVE RouteTyped'
  BY <1>4, FailRoute
<1>5. ASSUME UNCHANGED <<call, calls, asked, route>> PROVE RouteTyped'
  BY <1>5 DEF RouteTyped, RouteInv, Calling, Reported
<1>6. CASE Die
  <2>1. calls' = calls /\ asked' = asked /\ route' = route
    BY <1>6 DEF Die, Restart
  <2>2. ASSUME NEW r \in Runs PROVE RouteOk(r)'
    <3>1. call[r] \in Call
      BY CallType
    <3>2. CASE Calling(r)
      <4>1. call'[r] = [call[r] EXCEPT !.state = "lost"]
        BY <1>6, <3>2 DEF Die, Restart
      <4>2. call'[r].state = "lost"
        BY <3>1, <4>1, Ended
      <4> QED BY <4>2 DEF RouteOk, Calling
    <3>3. CASE ~Calling(r)
      <4>1. call'[r] = call[r]
        BY <1>6, <3>3 DEF Die, Restart
      <4>2. RouteOk(r)
        BY RouteAt DEF RouteTyped
      <4> QED BY <2>1, <3>3, <4>1, <4>2 DEF RouteOk, Calling, Reported
    <3> QED BY <3>2, <3>3
  <2> QED BY <2>1, <2>2 DEF RouteTyped, RouteInv, RouteOk
<1>7. ASSUME NEW r \in Runs, Accept(r) \/ KeptWaiting(r) PROVE RouteTyped'
  BY <1>5, <1>7 DEF Accept, KeptWaiting, KeepAlive, Trickle, vars
<1>8. ASSUME NEW k \in ClientTokens, Poll(k) PROVE RouteTyped'
  BY <1>5, <1>8 DEF Poll, StreamStatus, exchange
<1>9. CASE UNCHANGED streamVars
  BY <1>5, <1>9 DEF streamVars, vars, exchange
<1> QED BY <1>1, <1>2, <1>3, <1>4, <1>6, <1>7, <1>8, <1>9
        DEF StreamNext, Exchange, EndOfStream, Reply, ReplyWhole

-----------------------------------------------------------------------------
(* Types *)

Phases == {"none", "posted", "open", "whole"}

PhaseInv == http \in [Runs -> Phases] /\ beat \in BOOLEAN

LEMMA NextPhase ==
    ASSUME PhaseInv, [StreamNext]_streamVars
    PROVE  PhaseInv'
<1> USE DEF PhaseInv, Phases
<1>1. ASSUME NEW r \in Runs, Begin(r) PROVE http' \in [Runs -> Phases]
  BY <1>1 DEF Begin
<1>2. ASSUME NEW r \in Runs, Start(r) \/ Answer(r) \/ Fail(r) PROVE PhaseInv'
  BY <1>1, <1>2 DEF Start, Answer, Fail
<1>3. ASSUME NEW r \in Runs, Accept(r) \/ PassOn(r) \/ KeptWaiting(r) \/ PassWhole(r)
      PROVE  PhaseInv'
  BY <1>3 DEF Accept, PassOn, KeptWaiting, KeepAlive, Trickle, PassWhole
<1>4. CASE Die
  BY <1>4 DEF Die
<1>5. ASSUME NEW k \in ClientTokens, Poll(k) PROVE PhaseInv'
  BY <1>5 DEF Poll, exchange
<1>6. CASE UNCHANGED streamVars
  BY <1>6 DEF streamVars, exchange
<1> QED BY <1>2, <1>3, <1>4, <1>5, <1>6
        DEF StreamNext, Exchange, EndOfStream, Reply, ReplyWhole

LEMMA RouteInvariant == StreamSpec => []RouteTyped
<1>1. StreamInit => RouteTyped
  BY DEF StreamInit, Init, New, RouteTyped, RouteInv, Calling
<1>2. TypeOK /\ AttemptInv /\ CallsInv /\ RouteTyped /\ [StreamNext]_streamVars => RouteTyped'
  BY NextRoute
<1> QED BY <1>1, <1>2, StreamTypes, PTL DEF StreamSpec

\* The route that is stored with a plan is that of an answer: of the plan's own, or
\* of the one that did not parse when the plan was repaired.
THEOREM ReportedAnswered == StreamSpec => []RouteIsOfAnAnswer
<1>1. RouteTyped => RouteIsOfAnAnswer
  BY DEF RouteTyped, RouteInv, Reported, RouteIsOfAnAnswer
<1> QED BY <1>1, RouteInvariant, PTL

\* Every reachable state of the adapters is well typed.
THEOREM StreamTypeCorrect == StreamSpec => []StreamTypeOK
<1>1. StreamInit => PhaseInv
  BY DEF StreamInit, PhaseInv, Phases
<1>2. TypeOK /\ ChunksInv /\ RouteTyped /\ PhaseInv => StreamTypeOK
  BY DEF ChunksInv, RouteTyped, PhaseInv, Phases, StreamTypeOK
<1> QED BY <1>1, <1>2, NextPhase, StreamTypes, ChunksInvariant, RouteInvariant, PTL DEF StreamSpec

-----------------------------------------------------------------------------
(* Planning ends *)

LEMMA TimesMonotone == \A a, b, w \in Nat : a <= b => a * w <= b * w
<1> SUFFICES ASSUME NEW a \in Nat, NEW b \in Nat, NEW w \in Nat, a <= b
             PROVE  a * w <= b * w
  OBVIOUS
<1> DEFINE d == b - a
<1>1. d \in Nat /\ b = a + d
  OBVIOUS
<1> HIDE DEF d
<1>2. d * w \in Nat /\ a * w \in Nat
  BY <1>1
<1>3. (a + d) * w = a * w + d * w
  BY <1>1
<1> QED BY <1>1, <1>2, <1>3

\* One attempt fewer outweighs every step of an exchange.
LEMMA AttemptOutweighs ==
    ASSUME NEW a \in Nat, NEW b \in Nat, NEW w \in Nat, NEW x \in 0..w, NEW y \in Nat \ {0},
           a < b
    PROVE  a * w + x < b * w + y
<1>1. (a + 1) * w = a * w + w
  OBVIOUS
<1>2. (a + 1) * w <= b * w
  BY TimesMonotone
<1>3. a * w \in Nat /\ b * w \in Nat
  OBVIOUS
<1> QED BY <1>1, <1>2, <1>3

\* A call in progress: its record, its attempt and what it has streamed are in range.
UnderWay(c) ==
    /\ c \in Call /\ c.state = "calling"
    /\ c.attempt \in 1..Limit(RoutedProfile(c))
    /\ c.sent <= MaxDeltas

\* While it is under way it has steps left, and no more than all attempts have.
LEMMA LeftRange ==
    ASSUME NEW c, UnderWay(c), NEW phase \in Phases \ {"none"}
    PROVE  /\ AttemptsLeft(c) \in Nat
           /\ StepsLeft(c, phase) \in 1..(MaxDeltas + 2)
           /\ LeftOf(c, phase) = AttemptsLeft(c) * (MaxDeltas + 2) + StepsLeft(c, phase)
           /\ LeftOf(c, phase) \in 1..(2 * MaxAttempts * (MaxDeltas + 2))
<1> DEFINE w == MaxDeltas + 2
           a == AttemptsLeft(c)
           x == StepsLeft(c, phase)
<1>1. /\ MaxAttempts \in Nat /\ MaxDeltas \in Nat /\ w \in Nat
      /\ c.attempt \in Nat /\ c.sent \in Nat /\ c.round \in {1, 2} /\ c.profile \in Profiles
  BY PlanningAssumption DEF UnderWay, Call
<1>2. DefaultProfile \in Profiles
  BY DEF DefaultProfile, Profiles
<1>3. /\ Limit(c.profile) \in Nat /\ Limit(c.profile) <= MaxAttempts
      /\ Limit(DefaultProfile) \in Nat /\ Limit(DefaultProfile) <= MaxAttempts
  BY <1>1, <1>2, LimitType
<1>4. c.attempt >= 1 /\ c.attempt <= Limit(IF c.round = 1 THEN c.profile ELSE DefaultProfile)
  BY <1>1, <1>2, LimitType DEF UnderWay, RoutedProfile
<1>5. a \in Nat /\ a + 1 <= 2 * MaxAttempts
  BY <1>1, <1>3, <1>4 DEF AttemptsLeft
<1>6. x \in 1..w
  <2>1. c.sent <= MaxDeltas
    BY DEF UnderWay
  <2> QED BY <1>1, <2>1 DEF StepsLeft, Phases
<1>7. LeftOf(c, phase) = a * w + x
  BY DEF LeftOf, UnderWay
<1> HIDE DEF w, a, x
<1>8. (a + 1) * w = a * w + w /\ a * w \in Nat
  BY <1>1, <1>5
<1>9. (a + 1) * w <= (2 * MaxAttempts) * w
  BY <1>1, <1>5, TimesMonotone
<1>10. (2 * MaxAttempts) * w \in Nat
  BY <1>1
<1>11. a * w + x \in 1..(2 * MaxAttempts * w)
  BY <1>1, <1>6, <1>8, <1>9, <1>10
<1> QED BY <1>5, <1>6, <1>7, <1>11 DEF w, a, x

\* The record of an attempt that was entered is under way.
LEMMA EnteredIsUnderWay ==
    ASSUME NEW c \in Call, c.state = "calling", c.attempt > 0,
           c.attempt <= Limit(RoutedProfile(c))
    PROVE  /\ UnderWay([c EXCEPT !.sent = 0])
           /\ AttemptsLeft([c EXCEPT !.sent = 0]) = AttemptsLeft(c)
<1> DEFINE d == [c EXCEPT !.sent = 0]
<1>1. /\ d \in Call /\ d.state = "calling" /\ d.sent = 0 /\ d.attempt = c.attempt
      /\ d.round = c.round /\ d.profile = c.profile
  BY DEF Call
<1>2. c.attempt \in Nat /\ RoutedProfile(c) \in Profiles
  BY RoutedType DEF Call
<1>3. Limit(RoutedProfile(c)) \in Nat /\ MaxDeltas \in Nat
  BY <1>2, LimitType, PlanningAssumption
<1> HIDE DEF d
<1>4. RoutedProfile(d) = RoutedProfile(c) /\ AttemptsLeft(d) = AttemptsLeft(c)
  BY <1>1 DEF RoutedProfile, AttemptsLeft
<1>5. UnderWay(d)
  BY <1>1, <1>2, <1>3, <1>4 DEF UnderWay
<1> QED BY <1>4, <1>5 DEF d

\* What holds of one run, and what a step of that run must achieve.
WellUnderWay(r) == UnderWay(call[r]) /\ http[r] \in Phases \ {"none"}

WasBegun(r) == Calling(r) => http[r] # "none" /\ call[r].sent <= MaxDeltas

\* A step that leaves planning of r, or enters an attempt with fewer behind it,
\* brings r closer.
LEMMA BeginCloser ==
    ASSUME TypeOK, PhaseInv, NEW r \in Runs, WellUnderWay(r), NEW c \in Call, Begin(r),
           \/ /\ c.state = "calling" /\ c.attempt > 0
              /\ Attempt(r, c) /\ AttemptsLeft(c) < AttemptsLeft(call[r])
           \/ \E verdict \in {"accepted", "rejected"} : Settled(r, verdict, c)
    PROVE  /\ Left(r)' < Left(r) /\ WasBegun(r)'
           /\ \A x \in Runs \ {r} : call'[x] = call[x] /\ http'[x] = http[x]
<1> DEFINE q == call[r]
           d == call'[r]
<1>1. /\ http'[r] = IF d.state = "calling" THEN "posted" ELSE "none"
      /\ \A x \in Runs \ {r} : http'[x] = http[x]
  BY DEF Begin, PhaseInv
<1>2. UnderWay(q) /\ http[r] \in Phases \ {"none"} /\ Left(r) = LeftOf(q, http[r])
  BY DEF WellUnderWay, Left
<1>3. Left(r)' = LeftOf(d, http'[r])
  BY DEF Left
<1>4. MaxDeltas \in Nat /\ MaxDeltas + 2 \in Nat
  BY PlanningAssumption
<1> HIDE DEF q, d
<1>5. /\ AttemptsLeft(q) \in Nat /\ StepsLeft(q, http[r]) \in 1..(MaxDeltas + 2)
      /\ LeftOf(q, http[r]) = AttemptsLeft(q) * (MaxDeltas + 2) + StepsLeft(q, http[r])
      /\ LeftOf(q, http[r]) \in 1..(2 * MaxAttempts * (MaxDeltas + 2))
  BY <1>2, LeftRange
<1>6. ASSUME d.state # "calling" PROVE Left(r)' < Left(r) /\ WasBegun(r)'
  <2>1. Left(r)' = 0
    BY <1>3, <1>6 DEF LeftOf
  <2>2. Left(r) \in Nat \ {0}
    BY <1>2, <1>5
  <2>3. WasBegun(r)'
    BY <1>6 DEF WasBegun, Calling, d
  <2> QED BY <2>1, <2>2, <2>3
<1>7. CASE /\ c.state = "calling" /\ c.attempt > 0
           /\ Attempt(r, c) /\ AttemptsLeft(c) < AttemptsLeft(call[r])
  <2>1. /\ \A x \in Runs \ {r} : call'[x] = call[x]
        /\ \/ c.attempt <= Limit(RoutedProfile(c)) /\ d = [c EXCEPT !.sent = 0]
           \/ d = [c EXCEPT !.state = "rejected"]
    BY <1>7, AttemptStep DEF d
  <2>2. ASSUME d = [c EXCEPT !.state = "rejected"] PROVE Left(r)' < Left(r) /\ WasBegun(r)'
    <3>1. d.state = "rejected"
      BY <2>2, Ended
    <3> QED BY <1>6, <3>1
  <2>3. ASSUME c.attempt <= Limit(RoutedProfile(c)), d = [c EXCEPT !.sent = 0]
        PROVE  Left(r)' < Left(r) /\ WasBegun(r)'
    <3>1. UnderWay(d) /\ AttemptsLeft(d) = AttemptsLeft(c)
      BY <1>7, <2>3, EnteredIsUnderWay
    <3>2. d.state = "calling" /\ http'[r] = "posted" /\ "posted" \in Phases \ {"none"}
      BY <1>1, <3>1 DEF UnderWay, Phases
    <3>3. /\ AttemptsLeft(d) \in Nat /\ StepsLeft(d, "posted") \in 1..(MaxDeltas + 2)
          /\ LeftOf(d, "posted") = AttemptsLeft(d) * (MaxDeltas + 2) + StepsLeft(d, "posted")
      BY <3>1, <3>2, LeftRange
    <3>4. AttemptsLeft(d) < AttemptsLeft(q)
      BY <1>7, <3>1 DEF q
    <3>5. StepsLeft(d, "posted") \in 0..(MaxDeltas + 2) /\ StepsLeft(q, http[r]) \in Nat \ {0}
      BY <1>4, <1>5, <3>3
    <3>6. LeftOf(d, "posted") < LeftOf(q, http[r])
      BY <1>4, <1>5, <3>3, <3>4, <3>5, AttemptOutweighs
    <3>7. WasBegun(r)'
      BY <3>1, <3>2 DEF WasBegun, UnderWay, d
    <3> QED BY <1>2, <1>3, <3>2, <3>6, <3>7
  <2> QED BY <1>1, <2>1, <2>2, <2>3
<1>8. CASE \E verdict \in {"accepted", "rejected"} : Settled(r, verdict, c)
  <2>1. PICK verdict \in {"accepted", "rejected"} : Settled(r, verdict, c)
    BY <1>8
  <2>2. d = [c EXCEPT !.state = verdict] /\ \A x \in Runs \ {r} : call'[x] = call[x]
    <3>1. /\ call' \in [Runs -> Call]
          /\ text' = text /\ calls' = calls /\ asked' = asked
          /\ \A x \in Runs \ {r} : call'[x] = call[x]
          /\ call'[r] = [c EXCEPT !.state = verdict]
      BY <2>1, SettledStep, ZenonT(30)
    <3> QED BY <3>1 DEF d
  <2>3. d.state # "calling"
    BY <2>2, Ended
  <2> QED BY <1>1, <1>6, <2>2, <2>3
<1> QED BY <1>7, <1>8

\* A chunk brings the run one step closer, the whole answer of the local provider
\* as many as it replaces.
LEMMA DeltaCloser ==
    ASSUME TypeOK, PhaseInv, NEW r \in Runs, WellUnderWay(r), PassOn(r) \/ PassWhole(r)
    PROVE  /\ Left(r)' < Left(r) /\ WasBegun(r)'
           /\ \A x \in Runs \ {r} : call'[x] = call[x] /\ http'[x] = http[x]
<1> DEFINE q    == call[r]
           next == [q EXCEPT !.sent = q.sent + 1]
<1>1. /\ q \in Call /\ q.state = "calling" /\ q.sent \in Nat /\ q.sent < MaxDeltas
      /\ UnderWay(q)
  BY CallType DEF PassOn, PassWhole, Delta, Calling, WellUnderWay
<1>2. call'[r] = next /\ \A x \in Runs \ {r} : call'[x] = call[x]
  BY DEF PassOn, PassWhole, Delta, TypeOK
<1>3. /\ \/ http[r] = "open" /\ http'[r] = "open"
         \/ http[r] = "posted" /\ http'[r] = "whole"
      /\ \A x \in Runs \ {r} : http'[x] = http[x]
  BY DEF PassOn, PassWhole, In, PhaseInv
<1>4. Left(r) = LeftOf(q, http[r]) /\ MaxDeltas \in Nat
  BY PlanningAssumption DEF Left
<1> HIDE DEF q
<1>5. /\ next.state = "calling" /\ next.sent = q.sent + 1 /\ next.attempt = q.attempt
      /\ next.round = q.round /\ next.profile = q.profile
  BY <1>1 DEF Call
<1> HIDE DEF next
<1>6. AttemptsLeft(next) = AttemptsLeft(q) /\ Left(r)' = LeftOf(next, http'[r])
  BY <1>2, <1>5 DEF AttemptsLeft, Left
<1>7. AttemptsLeft(q) \in Nat /\ AttemptsLeft(q) * (MaxDeltas + 2) \in Nat
  <2>1. AttemptsLeft(q) \in Nat
    BY <1>1, <1>3, LeftRange DEF Phases
  <2> QED BY <1>4, <2>1
<1>8. StepsLeft(next, http'[r]) < StepsLeft(q, http[r])
      /\ StepsLeft(next, http'[r]) \in Nat /\ StepsLeft(q, http[r]) \in Nat
  BY <1>1, <1>3, <1>4, <1>5 DEF StepsLeft
<1>9. Left(r)' < Left(r)
  BY <1>1, <1>4, <1>5, <1>6, <1>7, <1>8 DEF LeftOf
<1>10. WasBegun(r)'
  BY <1>1, <1>2, <1>3, <1>4, <1>5 DEF WasBegun
<1> QED BY <1>2, <1>3, <1>9, <1>10

\* So does the status that opens the stream.
LEMMA AcceptCloser ==
    ASSUME TypeOK, PhaseInv, NEW r \in Runs, WellUnderWay(r), Accept(r)
    PROVE  /\ Left(r)' < Left(r) /\ WasBegun(r)'
           /\ \A x \in Runs \ {r} : call'[x] = call[x] /\ http'[x] = http[x]
<1> DEFINE q == call[r]
<1>1. /\ call' = call /\ http[r] = "posted" /\ http'[r] = "open"
      /\ \A x \in Runs \ {r} : http'[x] = http[x]
  BY DEF Accept, In, PhaseInv, vars
<1>2. /\ UnderWay(q) /\ q.state = "calling" /\ q.sent \in Nat /\ q.sent <= MaxDeltas
      /\ MaxDeltas \in Nat
  BY CallType, PlanningAssumption DEF WellUnderWay, UnderWay
<1>3. Left(r) = LeftOf(q, "posted") /\ Left(r)' = LeftOf(q, "open")
  BY <1>1 DEF Left
<1>4. WasBegun(r)'
  BY <1>1, <1>2 DEF WasBegun
<1> HIDE DEF q
<1>5. AttemptsLeft(q) \in Nat /\ AttemptsLeft(q) * (MaxDeltas + 2) \in Nat
  <2>1. AttemptsLeft(q) \in Nat
    BY <1>2, LeftRange DEF Phases
  <2> QED BY <1>2, <2>1
<1>6. LeftOf(q, "open") < LeftOf(q, "posted")
  BY <1>2, <1>5 DEF LeftOf, StepsLeft
<1> QED BY <1>1, <1>3, <1>4, <1>6

\* An answer that does not parse is followed by a repair, which has fewer attempts
\* left than the request had.
LEMMA AnswerCloser ==
    ASSUME TypeOK, PhaseInv, NEW r \in Runs, WellUnderWay(r), Answer(r)
    PROVE  /\ Left(r)' < Left(r) /\ WasBegun(r)'
           /\ \A x \in Runs \ {r} : call'[x] = call[x] /\ http'[x] = http[x]
<1> DEFINE q      == call[r]
           repair == [q EXCEPT !.round = 2, !.attempt = 1]
<1>1. /\ q \in Call /\ repair \in Call /\ repair.state = "calling"
      /\ repair.attempt = 1 /\ repair.round = 2 /\ repair.profile = q.profile
      /\ \/ \E verdict \in {"accepted", "rejected"} : Settled(r, verdict, q)
         \/ q.round = 1 /\ Attempt(r, repair)
  BY AnswerForm DEF Answer
<1>2. UnderWay(q) /\ Begin(r)
  BY DEF WellUnderWay, Answer
<1> HIDE DEF repair
<1>3. ASSUME q.round = 1 PROVE AttemptsLeft(repair) < AttemptsLeft(q)
  <2>1. q.profile \in Profiles /\ DefaultProfile \in Profiles
    BY <1>1 DEF Call, Profiles, DefaultProfile
  <2>2. Limit(q.profile) \in Nat /\ Limit(DefaultProfile) \in Nat
    BY <2>1, LimitType
  <2>3. q.attempt \in 1..Limit(q.profile)
    BY <1>2, <1>3 DEF UnderWay, RoutedProfile
  <2> QED BY <1>1, <1>3, <2>2, <2>3 DEF AttemptsLeft
<1>4. CASE q.round = 1 /\ Attempt(r, repair)
  BY <1>1, <1>2, <1>3, <1>4, BeginCloser
<1>5. CASE \E verdict \in {"accepted", "rejected"} : Settled(r, verdict, q)
  BY <1>1, <1>2, <1>5, BeginCloser
<1> QED BY <1>1, <1>4, <1>5

\* The attempt after one that failed is one fewer.
LEMMA FailCloser ==
    ASSUME TypeOK, PhaseInv, NEW r \in Runs, WellUnderWay(r), Fail(r)
    PROVE  /\ Left(r)' < Left(r) /\ WasBegun(r)'
           /\ \A x \in Runs \ {r} : call'[x] = call[x] /\ http'[x] = http[x]
<1> DEFINE q    == call[r]
           next == [q EXCEPT !.attempt = q.attempt + 1]
<1>1. /\ q \in Call /\ next \in Call /\ next.state = "calling"
      /\ next.attempt = q.attempt + 1 /\ next.round = q.round /\ next.profile = q.profile
      /\ Attempt(r, next)
  BY FailForm DEF Fail
<1>2. UnderWay(q) /\ Begin(r) /\ q.attempt \in Nat
  BY CallType DEF WellUnderWay, Fail
<1> HIDE DEF next
<1>3. AttemptsLeft(next) < AttemptsLeft(q)
  <2>1. q.profile \in Profiles /\ DefaultProfile \in Profiles
    BY <1>1 DEF Call, Profiles, DefaultProfile
  <2>2. Limit(q.profile) \in Nat /\ Limit(DefaultProfile) \in Nat
    BY <2>1, LimitType
  <2> QED BY <1>1, <1>2, <2>2 DEF AttemptsLeft
<1>4. next.attempt > 0
  BY <1>1, <1>2
<1> QED BY <1>1, <1>2, <1>3, <1>4, BeginCloser

\* A step of another exchange, a poll, or what completes nothing leaves the run
\* where it is.
LEMMA LeftFrame ==
    ASSUME NEW r \in Runs, call'[r] = call[r], http'[r] = http[r]
    PROVE  Left(r)' = Left(r) /\ (WasBegun(r) => WasBegun(r)')
  BY DEF Left, WasBegun, Calling

\* The exchange of the first attempt is begun with the call.
LEMMA StartBegins ==
    ASSUME TypeOK, PhaseInv, NEW r \in Runs, Start(r)
    PROVE  /\ ~Calling(r) /\ WasBegun(r)'
           /\ \A x \in Runs \ {r} : call'[x] = call[x] /\ http'[x] = http[x]
<1>1. PICK c \in Call : /\ c.state = "calling" /\ c.attempt = 1 /\ c.round = call[r].round
                        /\ Attempt(r, c) \/ Settled(r, "rejected", c)
  BY StartStep DEF Start
<1>2. /\ http'[r] = IF call'[r].state = "calling" THEN "posted" ELSE "none"
      /\ \A x \in Runs \ {r} : http'[x] = http[x]
  BY DEF Start, Begin, PhaseInv
<1>3. ~Calling(r) /\ MaxDeltas \in Nat
  BY PlanningAssumption DEF Start, StartPlan, Calling
<1>4. ASSUME call'[r] = [c EXCEPT !.sent = 0] PROVE WasBegun(r)'
  <2>1. call'[r].sent = 0 /\ call'[r].state = "calling"
    BY <1>1, <1>4, Entered
  <2> QED BY <1>2, <1>3, <2>1 DEF WasBegun
<1>5. ASSUME call'[r] = [c EXCEPT !.state = "rejected"] PROVE WasBegun(r)'
  <2>1. call'[r].state = "rejected"
    BY <1>5, Ended
  <2> QED BY <2>1 DEF WasBegun, Calling
<1>6. CASE Attempt(r, c)
  <2>1. c.attempt > 0
    BY <1>1
  <2>2. /\ \A x \in Runs \ {r} : call'[x] = call[x]
        /\ \/ call'[r] = [c EXCEPT !.sent = 0]
           \/ call'[r] = [c EXCEPT !.state = "rejected"]
    BY <1>6, <2>1, AttemptStep
  <2> QED BY <1>2, <1>3, <1>4, <1>5, <2>2
<1>7. CASE Settled(r, "rejected", c)
  <2>1. /\ call' \in [Runs -> Call]
        /\ text' = text /\ calls' = calls /\ asked' = asked
        /\ \A x \in Runs \ {r} : call'[x] = call[x]
        /\ call'[r] = [c EXCEPT !.state = "rejected"]
    BY <1>7, SettledStep
  <2> QED BY <1>2, <1>3, <1>5, <2>1
<1> QED BY <1>1, <1>6, <1>7

\* Every step of an exchange that completes something is one of these.
LEMMA ExchangeCloser ==
    ASSUME TypeOK, PhaseInv, NEW r \in Runs, WellUnderWay(r), Exchange(r), ~KeptWaiting(r)
    PROVE  /\ Left(r)' < Left(r) /\ WasBegun(r)'
           /\ \A x \in Runs \ {r} : call'[x] = call[x] /\ http'[x] = http[x]
<1>1. Accept(r) \/ (PassOn(r) \/ PassWhole(r)) \/ Answer(r) \/ Fail(r)
  BY DEF Exchange, EndOfStream, Reply, ReplyWhole
<1> QED BY <1>1, AcceptCloser, DeltaCloser, AnswerCloser, FailCloser

\* A call under way has an exchange and a distance.
LEMMA DistanceType ==
    ASSUME TypeOK, AttemptInv, PhaseInv, ExchangeInv, NEW r \in Runs, Calling(r)
    PROVE  WellUnderWay(r) /\ Left(r) \in 1..(2 * MaxAttempts * (MaxDeltas + 2))
<1>1. /\ call[r] \in Call /\ call[r].state = "calling"
      /\ call[r].attempt \in 1..Limit(RoutedProfile(call[r]))
      /\ call[r].sent <= MaxDeltas /\ http[r] \in Phases \ {"none"}
  BY CallType DEF AttemptInv, ExchangeInv, PhaseInv, Calling
<1>2. UnderWay(call[r])
  BY <1>1 DEF UnderWay
<1>3. LeftOf(call[r], http[r]) \in 1..(2 * MaxAttempts * (MaxDeltas + 2))
  BY <1>1, <1>2, LeftRange
<1> QED BY <1>1, <1>2, <1>3 DEF WellUnderWay, Left

\* A step either leaves the call and the exchange of a run alone, begins them,
\* brings the run closer, or ends it with the process.
LEMMA EveryStep ==
    ASSUME TypeOK, AttemptInv, PhaseInv, ExchangeInv, [StreamNext]_streamVars, NEW r \in Runs
    PROVE  \/ call'[r] = call[r] /\ http'[r] = http[r]
           \/ ~Calling(r) /\ WasBegun(r)'
           \/ Left(r)' < Left(r) /\ WasBegun(r)'
           \/ ~Calling(r)'
<1>1. ASSUME NEW s \in Runs, Start(s)
      PROVE  \/ call'[r] = call[r] /\ http'[r] = http[r]
             \/ ~Calling(r) /\ WasBegun(r)'
  BY <1>1, StartBegins
<1>2. ASSUME NEW s \in Runs, Exchange(s), ~KeptWaiting(s)
      PROVE  \/ call'[r] = call[r] /\ http'[r] = http[r]
             \/ Left(r)' < Left(r) /\ WasBegun(r)'
  <2>1. Calling(s)
    BY <1>2 DEF Exchange, Accept, PassOn, EndOfStream, Reply, PassWhole, ReplyWhole,
                Fail, In, ProviderFails, Delta
  <2>2. WellUnderWay(s)
    BY <2>1, DistanceType
  <2> QED BY <1>2, <2>2, ExchangeCloser
<1>3. ASSUME UNCHANGED <<call, http>> PROVE call'[r] = call[r] /\ http'[r] = http[r]
  BY <1>3
<1>4. ASSUME NEW s \in Runs, KeptWaiting(s) PROVE UNCHANGED <<call, http>>
  BY <1>4 DEF KeptWaiting, KeepAlive, Trickle, vars
<1>5. ASSUME NEW k \in ClientTokens, Poll(k) PROVE UNCHANGED <<call, http>>
  BY <1>5 DEF Poll, StreamStatus, exchange
<1>6. CASE Die
  <2>1. call[r] \in Call
    BY CallType
  <2>2. call'[r].state # "calling"
    <3>1. CASE Calling(r)
      <4>1. call'[r] = [call[r] EXCEPT !.state = "lost"]
        BY <1>6, <3>1 DEF Die, Restart
      <4>2. call'[r].state = "lost"
        BY <2>1, <4>1, Ended
      <4> QED BY <4>2
    <3>2. CASE ~Calling(r)
      BY <1>6, <3>2 DEF Die, Restart, Calling
    <3> QED BY <3>1, <3>2
  <2> QED BY <2>2 DEF Calling
<1>7. CASE UNCHANGED streamVars
  BY <1>7 DEF streamVars, vars, exchange
<1> QED BY <1>1, <1>2, <1>3, <1>4, <1>5, <1>6, <1>7 DEF StreamNext

LEMMA NextBegun ==
    ASSUME TypeOK, AttemptInv, PhaseInv, ExchangeInv, [StreamNext]_streamVars
    PROVE  ExchangeInv'
<1>1. ASSUME NEW r \in Runs PROVE WasBegun(r)'
  <2>1. WasBegun(r)
    BY DEF ExchangeInv, WasBegun
  <2>2. CASE call'[r] = call[r] /\ http'[r] = http[r]
    BY <2>1, <2>2, LeftFrame
  <2>3. CASE ~Calling(r)'
    BY <2>3 DEF WasBegun
  <2> QED BY <2>2, <2>3, EveryStep
<1> QED BY <1>1 DEF ExchangeInv, WasBegun

LEMMA NextCloser ==
    ASSUME TypeOK, AttemptInv, PhaseInv, ExchangeInv, [StreamNext]_streamVars,
           TypeOK', AttemptInv', PhaseInv', ExchangeInv', NEW r \in Runs, Calling(r)
    PROVE  /\ Left(r)' <= Left(r)
           /\ Exchange(r) => KeptWaiting(r) \/ Left(r)' < Left(r)
<1>1. WellUnderWay(r) /\ Left(r) \in Nat
  BY DistanceType
<1>2. Left(r)' \in Nat
  <2>1. CASE ~Calling(r)'
    <3>1. Left(r)' = 0
      BY <2>1 DEF Left, LeftOf, Calling
    <3> QED BY <3>1
  <2>2. CASE Calling(r)'
    <3>1. /\ call'[r] \in Call /\ call'[r].state = "calling"
          /\ call'[r].attempt \in 1..Limit(RoutedProfile(call'[r]))
          /\ call'[r].sent <= MaxDeltas /\ http'[r] \in Phases \ {"none"}
      BY <2>2 DEF TypeOK, AttemptInv, ExchangeInv, PhaseInv, Calling
    <3>2. UnderWay(call'[r])
      BY <3>1 DEF UnderWay
    <3>3. LeftOf(call'[r], http'[r]) \in 1..(2 * MaxAttempts * (MaxDeltas + 2))
      BY <3>1, <3>2, LeftRange
    <3>4. 2 * MaxAttempts * (MaxDeltas + 2) \in Nat
      BY PlanningAssumption
    <3> QED BY <3>3, <3>4 DEF Left
  <2> QED BY <2>1, <2>2
<1>3. Left(r)' <= Left(r)
  <2>1. CASE call'[r] = call[r] /\ http'[r] = http[r]
    <3>1. Left(r)' = Left(r)
      BY <2>1, LeftFrame
    <3> QED BY <1>1, <3>1
  <2>2. CASE ~Calling(r)'
    <3>1. Left(r)' = 0
      BY <2>2 DEF Left, LeftOf, Calling
    <3> QED BY <1>1, <3>1
  <2>3. CASE Left(r)' < Left(r)
    BY <1>1, <1>2, <2>3
  <2> QED BY <2>1, <2>2, <2>3, EveryStep
<1>4. ASSUME Exchange(r), ~KeptWaiting(r) PROVE Left(r)' < Left(r)
  BY <1>1, <1>4, ExchangeCloser
<1> QED BY <1>3, <1>4

\* The four invariants that say what a run under way looks like.
LEMMA UnderWayInvariant ==
    StreamSpec => [](TypeOK /\ AttemptInv /\ PhaseInv /\ ExchangeInv)
<1>1. StreamInit => PhaseInv /\ ExchangeInv
  <2>1. StreamInit => PhaseInv
    BY DEF StreamInit, PhaseInv, Phases
  <2>2. StreamInit => ExchangeInv
    BY DEF StreamInit, Init, New, ExchangeInv, Calling
  <2> QED BY <2>1, <2>2
<1>2. TypeOK /\ AttemptInv /\ PhaseInv /\ ExchangeInv /\ [StreamNext]_streamVars => ExchangeInv'
  BY NextBegun
<1> QED BY <1>1, <1>2, NextPhase, StreamTypes, PTL DEF StreamSpec

\* A run that is being planned is at most so many steps from its verdict: two
\* rounds of max_provider_attempts exchanges, each no longer than an answer.
THEOREM DistanceIsBounded == StreamSpec => []LeftBounded
<1>1. TypeOK /\ AttemptInv /\ PhaseInv /\ ExchangeInv => LeftBounded
  BY DistanceType DEF LeftBounded
<1> QED BY <1>1, UnderWayInvariant, PTL

\* Each step of its exchange that completes something takes it closer,
\* and no step takes it further away.
THEOREM ExchangesComeCloser == StreamSpec => PlanningComesCloser
<1> DEFINE Typed == TypeOK /\ AttemptInv /\ PhaseInv /\ ExchangeInv
           CloserStep == \A r \in Runs : Calling(r) =>
                            /\ Left(r)' <= Left(r)
                            /\ Exchange(r) => KeptWaiting(r) \/ Left(r)' < Left(r)
<1>1. Typed /\ Typed' /\ [StreamNext]_streamVars => CloserStep
  BY NextCloser
<1>2. StreamSpec => []Typed
  BY UnderWayInvariant
<1>3. StreamSpec => [][CloserStep]_streamVars
  <2> HIDE DEF Typed, CloserStep
  <2> QED BY <1>1, <1>2, PTL DEF StreamSpec
<1> QED BY <1>3 DEF PlanningComesCloser
=============================================================================
