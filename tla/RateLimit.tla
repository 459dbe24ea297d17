----------------------------- MODULE RateLimit ------------------------------
(***************************************************************************)
(* The request limit of the backend (backend/app/api/ratelimit.py): one    *)
(* window of instants per key, in the memory of the process. dispatch runs *)
(* _allow without awaiting, so a request is decided in one step.           *)
(***************************************************************************)
EXTENDS Naturals, Sequences

CONSTANTS
    Clients,   \* who sends requests
    Keys,      \* client-token headers and host addresses
    Header,    \* Header[c]: the x-client-token c sends, or Nobody
    Host,      \* Host[c]: the address the requests of c come from
    Nobody,    \* no header, no client
    PerMinute, \* rate_limit_per_minute
    Window,    \* the 60 seconds, in clock ticks
    MaxTime    \* bound: the clock stops here

ASSUME RateLimitAssumption ==
    /\ Header \in [Clients -> Keys \cup {Nobody}]
    /\ Host \in [Clients -> Keys]
    /\ Nobody \notin Clients
    /\ PerMinute \in Nat \ {0} /\ Window \in Nat \ {0} /\ MaxTime \in Nat

VARIABLES
    now,     \* the monotonic clock
    bucket,  \* bucket[k]: the instants kept for key k
    granted, \* history: granted[k]: every instant granted under k by this process
    refused  \* history: the client the latest step refused, or Nobody

vars == <<now, bucket, granted, refused>>

-----------------------------------------------------------------------------

\* What a request is counted under.
Key(c) == IF Header[c] = Nobody THEN Host[c] ELSE Header[c]

\* Faulty variant: an instant leaves the window one tick early.
StaleEarly(t) == t + Window <= now + 1

\* An instant has left the window.
Stale(t) == t + Window <= now

\* What is left of a window when the stale instants at its front are popped: one
\* sequence, in a set of its own.
Trimmed(w) ==
    LET Front(n) == /\ \A i \in 1..n : Stale(w[i])
                    /\ n < Len(w) => ~Stale(w[n + 1])
    IN  {SubSeq(w, n + 1, Len(w)) : n \in {m \in 0..Len(w) : Front(m)}}

\* Faulty variant: one request too many.
GrantOneMore(c) ==
    /\ \E kept \in Trimmed(bucket[Key(c)]) :
          /\ Len(kept) <= PerMinute
          /\ bucket' = [bucket EXCEPT ![Key(c)] = Append(kept, now)]
    /\ granted' = [granted EXCEPT ![Key(c)] = Append(@, now)]
    /\ refused' = Nobody
    /\ UNCHANGED now

\* The request is let through and counted.
Grant(c) ==
    /\ \E kept \in Trimmed(bucket[Key(c)]) :
          /\ Len(kept) < PerMinute
          /\ bucket' = [bucket EXCEPT ![Key(c)] = Append(kept, now)]
    /\ granted' = [granted EXCEPT ![Key(c)] = Append(@, now)]
    /\ refused' = Nobody
    /\ UNCHANGED now

\* Faulty variant: a refused request takes the place of the oldest counted one.
RefuseCounts(c) ==
    /\ \E kept \in Trimmed(bucket[Key(c)]) :
          /\ Len(kept) >= PerMinute
          /\ bucket' = [bucket EXCEPT ![Key(c)] = Append(Tail(kept), now)]
    /\ refused' = c
    /\ UNCHANGED <<now, granted>>

\* 429: the window is full; stale instants are gone, the request is not counted.
Refuse(c) ==
    /\ \E kept \in Trimmed(bucket[Key(c)]) :
          /\ Len(kept) >= PerMinute
          /\ bucket' = [bucket EXCEPT ![Key(c)] = kept]
    /\ refused' = c
    /\ UNCHANGED <<now, granted>>

Tick ==
    /\ now < MaxTime
    /\ now' = now + 1
    /\ refused' = Nobody
    /\ UNCHANGED <<bucket, granted>>

\* A restart forgets every window.
Restart ==
    /\ bucket'  = [k \in Keys |-> <<>>]
    /\ granted' = [k \in Keys |-> <<>>]
    /\ refused' = Nobody
    /\ UNCHANGED now

Init ==
    /\ now = 0
    /\ bucket  = [k \in Keys |-> <<>>]
    /\ granted = [k \in Keys |-> <<>>]
    /\ refused = Nobody

Next == (\E c \in Clients : Grant(c) \/ Refuse(c)) \/ Tick \/ Restart

Spec == Init /\ [][Next]_vars

-----------------------------------------------------------------------------
(* Properties *)

\* The types of the state; a window never holds more than the limit.
TypeOK ==
    /\ now \in Nat
    /\ bucket \in [Keys -> Seq(Nat)] /\ \A k \in Keys : Len(bucket[k]) <= PerMinute
    /\ granted \in [Keys -> Seq(Nat)]
    /\ refused \in Clients \cup {Nobody}

\* However requests bunch up around the edge of a window, no 60 seconds hold more
\* than per_minute granted requests of one key: of any per_minute + 1 successive
\* ones the first and the last are a full window apart. The limiter keeps only a
\* part of the instants this speaks of. It speaks of one life of the process:
\* a restart forgets the buckets, and with them the window they fill.
WindowHolds ==
    \A k \in Keys : \A i \in 1..Len(granted[k]) :
        i + PerMinute <= Len(granted[k]) =>
            granted[k][i] + Window <= granted[k][i + PerMinute]

\* Nobody is refused early: a refusal means that per_minute requests of the key
\* were granted within the last 60 seconds. Refused requests do not count, so a
\* client that keeps knocking is not kept out by it.
RefusedOnlyWhenFull ==
    refused # Nobody =>
        LET g == granted[Key(refused)] IN
        /\ Len(g) >= PerMinute
        /\ ~Stale(g[Len(g) - PerMinute + 1])

-----------------------------------------------------------------------------
(* Inductive invariant *)

\* The window w is the end of what was granted, g; what was dropped is stale.
IsWindowOf(w, g) ==
    /\ Len(w) <= Len(g)
    /\ \A i \in 1..Len(w) : w[i] = g[Len(g) - Len(w) + i]
    /\ \A i \in 1..(Len(g) - Len(w)) : Stale(g[i])
    /\ \A i \in 1..Len(g) : g[i] <= now

WindowInv == \A k \in Keys : IsWindowOf(bucket[k], granted[k])

=============================================================================
