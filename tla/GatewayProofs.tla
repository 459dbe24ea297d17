--------------------------- MODULE GatewayProofs ----------------------------
(***************************************************************************)
(* The gateway, for all clients, paths, tokens, limits and windows. The    *)
(* limiter: no window is overfull and nobody is refused early; the         *)
(* argument is WindowInv, that what the limiter keeps is the end of what   *)
(* it granted, and what it has forgotten could not count any more. The     *)
(* limiter behind the token check still is that limiter, each request that *)
(* Hermes is waiting to answer is counted, and no list of models is served *)
(* that is out of date; the last rests on CacheInv: a list is never older  *)
(* than its stamp.                                                         *)
(***************************************************************************)
EXTENDS Gateway, TLAPS

-----------------------------------------------------------------------------
(* The limiter *)


Inv == TypeOK /\ WindowInv /\ WindowHolds /\ RefusedOnlyWhenFull

LEMMA KeyType == \A c \in Clients : Key(c) \in Keys
  BY RateLimitAssumption DEF Key

\* What trimming a window leaves: an end of it, all fresh if sorted; what it drops
\* is stale.
LEMMA TrimmedIsAnEnd ==
    ASSUME NEW w \in Seq(Nat), NEW kept \in Trimmed(w)
    PROVE  \E n \in 0..Len(w) :
              /\ kept \in Seq(Nat) /\ Len(kept) = Len(w) - n
              /\ \A i \in 1..Len(kept) : kept[i] = w[n + i]
              /\ \A i \in 1..n : Stale(w[i])
              /\ n < Len(w) => ~Stale(w[n + 1])
<1>1. PICK n \in 0..Len(w) :
        /\ \A i \in 1..n : Stale(w[i])
        /\ n < Len(w) => ~Stale(w[n + 1])
        /\ kept = SubSeq(w, n + 1, Len(w))
  BY DEF Trimmed
<1>2. kept \in Seq(Nat) /\ Len(kept) = Len(w) - n /\ \A i \in 1..Len(kept) : kept[i] = w[n + i]
  BY <1>1
<1> QED BY <1>1, <1>2

\* The trimmed window of a key is still the end of what was granted.
LEMMA TrimmedInv ==
    ASSUME TypeOK, WindowInv, NEW k \in Keys, NEW kept \in Trimmed(bucket[k])
    PROVE  /\ kept \in Seq(Nat) /\ Len(kept) <= PerMinute
           /\ IsWindowOf(kept, granted[k])
           /\ Len(kept) > 0 => ~Stale(kept[1])
<1> DEFINE w == bucket[k]
           g == granted[k]
<1>1. w \in Seq(Nat) /\ g \in Seq(Nat) /\ Len(w) <= PerMinute /\ PerMinute \in Nat
  BY RateLimitAssumption DEF TypeOK
<1>2. /\ Len(w) <= Len(g)
      /\ \A i \in 1..Len(w) : w[i] = g[Len(g) - Len(w) + i]
      /\ \A i \in 1..(Len(g) - Len(w)) : Stale(g[i])
      /\ \A i \in 1..Len(g) : g[i] <= now
  BY DEF WindowInv, IsWindowOf
<1> HIDE DEF w, g
<1>3. PICK n \in 0..Len(w) :
        /\ kept \in Seq(Nat) /\ Len(kept) = Len(w) - n
        /\ \A i \in 1..Len(kept) : kept[i] = w[n + i]
        /\ \A i \in 1..n : Stale(w[i])
        /\ n < Len(w) => ~Stale(w[n + 1])
  BY <1>1, TrimmedIsAnEnd DEF w
<1>4. Len(w) \in Nat /\ Len(g) \in Nat /\ Len(kept) \in Nat
  BY <1>1, <1>3
<1>5. ASSUME NEW i \in 1..Len(kept) PROVE kept[i] = g[Len(g) - Len(kept) + i]
  BY <1>2, <1>3, <1>4
<1>6. ASSUME NEW i \in 1..(Len(g) - Len(kept)) PROVE Stale(g[i])
  <2>1. CASE i <= Len(g) - Len(w)
    BY <1>2, <1>4, <2>1
  <2>2. CASE i > Len(g) - Len(w)
    <3>1. i - (Len(g) - Len(w)) \in 1..n /\ i - (Len(g) - Len(w)) \in 1..Len(w)
      BY <1>3, <1>4, <2>2
    <3>2. w[i - (Len(g) - Len(w))] = g[i]
      BY <1>2, <1>4, <3>1
    <3> QED BY <1>3, <3>1, <3>2
  <2> QED BY <1>4, <2>1, <2>2
<1>7. Len(kept) > 0 => ~Stale(kept[1])
  BY <1>3, <1>4
<1> QED BY <1>1, <1>2, <1>3, <1>4, <1>5, <1>6, <1>7, SMTT(30) DEF g, IsWindowOf

\* A window may be replaced by its trimmed form.
LEMMA RefuseKeepsInv ==
    ASSUME Inv, NEW c \in Clients, Refuse(c)
    PROVE  Inv'
<1> USE DEF Inv
<1> DEFINE k == Key(c)
<1>0. k \in Keys /\ now \in Nat /\ Window \in Nat /\ PerMinute \in Nat
  BY KeyType, RateLimitAssumption DEF TypeOK
<1>1. PICK kept \in Trimmed(bucket[k]) :
        Len(kept) >= PerMinute /\ bucket' = [bucket EXCEPT ![k] = kept]
  BY DEF Refuse
<1>2. now' = now /\ granted' = granted /\ refused' = c
  BY DEF Refuse
<1> HIDE DEF k
<1>3. /\ kept \in Seq(Nat) /\ Len(kept) <= PerMinute
      /\ IsWindowOf(kept, granted[k])
      /\ Len(kept) > 0 => ~Stale(kept[1])
  BY <1>0, <1>1, TrimmedInv
<1>4. bucket'[k] = kept /\ \A l \in Keys \ {k} : bucket'[l] = bucket[l]
  BY <1>0, <1>1 DEF TypeOK
<1>5. TypeOK'
  BY <1>0, <1>1, <1>2, <1>3 DEF TypeOK
<1>6. WindowInv'
  <2>1. \A w, g : IsWindowOf(w, g)' <=> IsWindowOf(w, g)
    BY <1>2 DEF IsWindowOf, Stale
  <2>2. ASSUME NEW l \in Keys PROVE IsWindowOf(bucket'[l], granted'[l])
    BY <1>2, <1>3, <1>4 DEF WindowInv
  <2> QED BY <2>1, <2>2 DEF WindowInv
<1>7. WindowHolds'
  BY <1>2 DEF WindowHolds
<1>8. RefusedOnlyWhenFull'
  <2>1. Len(kept) = PerMinute /\ PerMinute > 0 /\ Len(granted[k]) \in Nat
    BY <1>0, <1>1, <1>3, RateLimitAssumption DEF TypeOK
  <2>2. kept[1] = granted[k][Len(granted[k]) - PerMinute + 1] /\ ~Stale(kept[1])
    BY <1>0, <1>3, <2>1 DEF IsWindowOf
  <2>3. Len(granted[k]) >= PerMinute
    BY <1>3, <2>1 DEF IsWindowOf
  <2> QED BY <1>2, <2>2, <2>3 DEF RefusedOnlyWhenFull, Stale, k
<1> QED BY <1>5, <1>6, <1>7, <1>8

LEMMA GrantKeepsInv ==
    ASSUME Inv, NEW c \in Clients, Grant(c)
    PROVE  Inv'
<1> USE DEF Inv
<1> DEFINE k == Key(c)
           g == granted[k]
<1>0. /\ k \in Keys /\ now \in Nat /\ Window \in Nat /\ PerMinute \in Nat /\ PerMinute > 0
      /\ g \in Seq(Nat) /\ Len(g) \in Nat
  BY KeyType, RateLimitAssumption DEF TypeOK
<1>1. PICK kept \in Trimmed(bucket[k]) :
        Len(kept) < PerMinute /\ bucket' = [bucket EXCEPT ![k] = Append(kept, now)]
  BY DEF Grant
<1>2. /\ now' = now /\ granted' = [granted EXCEPT ![k] = Append(g, now)]
      /\ refused' = Nobody
  BY DEF Grant
<1>3. /\ kept \in Seq(Nat) /\ Len(kept) \in Nat
      /\ Len(kept) <= Len(g)
      /\ \A i \in 1..Len(kept) : kept[i] = g[Len(g) - Len(kept) + i]
      /\ \A i \in 1..(Len(g) - Len(kept)) : Stale(g[i])
      /\ \A i \in 1..Len(g) : g[i] <= now
  BY <1>0, <1>1, TrimmedInv DEF IsWindowOf
<1> DEFINE h == Append(g, now)
           b == Append(kept, now)
<1>4. /\ h \in Seq(Nat) /\ Len(h) = Len(g) + 1 /\ h[Len(g) + 1] = now
      /\ \A i \in 1..Len(g) : h[i] = g[i]
  BY <1>0
<1>5. /\ b \in Seq(Nat) /\ Len(b) = Len(kept) + 1 /\ b[Len(kept) + 1] = now
      /\ \A i \in 1..Len(kept) : b[i] = kept[i]
  BY <1>0, <1>3
<1>6. /\ bucket'[k] = b /\ granted'[k] = h
      /\ \A l \in Keys \ {k} : bucket'[l] = bucket[l] /\ granted'[l] = granted[l]
  BY <1>0, <1>1, <1>2 DEF TypeOK
<1>7. TypeOK'
  <2>1. bucket' = [bucket EXCEPT ![k] = b] /\ granted' = [granted EXCEPT ![k] = h]
    BY <1>1, <1>2
  <2>2. Len(b) <= PerMinute
    BY <1>0, <1>1, <1>3, <1>5
  <2> HIDE DEF k, g, h, b
  <2> QED BY <1>0, <1>2, <1>4, <1>5, <2>1, <2>2 DEF TypeOK
<1> HIDE DEF k, g, h, b
<1>8. WindowInv'
  <2>1. ASSUME NEW i \in 1..Len(b) PROVE b[i] = h[Len(h) - Len(b) + i]
    <3>1. CASE i \in 1..Len(kept)
      <4>1. Len(g) - Len(kept) + i \in 1..Len(g)
        BY <1>3, <1>0, <3>1
      <4>2. Len(h) - Len(b) = Len(g) - Len(kept)
        BY <1>0, <1>3, <1>4, <1>5
      <4> QED BY <1>3, <1>4, <1>5, <3>1, <4>1, <4>2
    <3>2. CASE i = Len(kept) + 1
      BY <1>0, <1>3, <1>4, <1>5, <3>2
    <3> QED BY <1>3, <1>5, <3>1, <3>2
  <2>2. ASSUME NEW i \in 1..(Len(h) - Len(b)) PROVE Stale(h[i])
    <3>1. i \in 1..(Len(g) - Len(kept)) /\ i \in 1..Len(g)
      BY <1>0, <1>3, <1>4, <1>5
    <3> QED BY <1>3, <1>4, <3>1
  <2>3. ASSUME NEW i \in 1..Len(h) PROVE h[i] <= now
    <3>1. i \in 1..Len(g) \/ i = Len(g) + 1
      BY <1>0, <1>4
    <3>2. CASE i \in 1..Len(g)
      BY <1>3, <1>4, <3>2
    <3>3. CASE i = Len(g) + 1
      BY <1>0, <1>4, <3>3
    <3> QED BY <3>1, <3>2, <3>3
  <2>4. Len(b) <= Len(h)
    BY <1>0, <1>3, <1>4, <1>5
  <2>5. IsWindowOf(b, h)
    BY <2>1, <2>2, <2>3, <2>4 DEF IsWindowOf
  <2>6. \A w, f : IsWindowOf(w, f)' <=> IsWindowOf(w, f)
    BY <1>2 DEF IsWindowOf, Stale
  <2>7. ASSUME NEW l \in Keys PROVE IsWindowOf(bucket'[l], granted'[l])
    BY <1>6, <2>5 DEF WindowInv
  <2> QED BY <2>6, <2>7 DEF WindowInv
<1>9. WindowHolds'
  <2>1. ASSUME NEW i \in 1..Len(h), i + PerMinute <= Len(h)
        PROVE  h[i] + Window <= h[i + PerMinute]
    <3>1. CASE i + PerMinute <= Len(g)
      <4>1. i \in 1..Len(g) /\ i + PerMinute \in 1..Len(g)
        BY <1>0, <3>1
      <4>2. g[i] + Window <= g[i + PerMinute]
        BY <1>0, <3>1, <4>1 DEF WindowHolds, g
      <4> QED BY <1>4, <4>1, <4>2
    <3>2. CASE i + PerMinute = Len(g) + 1
      <4>1. i \in 1..(Len(g) - Len(kept)) /\ i \in 1..Len(g)
        BY <1>0, <1>1, <1>3, <3>2
      <4>2. Stale(g[i])
        BY <1>3, <4>1
      <4> QED BY <1>4, <3>2, <4>1, <4>2 DEF Stale
    <3>3. i + PerMinute <= Len(g) + 1 /\ i + PerMinute \in Nat
      BY <1>0, <1>4, <2>1
    <3> QED BY <1>0, <3>1, <3>2, <3>3
  <2> QED BY <1>6, <2>1 DEF WindowHolds
<1>10. RefusedOnlyWhenFull'
  BY <1>2 DEF RefusedOnlyWhenFull
<1> QED BY <1>7, <1>8, <1>9, <1>10

LEMMA NextKeepsInv ==
    ASSUME Inv, [Next]_vars
    PROVE  Inv'
<1> USE DEF Inv
<1>1. CASE Tick
  <2>1. /\ now' = now + 1 /\ bucket' = bucket /\ granted' = granted
        /\ refused' = Nobody /\ now \in Nat
    BY <1>1 DEF Tick, TypeOK
  <2>2. TypeOK' /\ WindowHolds' /\ RefusedOnlyWhenFull'
    BY <2>1 DEF TypeOK, WindowHolds, RefusedOnlyWhenFull
  <2>3. ASSUME NEW k \in Keys, NEW i \in 1..Len(granted[k])
        PROVE  granted[k][i] \in Nat
    BY DEF TypeOK
  <2>5. ASSUME NEW k \in Keys
        PROVE  /\ \A i \in 1..(Len(granted[k]) - Len(bucket[k])) : Stale(granted[k][i])'
               /\ \A i \in 1..Len(granted[k]) : granted[k][i] <= now'
    <3>1. Len(granted[k]) \in Nat /\ Len(bucket[k]) \in Nat
      BY DEF TypeOK
    <3>2. \A i \in 1..(Len(granted[k]) - Len(bucket[k])) : i \in 1..Len(granted[k])
      BY <3>1
    <3>3. IsWindowOf(bucket[k], granted[k])
      BY DEF WindowInv
    <3>4. ASSUME NEW i \in 1..(Len(granted[k]) - Len(bucket[k]))
          PROVE  Stale(granted[k][i])'
      <4>1. granted[k][i] \in Nat /\ Stale(granted[k][i])
        BY <2>3, <3>2, <3>3 DEF IsWindowOf
      <4> QED BY <2>1, <4>1, RateLimitAssumption DEF Stale
    <3>5. ASSUME NEW i \in 1..Len(granted[k]) PROVE granted[k][i] <= now'
      <4>1. granted[k][i] \in Nat /\ granted[k][i] <= now
        BY <2>3, <3>3 DEF IsWindowOf
      <4> QED BY <2>1, <4>1
    <3> QED BY <3>4, <3>5
  <2>6. WindowInv'
    BY <2>1, <2>5 DEF WindowInv, IsWindowOf
  <2> QED BY <2>2, <2>6
<1>2. CASE Restart
  <2>1. /\ now' = now /\ refused' = Nobody
        /\ bucket' = [k \in Keys |-> <<>>] /\ granted' = [k \in Keys |-> <<>>]
    BY <1>2 DEF Restart
  <2>2. TypeOK'
    BY <2>1, RateLimitAssumption DEF TypeOK
  <2>3. WindowInv' /\ WindowHolds' /\ RefusedOnlyWhenFull'
    BY <2>1 DEF WindowInv, IsWindowOf, WindowHolds, RefusedOnlyWhenFull
  <2> QED BY <2>2, <2>3
<1>3. CASE UNCHANGED vars
  BY <1>3 DEF vars, TypeOK, WindowInv, IsWindowOf, WindowHolds, RefusedOnlyWhenFull, Stale
<1> QED BY <1>1, <1>2, <1>3, GrantKeepsInv, RefuseKeepsInv DEF Next

LEMMA InitInv == Init => Inv
<1> SUFFICES ASSUME Init PROVE Inv
  OBVIOUS
<1>1. TypeOK
  BY RateLimitAssumption DEF Init, TypeOK
<1>2. WindowInv /\ WindowHolds /\ RefusedOnlyWhenFull
  BY DEF Init, WindowInv, IsWindowOf, WindowHolds, RefusedOnlyWhenFull
<1> QED BY <1>1, <1>2 DEF Inv

\* The limiter's state is well typed, no 60 seconds hold more granted requests of
\* a key than the limit, and nobody is refused while they hold fewer.
THEOREM LimitIsExact == Spec => [](TypeOK /\ WindowHolds /\ RefusedOnlyWhenFull)
<1>1. Inv => TypeOK /\ WindowHolds /\ RefusedOnlyWhenFull
  BY DEF Inv
<1> QED BY <1>1, InitInv, NextKeepsInv, PTL DEF Spec


-----------------------------------------------------------------------------
(* The limiter behind the token check *)

LEMMA StepOfLimiter == [GatewayNext]_gatewayVars => [Next]_vars
<1> SUFFICES ASSUME [GatewayNext]_gatewayVars PROVE [Next]_vars
  OBVIOUS
<1>1. ASSUME NEW c \in Clients, NEW path \in Paths, Request(c, path) PROVE [Next]_vars
  BY <1>1 DEF Request, Drop, TooMany, Count, Next
<1>2. ASSUME NEW c \in Clients, HermesReplies(c) PROVE [Next]_vars
  BY <1>2 DEF HermesReplies
<1>3. CASE Wait
  BY <1>3 DEF Wait, Next
<1>4. CASE RestartGateway
  BY <1>4 DEF RestartGateway, Next
<1>5. CASE UNCHANGED gatewayVars
  BY <1>5 DEF gatewayVars
<1> QED BY <1>1, <1>2, <1>3, <1>4, <1>5 DEF GatewayNext

\* Gateway extends the steps of RateLimit, so what holds of any requests holds of
\* those that pass the token check.
LEMMA ImplementsLimiter == GatewaySpec => Spec
<1>1. GatewayInit => Init
  BY DEF GatewayInit
<1> QED BY <1>1, StepOfLimiter, PTL DEF GatewaySpec, Spec

\* No window is overfull and nobody is refused early, whatever else is asked of
\* the gateway.
THEOREM GatewayLimitIsExact == GatewaySpec => [](WindowHolds /\ RefusedOnlyWhenFull)
  BY ImplementsLimiter, LimitIsExact, PTL

\* A request without a valid token is counted for public assets only, so it takes
\* no place in a window that a client with one could need elsewhere.
THEOREM StrangersAreNotCounted == GatewaySpec => StrangersDoNotCount
<1>1. ASSUME Inv, GatewayNext PROVE CountsTheKnown
  <2> USE DEF CountsTheKnown
  <2>1. \A k \in Keys : Len(granted[k]) \in Nat
    BY <1>1 DEF Inv, TypeOK
  <2>2. CASE UNCHANGED granted
    BY <2>1, <2>2
  <2>3. ASSUME NEW c \in Clients, NEW path \in Paths, Request(c, path) PROVE CountsTheKnown
    <3>1. CASE Count(c, path) /\ Passes(c, path) /\ Limited(path)
      <4>1. counted' = [client |-> c, path |-> path]
        BY <3>1 DEF Count
      <4> QED BY <3>1, <4>1 DEF Passes, Limited
    <3>2. CASE ~(Count(c, path) /\ Passes(c, path) /\ Limited(path))
      BY <2>2, <2>3, <3>2 DEF Request, Drop, TooMany, Refuse, vars
    <3> QED BY <3>1, <3>2
  <2>4. CASE \E c \in Clients : HermesReplies(c)
    BY <2>2, <2>4 DEF HermesReplies, vars
  <2>5. CASE Wait
    BY <2>2, <2>5 DEF Wait, Tick
  <2>6. CASE RestartGateway
    <3>1. \A k \in Keys : Len(granted'[k]) = 0
      BY <2>6 DEF RestartGateway, Restart
    <3> QED BY <2>1, <3>1
  <2> QED BY <1>1, <2>3, <2>4, <2>5, <2>6 DEF GatewayNext
<1>2. ASSUME Inv, [GatewayNext]_gatewayVars PROVE [CountsTheKnown]_gatewayVars
  BY <1>1, <1>2
<1>3. GatewaySpec => []Inv
  BY ImplementsLimiter, InitInv, NextKeepsInv, PTL DEF Spec
<1> QED BY <1>2, <1>3, PTL DEF GatewaySpec, StrangersDoNotCount

-----------------------------------------------------------------------------
(* The list of models *)

ListInv == Models!TypeOK /\ Models!CacheInv /\ Models!ServedIsCurrent

LEMMA ListIsKept ==
    ASSUME ListInv, now \in Nat, now' = now, NEW c \in Clients,
           \/ Models!CacheHit(c) \/ Models!AskHermes(c) \/ Models!Fetched(c)
           \/ Models!NotFetched(c) \/ Models!Quiet \/ Models!Forget
    PROVE  ListInv'
<1> USE GatewayAssumption DEF ListInv
<1>1. TTL \in Nat \ {0} /\ Nil \notin Nat
  OBVIOUS
<1>2. CASE Models!CacheHit(c)
  <2>1. /\ cached # Nil /\ cached.list \in Nat /\ cached.at \in Nat /\ now < cached.at + TTL
        /\ cached' = cached /\ asking' = asking /\ served' = [list |-> cached.list, asked |-> now]
    BY <1>2 DEF Models!CacheHit, Models!Fresh, Models!TypeOK
  <2>2. now < cached.list + TTL
    BY <2>1 DEF Models!CacheInv
  <2> QED BY <2>1, <2>2 DEF Models!TypeOK, Models!CacheInv, Models!ServedIsCurrent
<1>3. CASE Models!AskHermes(c)
  BY <1>3 DEF Models!AskHermes, Models!TypeOK, Models!CacheInv, Models!ServedIsCurrent
<1>4. CASE Models!Fetched(c)
  <2>1. asking[c] \in Nat /\ asking' = [asking EXCEPT ![c] = Nil]
    BY <1>4 DEF Models!Fetched, Models!Done, Models!TypeOK
  <2>2. PICK t \in asking[c]..now :
          cached' = [list |-> t, at |-> asking[c]] /\ served' = [list |-> t, asked |-> asking[c]]
    BY <1>4 DEF Models!Fetched
  <2>3. t \in Nat /\ asking[c] <= t /\ asking[c] < t + TTL
    BY <2>1
  <2>4. cached'.at <= cached'.list /\ served'.asked < served'.list + TTL
    BY <2>2, <2>3
  <2> QED BY <2>1, <2>2, <2>3, <2>4 DEF Models!TypeOK, Models!CacheInv, Models!ServedIsCurrent
<1>5. CASE Models!NotFetched(c)
  BY <1>5 DEF Models!NotFetched, Models!Done, Models!TypeOK, Models!CacheInv,
              Models!ServedIsCurrent
<1>6. CASE Models!Quiet
  BY <1>6 DEF Models!Quiet, Models!TypeOK, Models!CacheInv, Models!ServedIsCurrent
<1>7. CASE Models!Forget
  BY <1>7 DEF Models!Forget, Models!TypeOK, Models!CacheInv, Models!ServedIsCurrent
<1> QED BY <1>2, <1>3, <1>4, <1>5, <1>6, <1>7

LEMMA ListStep ==
    ASSUME Inv, ListInv, [GatewayNext]_gatewayVars
    PROVE  ListInv'
<1>1. now \in Nat
  BY DEF Inv, TypeOK
<1>2. ASSUME NEW c \in Clients, NEW path \in Paths, Request(c, path) PROVE ListInv'
  <2>1. now' = now
    BY <1>2 DEF Request, Drop, TooMany, Count, Refuse, Grant, vars
  <2>2. Models!Quiet \/ Models!CacheHit(c) \/ Models!AskHermes(c)
    BY <1>2 DEF Request, Drop, TooMany, Handle
  <2> QED BY <1>1, <2>1, <2>2, ListIsKept
<1>3. ASSUME NEW c \in Clients, HermesReplies(c) PROVE ListInv'
  BY <1>1, <1>3, ListIsKept DEF HermesReplies, vars
<1>4. CASE Wait
  BY <1>1, <1>4, GatewayAssumption
     DEF Wait, Tick, ListInv, Models!Quiet, Models!TypeOK, Models!CacheInv, Models!ServedIsCurrent
<1>5. CASE RestartGateway
  BY <1>1, <1>5, GatewayAssumption
     DEF RestartGateway, Restart, ListInv, Models!Forget, Models!TypeOK, Models!CacheInv,
         Models!ServedIsCurrent
<1>6. CASE UNCHANGED gatewayVars
  BY <1>6 DEF gatewayVars, vars, ListInv, Models!TypeOK, Models!CacheInv, Models!ServedIsCurrent
<1> QED BY <1>2, <1>3, <1>4, <1>5, <1>6 DEF GatewayNext

LEMMA GatewayInvariant == GatewaySpec => [](Inv /\ ListInv)
<1>1. GatewayInit => ListInv
  BY GatewayAssumption
     DEF GatewayInit, ListInv, Models!Init, Models!TypeOK, Models!CacheInv, Models!ServedIsCurrent
<1>2. GatewaySpec => []Inv
  BY ImplementsLimiter, InitInv, NextKeepsInv, PTL DEF Spec
<1> QED BY <1>1, <1>2, ListStep, PTL DEF GatewaySpec

\* No list of models is served that was made a minute or more before it was asked
\* for, whoever refreshes it at the same time and in whatever order replies come.
THEOREM NoStaleList == GatewaySpec => []ListIsCurrent
<1>1. ListInv => ListIsCurrent
  BY DEF ListInv, ListIsCurrent
<1> QED BY <1>1, GatewayInvariant, PTL

-----------------------------------------------------------------------------
(* Who is asked for *)

LEMMA CallsStep ==
    ASSUME Inv, ListInv, CallsAreCounted, [GatewayNext]_gatewayVars
    PROVE  CallsAreCounted'
<1> USE DEF CallsAreCounted
<1>1. \A c : Authenticated(c)' <=> Authenticated(c)
  BY DEF Authenticated
<1>2. \A k \in Keys : granted[k] \in Seq(Nat) /\ Len(granted[k]) \in Nat
  BY DEF Inv, TypeOK
<1>3. DOMAIN granted = Keys /\ DOMAIN asking = Clients /\ now \in Nat
  BY DEF Inv, TypeOK, ListInv, Models!TypeOK
<1>4. ASSUME UNCHANGED granted, \A c \in Clients : asking'[c] = asking[c] \/ asking'[c] = Nil
      PROVE  CallsAreCounted'
  BY <1>1, <1>4
<1>5. ASSUME NEW c \in Clients, NEW path \in Paths, Request(c, path) PROVE CallsAreCounted'
  <2>1. CASE Passes(c, path) /\ Limited(path) /\ Grant(c) /\ Handle(c, path)
    <3> DEFINE k == Key(c)
    <3>1. k \in Keys
      BY KeyType
    <3>2. granted' = [granted EXCEPT ![k] = Append(granted[k], now)]
      BY <2>1 DEF Grant
    <3> HIDE DEF k
    <3>3. /\ granted'[k] = Append(granted[k], now)
          /\ \A l \in Keys : l # k => granted'[l] = granted[l]
      BY <1>3, <3>1, <3>2
    <3>4. ASSUME NEW l \in Keys
          PROVE  /\ Len(granted'[l]) >= Len(granted[l]) /\ Len(granted'[l]) \in Nat
                 /\ \A n \in 1..Len(granted[l]) : granted'[l][n] = granted[l][n]
      <4>1. granted[l] \in Seq(Nat) /\ Len(granted[l]) \in Nat
        BY <1>2
      <4>2. CASE l # k
        BY <3>3, <4>1, <4>2
      <4>3. CASE l = k
        <5> DEFINE g == granted[l]
        <5>1. g \in Seq(Nat) /\ granted'[l] = Append(g, now)
          BY <3>3, <4>1, <4>3
        <5> HIDE DEF g
        <5>2. Len(Append(g, now)) = Len(g) + 1 /\ \A n \in 1..Len(g) : Append(g, now)[n] = g[n]
          BY <1>3, <5>1
        <5> QED BY <4>1, <5>1, <5>2 DEF g
      <4> QED BY <4>2, <4>3
    <3>5. Len(granted[k]) + 1 \in 1..Len(granted'[k]) /\ granted'[k][Len(granted[k]) + 1] = now
      BY <1>2, <1>3, <3>1, <3>3
    <3>6. ASSUME NEW d \in Clients, asking'[d] # Nil, asking'[d] = asking[d]
          PROVE  Authenticated(d) /\ \E n \in 1..Len(granted'[Key(d)]) :
                                         granted'[Key(d)][n] = asking'[d]
      <4>1. PICK n \in 1..Len(granted[Key(d)]) : granted[Key(d)][n] = asking[d]
        BY <3>6
      <4>2. n \in 1..Len(granted'[Key(d)]) /\ granted'[Key(d)][n] = asking'[d]
        BY <1>2, <3>4, <3>6, <4>1, KeyType
      <4> QED BY <3>6, <4>2
    <3>7. CASE path = "capabilities" /\ Models!AskHermes(c)
      <4>1. asking' = [asking EXCEPT ![c] = now] /\ Authenticated(c)
        BY <2>1, <3>7 DEF Models!AskHermes, Passes
      <4>2. ASSUME NEW d \in Clients, d # c, asking'[d] # Nil PROVE asking'[d] = asking[d]
        BY <1>3, <4>1, <4>2
      <4>3. asking'[c] = now
        BY <1>3, <4>1
      <4> QED BY <1>1, <3>5, <3>6, <4>1, <4>2, <4>3 DEF k, Key
    <3>8. CASE UNCHANGED asking
      BY <1>1, <3>6, <3>8 DEF Key
    <3> QED BY <2>1, <3>7, <3>8 DEF Handle, Models!Quiet, Models!CacheHit
  <2>2. CASE UNCHANGED granted /\ UNCHANGED asking
    BY <1>4, <2>2
  <2>3. CASE Passes(c, path) /\ ~Limited(path) /\ UNCHANGED vars /\ Handle(c, path)
    BY <2>2, <2>3 DEF Limited, Handle, Models!Quiet, vars
  <2> QED BY <1>5, <2>1, <2>2, <2>3
          DEF Request, Drop, TooMany, Count, Refuse, Models!Quiet, vars
<1>6. ASSUME NEW c \in Clients, HermesReplies(c) PROVE CallsAreCounted'
  <2>1. asking' = [asking EXCEPT ![c] = Nil] /\ granted' = granted
    BY <1>6 DEF HermesReplies, Models!Fetched, Models!NotFetched, Models!Done, vars
  <2> QED BY <1>3, <1>4, <2>1
<1>7. CASE Wait
  BY <1>4, <1>7 DEF Wait, Tick, Models!Quiet
<1>8. CASE RestartGateway
  BY <1>8 DEF RestartGateway, Models!Forget
<1>9. CASE UNCHANGED gatewayVars
  BY <1>4, <1>9 DEF gatewayVars, vars
<1> QED BY <1>5, <1>6, <1>7, <1>8, <1>9 DEF GatewayNext

\* Each request to Hermes under way was made for an authenticated client, and was
\* counted when it started.
THEOREM CallsArePaidFor == GatewaySpec => []CallsAreCounted
<1>1. GatewayInit => CallsAreCounted
  BY DEF GatewayInit, Models!Init, CallsAreCounted
<1> QED BY <1>1, GatewayInvariant, CallsStep, PTL DEF GatewaySpec

\* Every reachable state of the gateway is well typed.
THEOREM GatewayTypeCorrect == GatewaySpec => []GatewayTypeOK
<1> DEFINE Counted == counted \in [client : Clients, path : Paths] \cup {Nil}
<1>1. GatewayInit => Counted
  BY DEF GatewayInit
<1>2. ASSUME Counted, [GatewayNext]_gatewayVars PROVE Counted'
  <2>1. ASSUME NEW c \in Clients, NEW path \in Paths, Request(c, path) PROVE Counted'
    BY <2>1 DEF Request, Drop, TooMany, Count
  <2>2. CASE (\E c \in Clients : HermesReplies(c)) \/ Wait \/ RestartGateway
    BY <2>2 DEF HermesReplies, Wait, RestartGateway
  <2>3. CASE UNCHANGED gatewayVars
    BY <1>2, <2>3 DEF gatewayVars
  <2> QED BY <1>2, <2>1, <2>2, <2>3 DEF GatewayNext
<1>3. Inv /\ ListInv /\ Counted => GatewayTypeOK
  BY DEF Inv, ListInv, GatewayTypeOK
<1> QED BY <1>1, <1>2, <1>3, GatewayInvariant, PTL DEF GatewaySpec
=============================================================================
