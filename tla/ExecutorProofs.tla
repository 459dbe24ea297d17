--------------------------- MODULE ExecutorProofs ---------------------------
(***************************************************************************)
(* applyBundle, for any sheet, bundle and number of edits by others: what  *)
(* is reported as rolled back is restored, what is reported as applied is  *)
(* every action in order, and nothing outside the targets is touched. The  *)
(* argument is ScriptInv: what each step of the script relies on.          *)
(***************************************************************************)
EXTENDS Executor, Iteration

-----------------------------------------------------------------------------
(* What an action does *)

LEMMA ContentsFacts ==
    /\ Blank \in Contents
    /\ Blank \notin Formulas
    /\ \A x \in Literals \cup Lookalikes : x \in Contents /\ x \notin Formulas
    /\ \A x \in Contents : SetRaw(x) \in Contents
    /\ \A x \in Contents : x \notin Lookalikes => SetRaw(x) = x
  BY ExecutorAssumption DEF Contents, SetRaw

\* An action of the approved bundle.
LEMMA ActionAt ==
    ASSUME TypeOK, NEW i \in 1..Len(actions)
    PROVE  /\ actions[i] \in Action /\ WellFormed(actions[i])
           /\ actions[i].target \subseteq Cells
           /\ actions[i].target \subseteq Targeted
<1>1. actions \in Seq(Action) /\ WellFormed(actions[i])
  BY ExecutorAssumption DEF TypeOK, actions
<1>2. actions[i] \in Action
  BY <1>1
<1>3. actions[i].target \subseteq Targeted
  BY DEF Targeted
<1> QED BY <1>1, <1>2, <1>3 DEF Action

LEMMA Length ==
    ASSUME TypeOK
    PROVE  Len(actions) \in Nat
  BY ExecutorAssumption DEF TypeOK, actions

LEMMA WrittenType ==
    ASSUME NEW a \in Action, WellFormed(a), NEW g \in [Cells -> Contents]
    PROVE  Written(a, g) \in [Cells -> Contents]
<1>1. ASSUME NEW x \in Contents PROVE Fill(g, a.target, x) \in [Cells -> Contents]
  BY <1>1 DEF Fill
<1>2. a.type \in {"SET_VALUES", "SET_FORMULAS", "RESTORE_RANGE"} => a.put \in Contents
  BY ContentsFacts DEF WellFormed
<1>3. a.type = "SET_VALUES" => Written(a, g) = Fill(g, a.target, a.put)
  BY DEF Written, SetEscaped
<1>4. a.type = "RESTORE_RANGE" => Written(a, g) = Fill(g, a.target, SetRaw(a.put))
  BY DEF Written
<1>5. a.type = "SET_FORMULAS" => Written(a, g) = Fill(g, a.target, a.put)
  BY DEF Written
<1>6. a.type = "CLEAR_RANGE" => Written(a, g) = Fill(g, a.target, Blank)
  BY DEF Written
<1>7. a.type \notin {"SET_VALUES", "SET_FORMULAS", "RESTORE_RANGE", "CLEAR_RANGE"}
         => Written(a, g) = g
  BY DEF Written
<1> QED BY <1>1, <1>2, <1>3, <1>4, <1>5, <1>6, <1>7, ContentsFacts

\* An action changes its target only, cell by cell, and no cell to a formula unless
\* it sets formulas.
LEMMA WrittenCell ==
    ASSUME NEW a \in Action, WellFormed(a), NEW c \in Cells, NEW g
    PROVE  /\ c \notin a.target => Written(a, g)[c] = g[c]
           /\ Written(a, g)[c] \in Formulas =>
                 \/ Written(a, g)[c] = g[c]
                 \/ a.type \in {"SET_FORMULAS", "RESTORE_RANGE"} /\ c \in a.target
<1>1. CASE a.type = "SET_VALUES"
  <2>1. Written(a, g) = Fill(g, a.target, a.put)
    BY <1>1 DEF Written, SetEscaped
  <2>2. a.put \notin Formulas
    BY <1>1, ContentsFacts DEF WellFormed
  <2> QED BY <2>1, <2>2 DEF Fill
<1>2. CASE a.type = "RESTORE_RANGE"
  <2>1. Written(a, g) = Fill(g, a.target, SetRaw(a.put))
    BY <1>2 DEF Written
  <2> QED BY <1>2, <2>1 DEF Fill
<1>3. CASE a.type = "SET_FORMULAS"
  <2>1. Written(a, g) = Fill(g, a.target, a.put)
    BY <1>3 DEF Written
  <2> QED BY <1>3, <2>1 DEF Fill
<1>4. CASE a.type = "CLEAR_RANGE"
  <2>1. Written(a, g) = Fill(g, a.target, Blank)
    BY <1>4 DEF Written
  <2> QED BY <2>1, ContentsFacts DEF Fill
<1>5. CASE a.type \notin {"SET_VALUES", "SET_FORMULAS", "RESTORE_RANGE", "CLEAR_RANGE"}
  <2>1. Written(a, g) = g
    BY <1>5 DEF Written
  <2> QED BY <2>1
<1> QED BY <1>1, <1>2, <1>3, <1>4, <1>5

LEMMA WrittenAlike ==
    ASSUME NEW a \in Action, NEW c \in Cells, NEW g, NEW h, g[c] = h[c]
    PROVE  Written(a, g)[c] = Written(a, h)[c]
<1>1. \A x : Fill(g, a.target, x)[c] = Fill(h, a.target, x)[c]
  BY DEF Fill
<1>2. CASE a.type = "SET_VALUES"
  BY <1>1, <1>2 DEF Written
<1>3. CASE a.type = "RESTORE_RANGE"
  BY <1>1, <1>3 DEF Written
<1>4. CASE a.type = "SET_FORMULAS"
  BY <1>1, <1>4 DEF Written
<1>5. CASE a.type = "CLEAR_RANGE"
  BY <1>1, <1>5 DEF Written
<1>6. CASE a.type \notin {"SET_VALUES", "SET_FORMULAS", "RESTORE_RANGE", "CLEAR_RANGE"}
  BY <1>6 DEF Written
<1> QED BY <1>2, <1>3, <1>4, <1>5, <1>6

LEMMA PaintedFacts ==
    ASSUME NEW a \in Action, WellFormed(a), NEW f \in [Cells -> Formats]
    PROVE  /\ Painted(a, f) \in [Cells -> Formats]
           /\ \A c \in Cells : Painted(a, f)[c] # f[c] =>
                 a.type = "FORMAT_RANGE" /\ c \in a.target
  BY DEF Painted, Fill, WellFormed

\* After and PaintedAfter follow the actions one by one.
LEMMA AfterSteps ==
    ASSUME TypeOK
    PROVE  /\ After[0] = origin
           /\ \A n \in 1..Len(actions) : After[n] = Written(actions[n], After[n - 1])
<1> DEFINE L == Len(actions)
           D == [Cells -> Contents]
           step == [n \in 1..L |-> [g \in D |-> Written(actions[n], g)]]
           IsAfter(f) == f = [n \in 0..L |->
                                 IF n = 0 THEN origin ELSE Written(actions[n], f[n - 1])]
<1>1. L \in Nat /\ origin \in D
  BY Length DEF TypeOK
<1>2. step \in [1..L -> [D -> D]]
  BY ActionAt, WrittenType
<1>3. PICK f \in [0..L -> D] : f[0] = origin /\ \A n \in 1..L : f[n] = step[n][f[n - 1]]
  <2> HIDE DEF L, D, step
  <2> QED BY <1>1, <1>2, Iterates
<1>4. \A n \in 0..L : f[n] = IF n = 0 THEN origin ELSE Written(actions[n], f[n - 1])
  <2> SUFFICES ASSUME NEW n \in 0..L, n # 0
               PROVE  f[n] = Written(actions[n], f[n - 1])
    BY <1>3
  <2>1. n \in 1..L /\ n - 1 \in 0..L
    BY <1>1
  <2>2. f[n - 1] \in D
    BY <1>3, <2>1
  <2>3. step[n][f[n - 1]] = Written(actions[n], f[n - 1])
    <3> HIDE DEF L, D
    <3> QED BY <2>1, <2>2
  <2> QED BY <1>3, <2>1, <2>3
<1>5. IsAfter(f)
  <2> HIDE DEF L, D
  <2> QED BY <1>3, <1>4
<1>6. IsAfter(After)
  <2>1. After = CHOOSE h : IsAfter(h)
    BY DEF After
  <2> HIDE DEF IsAfter
  <2> QED BY <1>5, <2>1
<1>7. \A n \in 0..L : After[n] = IF n = 0 THEN origin ELSE Written(actions[n], After[n - 1])
  BY <1>6
<1> HIDE DEF IsAfter
<1> QED BY <1>1, <1>7
LEMMA PaintedSteps ==
    ASSUME TypeOK
    PROVE  /\ PaintedAfter[0] = [c \in Cells |-> Plain]
           /\ \A n \in 1..Len(actions) : PaintedAfter[n] = Painted(actions[n], PaintedAfter[n - 1])
<1> DEFINE allPlain == [c \in Cells |-> Plain]
           L == Len(actions)
           D == [Cells -> Formats]
           step == [n \in 1..L |-> [g \in D |-> Painted(actions[n], g)]]
           IsPainted(f) == f = [n \in 0..L |->
                                 IF n = 0 THEN allPlain ELSE Painted(actions[n], f[n - 1])]
<1>1. L \in Nat /\ allPlain \in D
  BY Length, ExecutorAssumption
<1>2. step \in [1..L -> [D -> D]]
  BY ActionAt, PaintedFacts
<1>3. PICK f \in [0..L -> D] : f[0] = allPlain /\ \A n \in 1..L : f[n] = step[n][f[n - 1]]
  <2> HIDE DEF L, D, step, allPlain
  <2> QED BY <1>1, <1>2, Iterates
<1>4. \A n \in 0..L : f[n] = IF n = 0 THEN allPlain ELSE Painted(actions[n], f[n - 1])
  <2> SUFFICES ASSUME NEW n \in 0..L, n # 0
               PROVE  f[n] = Painted(actions[n], f[n - 1])
    BY <1>3
  <2>1. n \in 1..L /\ n - 1 \in 0..L
    BY <1>1
  <2>2. f[n - 1] \in D
    BY <1>3, <2>1
  <2>3. step[n][f[n - 1]] = Painted(actions[n], f[n - 1])
    <3> HIDE DEF L, D
    <3> QED BY <2>1, <2>2
  <2> QED BY <1>3, <2>1, <2>3
<1>5. IsPainted(f)
  <2> HIDE DEF L, D
  <2> QED BY <1>3, <1>4
<1>6. IsPainted(PaintedAfter)
  <2>1. PaintedAfter = CHOOSE h : IsPainted(h)
    BY DEF PaintedAfter
  <2> HIDE DEF IsPainted
  <2> QED BY <1>5, <2>1
<1>7. \A n \in 0..L : PaintedAfter[n] = IF n = 0 THEN allPlain ELSE Painted(actions[n], PaintedAfter[n - 1])
  BY <1>6
<1> HIDE DEF IsPainted
<1> QED BY <1>1, <1>7

-----------------------------------------------------------------------------
(* Type correctness *)

LEMMA JobType ==
    ASSUME TypeOK
    PROVE  /\ job.i \in Nat
           /\ job.snaps \in Seq(Snapshot)
           /\ Len(job.snaps) \in Nat
           /\ \A j \in 1..Len(job.snaps) :
                 /\ job.snaps[j].target \subseteq Cells
                 /\ job.snaps[j].read \in [Cells -> Contents]
<1>1. job.i \in Nat /\ job.snaps \in Seq(Snapshot)
  BY DEF TypeOK, Job
<1>2. \A j \in 1..Len(job.snaps) : job.snaps[j] \in Snapshot
  BY <1>1
<1> QED BY <1>1, <1>2 DEF Snapshot

\* The action the script is at.
LEMMA Current ==
    ASSUME TypeOK, job.i \in 1..Len(actions)
    PROVE  /\ CurrentAction \in Action /\ WellFormed(CurrentAction)
           /\ CurrentAction.target \subseteq Cells
           /\ CurrentAction.target \subseteq Targeted
  BY ActionAt DEF CurrentAction

\* The formats an action may leave when it fails.
LEMMA FormatType ==
    ASSUME TypeOK, job.i \in 1..Len(actions),
           format' = format \/ format' = Painted(CurrentAction, format)
    PROVE  format' \in [Cells -> Formats]
  BY Current, PaintedFacts DEF TypeOK

LEMMA MovedType ==
    ASSUME TypeOK, NEW pc \in {"snapshot", "execute", "restore"} \cup Outcomes
    PROVE  /\ [job EXCEPT !.pc = pc] \in Job
           /\ [job EXCEPT !.pc = pc, !.i = 1] \in Job
           /\ [job EXCEPT !.pc = pc, !.i = 1].i = 1
           /\ [job EXCEPT !.pc = pc].i = job.i
<1>1. pc \in {"idle", "snapshot", "execute", "restore"} \cup Outcomes
  OBVIOUS
<1>2. 1 \in Nat
  OBVIOUS
<1> HIDE DEF Outcomes
<1> QED BY <1>1, <1>2 DEF TypeOK, Job

LEMMA ThrowType ==
    ASSUME TypeOK, Throw
    PROVE  job' \in Job /\ job'.i # 0
<1>1. /\ [job EXCEPT !.pc = "restore", !.i = 1] \in Job
      /\ [job EXCEPT !.pc = "restore", !.i = 1].i = 1
  BY MovedType
<1> QED BY <1>1 DEF Throw

LEMMA InitType == Init => TypeOK
<1> SUFFICES ASSUME Init PROVE TypeOK
  OBVIOUS
<1>1. Idle \in Job
  BY DEF Idle, Job
<1> QED BY <1>1, ExecutorAssumption DEF Init, TypeOK, At, Idle

LEMMA SnapshotType ==
    ASSUME TypeOK, TakeSnapshot
    PROVE  job' \in Job /\ job'.i # 0
<1>1. CASE job.i <= Len(actions) /\ HasTarget(CurrentAction)
  <2>1. job.i \in 1..Len(actions)
    BY <1>1, JobType, Length DEF TypeOK, TakeSnapshot, At
  <2>2. [target |-> CurrentAction.target, read |-> grid] \in Snapshot
    BY <2>1, Current DEF Snapshot, TypeOK
  <2>3. job' = [job EXCEPT !.i = job.i + 1,
                   !.snaps = Append(job.snaps, [target |-> CurrentAction.target, read |-> grid])]
    BY <1>1 DEF TakeSnapshot
  <2>4. Append(job.snaps, [target |-> CurrentAction.target, read |-> grid]) \in Seq(Snapshot)
    BY <2>2, JobType
  <2>5. job.i + 1 \in Nat /\ job.i + 1 # 0
    BY JobType
  <2> QED BY <2>3, <2>4, <2>5 DEF TypeOK, Job
<1>2. CASE job.i <= Len(actions) /\ ~HasTarget(CurrentAction)
  <2>1. job' = [job EXCEPT !.i = job.i + 1]
    BY <1>2 DEF TakeSnapshot, TypeOK, Job
  <2> QED BY <2>1, JobType DEF TypeOK, Job
<1>3. CASE ~(job.i <= Len(actions))
  <2>1. job' = [job EXCEPT !.pc = "execute", !.i = 1]
    BY <1>3 DEF TakeSnapshot
  <2>2. /\ [job EXCEPT !.pc = "execute", !.i = 1] \in Job
        /\ [job EXCEPT !.pc = "execute", !.i = 1].i = 1
    BY MovedType
  <2> QED BY <2>1, <2>2
<1> QED BY <1>1, <1>2, <1>3

LEMMA NextType == TypeOK /\ [Next]_vars => TypeOK'
<1> SUFFICES ASSUME TypeOK, [Next]_vars PROVE TypeOK'
  OBVIOUS
<1>1. CASE Apply
  <2>1. job' \in Job /\ job'.i = 1
    <3>1. PICK pc \in {"snapshot", "refused"} : job' = [pc |-> pc, i |-> 1, snaps |-> <<>>]
      BY <1>1 DEF Apply, Idle
    <3> QED BY <3>1 DEF Job, Outcomes
  <2> QED BY <1>1, <2>1 DEF Apply, TypeOK, At
<1>2. CASE TakeSnapshot
  <2>1. job' \in Job /\ job'.i # 0
    BY <1>2, SnapshotType
  <2> QED BY <1>2, <2>1 DEF TakeSnapshot, TypeOK, At
<1>3. CASE Execute
  <2>1. job.i \in 1..Len(actions)
    BY <1>3, JobType, Length DEF Execute, AtAction, TypeOK, At
  <2>2. grid' \in [Cells -> Contents]
    BY <1>3, <2>1, Current, WrittenType DEF Execute, TypeOK
  <2>3. format' \in [Cells -> Formats]
    BY <1>3, <2>1, FormatType DEF Execute
  <2>4. job' \in Job /\ job'.i # 0
    BY <1>3, JobType DEF Execute, TypeOK, Job
  <2> QED BY <1>3, <2>2, <2>3, <2>4 DEF Execute, TypeOK, At
<1>4. CASE ExecuteFails
  <2>1. job.i \in 1..Len(actions)
    BY <1>4, JobType, Length DEF ExecuteFails, AtAction, TypeOK, At
  <2>2. format' \in [Cells -> Formats]
    BY <1>4, <2>1, FormatType DEF ExecuteFails
  <2>3. job' \in Job /\ job'.i # 0
    BY <1>4, ThrowType DEF ExecuteFails
  <2> QED BY <1>4, <2>2, <2>3 DEF ExecuteFails, TypeOK, At
<1>5. CASE Flush
  <2>1. job' \in Job /\ job'.i # 0
    <3>1. CASE Throw
      BY <3>1, ThrowType
    <3>2. CASE job' = [job EXCEPT !.pc = "APPLIED"]
      BY <1>5, <3>2, MovedType DEF Flush, Outcomes, TypeOK, At
    <3> QED BY <1>5, <3>1, <3>2 DEF Flush
  <2> QED BY <1>5, <2>1 DEF Flush, TypeOK, At
<1>6. CASE Restore
  <2>1. grid' \in [Cells -> Contents]
    <3>1. CASE job.i <= Len(job.snaps)
      <4> DEFINE s == job.snaps[job.i]
      <4>1. job.i \in 1..Len(job.snaps)
        BY <1>6, <3>1, JobType DEF Restore, TypeOK, At
      <4>2. s.read \in [Cells -> Contents]
        BY <4>1, JobType
      <4>3. grid' = [c \in Cells |-> IF c \in s.target THEN SetRaw(s.read[c]) ELSE grid[c]]
        BY <1>6, <3>1 DEF Restore
      <4> HIDE DEF s
      <4> QED BY <4>2, <4>3, ContentsFacts DEF TypeOK
    <3>2. CASE ~(job.i <= Len(job.snaps))
      BY <1>6, <3>2 DEF Restore, TypeOK
    <3> QED BY <3>1, <3>2
  <2>2. job' \in Job /\ job'.i # 0
    <3>1. CASE job.i <= Len(job.snaps)
      BY <1>6, <3>1, JobType DEF Restore, TypeOK, Job
    <3>2. CASE ~(job.i <= Len(job.snaps))
      BY <1>6, <3>2 DEF Restore, TypeOK, Job, At, Outcomes
    <3> QED BY <3>1, <3>2
  <2> QED BY <1>6, <2>1, <2>2 DEF Restore, TypeOK, At
<1>7. CASE \E c \in Cells : Edit(c)
  BY <1>7 DEF Edit, TypeOK, At
<1>8. CASE Stop
  <2>1. job' \in Job /\ job'.i # 0
    BY <1>8 DEF Stop, TypeOK, Job, At, Outcomes
  <2> QED BY <1>8, <2>1 DEF Stop, TypeOK, At
<1>9. CASE UNCHANGED vars
  BY <1>9 DEF vars, TypeOK, At
<1> QED BY <1>1, <1>2, <1>3, <1>4, <1>5, <1>6, <1>7, <1>8, <1>9 DEF Next, Script

\* The state of the script and of the sheet keeps its type.
THEOREM TypeCorrect == Spec => []TypeOK
<1>1. Init => TypeOK
  BY InitType
<1>2. TypeOK /\ [Next]_vars => TypeOK'
  BY NextType
<1> QED BY <1>1, <1>2, PTL DEF Spec

-----------------------------------------------------------------------------
(* The steps keep the invariant *)

\* The bundle's actions and what they leave do not change while it is applied.
LEMMA SameBundle ==
    ASSUME UNCHANGED <<bundle, origin>>
    PROVE  /\ actions' = actions /\ Targeted' = Targeted
           /\ After' = After /\ PaintedAfter' = PaintedAfter
  BY DEF actions, Targeted, After, PaintedAfter

LEMMA InvInit == Init => ScriptInv
<1> SUFFICES ASSUME Init PROVE ScriptInv
  OBVIOUS
<1>1. job.pc = "idle" /\ Len(job.snaps) = 0
  BY DEF Init, Idle
<1>2. Untouched(Cells \ Targeted) /\ Untouched(Cells) /\ format = [c \in Cells |-> Plain]
  BY DEF Init, Untouched
<1>3. FormatsMeant
  BY <1>2 DEF FormatsMeant
<1>4. SnapshotsHold
  BY <1>1 DEF SnapshotsHold
<1> QED BY <1>1, <1>2, <1>3, <1>4
      DEF ScriptInv, NotBegun, TargetsSaved, ExecutedSoFar, NoFormulaFromLiteral,
          RolledBackIsRestored, AppliedIsWhole, At

LEMMA InvApply ==
    ASSUME TypeOK, ScriptInv, Apply
    PROVE  ScriptInv'
<1>1. job'.pc \in {"snapshot", "refused"} /\ job'.i = 1 /\ Len(job'.snaps) = 0
  BY DEF Apply, Idle
<1>2. /\ grid' = grid /\ origin' = grid /\ edited' = {} /\ format' = format
      /\ actions' = actions /\ Targeted' = Targeted
  BY DEF Apply, actions, Targeted
<1>3. format = [c \in Cells |-> Plain]
  BY DEF Apply, ScriptInv, NotBegun, At
<1>4. Untouched(Cells \ Targeted)' /\ Untouched(Cells)'
  BY <1>2 DEF Untouched
<1>5. SnapshotsHold'
  BY <1>1 DEF SnapshotsHold
<1>6. TargetsSaved'
  BY <1>1 DEF TargetsSaved, At
<1>7. FormatsMeant'
  BY <1>2, <1>3 DEF FormatsMeant
<1>8. NotBegun'
  BY <1>2, <1>3, <1>4 DEF NotBegun
<1> QED BY <1>1, <1>4, <1>5, <1>6, <1>7, <1>8
      DEF ScriptInv, ExecutedSoFar, NoFormulaFromLiteral, RolledBackIsRestored,
          AppliedIsWhole, At

\* A step that leaves the sheet alone and does not begin a restore keeps the
\* snapshots true.
LEMMA SnapshotsKept ==
    ASSUME SnapshotsHold, UNCHANGED <<grid, origin, edited, bundle>>,
           job'.snaps = job.snaps, job'.pc # "restore" \/ job'.i = 1
    PROVE  SnapshotsHold'
<1>1. Targeted' = Targeted
  BY SameBundle
<1> SUFFICES ASSUME NEW j \in 1..Len(job.snaps)
             PROVE  /\ job.snaps[j].target \subseteq Targeted
                    /\ \A c \in Cells \ edited : job.snaps[j].read[c] = origin[c]
                    /\ ~(job'.pc = "restore" /\ j < job'.i)
  BY <1>1 DEF SnapshotsHold, At
<1> QED BY DEF SnapshotsHold

LEMMA InvSnapshot ==
    ASSUME TypeOK, ScriptInv, TakeSnapshot
    PROVE  ScriptInv'
<1> DEFINE a == CurrentAction
           taken == [target |-> a.target, read |-> grid]
<1>1. /\ job.pc = "snapshot" /\ job.i \in Nat /\ job.i # 0 /\ Len(actions) \in Nat
      /\ UNCHANGED <<grid, format, origin, edited, bundle>>
      /\ UNCHANGED <<bundle, origin>>
  BY JobType, Length DEF TakeSnapshot, TypeOK, At
<1>2. actions' = actions /\ Targeted' = Targeted /\ After' = After /\ PaintedAfter' = PaintedAfter
  BY <1>1, SameBundle
<1>3. Untouched(Cells) /\ format = [c \in Cells |-> Plain] /\ FormatsMeant
  BY <1>1 DEF ScriptInv, NotBegun
<1>4. Untouched(Cells \ Targeted)' /\ Untouched(Cells)' /\ FormatsMeant'
  <2>1. FormatsMeant'
    BY <1>1, <1>2, <1>3 DEF FormatsMeant
  <2> QED BY <1>1, <1>3, <2>1 DEF Untouched
<1>5. CASE job.i <= Len(actions)
  <2>1. /\ job'.pc = "snapshot" /\ job'.i = job.i + 1
        /\ job'.snaps = IF HasTarget(a) THEN Append(job.snaps, taken) ELSE job.snaps
    BY <1>1, <1>5 DEF TakeSnapshot, TypeOK, Job
  <2>2. job.i \in 1..Len(actions) /\ a.target \subseteq Targeted
    BY <1>1, <1>5, Current
  <2>3. \A j \in 1..Len(job.snaps) :
           j \in 1..Len(job'.snaps) /\ job'.snaps[j] = job.snaps[j]
    BY <2>1, JobType
  <2>4. \A j \in 1..Len(job'.snaps) :
           j \in 1..Len(job.snaps) \/ job'.snaps[j] = taken
    BY <2>1, JobType
  <2>5. HasTarget(a) => \E j \in 1..Len(job'.snaps) : job'.snaps[j] = taken
    <3>1. HasTarget(a) => /\ Len(job.snaps) + 1 \in 1..Len(job'.snaps)
                          /\ job'.snaps[Len(job.snaps) + 1] = taken
      BY <2>1, JobType
    <3> QED BY <3>1
  <2>6. SnapshotsHold'
    <3> SUFFICES ASSUME NEW j \in 1..Len(job'.snaps)
                 PROVE  /\ job'.snaps[j].target \subseteq Targeted
                        /\ \A c \in Cells \ edited : job'.snaps[j].read[c] = origin[c]
      BY <1>1, <1>2, <2>1 DEF SnapshotsHold, At
    <3>1. CASE j \in 1..Len(job.snaps)
      BY <2>3, <3>1 DEF ScriptInv, SnapshotsHold
    <3>2. CASE job'.snaps[j] = taken
      BY <1>3, <2>2, <3>2 DEF Untouched
    <3> QED BY <2>4, <3>1, <3>2
  <2>7. TargetsSaved'
    <3> SUFFICES ASSUME NEW i \in 1..Len(actions), i < job.i + 1,
                        NEW c \in actions[i].target
                 PROVE  \E j \in 1..Len(job'.snaps) : c \in job'.snaps[j].target
      BY <1>2, <2>1 DEF TargetsSaved, Saved, At
    <3>1. CASE i < job.i
      <4>1. \E j \in 1..Len(job.snaps) : c \in job.snaps[j].target
        BY <1>1, <3>1 DEF ScriptInv, TargetsSaved, Saved, At
      <4> QED BY <2>3, <4>1
    <3>2. CASE i = job.i
      <4>1. c \in a.target
        BY <3>2 DEF CurrentAction
      <4> QED BY <2>5, <4>1 DEF HasTarget
    <3> QED BY <1>1, <3>1, <3>2
  <2>8. NotBegun'
    BY <1>1, <1>3, <1>4 DEF NotBegun
  <2> QED BY <1>4, <2>1, <2>6, <2>7, <2>8
        DEF ScriptInv, ExecutedSoFar, NoFormulaFromLiteral, RolledBackIsRestored,
            AppliedIsWhole, At
<1>6. CASE ~(job.i <= Len(actions))
  <2>1. job'.pc = "execute" /\ job'.i = 1 /\ job'.snaps = job.snaps
    BY <1>6 DEF TakeSnapshot, TypeOK, Job
  <2>2. SnapshotsHold'
    BY <1>1, <2>1, SnapshotsKept DEF ScriptInv
  <2>3. TargetsSaved'
    <3> SUFFICES ASSUME NEW c \in Targeted
                 PROVE  \E j \in 1..Len(job.snaps) : c \in job.snaps[j].target
      BY <1>2, <2>1 DEF TargetsSaved, Saved, At
    <3>1. PICK i \in 1..Len(actions) : c \in actions[i].target
      BY DEF Targeted
    <3>2. i < job.i
      BY <1>1, <1>6
    <3> QED BY <1>1, <3>1, <3>2 DEF ScriptInv, TargetsSaved, Saved, At
  <2>4. ExecutedSoFar'
    <3>1. job'.i \in 1..(Len(actions') + 1) /\ job'.i - 1 = 0
      BY <1>1, <1>2, <2>1
    <3>2. After'[0] = origin /\ PaintedAfter'[0] = [c \in Cells |-> Plain]
      BY <1>2, AfterSteps, PaintedSteps
    <3>3. Shows(0)'
      BY <1>1, <1>3, <3>2 DEF Shows, Untouched
    <3> QED BY <3>1, <3>3 DEF ExecutedSoFar
  <2>5. NoFormulaFromLiteral'
    BY <1>1, <1>3 DEF NoFormulaFromLiteral, FormulasMeant, Untouched
  <2> QED BY <1>4, <2>1, <2>2, <2>3, <2>4, <2>5
        DEF ScriptInv, NotBegun, RolledBackIsRestored, AppliedIsWhole, At
<1> QED BY <1>5, <1>6

\* A cell that changes with an action is in the target of one.
LEMMA ExecuteCells ==
    ASSUME TypeOK, job.i \in 1..Len(actions), grid' = Written(CurrentAction, grid)
    PROVE  /\ \A c \in Cells \ Targeted : grid'[c] = grid[c]
           /\ \A c \in Cells : grid'[c] \in Formulas =>
                 \/ grid'[c] = grid[c]
                 \/ \E i \in 1..Len(actions) :
                       /\ actions[i].type \in {"SET_FORMULAS", "RESTORE_RANGE"}
                       /\ c \in actions[i].target
<1> DEFINE a == CurrentAction
<1>1. a = actions[job.i] /\ a \in Action /\ WellFormed(a) /\ a.target \subseteq Targeted
  BY Current DEF CurrentAction
<1>2. \A c \in Cells :
         /\ c \notin a.target => grid'[c] = grid[c]
         /\ grid'[c] \in Formulas =>
               \/ grid'[c] = grid[c]
               \/ a.type \in {"SET_FORMULAS", "RESTORE_RANGE"} /\ c \in a.target
  <2> HIDE DEF a
  <2> QED BY <1>1, WrittenCell DEF a
<1> HIDE DEF a
<1> QED BY <1>1, <1>2

\* A format that an action leaves was there or is one it sets.
LEMMA PaintedCells ==
    ASSUME TypeOK, FormatsMeant, job.i \in 1..Len(actions), UNCHANGED bundle,
           format' = format \/ format' = Painted(CurrentAction, format)
    PROVE  FormatsMeant'
<1>1. actions' = actions
  BY DEF actions
<1>2. CASE format' = format
  BY <1>1, <1>2 DEF FormatsMeant
<1>3. CASE format' = Painted(CurrentAction, format)
  <2> DEFINE a == CurrentAction
  <2>1. a = actions[job.i] /\ a \in Action /\ WellFormed(a) /\ format \in [Cells -> Formats]
    BY Current DEF CurrentAction, TypeOK
  <2>2. \A c \in Cells : format'[c] # format[c] => a.type = "FORMAT_RANGE" /\ c \in a.target
    <3> HIDE DEF a
    <3> QED BY <1>3, <2>1, PaintedFacts DEF a
  <2> HIDE DEF a
  <2> QED BY <1>1, <2>1, <2>2 DEF FormatsMeant
<1> QED BY <1>2, <1>3

LEMMA InvExecute ==
    ASSUME TypeOK, ScriptInv, Execute
    PROVE  ScriptInv'
<1>1. /\ job.pc = "execute" /\ job.i \in Nat /\ Len(actions) \in Nat
      /\ job.i \in 1..Len(actions)
      /\ UNCHANGED <<bundle, origin>> /\ UNCHANGED bundle /\ edited' = edited
      /\ grid' = Written(CurrentAction, grid) /\ format' = Painted(CurrentAction, format)
  BY JobType, Length DEF Execute, AtAction, TypeOK, At
<1>2. actions' = actions /\ Targeted' = Targeted /\ After' = After /\ PaintedAfter' = PaintedAfter
  BY <1>1, SameBundle
<1>3. job'.pc = "execute" /\ job'.i = job.i + 1 /\ job'.snaps = job.snaps
  BY <1>1 DEF Execute, TypeOK, Job
<1>4. FormatsMeant'
  BY <1>1, PaintedCells DEF ScriptInv
<1>5. Untouched(Cells \ Targeted)'
  BY <1>1, <1>2, ExecuteCells DEF ScriptInv, Untouched
<1>6. SnapshotsHold'
  BY <1>1, <1>2, <1>3 DEF ScriptInv, SnapshotsHold, At
<1>7. TargetsSaved'
  BY <1>1, <1>2, <1>3 DEF ScriptInv, TargetsSaved, Saved, At
<1>8. ExecutedSoFar'
  <2> DEFINE n == job.i
  <2>1. Shows(n - 1) /\ n \in 1..Len(actions) /\ CurrentAction = actions[n]
    BY <1>1 DEF ScriptInv, ExecutedSoFar, At, CurrentAction
  <2>2. /\ After[n] = Written(actions[n], After[n - 1])
        /\ PaintedAfter[n] = Painted(actions[n], PaintedAfter[n - 1])
    BY <2>1, AfterSteps, PaintedSteps
  <2>3. ASSUME NEW c \in Cells \ edited PROVE grid'[c] = After[n][c]
    <3>1. grid[c] = After[n - 1][c]
      BY <2>1 DEF Shows
    <3>2. actions[n] \in Action
      BY <2>1, ActionAt
    <3>3. Written(actions[n], grid)[c] = Written(actions[n], After[n - 1])[c]
      <4> HIDE DEF n
      <4> QED BY <3>1, <3>2, WrittenAlike
    <3> QED BY <1>1, <2>1, <2>2, <3>3
  <2>4. format' = PaintedAfter[n]
    BY <1>1, <2>1, <2>2 DEF Shows
  <2>5. job'.i \in 1..(Len(actions) + 1) /\ job'.i - 1 = n
    BY <1>1, <1>3
  <2> HIDE DEF n
  <2> QED BY <1>1, <1>2, <2>3, <2>4, <2>5 DEF ExecutedSoFar, Shows
<1>9. NoFormulaFromLiteral'
  <2>1. FormulasMeant
    BY <1>1 DEF ScriptInv, NoFormulaFromLiteral
  <2> SUFFICES ASSUME NEW c \in Cells \ edited, grid'[c] \in Formulas, grid'[c] # origin[c]
               PROVE  \E i \in 1..Len(actions) :
                          /\ actions[i].type \in {"SET_FORMULAS", "RESTORE_RANGE"}
                          /\ c \in actions[i].target
    BY <1>1, <1>2 DEF NoFormulaFromLiteral, FormulasMeant
  <2>2. CASE grid'[c] = grid[c]
    BY <2>1, <2>2 DEF FormulasMeant
  <2>3. CASE grid'[c] # grid[c]
    BY <1>1, <2>3, ExecuteCells
  <2> QED BY <2>2, <2>3
<1> QED BY <1>3, <1>4, <1>5, <1>6, <1>7, <1>8, <1>9
        DEF ScriptInv, NotBegun, RolledBackIsRestored, AppliedIsWhole, At

\* The catch block, with the sheet and its formats as an action left them.
LEMMA InvThrow ==
    ASSUME TypeOK, ScriptInv, Throw, job.pc = "execute", FormatsMeant',
           UNCHANGED <<grid, origin, edited, bundle>>
    PROVE  ScriptInv'
<1>1. job'.pc = "restore" /\ job'.i = 1 /\ job'.snaps = job.snaps
  BY DEF Throw, TypeOK, Job
<1>2. actions' = actions /\ Targeted' = Targeted
  BY SameBundle
<1>3. Untouched(Cells \ Targeted)'
  BY <1>2 DEF ScriptInv, Untouched
<1>4. SnapshotsHold'
  BY <1>1, SnapshotsKept DEF ScriptInv
<1>5. TargetsSaved'
  BY <1>1, <1>2 DEF ScriptInv, TargetsSaved, Saved, At
<1> QED BY <1>1, <1>3, <1>4, <1>5
        DEF ScriptInv, NotBegun, ExecutedSoFar, NoFormulaFromLiteral,
            RolledBackIsRestored, AppliedIsWhole, At

LEMMA InvFails ==
    ASSUME TypeOK, ScriptInv, ExecuteFails
    PROVE  ScriptInv'
<1>1. job.pc = "execute" /\ job.i \in 1..Len(actions)
  BY JobType, Length DEF ExecuteFails, AtAction, TypeOK, At
<1>2. /\ Throw /\ UNCHANGED <<grid, origin, edited, bundle>> /\ UNCHANGED bundle
      /\ format' = format \/ format' = Painted(CurrentAction, format)
  BY DEF ExecuteFails
<1>3. FormatsMeant'
  BY <1>1, <1>2, PaintedCells DEF ScriptInv
<1> QED BY <1>1, <1>2, <1>3, InvThrow

LEMMA InvFlush ==
    ASSUME TypeOK, ScriptInv, Flush
    PROVE  ScriptInv'
<1>1. /\ job.pc = "execute" /\ job.i > Len(actions)
      /\ UNCHANGED <<grid, origin, edited, bundle>> /\ format' = format
      /\ UNCHANGED <<bundle, origin>>
  BY DEF Flush, At
<1>2. actions' = actions /\ Targeted' = Targeted /\ After' = After /\ PaintedAfter' = PaintedAfter
  BY <1>1, SameBundle
<1>3. FormatsMeant'
  BY <1>1, <1>2 DEF ScriptInv, FormatsMeant
<1>4. CASE Throw
  BY <1>1, <1>3, <1>4, InvThrow
<1>5. CASE job' = [job EXCEPT !.pc = "APPLIED"]
  <2>1. job'.pc = "APPLIED" /\ job'.snaps = job.snaps
    BY <1>5 DEF TypeOK, Job
  <2>2. Untouched(Cells \ Targeted)'
    BY <1>1, <1>2 DEF ScriptInv, Untouched
  <2>3. SnapshotsHold'
    BY <1>1, <2>1, SnapshotsKept DEF ScriptInv
  <2>4. AppliedIsWhole'
    <3>1. job.i \in 1..(Len(actions) + 1) /\ Shows(job.i - 1)
      BY <1>1 DEF ScriptInv, ExecutedSoFar, At
    <3>2. job.i - 1 = Len(actions)
      BY <1>1, <3>1, Length
    <3>3. Shows(Len(actions))
      BY <3>1, <3>2
    <3> QED BY <1>1, <1>2, <3>3 DEF AppliedIsWhole, Shows
  <2>5. NoFormulaFromLiteral'
    BY <1>1, <1>2 DEF ScriptInv, NoFormulaFromLiteral, FormulasMeant
  <2> QED BY <1>3, <2>1, <2>2, <2>3, <2>4, <2>5
          DEF ScriptInv, NotBegun, TargetsSaved, ExecutedSoFar, RolledBackIsRestored, At
<1> QED BY <1>4, <1>5 DEF Flush

LEMMA InvRestore ==
    ASSUME TypeOK, ScriptInv, Restore
    PROVE  ScriptInv'
<1>1. /\ job.pc = "restore" /\ job.i \in Nat /\ job.i # 0
      /\ UNCHANGED <<bundle, origin>> /\ edited' = edited /\ format' = format
  BY JobType DEF Restore, TypeOK, At
<1>2. actions' = actions /\ Targeted' = Targeted
  BY <1>1, SameBundle
<1>3. FormatsMeant'
  BY <1>1, <1>2 DEF ScriptInv, FormatsMeant
<1>4. CASE job.i <= Len(job.snaps)
  <2> DEFINE s == job.snaps[job.i]
  <2>1. job.i \in 1..Len(job.snaps)
    BY <1>1, <1>4, JobType
  <2>2. /\ grid' = [c \in Cells |-> IF c \in s.target THEN SetRaw(s.read[c]) ELSE grid[c]]
        /\ job' = [job EXCEPT !.i = job.i + 1]
    BY <1>4 DEF Restore
  <2>3. job'.pc = "restore" /\ job'.i = job.i + 1 /\ job'.snaps = job.snaps
    BY <1>1, <2>2 DEF TypeOK, Job
  <2>4. s.target \subseteq Targeted /\ s.target \subseteq Cells
    BY <2>1, JobType DEF ScriptInv, SnapshotsHold
  <2>5. ASSUME NEW c \in s.target \ edited, origin[c] \notin Lookalikes
        PROVE  grid'[c] = origin[c]
    <3>1. s.read[c] = origin[c] /\ origin[c] \in Contents
      BY <2>1, <2>4 DEF ScriptInv, SnapshotsHold, TypeOK
    <3>2. grid'[c] = SetRaw(s.read[c])
      <4> HIDE DEF s
      <4> QED BY <2>2, <2>4, <2>5
    <3> QED BY <2>5, <3>1, <3>2, ContentsFacts
  <2>6. \A c \in Cells : c \notin s.target => grid'[c] = grid[c]
    <3> HIDE DEF s
    <3> QED BY <2>2
  <2>7. Untouched(Cells \ Targeted)'
    <3> HIDE DEF s
    <3> QED BY <1>1, <1>2, <2>4, <2>6 DEF ScriptInv, Untouched
  <2>8. SnapshotsHold'
    <3> SUFFICES ASSUME NEW j \in 1..Len(job.snaps)
                 PROVE  /\ job.snaps[j].target \subseteq Targeted
                        /\ \A c \in Cells \ edited : job.snaps[j].read[c] = origin[c]
                        /\ j < job.i + 1 =>
                              \A c \in job.snaps[j].target \ edited :
                                 origin[c] \notin Lookalikes => grid'[c] = origin[c]
      BY <1>1, <1>2, <2>3 DEF SnapshotsHold, At
    <3>1. /\ job.snaps[j].target \subseteq Targeted
          /\ \A c \in Cells \ edited : job.snaps[j].read[c] = origin[c]
      BY DEF ScriptInv, SnapshotsHold
    <3>2. ASSUME j < job.i + 1, NEW c \in job.snaps[j].target \ edited,
                 origin[c] \notin Lookalikes
          PROVE  grid'[c] = origin[c]
      <4>1. CASE c \in s.target
        <5> HIDE DEF s
        <5> QED BY <2>5, <3>2, <4>1
      <4>2. CASE c \notin s.target
        <5>1. j < job.i
          BY <1>1, <3>2, <4>2
        <5>2. c \in Cells
          BY <3>2, JobType
        <5>3. grid[c] = origin[c]
          BY <1>1, <3>2, <5>1 DEF ScriptInv, SnapshotsHold, At
        <5> HIDE DEF s
        <5> QED BY <2>6, <4>2, <5>2, <5>3
      <4> QED BY <4>1, <4>2
    <3> QED BY <3>1, <3>2
  <2>9. TargetsSaved'
    BY <1>1, <1>2, <2>3 DEF ScriptInv, TargetsSaved, Saved, At
  <2> QED BY <1>3, <2>3, <2>7, <2>8, <2>9
          DEF ScriptInv, NotBegun, ExecutedSoFar, NoFormulaFromLiteral,
              RolledBackIsRestored, AppliedIsWhole, At
<1>5. CASE ~(job.i <= Len(job.snaps))
  <2>1. /\ job'.pc = "FAILED_ROLLED_BACK" /\ job'.snaps = job.snaps /\ grid' = grid
        /\ UNCHANGED <<grid, origin, edited, bundle>>
    BY <1>1, <1>5 DEF Restore, TypeOK, Job
  <2>2. Untouched(Cells \ Targeted)'
    BY <1>1, <1>2, <2>1 DEF ScriptInv, Untouched
  <2>3. SnapshotsHold'
    BY <1>1, <2>1, SnapshotsKept DEF ScriptInv
  <2>4. RolledBackIsRestored'
    <3> SUFFICES ASSUME NEW c \in Cells \ edited, origin[c] \notin Lookalikes
                 PROVE  grid[c] = origin[c]
      BY <1>1, <2>1 DEF RolledBackIsRestored
    <3>1. CASE c \in Targeted
      <4>1. PICK j \in 1..Len(job.snaps) : c \in job.snaps[j].target
        BY <1>1, <3>1 DEF ScriptInv, TargetsSaved, Saved
      <4>2. j < job.i
        BY <1>1, <1>5, JobType
      <4> QED BY <1>1, <4>1, <4>2 DEF ScriptInv, SnapshotsHold, At
    <3>2. CASE c \notin Targeted
      BY <3>2 DEF ScriptInv, Untouched
    <3> QED BY <3>1, <3>2
  <2> QED BY <1>3, <2>1, <2>2, <2>3, <2>4
          DEF ScriptInv, NotBegun, TargetsSaved, ExecutedSoFar, NoFormulaFromLiteral,
              AppliedIsWhole, At
<1> QED BY <1>4, <1>5

LEMMA InvEdit ==
    ASSUME TypeOK, ScriptInv, NEW e \in Cells, Edit(e)
    PROVE  ScriptInv'
<1>1. /\ job.pc \notin Outcomes /\ edited' = edited \cup {e}
      /\ UNCHANGED <<bundle, origin>> /\ format' = format /\ job' = job
      /\ \A c \in Cells \ {e} : grid'[c] = grid[c]
  BY DEF Edit, TypeOK
<1>2. actions' = actions /\ Targeted' = Targeted /\ After' = After /\ PaintedAfter' = PaintedAfter
  BY <1>1, SameBundle
<1>3. \A c \in Cells \ edited' : c \in Cells \ edited /\ grid'[c] = grid[c]
  BY <1>1
<1>4. Untouched(Cells \ Targeted)'
  BY <1>1, <1>2, <1>3 DEF ScriptInv, Untouched
<1>5. SnapshotsHold'
  <2> SUFFICES ASSUME NEW j \in 1..Len(job.snaps)
               PROVE  /\ job.snaps[j].target \subseteq Targeted
                      /\ \A c \in Cells \ edited' : job.snaps[j].read[c] = origin[c]
                      /\ job.pc = "restore" /\ j < job.i =>
                            \A c \in job.snaps[j].target \ edited' :
                               origin[c] \notin Lookalikes => grid'[c] = origin[c]
    BY <1>1, <1>2 DEF SnapshotsHold, At
  <2>1. job.snaps[j].target \subseteq Cells
    BY JobType
  <2> QED BY <1>3, <2>1 DEF ScriptInv, SnapshotsHold, At
<1>6. NotBegun'
  BY <1>1, <1>3 DEF ScriptInv, NotBegun, Untouched
<1>7. TargetsSaved'
  BY <1>1, <1>2 DEF ScriptInv, TargetsSaved, Saved, At
<1>8. ExecutedSoFar'
  BY <1>1, <1>2, <1>3 DEF ScriptInv, ExecutedSoFar, Shows, At
<1>9. NoFormulaFromLiteral'
  BY <1>1, <1>2, <1>3 DEF ScriptInv, NoFormulaFromLiteral, FormulasMeant
<1>10. FormatsMeant'
  BY <1>1, <1>2 DEF ScriptInv, FormatsMeant
<1> QED BY <1>1, <1>4, <1>5, <1>6, <1>7, <1>8, <1>9, <1>10
        DEF ScriptInv, RolledBackIsRestored, AppliedIsWhole, At, Outcomes

LEMMA InvStop ==
    ASSUME TypeOK, ScriptInv, Stop
    PROVE  ScriptInv'
<1>1. /\ job'.pc = "stopped" /\ job'.snaps = job.snaps
      /\ UNCHANGED <<grid, origin, edited, bundle>> /\ format' = format
      /\ UNCHANGED <<bundle, origin>>
  BY DEF Stop, TypeOK, Job
<1>2. actions' = actions /\ Targeted' = Targeted
  BY <1>1, SameBundle
<1>3. Untouched(Cells \ Targeted)'
  BY <1>1, <1>2 DEF ScriptInv, Untouched
<1>4. SnapshotsHold'
  BY <1>1, SnapshotsKept DEF ScriptInv
<1>5. FormatsMeant'
  BY <1>1, <1>2 DEF ScriptInv, FormatsMeant
<1> QED BY <1>1, <1>3, <1>4, <1>5
        DEF ScriptInv, NotBegun, TargetsSaved, ExecutedSoFar, NoFormulaFromLiteral,
            RolledBackIsRestored, AppliedIsWhole, At

LEMMA InvNext == TypeOK /\ ScriptInv /\ [Next]_vars => ScriptInv'
<1> SUFFICES ASSUME TypeOK, ScriptInv, [Next]_vars PROVE ScriptInv'
  OBVIOUS
<1>1. CASE Script
  BY <1>1, InvApply, InvSnapshot, InvExecute, InvFails, InvFlush, InvRestore DEF Script
<1>2. CASE \E c \in Cells : Edit(c)
  BY <1>2, InvEdit
<1>3. CASE Stop
  BY <1>3, InvStop
<1>4. CASE UNCHANGED vars
  <2>1. UNCHANGED <<grid, format, bundle, job, origin, edited>> /\ UNCHANGED <<bundle, origin>>
    BY <1>4 DEF vars
  <2>2. actions' = actions /\ Targeted' = Targeted /\ After' = After /\ PaintedAfter' = PaintedAfter
    BY <2>1, SameBundle
  <2> QED BY <2>1, <2>2
          DEF ScriptInv, Untouched, SnapshotsHold, NotBegun, TargetsSaved, Saved, ExecutedSoFar,
              Shows, NoFormulaFromLiteral, FormulasMeant, RolledBackIsRestored, AppliedIsWhole,
              FormatsMeant, At
<1> QED BY <1>1, <1>2, <1>3, <1>4 DEF Next

-----------------------------------------------------------------------------
(* Theorems *)

\* Every state of a run of applyBundle satisfies what its steps rely on.
THEOREM ScriptInvHolds == Spec => []ScriptInv
<1>1. Init => ScriptInv
  BY InvInit
<1>2. TypeOK /\ ScriptInv /\ [Next]_vars => ScriptInv'
  BY InvNext
<1> QED BY <1>1, <1>2, TypeCorrect, PTL DEF Spec

\* FAILED_ROLLED_BACK is reported only with every target back as it was, but for the
\* cells others edited and contents that look like a formula.
THEOREM RolledBackIsRestoredHolds == Spec => []RolledBackIsRestored
<1>1. ScriptInv => RolledBackIsRestored
  BY DEF ScriptInv
<1> QED BY <1>1, ScriptInvHolds, PTL

\* APPLIED is reported only when every action was executed, in order.
THEOREM AppliedIsWholeHolds == Spec => []AppliedIsWhole
<1>1. ScriptInv => AppliedIsWhole
  BY DEF ScriptInv
<1> QED BY <1>1, ScriptInvHolds, PTL

\* applyBundle touches nothing outside the targets of its bundle, and nothing at all
\* when it refuses it.
THEOREM OnlyTargetsChangeHolds == Spec => []OnlyTargetsChange
<1>1. ScriptInv => OnlyTargetsChange
  BY DEF ScriptInv, OnlyTargetsChange, Untouched, NotBegun, At
<1> QED BY <1>1, ScriptInvHolds, PTL

\* No literal of a bundle becomes a formula.
THEOREM NoFormulaFromLiteralHolds == Spec => []NoFormulaFromLiteral
<1>1. ScriptInv => NoFormulaFromLiteral
  BY DEF ScriptInv
<1> QED BY <1>1, ScriptInvHolds, PTL

=============================================================================
