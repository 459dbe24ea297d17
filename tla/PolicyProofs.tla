---------------------------- MODULE PolicyProofs ----------------------------
(***************************************************************************)
(* Proofs about the policy check and the request it is a part of: the      *)
(* overlap test is exact, no plan that is accepted changes a guarded cell  *)
(* or more cells than the limit, its preview is honest, and an answer of   *)
(* the model causes no unhandled error, for every size of sheet, every     *)
(* plan and every request.                                                 *)
(***************************************************************************)
EXTENDS PlanCheck, Iteration

-----------------------------------------------------------------------------
(* Ranges *)

LEMMA LeastGreatest ==
    ASSUME NEW a \in Int, NEW b \in Int
    PROVE  /\ Least(a, b) \in Int /\ Greatest(a, b) \in Int
           /\ Least(a, b) <= Greatest(a, b)
  BY DEF Least, Greatest

\* Two intervals meet exactly if neither ends before the other begins.
LEMMA IntervalsMeet ==
    ASSUME NEW a \in Int, NEW b \in Int, NEW c \in Int, NEW d \in Int, a <= b, c <= d
    PROVE  (\E x \in a..b : x \in c..d) <=> ~(b < c \/ d < a)
<1>1. ASSUME NEW x \in a..b, x \in c..d PROVE ~(b < c \/ d < a)
  BY <1>1
<1>2. ASSUME ~(b < c \/ d < a) PROVE \E x \in a..b : x \in c..d
  <2>1. CASE a < c
    <3>1. c \in a..b /\ c \in c..d
      BY <1>2, <2>1
    <3> QED BY <3>1
  <2>2. CASE ~(a < c)
    <3>1. a \in a..b /\ a \in c..d
      BY <1>2, <2>2
    <3> QED BY <3>1
  <2> QED BY <2>1, <2>2
<1> QED BY <1>1, <1>2

LEMMA BetweenMeet ==
    ASSUME NEW a \in Int, NEW b \in Int, NEW c \in Int, NEW d \in Int
    PROVE  (\E x \in Between(a, b) : x \in Between(c, d)) <=>
           ~(Greatest(a, b) < Least(c, d) \/ Greatest(c, d) < Least(a, b))
<1> DEFINE l == Least(a, b)
           g == Greatest(a, b)
           m == Least(c, d)
           h == Greatest(c, d)
<1>1. l \in Int /\ g \in Int /\ m \in Int /\ h \in Int /\ l <= g /\ m <= h
  BY LeastGreatest
<1>2. Between(a, b) = l..g /\ Between(c, d) = m..h
  BY DEF Between
<1> HIDE DEF l, g, m, h
<1>3. (\E x \in l..g : x \in m..h) <=> ~(g < m \/ h < l)
  BY <1>1, IntervalsMeet
<1> QED BY <1>2, <1>3 DEF l, g, m, h

\* _ranges_overlap says of two readable ranges that they overlap exactly if they
\* have a cell in common, in whatever order their corners are written.
THEOREM OverlapIsExact ==
    ASSUME NEW a \in Corners, NEW b \in Corners
    PROVE  RangesOverlap(a, b) <=> CellsOf(a) \cap CellsOf(b) # {}
<1>1. \A t \in Corners : t.r1 \in Int /\ t.c1 \in Int /\ t.r2 \in Int /\ t.c2 \in Int
  BY PolicyAssumption DEF Corners
<1> DEFINE R(t) == Between(t.r1, t.r2)
           C(t) == Between(t.c1, t.c2)
<1>2. (\E x \in R(a) : x \in R(b)) <=>
      ~(Rect(a).bottom < Rect(b).top \/ Rect(b).bottom < Rect(a).top)
  <2>1. /\ Rect(a).top = Least(a.r1, a.r2) /\ Rect(a).bottom = Greatest(a.r1, a.r2)
        /\ Rect(b).top = Least(b.r1, b.r2) /\ Rect(b).bottom = Greatest(b.r1, b.r2)
    BY DEF Rect
  <2>2. (\E x \in R(a) : x \in R(b)) <=>
        ~(\/ Greatest(a.r1, a.r2) < Least(b.r1, b.r2)
          \/ Greatest(b.r1, b.r2) < Least(a.r1, a.r2))
    <3> HIDE DEF R
    <3> QED BY <1>1, BetweenMeet DEF R
  <2> QED BY <2>1, <2>2
<1>3. (\E x \in C(a) : x \in C(b)) <=>
      ~(Rect(a).right < Rect(b).left \/ Rect(b).right < Rect(a).left)
  <2>1. /\ Rect(a).left = Least(a.c1, a.c2) /\ Rect(a).right = Greatest(a.c1, a.c2)
        /\ Rect(b).left = Least(b.c1, b.c2) /\ Rect(b).right = Greatest(b.c1, b.c2)
    BY DEF Rect
  <2>2. (\E x \in C(a) : x \in C(b)) <=>
        ~(\/ Greatest(a.c1, a.c2) < Least(b.c1, b.c2)
          \/ Greatest(b.c1, b.c2) < Least(a.c1, a.c2))
    <3> HIDE DEF C
    <3> QED BY <1>1, BetweenMeet DEF C
  <2> QED BY <2>1, <2>2
<1>4. CellsOf(a) \cap CellsOf(b) # {} <=>
      (\E x \in R(a) : x \in R(b)) /\ (\E x \in C(a) : x \in C(b))
  <2>1. ASSUME NEW x \in R(a), x \in R(b), NEW y \in C(a), y \in C(b)
        PROVE  CellsOf(a) \cap CellsOf(b) # {}
    <3>1. <<x, y>> \in CellsOf(a) /\ <<x, y>> \in CellsOf(b)
      BY <2>1 DEF CellsOf
    <3> QED BY <3>1
  <2>2. ASSUME NEW p \in CellsOf(a) \cap CellsOf(b)
        PROVE  (\E x \in R(a) : x \in R(b)) /\ (\E x \in C(a) : x \in C(b))
    <3>1. p[1] \in R(a) /\ p[1] \in R(b) /\ p[2] \in C(a) /\ p[2] \in C(b)
      BY DEF CellsOf
    <3> QED BY <3>1
  <2> QED BY <2>1, <2>2
<1> HIDE DEF R, C
<1> QED BY <1>2, <1>3, <1>4 DEF RangesOverlap, Readable

-----------------------------------------------------------------------------
(* The cells of a plan *)

\* An interval holds as many numbers as its ends are apart, and one more.
LEMMA BetweenSize ==
    ASSUME NEW a \in Int, NEW b \in Int
    PROVE  /\ IsFiniteSet(Between(a, b))
           /\ Cardinality(Between(a, b)) = Greatest(a, b) - Least(a, b) + 1
           /\ Greatest(a, b) - Least(a, b) + 1 \in Nat
<1> DEFINE l == Least(a, b)
           g == Greatest(a, b)
<1>1. l \in Int /\ g \in Int /\ l <= g
  BY LeastGreatest
<1>2. Between(a, b) = l..g
  BY DEF Between
<1> HIDE DEF l, g
<1>3. IsFiniteSet(l..g) /\ Cardinality(l..g) = IF l > g THEN 0 ELSE g - l + 1
  BY <1>1, FS_Interval
<1>4. Cardinality(l..g) = g - l + 1 /\ g - l + 1 \in Nat
  BY <1>1, <1>3
<1> QED BY <1>2, <1>3, <1>4 DEF l, g

\* cell_count of a readable range is the number of its cells.
LEMMA CountIsExact ==
    ASSUME NEW t \in Corners
    PROVE  /\ IsFiniteSet(CellsOf(t)) /\ Cardinality(CellsOf(t)) = CellCount(t)
           /\ Height(t) \in Nat /\ Width(t) \in Nat /\ CellCount(t) \in Nat
<1>1. t.r1 \in Int /\ t.c1 \in Int /\ t.r2 \in Int /\ t.c2 \in Int
  BY PolicyAssumption DEF Corners
<1>2. /\ IsFiniteSet(Between(t.r1, t.r2)) /\ Cardinality(Between(t.r1, t.r2)) = Height(t)
      /\ Height(t) \in Nat
  BY <1>1, BetweenSize DEF Height, Rect
<1>3. /\ IsFiniteSet(Between(t.c1, t.c2)) /\ Cardinality(Between(t.c1, t.c2)) = Width(t)
      /\ Width(t) \in Nat
  BY <1>1, BetweenSize DEF Width, Rect
<1>4. /\ IsFiniteSet(CellsOf(t))
      /\ Cardinality(CellsOf(t)) = Cardinality(Between(t.r1, t.r2)) * Cardinality(Between(t.c1, t.c2))
  BY <1>2, <1>3, FS_Product DEF CellsOf
<1>5. \A h, w \in Nat : h * w \in Nat
  OBVIOUS
<1> QED BY <1>2, <1>3, <1>4, <1>5 DEF CellCount

\* rect_dimensions always has a width.
LEMMA WidestType ==
    ASSUME NEW rows \in Seq(Nat)
    PROVE  Widest(rows) \in Nat
<1> DEFINE S == {k \in Nat : k <= Len(rows) => \E b \in Nat : \A n \in 1..k : rows[n] <= b}
           T == {0} \cup {rows[n] : n \in 1..Len(rows)}
<1>1. Len(rows) \in Nat /\ \A n \in 1..Len(rows) : rows[n] \in Nat
  OBVIOUS
<1>2. 0 \in S
  OBVIOUS
<1>3. ASSUME NEW k \in Nat, k \in S PROVE k + 1 \in S
  <2> SUFFICES ASSUME k + 1 <= Len(rows)
               PROVE  \E b \in Nat : \A n \in 1..(k + 1) : rows[n] <= b
    OBVIOUS
  <2>1. k <= Len(rows) /\ rows[k + 1] \in Nat
    BY <1>1
  <2>2. PICK b \in Nat : \A n \in 1..k : rows[n] <= b
    BY <1>3, <2>1
  <2>3. \A n \in 1..(k + 1) : n \in 1..k \/ n = k + 1
    OBVIOUS
  <2>4. \A n \in 1..(k + 1) : rows[n] \in Nat
    BY <1>1
  <2>5. CASE rows[k + 1] <= b
    BY <2>2, <2>3, <2>5
  <2>6. CASE ~(rows[k + 1] <= b)
    <3>1. \A n \in 1..(k + 1) : rows[n] <= rows[k + 1]
      BY <2>1, <2>2, <2>3, <2>4, <2>6
    <3> QED BY <2>1, <3>1
  <2> QED BY <2>5, <2>6
<1>4. Nat \subseteq S
  <2> HIDE DEF S
  <2> QED BY <1>2, <1>3, SetInduction
<1>5. PICK b \in Nat : \A n \in 1..Len(rows) : rows[n] <= b
  <2>1. Len(rows) \in S
    <3> HIDE DEF S
    <3> QED BY <1>1, <1>4
  <2> QED BY <1>1, <2>1
<1>6. T \subseteq Nat /\ T # {} /\ \A t \in T : t <= b
  BY <1>1, <1>5
<1>7. \E k \in T : \A t \in T : t <= k
  <2> HIDE DEF T
  <2> QED BY <1>6, GreatestNatural
<1>8. \E k \in T : \A t \in T : k >= t
  BY <1>6, <1>7
<1>9. Widest(rows) \in T
  BY <1>8 DEF Widest, Max
<1> QED BY <1>6, <1>9

\* What an action that has passed is counted for.
Counted(a) ==
    /\ CellsOfAction(a) \in Nat
    /\ ChangesCells(a) => IsFiniteSet(Changes(a)) /\ Cardinality(Changes(a)) <= CellsOfAction(a)

\* plan_changed_cells counts an action that has passed for the cells it changes.
LEMMA PassedCounted ==
    ASSUME NEW a \in Action, a.target # None => Readable(a.target.range), MatrixFits(a)
    PROVE  Counted(a)
<1>1. a.rows \in Seq(Nat) /\ a.type \in Types /\ a.target \in Target \cup {None}
  BY DEF Action
<1>2. Len(a.rows) \in Nat /\ Widest(a.rows) \in Nat
  BY <1>1, WidestType
<1>3. Len(a.rows) * Widest(a.rows) \in Nat
  BY <1>2
<1>4. a.target # None => a.target.range \in Corners
  BY DEF Readable
<1>5. /\ a.type \in MatrixTypes => CellsOfAction(a) = Len(a.rows) * Widest(a.rows)
      /\ a.type \in {"CLEAR_RANGE", "FORMAT_RANGE"} /\ a.target # None =>
            CellsOfAction(a) = CellCount(a.target.range)
      /\ a.type \notin MatrixTypes
            /\ ~(a.type \in {"CLEAR_RANGE", "FORMAT_RANGE"} /\ a.target # None) =>
            CellsOfAction(a) = 0
  BY DEF CellsOfAction, MatrixTypes
<1>6. CellsOfAction(a) \in Nat
  BY <1>3, <1>4, <1>5, CountIsExact
<1>7. ASSUME ChangesCells(a)
      PROVE  IsFiniteSet(Changes(a)) /\ Cardinality(Changes(a)) <= CellsOfAction(a)
  <2> DEFINE t == a.target.range
  <2>1. t \in Corners
    BY <1>4, <1>7 DEF ChangesCells
  <2>2. CellsOfAction(a) = CellCount(t)
    <3>1. CASE a.type \in MatrixTypes
      <4>1. Len(a.rows) = Height(t) /\ Widest(a.rows) = Width(t)
        BY <1>7, <3>1 DEF MatrixFits, ChangesCells
      <4> HIDE DEF t
      <4> QED BY <1>5, <3>1, <4>1 DEF CellCount
    <3>2. CASE a.type \notin MatrixTypes
      <4>1. a.type \in {"CLEAR_RANGE", "FORMAT_RANGE"} /\ a.target # None
        BY <1>1, <1>7, <3>2 DEF ChangesCells, Types, MatrixTypes
      <4> QED BY <1>5, <4>1
    <3> QED BY <3>1, <3>2
  <2>3. /\ IsFiniteSet(CellsOf(t)) /\ Cardinality(CellsOf(t)) = CellCount(t)
        /\ CellCount(t) \in Nat
    <3> HIDE DEF t
    <3> QED BY <2>1, CountIsExact
  <2>4. IsFiniteSet({a.target.sheet}) /\ Cardinality({a.target.sheet}) = 1
    BY FS_Singleton
  <2>5. /\ IsFiniteSet({a.target.sheet} \X CellsOf(t))
        /\ Cardinality({a.target.sheet} \X CellsOf(t)) = 1 * CellCount(t)
    <3> HIDE DEF t
    <3> QED BY <2>3, <2>4, FS_Product
  <2>6. 1 * CellCount(t) = CellCount(t) /\ CellCount(t) <= CellCount(t)
    <3> HIDE DEF t
    <3> QED BY <2>3
  <2> QED BY <2>2, <2>5, <2>6 DEF Changes
<1> QED BY <1>6, <1>7 DEF Counted

\* plan_changed_cells adds up action by action.
LEMMA TotalSteps ==
    ASSUME plan \in Seq(Action), \A n \in 1..Len(plan) : CellsOfAction(plan[n]) \in Nat
    PROVE  \E total \in [0..Len(plan) -> Nat] :
              /\ total[0] = 0
              /\ \A n \in 1..Len(plan) : total[n] = total[n - 1] + CellsOfAction(plan[n])
              /\ PlanChangedCells = total[Len(plan)]
<1> DEFINE L == Len(plan)
           count == [n \in 1..L |-> CellsOfAction(plan[n])]
           IsTotal(f) == f = [n \in 0..L |->
                                 IF n = 0 THEN 0 ELSE f[n - 1] + CellsOfAction(plan[n])]
<1>1. L \in Nat /\ count \in [1..L -> Nat]
  OBVIOUS
<1>2. PICK f \in [0..L -> Nat] : f[0] = 0 /\ \A n \in 1..L : f[n] = f[n - 1] + count[n]
  <2> HIDE DEF L, count
  <2> QED BY <1>1, RunningSums
<1>3. \A n \in 1..L : count[n] = CellsOfAction(plan[n])
  OBVIOUS
<1>4. \A n \in 0..L : f[n] = IF n = 0 THEN 0 ELSE f[n - 1] + CellsOfAction(plan[n])
  <2> HIDE DEF L, count
  <2> QED BY <1>1, <1>2, <1>3
<1>5. IsTotal(f)
  <2> HIDE DEF L
  <2> QED BY <1>2, <1>4
<1> DEFINE g == CHOOSE h : IsTotal(h)
<1>6. IsTotal(g)
  <2> HIDE DEF IsTotal
  <2> QED BY <1>5
<1>7. PlanChangedCells = g[L]
  BY DEF PlanChangedCells
<1> HIDE DEF g
<1>8. \A n \in 0..L : g[n] = IF n = 0 THEN 0 ELSE g[n - 1] + CellsOfAction(plan[n])
  BY <1>6
<1>9. g \in [0..L -> Nat]
  <2> DEFINE S == {k \in Nat : k <= L => g[k] \in Nat}
  <2>1. 0 \in S
    BY <1>1, <1>8
  <2>2. ASSUME NEW k \in Nat, k \in S PROVE k + 1 \in S
    <3> SUFFICES ASSUME k + 1 <= L PROVE g[k + 1] \in Nat
      OBVIOUS
    <3>1. k <= L /\ k + 1 \in 1..L /\ k + 1 \in 0..L /\ k + 1 # 0 /\ (k + 1) - 1 = k
      BY <1>1
    <3>2. g[k] \in Nat
      BY <2>2, <3>1
    <3> QED BY <1>8, <3>1, <3>2
  <2>3. Nat \subseteq S
    <3> HIDE DEF S
    <3> QED BY <2>1, <2>2, SetInduction
  <2>4. \A n \in 0..L : g[n] \in Nat
    BY <1>1, <2>3
  <2> QED BY <1>6, <2>4
<1>10. g[0] = 0 /\ \A n \in 1..L : g[n] = g[n - 1] + CellsOfAction(plan[n])
  BY <1>1, <1>8
<1> HIDE DEF L
<1> QED BY <1>7, <1>9, <1>10 DEF L

\* The cells the first k actions of the plan change.
ChangedBy(k) == UNION {Changes(plan[n]) : n \in {m \in 1..k : ChangesCells(plan[m])}}

\* An action more changes its own cells more.
LEMMA ChangedByNext ==
    ASSUME NEW k \in Nat
    PROVE  ChangedBy(k + 1) = ChangedBy(k) \cup
               (IF ChangesCells(plan[k + 1]) THEN Changes(plan[k + 1]) ELSE {})
<1>1. \A m : m \in 1..(k + 1) <=> m \in 1..k \/ m = k + 1
  OBVIOUS
<1> QED BY <1>1 DEF ChangedBy

\* plan_changed_cells is no less than the cells the plan changes: cells changed
\* twice are counted twice.
LEMMA TotalIsEnough ==
    ASSUME plan \in Seq(Action), \A n \in 1..Len(plan) : Counted(plan[n])
    PROVE  /\ PlanChangedCells \in Nat
           /\ Cardinality(ChangedBy(Len(plan))) \in Nat
           /\ Cardinality(ChangedBy(Len(plan))) <= PlanChangedCells
<1>1. Len(plan) \in Nat
  OBVIOUS
<1>2. PICK total \in [0..Len(plan) -> Nat] :
         /\ total[0] = 0
         /\ \A n \in 1..Len(plan) : total[n] = total[n - 1] + CellsOfAction(plan[n])
         /\ PlanChangedCells = total[Len(plan)]
  BY TotalSteps DEF Counted
<1> DEFINE S == {k \in Nat : k <= Len(plan) =>
                     /\ IsFiniteSet(ChangedBy(k))
                     /\ Cardinality(ChangedBy(k)) \in Nat
                     /\ Cardinality(ChangedBy(k)) <= total[k]}
<1>3. 0 \in S
  <2>1. ChangedBy(0) = {}
    BY DEF ChangedBy
  <2> QED BY <1>2, <2>1, FS_EmptySet
<1>4. ASSUME NEW k \in Nat, k \in S PROVE k + 1 \in S
  <2> SUFFICES ASSUME k + 1 <= Len(plan)
               PROVE  /\ IsFiniteSet(ChangedBy(k + 1))
                      /\ Cardinality(ChangedBy(k + 1)) \in Nat
                      /\ Cardinality(ChangedBy(k + 1)) <= total[k + 1]
    OBVIOUS
  <2> DEFINE A == ChangedBy(k)
             B == IF ChangesCells(plan[k + 1]) THEN Changes(plan[k + 1]) ELSE {}
             c == CellsOfAction(plan[k + 1])
  <2>1. /\ IsFiniteSet(A) /\ Cardinality(A) \in Nat /\ Cardinality(A) <= total[k]
        /\ total[k] \in Nat
    BY <1>1, <1>2, <1>4
  <2>2. k + 1 \in 1..Len(plan) /\ (k + 1) - 1 = k
    BY <1>1
  <2>3. total[k + 1] = total[k] + c
    BY <1>2, <2>2
  <2>4. c \in Nat /\ IsFiniteSet(B) /\ Cardinality(B) <= c
    <3>1. Counted(plan[k + 1])
      BY <2>2
    <3> QED BY <3>1, FS_EmptySet DEF Counted
  <2>5. ChangedBy(k + 1) = A \cup B
    BY ChangedByNext
  <2> HIDE DEF A, B, c
  <2>6. /\ IsFiniteSet(A \cup B)
        /\ Cardinality(A \cup B) = Cardinality(A) + Cardinality(B) - Cardinality(A \cap B)
    BY <2>1, <2>4, FS_Union
  <2>7. IsFiniteSet(A \cap B)
    BY <2>1, FS_Intersection
  <2>8. /\ Cardinality(B) \in Nat /\ Cardinality(A \cap B) \in Nat
        /\ Cardinality(A \cup B) \in Nat
    BY <2>4, <2>6, <2>7, FS_CardinalityType
  <2>9. Cardinality(A \cup B) <= total[k + 1]
    BY <2>1, <2>3, <2>4, <2>6, <2>8
  <2> QED BY <2>5, <2>6, <2>8, <2>9
<1>5. Nat \subseteq S
  <2> HIDE DEF S
  <2> QED BY <1>3, <1>4, SetInduction
<1>6. Len(plan) \in S
  <2> HIDE DEF S
  <2> QED BY <1>1, <1>5
<1>7. total[Len(plan)] \in Nat /\ Len(plan) <= Len(plan)
  BY <1>1, <1>2
<1> QED BY <1>2, <1>6, <1>7

\* A plan whose every action has passed is counted for all it changes.
LEMMA PassedTotal ==
    ASSUME plan \in Seq(Action), \A n \in 1..Len(plan) : Passed(plan[n])
    PROVE  /\ PlanChangedCells \in Nat
           /\ Cardinality(ChangedBy(Len(plan))) \in Nat
           /\ Cardinality(ChangedBy(Len(plan))) <= PlanChangedCells
<1>1. \A n \in 1..Len(plan) : plan[n] \in Action
  OBVIOUS
<1>2. \A n \in 1..Len(plan) : Counted(plan[n])
  BY <1>1, PassedCounted DEF Passed
<1> QED BY <1>2, TotalIsEnough

\* A plan of NO_OPs is counted for nothing.
LEMMA NoOpsTotal ==
    ASSUME plan \in Seq(Action), NoOpsOnly
    PROVE  PlanChangedCells = 0 /\ ChangedBy(Len(plan)) = {}
<1>1. \A n \in 1..Len(plan) : CellsOfAction(plan[n]) = 0 /\ ~ChangesCells(plan[n])
  BY DEF NoOpsOnly, CellsOfAction, ChangesCells, MatrixTypes
<1>2. PICK total \in [0..Len(plan) -> Nat] :
         /\ total[0] = 0
         /\ \A n \in 1..Len(plan) : total[n] = total[n - 1] + CellsOfAction(plan[n])
         /\ PlanChangedCells = total[Len(plan)]
  <2>1. \A n \in 1..Len(plan) : CellsOfAction(plan[n]) \in Nat
    BY <1>1
  <2> QED BY <2>1, TotalSteps
<1> DEFINE S == {k \in Nat : k <= Len(plan) => total[k] = 0}
<1>3. 0 \in S
  BY <1>2
<1>4. ASSUME NEW k \in Nat, k \in S PROVE k + 1 \in S
  <2> SUFFICES ASSUME k + 1 <= Len(plan) PROVE total[k + 1] = 0
    OBVIOUS
  <2>1. k + 1 \in 1..Len(plan) /\ (k + 1) - 1 = k /\ total[k] = 0
    BY <1>4
  <2> QED BY <1>1, <1>2, <2>1
<1>5. Nat \subseteq S
  <2> HIDE DEF S
  <2> QED BY <1>3, <1>4, SetInduction
<1>6. Len(plan) \in Nat
  OBVIOUS
<1>7. Len(plan) \in S
  <2> HIDE DEF S
  <2> QED BY <1>5, <1>6
<1>8. total[Len(plan)] = 0
  BY <1>6, <1>7
<1>9. ChangedBy(Len(plan)) = {}
  BY <1>1 DEF ChangedBy
<1> QED BY <1>2, <1>8, <1>9

-----------------------------------------------------------------------------
(* The check *)

Inv == TypeOK /\ PassedInv

LEMMA InitInv == Init => Inv
<1> SUFFICES ASSUME Init PROVE Inv
  OBVIOUS
<1>1. plan \in Seq(Action) /\ req \in Requests
  BY PolicyAssumption DEF Init
<1>2. TypeOK
  BY <1>1 DEF Init, TypeOK
<1>3. PassedInv
  BY DEF Init, PassedInv, Accepted, RaisesOnlyForSelection
<1> QED BY <1>2, <1>3 DEF Inv

\* What the loop knows of an action it lets pass.
LEMMA OutcomePassed ==
    ASSUME NEW a, Outcome(a) = "passed"
    PROVE  /\ InScope(a) /\ ~Guarded(a) /\ MatrixFits(a)
           /\ a.target # None => Readable(a.target.range)
<1>1. CASE ~InScope(a) \/ Guarded(a)
  BY <1>1 DEF Outcome
<1>2. CASE InScope(a) /\ ~Guarded(a)
  BY <1>2 DEF Outcome
<1> QED BY <1>1, <1>2

\* The other outcomes: a verdict, and the parse error for targets in scope only.
LEMMA OutcomeOther ==
    ASSUME NEW a, Outcome(a) # "passed"
    PROVE  /\ Outcome(a) \in {"rejected", "raised"}
           /\ Outcome(a) = "raised" => InScope(a) /\ a.target # None /\ ~Readable(a.target.range)
<1>1. CASE ~InScope(a) \/ Guarded(a)
  BY <1>1 DEF Outcome
<1>2. CASE InScope(a) /\ ~Guarded(a)
  BY <1>2 DEF Outcome
<1> QED BY <1>1, <1>2

LEMMA CheckKeepsInv ==
    ASSUME Inv, CheckAction
    PROVE  Inv'
<1> USE DEF Inv
<1>1. /\ i \in 1..Len(plan) /\ plan \in Seq(Action) /\ plan[i] \in Action
      /\ req' = req /\ verdict = "checking"
  BY DEF CheckAction, TypeOK, Checking
<1>2. CASE Outcome(plan[i]) = "passed"
  <2> DEFINE risk == DefaultRisk(plan[i].type)
             a    == [plan[i] EXCEPT !.risk = risk]
  <2>1. plan' = [plan EXCEPT ![i] = a] /\ i' = i + 1 /\ verdict' = verdict
    BY <1>2 DEF CheckAction
  <2>2. /\ a \in Action /\ a.type = plan[i].type /\ a.target = plan[i].target
        /\ a.risk = DefaultRisk(a.type)
    BY <1>1 DEF Action, DefaultRisk, Risks
  <2> HIDE DEF a
  <2>3. /\ plan' \in Seq(Action) /\ Len(plan') = Len(plan) /\ plan'[i] = a
        /\ \A n \in 1..Len(plan) : n # i => plan'[n] = plan[n]
    BY <1>1, <2>1, <2>2
  <2>4. TypeOK'
    BY <1>1, <2>1, <2>3 DEF TypeOK
  <2>5. \A b : Guarded(b)' <=> Guarded(b)
    BY <1>1 DEF Guarded
  <2>6. Passed(a)
    <3>1. a.rows = plan[i].rows
      BY <1>1 DEF Action, a
    <3>2. MatrixFits(a) <=> MatrixFits(plan[i])
      BY <2>2, <3>1 DEF MatrixFits
    <3> QED BY <1>2, <2>2, <3>2, OutcomePassed DEF Passed, Guarded
  <2>7. ASSUME NEW n \in 1..(i' - 1) PROVE Passed(plan[n])'
    <3>1. n \in 1..Len(plan) /\ (n = i \/ n \in 1..(i - 1))
      BY <1>1, <2>1
    <3>2. Passed(plan'[n])
      BY <2>3, <2>6, <3>1 DEF PassedInv
    <3> QED BY <2>5, <3>2 DEF Passed
  <2>8. ~Accepted' /\ RaisesOnlyForSelection'
    BY <1>1, <2>1 DEF Accepted, RaisesOnlyForSelection
  <2> QED BY <2>4, <2>7, <2>8 DEF PassedInv
<1>3. CASE Outcome(plan[i]) # "passed"
  <2>1. plan' = plan /\ i' = i /\ verdict' = Outcome(plan[i])
    BY <1>3 DEF CheckAction
  <2>2. TypeOK'
    BY <1>1, <1>3, <2>1, OutcomeOther DEF TypeOK
  <2>3. \A n \in 1..(i' - 1) : Passed(plan[n])'
    BY <1>1, <2>1 DEF PassedInv, Passed, Guarded
  <2>4. ~Accepted'
    BY <1>3, <2>1, OutcomeOther DEF Accepted
  <2>5. RaisesOnlyForSelection'
    BY <1>1, <1>3, <2>1, OutcomeOther DEF RaisesOnlyForSelection, InScope
  <2> QED BY <2>2, <2>3, <2>4, <2>5 DEF PassedInv
<1> QED BY <1>2, <1>3

LEMMA NextKeepsInv ==
    ASSUME Inv, [Next]_vars
    PROVE  Inv'
<1> USE DEF Inv
<1>1. CASE AcceptNoOps
  <2>1. /\ plan' = plan /\ i' = i /\ req' = req /\ verdict' = "accepted" /\ NoOpsOnly
    BY <1>1 DEF AcceptNoOps
  <2>2. TypeOK'
    BY <2>1 DEF TypeOK
  <2>3. PassedInv'
    BY <2>1 DEF PassedInv, Passed, Guarded, MatrixFits, Accepted, NoOpsOnly,
                RaisesOnlyForSelection
  <2> QED BY <2>2, <2>3
<1>2. CASE CheckLimits
  <2>1. /\ plan' = plan /\ i' = i /\ req' = req /\ verdict' \in {"accepted", "rejected"}
        /\ i > Len(plan)
    BY <1>2 DEF CheckLimits
  <2>2. TypeOK'
    BY <2>1 DEF TypeOK
  <2>3. i = Len(plan) + 1
    BY <2>1 DEF TypeOK
  <2>4. \A n \in 1..(i' - 1) : Passed(plan[n])'
    BY <2>1 DEF PassedInv, Passed, Guarded, MatrixFits
  <2>5. Accepted' => PlanChangedCells' <= MaxChanged
    <3>1. Accepted' => ~(PlanChangedCells > MaxChanged)
      BY <1>2 DEF CheckLimits, Accepted
    <3>2. PlanChangedCells' = PlanChangedCells
      BY <2>1 DEF PlanChangedCells
    <3>3. PlanChangedCells \in Nat /\ MaxChanged \in Nat
      BY <2>3, PassedTotal, PolicyAssumption DEF PassedInv, TypeOK
    <3> QED BY <3>1, <3>2, <3>3
  <2>6. PassedInv'
    BY <2>1, <2>3, <2>4, <2>5 DEF PassedInv, RaisesOnlyForSelection
  <2> QED BY <2>2, <2>6
<1>3. CASE UNCHANGED vars
  <2>1. PlanChangedCells' = PlanChangedCells
    BY <1>3 DEF vars, PlanChangedCells
  <2> QED BY <1>3, <2>1 DEF vars, TypeOK, PassedInv, Passed, Guarded, MatrixFits, Accepted,
                            NoOpsOnly, RaisesOnlyForSelection
<1> QED BY <1>1, <1>2, <1>3, CheckKeepsInv DEF Next

\* The limit is on no less than what an accepted plan changes.
LEMMA AcceptedTotal ==
    ASSUME Inv, Accepted
    PROVE  /\ PlanChangedCells \in Nat /\ PlanChangedCells <= MaxChanged
           /\ Cardinality(ChangedBy(Len(plan))) <= PlanChangedCells
           /\ Cardinality(ChangedBy(Len(plan))) <= MaxChanged
<1>1. plan \in Seq(Action) /\ MaxChanged \in Nat
  BY PolicyAssumption DEF Inv, TypeOK
<1>2. CASE NoOpsOnly
  <2>1. PlanChangedCells = 0 /\ Cardinality(ChangedBy(Len(plan))) = 0
    BY <1>1, <1>2, NoOpsTotal, FS_EmptySet
  <2> QED BY <1>1, <2>1
<1>3. CASE ~NoOpsOnly
  <2>1. PlanChangedCells <= MaxChanged /\ \A n \in 1..Len(plan) : Passed(plan[n])
    BY <1>1, <1>3 DEF Inv, PassedInv, TypeOK
  <2>2. /\ PlanChangedCells \in Nat
        /\ Cardinality(ChangedBy(Len(plan))) \in Nat
        /\ Cardinality(ChangedBy(Len(plan))) <= PlanChangedCells
    BY <1>1, <2>1, PassedTotal
  <2> QED BY <1>1, <2>1, <2>2
<1> QED BY <1>2, <1>3

\* What an accepted plan has gone through is what the properties ask of it.
LEMMA InvImplies ==
    ASSUME Inv
    PROVE  GuardedCellsAreKept /\ RiskIsRecomputed /\ ChangeIsBounded
<1> USE DEF Inv
<1>1. ASSUME Accepted, NEW n \in 1..Len(plan) PROVE NoOpsOnly \/ Passed(plan[n])
  BY <1>1 DEF PassedInv, TypeOK
<1>2. ASSUME Accepted, NEW n \in 1..Len(plan), NEW g \in req.guarded,
             ChangesCells(plan[n]), Readable(g.range)
      PROVE  CellsOf(plan[n].target.range) \cap CellsOf(g.range) = {}
  <2>1. Passed(plan[n])
    BY <1>1, <1>2 DEF NoOpsOnly, ChangesCells
  <2>2. plan[n].target.range \in Corners /\ g.range \in Corners
    BY <1>2, <2>1 DEF Passed, ChangesCells, Readable
  <2>3. ~RangesOverlap(plan[n].target.range, g.range)
    BY <1>2, <2>1 DEF Passed, Guarded, ChangesCells
  <2> QED BY <2>2, <2>3, OverlapIsExact
<1>3. RiskIsRecomputed
  BY <1>1 DEF RiskIsRecomputed, Passed
<1>4. ChangeIsBounded
  BY AcceptedTotal DEF ChangeIsBounded, ChangedBy
<1> QED BY <1>2, <1>3, <1>4 DEF GuardedCellsAreKept

\* validate_plan accepts no plan that changes a protected or merged cell it was
\* told of or more cells than the limit, recomputes every risk, and fails to give a
\* verdict only for a selection parse_a1 cannot read.
THEOREM PolicyHolds ==
    Spec => [](/\ TypeOK /\ GuardedCellsAreKept /\ ChangeIsBounded /\ RiskIsRecomputed
               /\ RaisesOnlyForSelection)
<1>1. Inv => /\ TypeOK /\ GuardedCellsAreKept /\ ChangeIsBounded /\ RiskIsRecomputed
             /\ RaisesOnlyForSelection
  BY InvImplies DEF Inv, PassedInv
<1> QED BY <1>1, InitInv, NextKeepsInv, PTL DEF Spec

-----------------------------------------------------------------------------
(* The request *)

\* The policy check runs on whatever plan the answer was parsed into, from its
\* first action on, its error is passed on for the selection only, and a preview
\* says what it left.
PlanInv == Inv /\ PlanTypeOK /\ ReplyInv /\ UnhandledOnlyForUnreadable

\* What an answer may be.
Answers == {"none", "plain", "unloadable", "unencodable"}

\* A problem ends the request and leaves the policy alone; its status is 500 for an
\* error of the parsers only.
LEMMA RaiseKeepsInv ==
    ASSUME PlanInv, NEW problem \in Problems, Raise(problem), answer' \in Answers,
           problem = "ValueError" => \/ ~Readable(req.selection.range) \/ ~ContextReadable
                                     \/ answer' \in {"unloadable", "unencodable"}
    PROVE  PlanInv'
<1>1. /\ UNCHANGED <<vars, context>> /\ stage' = "done"
      /\ reply' = [status |-> Status(problem), risk |-> "none", cells |-> 0]
  BY DEF Raise, Reply
<1>2. Status(problem) \in {413, 422, 500, 502} /\ (Status(problem) = 500 => problem = "ValueError")
  BY DEF Status, Problems
<1>3. Inv'
  BY <1>1, NextKeepsInv DEF PlanInv
<1>4. UnhandledOnlyForUnreadable'
  BY <1>1, <1>2 DEF UnhandledOnlyForUnreadable, ContextReadable, vars
<1>5. PlanTypeOK'
  BY <1>1, <1>2, <1>3 DEF PlanInv, PlanTypeOK, Inv, Answers
<1>6. ReplyInv'
  BY <1>1, <1>2 DEF PlanInv, ReplyInv, Previewed, NoOpsAreLow, vars
<1> QED BY <1>3, <1>4, <1>5, <1>6 DEF PlanInv

\* A step on the plan that replies nothing keeps what the reply says.
LEMMA NoReplyKeepsInv ==
    ASSUME PlanInv, Inv', NoOpsAreLow', req' = req, UNCHANGED <<context, reply>>,
           answer' \in Answers, stage # "done",
           stage' \in {"body", "asked", "repair", "policy"}
    PROVE  PlanInv'
<1>1. UnhandledOnlyForUnreadable'
  BY DEF PlanInv, ReplyInv, UnhandledOnlyForUnreadable
<1>2. PlanTypeOK'
  BY DEF PlanInv, PlanTypeOK, Inv, Answers
<1>3. ReplyInv'
  BY DEF PlanInv, ReplyInv, Previewed
<1> QED BY <1>1, <1>2, <1>3 DEF PlanInv

LEMMA CheckKeepsLow ==
    ASSUME TypeOK, NoOpsAreLow, Next
    PROVE  NoOpsAreLow'
<1>1. CASE plan' = plan
  BY <1>1 DEF NoOpsAreLow
<1>2. CASE plan' # plan
  <2>1. /\ CheckAction /\ i \in 1..Len(plan)
        /\ plan' = [plan EXCEPT ![i].risk = DefaultRisk(plan[i].type)]
    BY <1>2 DEF Next, AcceptNoOps, CheckAction, CheckLimits, TypeOK
  <2> DEFINE a == [plan[i] EXCEPT !.risk = DefaultRisk(plan[i].type)]
  <2>2. plan' = [plan EXCEPT ![i] = a] /\ plan[i] \in Action /\ plan \in Seq(Action)
    BY <2>1 DEF TypeOK
  <2>3. a \in Action /\ (a.type = "NO_OP" => a.risk = "low")
    BY <2>2 DEF Action, DefaultRisk, Risks
  <2> HIDE DEF a
  <2>4. /\ Len(plan') = Len(plan) /\ plan'[i] = a
        /\ \A n \in 1..Len(plan) : n # i => plan'[n] = plan[n]
    BY <2>1, <2>2, <2>3
  <2> QED BY <2>3, <2>4 DEF NoOpsAreLow
<1> QED BY <1>1, <1>2

\* The preview carries a risk, and the one the registry gives.
LEMMA RiskType ==
    ASSUME plan \in Seq(Action)
    PROVE  RiskOf(plan) \in Risks \cup {"none"}
<1> DEFINE risks == {plan[n].risk : n \in 1..Len(plan)}
<1>1. risks \subseteq {"low", "medium", "high"}
  <2>1. \A n \in 1..Len(plan) : plan[n] \in Action
    OBVIOUS
  <2> QED BY <2>1 DEF Action, Risks
<1>2. RiskOf(plan) = CASE risks = {}                                  -> "none"
                       [] "high" \in risks                            -> "high"
                       [] "high" \notin risks /\ "medium" \in risks   -> "medium"
                       [] risks = {"low"}                             -> "low"
  BY DEF RiskOf
<1> HIDE DEF risks
<1>3. risks = {} \/ "high" \in risks \/ "medium" \in risks \/ risks = {"low"}
  BY <1>1
<1> QED BY <1>2, <1>3 DEF Risks

\* The risk of the preview is one that the registry gives to an action, and none of
\* them has a higher one.
LEMMA AcceptedRisk ==
    ASSUME Inv, NoOpsAreLow, Accepted
    PROVE  /\ plan = <<>> => RiskOf(plan) = "none"
           /\ plan # <<>> => \E n \in 1..Len(plan) : RiskOf(plan) = DefaultRisk(plan[n].type)
           /\ \A n \in 1..Len(plan) :
                 Severity[DefaultRisk(plan[n].type)] <= Severity[RiskOf(plan)]
<1> DEFINE risks == {plan[n].risk : n \in 1..Len(plan)}
<1>1. plan \in Seq(Action)
  BY DEF Inv, TypeOK
<1>2. \A n \in 1..Len(plan) : plan[n].risk = DefaultRisk(plan[n].type)
  <2>1. CASE NoOpsOnly
    BY <2>1 DEF NoOpsOnly, NoOpsAreLow, DefaultRisk
  <2>2. CASE ~NoOpsOnly
    BY <2>2 DEF Inv, PassedInv, TypeOK, Passed
  <2> QED BY <2>1, <2>2
<1>3. \A n \in 1..Len(plan) : plan[n].risk \in {"low", "medium"}
  BY <1>2 DEF DefaultRisk
<1>4. RiskOf(plan) = CASE risks = {}                                  -> "none"
                       [] "high" \in risks                            -> "high"
                       [] "high" \notin risks /\ "medium" \in risks   -> "medium"
                       [] risks = {"low"}                             -> "low"
  BY DEF RiskOf
<1>5. /\ Severity["none"] = 0 /\ Severity["low"] = 1 /\ Severity["medium"] = 2
  BY DEF Severity
<1>6. CASE plan = <<>>
  <2>1. risks = {}
    BY <1>6
  <2> HIDE DEF risks
  <2>2. RiskOf(plan) = "none"
    BY <1>4, <2>1
  <2>3. 1..Len(plan) = {}
    BY <1>6
  <2> QED BY <1>6, <2>2, <2>3
<1>7. CASE \E n \in 1..Len(plan) : plan[n].risk = "medium"
  <2>1. "high" \notin risks /\ "medium" \in risks
    BY <1>3, <1>7
  <2> HIDE DEF risks
  <2>2. RiskOf(plan) = "medium"
    BY <1>4, <2>1
  <2>3. plan # <<>>
    BY <1>7
  <2>4. \A n \in 1..Len(plan) : Severity[plan[n].risk] <= 2
    BY <1>3, <1>5
  <2> QED BY <1>2, <1>5, <1>7, <2>2, <2>3, <2>4
<1>8. CASE plan # <<>> /\ ~ \E n \in 1..Len(plan) : plan[n].risk = "medium"
  <2>1. 1 \in 1..Len(plan)
    BY <1>1, <1>8
  <2>2. \A n \in 1..Len(plan) : plan[n].risk = "low"
    BY <1>3, <1>8
  <2>3. risks = {"low"}
    BY <2>1, <2>2
  <2> HIDE DEF risks
  <2>4. RiskOf(plan) = "low"
    BY <1>4, <2>3
  <2>5. \A n \in 1..Len(plan) : Severity[plan[n].risk] <= 1
    BY <1>5, <2>2
  <2> QED BY <1>2, <1>5, <1>8, <2>1, <2>2, <2>4, <2>5
<1> QED BY <1>6, <1>7, <1>8

LEMMA PreviewKeepsInv ==
    ASSUME PlanInv, Preview
    PROVE  PlanInv'
<1>1. /\ UNCHANGED <<vars, context, answer>> /\ Accepted /\ stage' = "done"
      /\ reply' = [status |-> 200, risk |-> RiskOf(plan), cells |-> PlanChangedCells]
  BY DEF Preview, Reply
<1>2. Inv /\ plan \in Seq(Action) /\ plan' = plan /\ verdict' = verdict
  BY <1>1 DEF PlanInv, Inv, TypeOK, vars
<1>3. RiskOf(plan) \in Risks \cup {"none"} /\ PlanChangedCells \in Nat
  BY <1>1, <1>2, RiskType, AcceptedTotal
<1>4. Inv'
  BY <1>1, <1>2, NextKeepsInv
<1>5. UnhandledOnlyForUnreadable'
  BY <1>1 DEF PlanInv, UnhandledOnlyForUnreadable
<1>6. PlanTypeOK'
  BY <1>1, <1>3, <1>4 DEF PlanInv, PlanTypeOK, Inv
<1>7. ReplyInv'
  <2>1. RiskOf(plan') = RiskOf(plan) /\ PlanChangedCells' = PlanChangedCells
    BY <1>2 DEF PlanChangedCells
  <2>2. Accepted' /\ NoOpsAreLow'
    BY <1>1, <1>2 DEF PlanInv, ReplyInv, Accepted, NoOpsAreLow
  <2> QED BY <1>1, <2>1, <2>2 DEF ReplyInv
<1> QED BY <1>4, <1>5, <1>6, <1>7 DEF PlanInv

LEMMA PlanNextKeepsInv ==
    ASSUME PlanInv, [PlanNext]_planVars
    PROVE  PlanInv'
<1>0. /\ Inv /\ TypeOK /\ req \in Requests /\ RaisesOnlyForSelection /\ NoOpsAreLow
      /\ answer \in Answers
  BY DEF PlanInv, Inv, TypeOK, PassedInv, ReplyInv, PlanTypeOK, Answers
<1>1. ASSUME UNCHANGED vars, UNCHANGED <<context, reply>>, stage # "done",
             answer' \in Answers, stage' \in {"asked", "repair", "policy"}
      PROVE  PlanInv'
  <2>1. req' = req /\ NoOpsAreLow'
    BY <1>0, <1>1 DEF vars, NoOpsAreLow
  <2> QED BY <1>0, <1>1, <2>1, NextKeepsInv, NoReplyKeepsInv
<1>2. CASE RefuseBody
  BY <1>0, <1>2, RaiseKeepsInv DEF RefuseBody, Problems
<1>3. CASE ReadContext
  BY <1>0, <1>1, <1>3, RaiseKeepsInv DEF ReadContext, Goto, Problems
<1>4. CASE Exhausted
  BY <1>0, <1>4, RaiseKeepsInv DEF Exhausted, Problems
<1>5. CASE Parse
  <2>1. /\ plan' \in Plans /\ MatchesSchema(plan') /\ i' = 1 /\ verdict' = "checking"
        /\ req' = req /\ UNCHANGED <<context, reply>> /\ stage # "done" /\ stage' = "policy"
        /\ answer' \in Answers
    BY <1>5 DEF Parse, Goto, Waiting, Answers
  <2>2. plan' \in Seq(Action)
    BY <2>1, PolicyAssumption
  <2>3. TypeOK'
    BY <1>0, <2>1, <2>2 DEF TypeOK
  <2>4. PassedInv'
    BY <2>1 DEF PassedInv, Accepted, RaisesOnlyForSelection
  <2>5. NoOpsAreLow'
    BY <2>1 DEF NoOpsAreLow, MatchesSchema
  <2> QED BY <2>1, <2>3, <2>4, <2>5, NoReplyKeepsInv DEF Inv
<1>6. CASE DoesNotParse
  BY <1>1, <1>6, RaiseKeepsInv DEF DoesNotParse, Goto, Problems, Answers
<1>7. CASE Check
  <2>1. req' = req /\ UNCHANGED <<context, reply>> /\ stage = "policy" /\ stage' = "policy"
        /\ answer' = answer
    BY <1>7 DEF Check, Next, AcceptNoOps, CheckAction, CheckLimits
  <2>2. NoOpsAreLow' /\ Inv'
    BY <1>0, <1>7, CheckKeepsLow, NextKeepsInv DEF Check
  <2> QED BY <1>0, <2>1, <2>2, NoReplyKeepsInv
<1>8. CASE Conclude
  BY <1>0, <1>8, RaiseKeepsInv DEF Conclude, Problems, RaisesOnlyForSelection
<1>9. CASE Preview
  BY <1>9, PreviewKeepsInv
<1>10. CASE DoesNotLoad
  BY <1>10, RaiseKeepsInv DEF DoesNotLoad, Problems, Answers
<1>11. CASE DoesNotEncode
  BY <1>11, RaiseKeepsInv DEF DoesNotEncode, Problems, Answers
<1>12. CASE UNCHANGED planVars
  <2>1. UNCHANGED vars /\ UNCHANGED <<context, answer, stage, reply>> /\ plan' = plan
    BY <1>12 DEF planVars, vars
  <2>2. Inv'
    BY <1>0, <2>1, NextKeepsInv
  <2>3. PlanChangedCells' = PlanChangedCells
    BY <2>1 DEF PlanChangedCells
  <2>4. ReplyInv'
    BY <2>1, <2>3 DEF PlanInv, ReplyInv, Previewed, NoOpsAreLow, Accepted, vars
  <2>5. PlanTypeOK' /\ UnhandledOnlyForUnreadable'
    BY <2>1, <2>2 DEF PlanInv, PlanTypeOK, Inv, UnhandledOnlyForUnreadable, ContextReadable, vars
  <2> QED BY <2>2, <2>4, <2>5 DEF PlanInv
<1> QED BY <1>2, <1>3, <1>4, <1>5, <1>6, <1>7, <1>8, <1>9, <1>10, <1>11, <1>12
    DEF PlanNext

LEMMA PlanInitInv == PlanInit => PlanInv
<1> SUFFICES ASSUME PlanInit PROVE PlanInv
  OBVIOUS
<1>1. TypeOK
  BY DEF PlanInit, TypeOK
<1>2. PassedInv
  BY DEF PlanInit, PassedInv, Accepted, RaisesOnlyForSelection
<1>3. UnhandledOnlyForUnreadable
  BY DEF PlanInit, UnhandledOnlyForUnreadable
<1>4. PlanTypeOK
  BY <1>1 DEF PlanInit, PlanTypeOK
<1>5. ReplyInv
  BY DEF PlanInit, ReplyInv, NoOpsAreLow, Previewed
<1> QED BY <1>1, <1>2, <1>3, <1>4, <1>5 DEF PlanInv, Inv

LEMMA PlanInvariant == PlanSpec => []PlanInv
  BY PlanInitInv, PlanNextKeepsInv, PTL DEF PlanSpec

\* The request, its plan and its reply keep their types: every request that ends
\* has a status, and a preview a risk and a number of cells.
THEOREM PlanTypeCorrect == PlanSpec => []PlanTypeOK
<1>1. PlanInv => PlanTypeOK
  BY DEF PlanInv
<1> QED BY <1>1, PlanInvariant, PTL

\* In a request, too, whether its first answer is the plan or the repaired one, no
\* cell of a protected or merged range is changed by a plan that is accepted.
THEOREM RequestKeepsGuarded == PlanSpec => []GuardedCellsAreKept
<1>1. PlanInv => GuardedCellsAreKept
  BY InvImplies DEF PlanInv
<1> QED BY <1>1, PlanInvariant, PTL

\* In a request, too, an accepted plan changes no more cells than the limit: what is
\* counted of each action is the size of its target, and the sum of the counts is no
\* less than the number of cells in all targets together.
THEOREM RequestIsBounded == PlanSpec => []ChangeIsBounded
<1>1. PlanInv => ChangeIsBounded
  BY InvImplies DEF PlanInv
<1> QED BY <1>1, PlanInvariant, PTL

\* Whatever the model declares, the preview a user approves names the highest risk
\* the registry gives to one of the actions, and no fewer cells than the plan
\* changes.
THEOREM PreviewsAreRecomputed == PlanSpec => []PreviewIsRecomputed
<1>1. ASSUME PlanInv PROVE PreviewIsRecomputed
  <2> SUFFICES ASSUME Previewed PROVE PreviewIsRecomputed
    BY DEF PreviewIsRecomputed
  <2>1. /\ Inv /\ NoOpsAreLow /\ Accepted
        /\ reply.risk = RiskOf(plan) /\ reply.cells = PlanChangedCells
    BY <1>1 DEF PlanInv, ReplyInv
  <2>2. /\ PlanChangedCells <= MaxChanged
        /\ Cardinality(ChangedBy(Len(plan))) <= PlanChangedCells
    BY <2>1, AcceptedTotal
  <2>3. PlanChangedCells >= Cardinality(ChangedBy(Len(plan)))
    BY <2>2
  <2>4. /\ plan = <<>> => reply.risk = "none"
        /\ plan # <<>> => \E n \in 1..Len(plan) : reply.risk = DefaultRisk(plan[n].type)
        /\ \A n \in 1..Len(plan) :
              Severity[DefaultRisk(plan[n].type)] <= Severity[reply.risk]
    BY <2>1, AcceptedRisk
  <2> QED BY <2>1, <2>2, <2>3, <2>4 DEF PreviewIsRecomputed, ChangedBy
<1> QED BY <1>1, PlanInvariant, PTL

\* Neither the ranges of a plan nor its missing the schema end a request in the
\* server's own error: a range of the request that cannot be read does, and an
\* answer that cannot be read in or written out.
THEOREM AnswersAreHandled == PlanSpec => []UnhandledOnlyForUnreadable
<1>1. PlanInv => UnhandledOnlyForUnreadable
  BY DEF PlanInv
<1> QED BY <1>1, PlanInvariant, PTL
=============================================================================
