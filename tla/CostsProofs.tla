---------------------------- MODULE CostsProofs ----------------------------
(***************************************************************************)
(* What TLAPS proves of Costs: lemmas on the median and on the rule, and   *)
(* then that each coroutine holds what the bills say, whatever the other   *)
(* does and however long a call takes.                                     *)
(***************************************************************************)
EXTENDS Costs, SlicesProofs

-----------------------------------------------------------------------------
(* The median.                                                             *)

\* There is a k-th smallest amount, and it is one of the amounts.
\* (statistics.median of cost_spike.evaluate)
LEMMA KthIsAnAmount ==
  ASSUME NEW D, IsFiniteSet(D), NEW p \in [D -> Nat], NEW k \in 1 .. Cardinality(D)
  PROVE  Kth(p, D, k) \in Nat
<1> DEFINE values == {p[d] : d \in D}
           Below(v) == {d \in D : p[d] < v}
           UpTo(v) == {d \in D : p[d] <= v}
           enough == {v \in values : k <= Cardinality(UpTo(v))}
<1>1. Cardinality(D) \in Nat /\ k \in Nat /\ k >= 1 /\ k <= Cardinality(D) /\ D # {}
  BY FS_CardinalityType, FS_EmptySet
<1>2. \A v \in Nat : /\ Below(v) \in SUBSET D /\ UpTo(v) \in SUBSET D
                     /\ IsFiniteSet(Below(v)) /\ IsFiniteSet(UpTo(v))
                     /\ Cardinality(Below(v)) \in Nat /\ Cardinality(UpTo(v)) \in Nat
  BY FS_Subset, FS_CardinalityType
<1>3. values \in SUBSET Nat /\ values # {} /\ IsFiniteSet(values)
  BY <1>1, ImageIsFinite
<1>4. enough # {}
  <2>1. Max(values) \in values /\ \A v \in values : Max(values) >= v
    <3> HIDE DEF values
    <3> QED
      BY <1>3, MaxIsGreatest
  <2>2. UpTo(Max(values)) = D
    BY <2>1
  <2> QED
    BY <1>1, <2>1, <2>2
<1>5. PICK v \in enough : \A u \in enough : v <= u
  <2>1. enough \in SUBSET Nat
    BY <1>3
  <2> HIDE DEF enough
  <2> QED
    BY <1>4, <2>1, LeastExists
<1>6. Cardinality(Below(v)) < k
  <2> SUFFICES ASSUME ~(Cardinality(Below(v)) < k) PROVE FALSE
    OBVIOUS
  <2>1. v \in Nat /\ v \in values /\ Cardinality(Below(v)) \in Nat
    BY <1>2, <1>3, <1>5
  <2>2. Cardinality(Below(v)) >= k
    BY <1>1, <2>1
  <2>3. Below(v) # {}
    BY <1>1, <2>2, FS_EmptySet
  <2> DEFINE under == {p[d] : d \in Below(v)}
  <2>4. under \in SUBSET Nat /\ under # {} /\ IsFiniteSet(under)
    BY <1>2, <2>1, <2>3, ImageIsFinite
  <2>5. Max(under) \in under /\ \A u \in under : Max(under) >= u
    <3> HIDE DEF under
    <3> QED
      BY <2>4, MaxIsGreatest
  <2>6. PICK u \in under : \A x \in under : u >= x
    BY <2>5
  <2>7. u \in values /\ u < v /\ u \in Nat
    BY <2>1, <2>6, <1>3
  <2>8. UpTo(u) = Below(v)
    <3>1. ASSUME NEW d \in D PROVE p[d] <= u <=> p[d] < v
      <4>1. p[d] \in Nat
        OBVIOUS
      <4>2. p[d] < v => p[d] \in under
        OBVIOUS
      <4> HIDE DEF under
      <4> QED
        BY <4>1, <4>2, <2>1, <2>6, <2>7
    <3> QED
      BY <3>1
  <2>9. u \in enough
    BY <2>2, <2>7, <2>8, <1>1, <2>1
  <2> QED
    BY <1>5, <2>1, <2>7, <2>9
<1>7. \E w \in values : /\ Cardinality(Below(w)) < k
                        /\ k <= Cardinality(UpTo(w))
  BY <1>5, <1>6
<1>8. Kth(p, D, k) \in values
  BY <1>7 DEF Kth
<1> QED
  BY <1>3, <1>8

\* Twice the median of a day or more is a number.
LEMMA MedianIsAnAmount ==
  ASSUME NEW D, IsFiniteSet(D), D # {}, NEW p \in [D -> Nat]
  PROVE  TwiceMedian(p, D) \in Nat
<1> DEFINE n == Cardinality(D)
<1>1. n \in Nat /\ n >= 1
  BY FS_CardinalityType, FS_EmptySet
<1>2. (n + 1) \div 2 \in 1 .. n /\ n \div 2 + 1 \in 1 .. n
  BY <1>1
<1>3. Kth(p, D, (n + 1) \div 2) \in Nat /\ Kth(p, D, n \div 2 + 1) \in Nat
  BY <1>2, KthIsAnAmount
<1> QED
  BY <1>3 DEF TwiceMedian

-----------------------------------------------------------------------------
(* A breakdown of one day.                                                 *)

\* Nothing adds up to nothing.
LEMMA TotalOfNothing ==
  ASSUME NEW p, DOMAIN p = {}
  PROVE  Total(p) = 0
BY DEF Total, SumFunction, SumFunctionOnSet, FoldFunctionOnSet, MapThenFoldSet

\* The rows of one day add up to that day.
LEMMA TotalOfOne ==
  ASSUME NEW d, NEW p \in [{d} -> Nat]
  PROVE  Total(p) = p[d]
<1> DEFINE Def(f) == f = [s \in SUBSET {d} |-> IF s = {} THEN 0
                            ELSE p[CHOOSE x \in s : TRUE] + f[s \ {CHOOSE x \in s : TRUE}]]
           g == [s \in SUBSET {d} |-> IF s = {} THEN 0 ELSE p[d]]
           f == CHOOSE h : Def(h)
<1>1. \A s \in SUBSET {d} : s = {} \/ s = {d}
  OBVIOUS
<1>2. (CHOOSE x \in {d} : TRUE) = d
  OBVIOUS
<1>3. Def(g)
  <2>1. ASSUME NEW s \in SUBSET {d}
        PROVE  g[s] = IF s = {} THEN 0
                      ELSE p[CHOOSE x \in s : TRUE] + g[s \ {CHOOSE x \in s : TRUE}]
    <3>1. CASE s = {}
      BY <3>1
    <3>2. CASE s = {d}
      <4>1. g[{d} \ {d}] = 0
        OBVIOUS
      <4>2. g[s] = p[d] /\ p[d] \in Nat
        BY <3>2
      <4> QED
        BY <3>2, <4>1, <4>2, <1>2
    <3> QED
      BY <1>1, <3>1, <3>2
  <2> QED
    BY <2>1
<1>4. Def(f)
  <2> HIDE DEF Def, g
  <2> QED
    BY <1>3
<1>5. f[{}] = 0
  BY <1>4
<1>6. f[{d}] = p[d] + f[{}]
  <2>1. f[{d}] = p[CHOOSE x \in {d} : TRUE] + f[{d} \ {CHOOSE x \in {d} : TRUE}]
    BY <1>4
  <2>2. {d} \ {d} = {}
    OBVIOUS
  <2> QED
    BY <2>1, <2>2, <1>2
<1>7. Total(p) = f[{d}]
  BY DOMAIN p = {d} DEF Total, SumFunction, SumFunctionOnSet, FoldFunctionOnSet, MapThenFoldSet
<1> QED
  BY <1>5, <1>6, <1>7
-----------------------------------------------------------------------------
(* The rule.                                                               *)

Paid(p) == {d \in DOMAIN p : p[d] > 0}

\* What a spike v is of the points p.
LastPaidDay(p, v) ==
    /\ v = [outcome |-> "spike", day |-> v.day, amount |-> v.amount, twice |-> v.twice]
    /\ v.day \in Paid(p) /\ \A d \in Paid(p) : d <= v.day
    /\ v.day = Max(Paid(p)) /\ v.amount = p[v.day] /\ v.amount \in Nat
    /\ v.twice = TwiceMedian(p, Base(Paid(p))) /\ v.twice \in Nat
    /\ Base(Paid(p)) # {}

\* A spike is the last day that cost something, with its amount; the median
\* is of one other day at least.  (cost_spike.evaluate)
LEMMA SpikeIsTheLastPaidDay ==
  ASSUME NEW D \in SUBSET Nat, IsFiniteSet(D), NEW p \in [D -> Nat],
         Evaluate(p).outcome = "spike"
  PROVE  LastPaidDay(p, Evaluate(p))
<1> DEFINE v == Evaluate(p)
           S == Paid(p)
           spike == [outcome |-> IF 200 * p[Max(S)] < Threshold * TwiceMedian(p, Base(S))
                                     \/ p[Max(S)] < MinAmount
                                 THEN "clear" ELSE "spike",
                     day |-> Max(S), amount |-> p[Max(S)], twice |-> TwiceMedian(p, Base(S))]
<1>1. /\ MinDays \in Nat \ {0}
      /\ DOMAIN p = D
  BY CostsAssumption
<1>2. v = IF Cardinality(S) < MinDays THEN [outcome |-> "no_data"]
          ELSE IF Base(S) = {} THEN [outcome |-> "error"] ELSE spike
  BY Zenon DEF Evaluate, Paid
<1> HIDE DEF v, S, spike
<1>3. ~(Cardinality(S) < MinDays) /\ Base(S) # {} /\ v = spike
  <2>1. v.outcome = "spike"
    BY DEF v
  <2> QED
    BY <1>2, <2>1
<1>4. /\ S \in SUBSET D /\ S \in SUBSET Int /\ S \in SUBSET Nat /\ IsFiniteSet(S)
      /\ Cardinality(S) \in Nat
  <2>1. S \in SUBSET D
    BY <1>1 DEF S, Paid
  <2>2. S \in SUBSET Int /\ S \in SUBSET Nat
    BY <2>1
  <2>3. IsFiniteSet(S) /\ Cardinality(S) \in Nat
    BY <2>1, FS_Subset, FS_CardinalityType
  <2> QED
    BY <2>1, <2>2, <2>3
<1>5. S # {}
  BY <1>1, <1>3, <1>4, FS_EmptySet
<1>6. Max(S) \in S /\ \A d \in S : Max(S) >= d
  BY <1>4, <1>5, MaxIsGreatest
<1>7. Base(S) \in SUBSET S /\ IsFiniteSet(Base(S))
  BY <1>4, FS_Subset DEF Base
<1>8. TwiceMedian(p, Base(S)) \in Nat
  <2> DEFINE q == [d \in Base(S) |-> p[d]]
  <2>1. q \in [Base(S) -> Nat]
    BY <1>4, <1>7
  <2>2. \A k : Kth(q, Base(S), k) = Kth(p, Base(S), k)
    <3> SUFFICES ASSUME NEW k PROVE Kth(q, Base(S), k) = Kth(p, Base(S), k)
      OBVIOUS
    <3>1. {q[d] : d \in Base(S)} = {p[d] : d \in Base(S)}
      OBVIOUS
    <3>2. \A w : /\ {d \in Base(S) : q[d] < w} = {d \in Base(S) : p[d] < w}
                 /\ {d \in Base(S) : q[d] <= w} = {d \in Base(S) : p[d] <= w}
      OBVIOUS
    <3> HIDE DEF q
    <3> QED
      BY <3>1, <3>2, Zenon DEF Kth
  <2>3. TwiceMedian(q, Base(S)) = TwiceMedian(p, Base(S))
    <3> DEFINE n == Cardinality(Base(S))
    <3>1. /\ Kth(q, Base(S), (n + 1) \div 2) = Kth(p, Base(S), (n + 1) \div 2)
          /\ Kth(q, Base(S), n \div 2 + 1) = Kth(p, Base(S), n \div 2 + 1)
      BY <2>2, Zenon
    <3> HIDE DEF q
    <3> QED
      BY <3>1, Zenon DEF TwiceMedian
  <2> HIDE DEF q
  <2> QED
    BY <1>3, <1>7, <2>1, <2>3, MedianIsAnAmount
<1>9. v.outcome = "spike" /\ v = spike
  BY <1>3 DEF v
<1>10. v = [outcome |-> "spike", day |-> Max(S), amount |-> p[Max(S)], twice |-> TwiceMedian(p, Base(S))]
  BY <1>9 DEF spike
<1>11. /\ v = [outcome |-> "spike", day |-> v.day, amount |-> v.amount, twice |-> v.twice]
       /\ v.day \in S /\ (\A d \in S : d <= v.day)
       /\ v.day = Max(S) /\ v.amount = p[v.day] /\ v.amount \in Nat
       /\ v.twice = TwiceMedian(p, Base(S)) /\ v.twice \in Nat
       /\ Base(S) # {}
  <2>1. v.day = Max(S) /\ v.amount = p[Max(S)] /\ v.twice = TwiceMedian(p, Base(S))
    BY <1>10
  <2>2. Max(S) \in Nat /\ p[Max(S)] \in Nat /\ \A d \in S : d \in Nat
    BY <1>4, <1>6
  <2>3. v.day \in S /\ (\A d \in S : d <= v.day)
    BY <1>6, <2>1, <2>2
  <2> QED
    BY <1>3, <1>8, <1>10, <2>1, <2>2, <2>3
<1> QED
  BY <1>11 DEF v, S, LastPaidDay

\* When every day cost something, the tool says what the detector says.
\* (tools_cost.cost_daily, cost_spike.evaluate)
LEMMA ToolSaysTheSame ==
  ASSUME NEW D \in SUBSET Nat, IsFiniteSet(D), NEW p \in [D -> Nat],
         Evaluate(p).outcome = "spike", \A d \in D : p[d] > 0
  PROVE  LET v == Evaluate(p)
         IN Daily(p) = [day |-> v.day, amount |-> v.amount, twice |-> v.twice]
<1> DEFINE v == Evaluate(p)
<1>1. Paid(p) = D
  BY DEF Paid
<1>2. /\ v.day \in D /\ v.day = Max(D) /\ v.amount = p[v.day]
      /\ v.twice = TwiceMedian(p, Base(D)) /\ Base(D) # {}
  BY <1>1, SpikeIsTheLastPaidDay DEF LastPaidDay
<1>3. Cardinality(D) > 1
  <2>1. /\ Cardinality(D) \in Nat /\ Cardinality(D \ {Max(D)}) = Cardinality(D) - 1
        /\ IsFiniteSet(D \ {Max(D)})
    BY <1>2, FS_RemoveElement, FS_CardinalityType
  <2>2. Cardinality(D \ {Max(D)}) \in Nat /\ Cardinality(D \ {Max(D)}) # 0
    BY <2>1, <1>2, FS_CardinalityType, FS_EmptySet DEF Base
  <2> QED
    BY <2>1, <2>2
<1>4. DOMAIN p = D /\ p # <<>>
  BY <1>2
<1> HIDE DEF v
<1>5. Daily(p) = [day |-> Max(D), amount |-> p[Max(D)], twice |-> TwiceMedian(p, D \ {Max(D)})]
  BY <1>3, <1>4 DEF Daily
<1>6. Daily(p) = [day |-> v.day, amount |-> v.amount, twice |-> v.twice]
  BY <1>2, <1>5 DEF Base
<1> QED
  BY <1>6 DEF v
-----------------------------------------------------------------------------
(* The inductive invariant.  Its parts take the adapter A, the history H   *)
(* and the day T they speak of, so that they are the same before and after *)
(* a step that leaves the clock alone.                                     *)

Lag(A) == AtLeast(0, LagOf[A])

\* BSS has no bill of today (cost_huawei_bss.py: lag_days is 1 unless the
\* file says otherwise).
BillsComeLate == "huawei_bss" \in Adapters => LagOf["huawei_bss"] >= 1

Windows == {w \in (1 .. LastDay) \X (1 .. LastDay) : w[1] <= w[2]}

\* What a window has in the end.
Bill(H, w) == [d \in (w[1] .. w[2]) \cap DOMAIN H |-> H[d]]
Expected(A, H, w) ==
    IF A = "promql"
    THEN [d \in {e \in w[1] .. w[2] : e - 1 \in DOMAIN H} |-> H[d - 1]]
    ELSE Bill(H, w)

\* What a finding says is the rule, applied to the bills of its window.
SoundFinding(A, H, f) ==
    /\ f \in Finding /\ f.window \in Windows
    /\ Evaluate(Expected(A, H, f.window)) =
           [outcome |-> "spike", day |-> f.day, amount |-> f.amount, twice |-> f.twice]
    /\ A = "huawei_bss" => f.split \in {f.amount, None}

\* A window that was asked for today or yesterday.
Recent(A, T, w) == w \in Windows /\ w[2] + Lag(A) \in {T - 1, T}

\* The bills of the cycles that have been read.
BillSoFar(H, w, left) ==
    [d \in {e \in (w[1] .. w[2]) \cap DOMAIN H : CycleOf[e] \notin left} |-> H[d]]

\* A read of the series of a window, or of the breakdown of what was found.
Reads(A, H, T, a, what, w, found) ==
    /\ what \in {"daily", "split"} /\ w \in Windows
    /\ found = None => Recent(A, T, w) /\ (a \in Runners => what = "daily")
    /\ found # None => /\ a \in Runners /\ what = "split"
                       /\ w = <<found.day, found.day>>
                       /\ SoundFinding(A, H, found) /\ Recent(A, T, found.window)

\* The rows of a read are those of its window.
RowsOf(A, H, what, w, found, rows) ==
    /\ A = "huawei_bss" => rows = Bill(H, w)
    /\ what = "daily" => rows = Expected(A, H, w)
    /\ found # None => Total(rows) \in Nat

Querying(A, H, T, a, t) ==
    /\ t.at = "query" /\ Reads(A, H, T, a, t.what, t.window, t.found) /\ A = "promql"
    /\ t = [at |-> "query", what |-> t.what, window |-> t.window, found |-> t.found]

Fetching(A, H, T, a, t) ==
    /\ t.at = "fetch" /\ Reads(A, H, T, a, t.what, t.window, t.found) /\ A = "huawei_bss"
    /\ t.left \subseteq Cycles(t.window)
    /\ t = [at |-> "fetch", what |-> t.what, window |-> t.window, found |-> t.found,
            left |-> t.left, rows |-> BillSoFar(H, t.window, t.left)]

HasRead(A, H, T, a, t) ==
    /\ t.at = "read" /\ Reads(A, H, T, a, t.what, t.window, t.found)
    /\ RowsOf(A, H, t.what, t.window, t.found, t.rows)

Announcing(A, H, T, a, t) ==
    /\ t.at = "announce" /\ a \in Runners
    /\ t.found # None /\ SoundFinding(A, H, t.found) /\ Recent(A, T, t.found.window)

\* A notice that is on its way was decided after its window was over.
Delivering(A, H, T, a, t) ==
    /\ t.at = "deliver" /\ a \in Runners
    /\ t.found # None /\ SoundFinding(A, H, t.found) /\ Recent(A, T, t.found.window)
    /\ t.since \in FirstDay .. T /\ t.found.window[2] + Lag(A) <= t.since

TaskIs(A, H, T, a, t) ==
    \/ t = Idle
    \/ Querying(A, H, T, a, t)
    \/ Fetching(A, H, T, a, t)
    \/ HasRead(A, H, T, a, t)
    \/ Announcing(A, H, T, a, t)
    \/ Delivering(A, H, T, a, t)

Clock ==
    /\ adapter \in Adapters /\ history \in Histories
    /\ today \in FirstDay .. LastDay /\ soFar \in Nat

CacheIs(H, C) ==
    \A w \in DOMAIN C : /\ C[w] = [rows |-> Bill(H, w), age |-> C[w].age]
                        /\ C[w].age \in 0 .. CacheTtl

\* A day is marked after it is over.
MarksAre(A, T, M) ==
    \A d \in DOMAIN M : d \in 1 .. LastDay /\ M[d] \in FirstDay .. T /\ d + Lag(A) <= M[d]

Counts == /\ times \in [1 .. LastDay -> Nat] /\ excused \in [1 .. LastDay -> Nat]
          /\ stops \in 0 .. MaxStops

ToldIs(A, H, T, n, s) ==
    /\ n # None => SoundFinding(A, H, n) /\ n.window[2] + Lag(A) <= T
    /\ s # None => s.said = Daily(Expected(A, H, s.window)) /\ s.window \in Windows

CostsSound ==
    /\ Clock
    /\ CacheIs(history, cache)
    /\ MarksAre(adapter, today, marks)
    /\ Counts
    /\ ToldIs(adapter, history, today, notice, answer)
    /\ task = [a \in Actors |-> task[a]]
    /\ \A a \in Actors : TaskIs(adapter, history, today, a, task[a])
-----------------------------------------------------------------------------
(* Windows and what is in them.                                            *)

\* The adapters, their lag and the first days.
LEMMA LagIsSmall ==
  ASSUME NEW A \in Adapters
  PROVE  /\ A \in {"huawei_bss", "promql"} /\ Lag(A) \in Nat
         /\ AtLeast(WindowDays, MaxDays) + Lag(A) < FirstDay
         /\ AtLeast(WindowDays, MaxDays) \in Nat
         /\ FirstDay \in Nat /\ LastDay \in Nat
         /\ BillsComeLate => (A = "huawei_bss" => Lag(A) >= 1)
BY CostsAssumption DEF Lag, AtLeast, BillsComeLate

\* A window has a first and a last day.
LEMMA WindowIsOfDays ==
  ASSUME NEW w \in Windows
  PROVE  /\ w[1] \in 1 .. LastDay /\ w[2] \in 1 .. LastDay
         /\ w[1] \in Nat /\ w[2] \in Nat /\ w[1] <= w[2]
<1>1. w \in (1 .. LastDay) \X (1 .. LastDay) /\ w[1] <= w[2]
  BY DEF Windows
<1>2. w[1] \in 1 .. LastDay /\ w[2] \in 1 .. LastDay
  BY <1>1
<1>3. LastDay \in Nat
  BY CostsAssumption
<1> QED
  BY <1>1, <1>2, <1>3

\* A bill is a number of a day of the calendar.
LEMMA HistoryIsNat ==
  ASSUME NEW H \in Histories
  PROVE  DOMAIN H \subseteq 1 .. LastDay /\ \A d \in DOMAIN H : H[d] \in Nat
BY CostsAssumption

\* What a window has is a series of days in it.
LEMMA ExpectedIsASeries ==
  ASSUME NEW A \in Adapters, NEW H \in Histories, NEW w \in Windows
  PROVE  /\ DOMAIN Expected(A, H, w) \in SUBSET (w[1] .. w[2])
         /\ DOMAIN Expected(A, H, w) \in SUBSET Nat
         /\ IsFiniteSet(DOMAIN Expected(A, H, w))
         /\ Expected(A, H, w) \in [DOMAIN Expected(A, H, w) -> Nat]
<1>1. w[1] \in Nat /\ w[2] \in Nat
  BY WindowIsOfDays
<1>2. w[1] .. w[2] \in SUBSET Nat /\ IsFiniteSet(w[1] .. w[2])
  <2>1. w[1] .. w[2] \in SUBSET Nat /\ w[1] \in Int /\ w[2] \in Int
    BY <1>1
  <2>2. IsFiniteSet(w[1] .. w[2])
    BY <2>1, FS_Interval
  <2> QED
    BY <2>1, <2>2
<1>3. /\ DOMAIN Expected(A, H, w) \in SUBSET (w[1] .. w[2])
      /\ Expected(A, H, w) \in [DOMAIN Expected(A, H, w) -> Nat]
  <2>1. CASE A = "promql"
    <3> DEFINE D == {e \in w[1] .. w[2] : e - 1 \in DOMAIN H}
    <3>1. Expected(A, H, w) = [d \in D |-> H[d - 1]]
      BY <2>1 DEF Expected
    <3>2. \A d \in D : H[d - 1] \in Nat
      BY HistoryIsNat
    <3>3. D \in SUBSET (w[1] .. w[2])
      OBVIOUS
    <3> HIDE DEF D
    <3> QED
      BY <3>1, <3>2, <3>3
  <2>2. CASE A # "promql"
    <3> DEFINE D == (w[1] .. w[2]) \cap DOMAIN H
    <3>1. Expected(A, H, w) = [d \in D |-> H[d]]
      BY <2>2 DEF Expected, Bill
    <3>2. \A d \in D : H[d] \in Nat
      BY HistoryIsNat
    <3>3. D \in SUBSET (w[1] .. w[2])
      OBVIOUS
    <3> HIDE DEF D
    <3> QED
      BY <3>1, <3>2, <3>3
  <2> QED
    BY <2>1, <2>2
<1>4. DOMAIN Expected(A, H, w) \in SUBSET Nat
  BY <1>2, <1>3
<1>5. IsFiniteSet(DOMAIN Expected(A, H, w))
  BY <1>2, <1>3, FS_Subset
<1> QED
  BY <1>3, <1>4, <1>5

\* The day of a finding is in its window, and nothing after it cost anything.
LEMMA FindingIsInWindow ==
  ASSUME NEW A \in Adapters, NEW H \in Histories, NEW f, SoundFinding(A, H, f)
  PROVE  /\ f.day \in DOMAIN Expected(A, H, f.window) /\ f.day \in f.window[1] .. f.window[2]
         /\ f.day \in 1 .. LastDay /\ f.window[2] \in 1 .. LastDay /\ f.window[1] \in 1 .. LastDay
         /\ f.amount = Expected(A, H, f.window)[f.day] /\ f.amount \in Nat
         /\ \A d \in DOMAIN Expected(A, H, f.window) :
               d > f.day => Expected(A, H, f.window)[d] = 0
<1> DEFINE p == Expected(A, H, f.window)
           v == Evaluate(p)
<1>1. /\ f.window \in Windows /\ f \in Finding
      /\ v = [outcome |-> "spike", day |-> f.day, amount |-> f.amount, twice |-> f.twice]
  BY DEF SoundFinding
<1>2. /\ DOMAIN p \in SUBSET (f.window[1] .. f.window[2]) /\ DOMAIN p \in SUBSET Nat
      /\ IsFiniteSet(DOMAIN p) /\ p \in [DOMAIN p -> Nat]
  BY <1>1, ExpectedIsASeries
<1> HIDE DEF p
<1>3. v.outcome = "spike" /\ v.day = f.day /\ v.amount = f.amount
  BY <1>1
<1>4. LastPaidDay(p, v)
  BY <1>2, <1>3, SpikeIsTheLastPaidDay
<1>5. /\ f.day \in Paid(p) /\ (\A d \in Paid(p) : d <= f.day)
      /\ f.amount = p[f.day] /\ f.amount \in Nat
  BY <1>3, <1>4 DEF LastPaidDay
<1>6. f.day \in DOMAIN p
  BY <1>5 DEF Paid
<1>7. \A d \in DOMAIN p : d > f.day => p[d] = 0
  <2> SUFFICES ASSUME NEW d \in DOMAIN p, d > f.day, p[d] # 0 PROVE FALSE
    OBVIOUS
  <2>1. d \in Nat /\ f.day \in Nat /\ p[d] \in Nat
    BY <1>2, <1>6
  <2>2. d \in Paid(p)
    BY <2>1 DEF Paid
  <2> QED
    BY <1>5, <2>1, <2>2
<1>8. f.window[1] \in 1 .. LastDay /\ f.window[2] \in 1 .. LastDay
  BY <1>1, WindowIsOfDays
<1>9. f.day \in f.window[1] .. f.window[2] /\ f.day \in 1 .. LastDay
  <2>1. f.day \in f.window[1] .. f.window[2]
    BY <1>2, <1>6
  <2>2. f.window[1] \in Nat /\ f.window[2] \in Nat /\ f.window[2] <= LastDay
    BY <1>1, <1>8, WindowIsOfDays, LagIsSmall
  <2>3. f.window[1] >= 1 /\ LastDay \in Nat
    BY <1>8, LagIsSmall
  <2> QED
    BY <2>1, <2>2, <2>3
<1> QED
  BY <1>5, <1>6, <1>7, <1>8, <1>9 DEF p

\* What was asked for is over, at BSS and for the rest as far as it goes.
LEMMA WindowIsOver ==
  ASSUME BillsComeLate, NEW A \in Adapters, NEW H \in Histories,
         NEW T \in FirstDay .. LastDay, NEW w, Recent(A, T, w)
  PROVE  w[2] <= T /\ (A = "huawei_bss" => w[2] < T)
<1>1. Lag(A) \in Nat /\ T \in Nat /\ (A = "huawei_bss" => Lag(A) >= 1)
  <2>1. FirstDay \in Nat
    BY LagIsSmall
  <2> QED
    BY <2>1, LagIsSmall
<1>2. w[2] \in Nat /\ (w[2] + Lag(A) = T - 1 \/ w[2] + Lag(A) = T)
  BY WindowIsOfDays DEF Recent
<1> QED
  BY <1>1, <1>2

\* And so is all that is read of BSS.
LEMMA ReadIsOver ==
  ASSUME BillsComeLate, NEW A \in Adapters, NEW H \in Histories,
         NEW T \in FirstDay .. LastDay, NEW a, NEW what, NEW w, NEW found,
         Reads(A, H, T, a, what, w, found), A = "huawei_bss"
  PROVE  w[2] < T
<1>1. CASE found = None
  BY <1>1, WindowIsOver DEF Reads
<1>2. CASE found # None
  <2>1. w[2] = found.day /\ SoundFinding(A, H, found) /\ Recent(A, T, found.window)
    BY <1>2 DEF Reads
  <2>2. found.window[2] < T /\ found.day \in 1 .. LastDay /\ found.window[2] \in 1 .. LastDay
        /\ found.window[1] \in 1 .. LastDay
        /\ found.day \in found.window[1] .. found.window[2]
    BY <2>1, WindowIsOver, FindingIsInWindow
  <2>3. found.day <= found.window[2] /\ found.day \in Nat /\ found.window[2] \in Nat /\ T \in Nat
    BY <2>2, LagIsSmall
  <2> QED
    BY <2>1, <2>2, <2>3
<1> QED
  BY <1>1, <1>2

\* The breakdown of a finding is a number, and at BSS it adds up.
\* (HuaweiBssCost.by_service)
LEMMA DayOfABill ==
  ASSUME NEW A \in Adapters, NEW H \in Histories, NEW f, SoundFinding(A, H, f),
         A = "huawei_bss"
  PROVE  Total(Bill(H, <<f.day, f.day>>)) = f.amount /\ f.amount \in Nat
<1>1. /\ f.day \in DOMAIN Bill(H, f.window) /\ f.day \in 1 .. LastDay
      /\ f.amount = Bill(H, f.window)[f.day] /\ f.amount \in Nat
  BY FindingIsInWindow DEF Expected
<1>2. f.day \in DOMAIN H /\ f.amount = H[f.day] /\ f.day \in Int
  BY <1>1, LagIsSmall DEF Bill
<1>3. (f.day .. f.day) \cap DOMAIN H = {f.day}
  BY <1>2
<1>4. Bill(H, <<f.day, f.day>>) = [d \in {f.day} |-> H[d]]
  BY <1>3 DEF Bill
<1> DEFINE q == [d \in {f.day} |-> H[d]]
<1>5. q \in [{f.day} -> Nat] /\ q[f.day] = f.amount
  BY <1>1, <1>2
<1> HIDE DEF q
<1>6. Total(q) = f.amount
  BY <1>5, TotalOfOne
<1> QED
  BY <1>1, <1>4, <1>6 DEF q
-----------------------------------------------------------------------------
(* A coroutine that reads.                                                 *)

\* Both windows that are asked for are of today.  (evaluate, _window)
LEMMA WindowIsRecent ==
  ASSUME Clock, NEW n \in Int, AtLeast(1, n) <= AtLeast(WindowDays, MaxDays)
  PROVE  Recent(adapter, today, Window(n))
<1>1. /\ adapter \in Adapters /\ today \in FirstDay .. LastDay
      /\ Lag(adapter) \in Nat /\ AtLeast(WindowDays, MaxDays) \in Nat
      /\ AtLeast(WindowDays, MaxDays) + Lag(adapter) < FirstDay
      /\ FirstDay \in Nat /\ LastDay \in Nat
  BY LagIsSmall DEF Clock
<1> DEFINE until == today - Lag(adapter)
           from == until - AtLeast(1, n) + 1
<1>2. AtLeast(1, n) \in Nat /\ AtLeast(1, n) >= 1
  BY DEF AtLeast
<1>3. from \in 1 .. LastDay /\ until \in 1 .. LastDay /\ from <= until /\ until + Lag(adapter) = today
  BY <1>1, <1>2
<1>4. Window(n) = <<from, until>>
  BY DEF Window, Lag
<1> HIDE DEF from, until
<1>5. Window(n)[2] = until /\ Window(n)[1] = from
  BY <1>4
<1>6. Window(n) \in Windows
  BY <1>3, <1>4, <1>5 DEF Windows
<1> QED
  BY <1>3, <1>5, <1>6 DEF Recent

\* A read begins soundly, with what is in the cache as well.
LEMMA ReadingIsSound ==
  ASSUME BillsComeLate, Clock, CacheIs(history, cache), NEW a, NEW what, NEW w, NEW found,
         Reads(adapter, history, today, a, what, w, found)
  PROVE  TaskIs(adapter, history, today, a, Reading(what, w, found))
<1> DEFINE t == Reading(what, w, found)
<1>1. adapter \in {"huawei_bss", "promql"} /\ adapter \in Adapters /\ history \in Histories
  BY LagIsSmall DEF Clock
<1>2. CASE adapter = "promql"
  <2>1. t = [at |-> "query", what |-> what, window |-> w, found |-> found]
    BY <1>2 DEF Reading
  <2> HIDE DEF t
  <2>2. Querying(adapter, history, today, a, t)
    BY <1>2, <2>1 DEF Querying
  <2> QED
    BY <2>2 DEF TaskIs, t
<1>3. CASE adapter # "promql" /\ w \in Alive
  <2>1. t = [at |-> "read", what |-> what, window |-> w, found |-> found, rows |-> cache[w].rows]
    BY <1>3 DEF Reading
  <2>2. cache[w].rows = Bill(history, w)
    BY <1>3 DEF Alive, CacheIs
  <2>3. found # None => Total(Bill(history, w)) \in Nat
    <3> SUFFICES ASSUME found # None PROVE Total(Bill(history, w)) \in Nat
      OBVIOUS
    <3>1. w = <<found.day, found.day>> /\ SoundFinding(adapter, history, found)
      BY DEF Reads
    <3> QED
      BY <1>1, <1>3, <3>1, DayOfABill
  <2>4. RowsOf(adapter, history, what, w, found, cache[w].rows)
    BY <1>3, <2>2, <2>3 DEF RowsOf, Expected
  <2> HIDE DEF t
  <2>5. HasRead(adapter, history, today, a, t)
    BY <2>1, <2>4 DEF HasRead
  <2> QED
    BY <2>5 DEF TaskIs, t
<1>4. CASE adapter # "promql" /\ w \notin Alive
  <2>1. t = [at |-> "fetch", what |-> what, window |-> w, found |-> found, left |-> Cycles(w),
             rows |-> <<>>]
    BY <1>4 DEF Reading
  <2>2. <<>> = BillSoFar(history, w, Cycles(w))
    <3>1. {e \in (w[1] .. w[2]) \cap DOMAIN history : CycleOf[e] \notin Cycles(w)} = {}
      BY DEF Cycles
    <3>2. BillSoFar(history, w, Cycles(w)) = [d \in {} |-> history[d]]
      BY <3>1 DEF BillSoFar
    <3>3. <<>> = [d \in {} |-> history[d]]
      OBVIOUS
    <3> QED
      BY <3>2, <3>3
  <2> HIDE DEF t
  <2>3. Fetching(adapter, history, today, a, t)
    BY <1>1, <1>4, <2>1, <2>2 DEF Fetching
  <2> QED
    BY <2>3 DEF TaskIs, t
<1> QED
  BY <1>2, <1>3, <1>4

\* One more cycle, and the bill is whole up to there: a day of it is over.
\* (cost_huawei_bss._months, _fetch_sync)
LEMMA CycleIsRead ==
  ASSUME BillsComeLate, Clock, NEW w \in Windows, w[2] < today,
         NEW left, left \subseteq Cycles(w), NEW cycle \in left,
         NEW rows, rows = BillSoFar(history, w, left),
         NEW new, new = Part(w, cycle) \cap Days(1, today)
  PROVE  WithCycle(rows, new) = BillSoFar(history, w, left \ {cycle})
<1> DEFINE old == {e \in (w[1] .. w[2]) \cap DOMAIN history : CycleOf[e] \notin left}
           all == {e \in (w[1] .. w[2]) \cap DOMAIN history : CycleOf[e] \notin left \ {cycle}}
<1>1. w[1] \in 1 .. LastDay /\ w[2] \in Nat /\ w[1] \in Nat /\ today \in Nat
  BY WindowIsOfDays, LagIsSmall DEF Clock
<1>2. new = {e \in (w[1] .. w[2]) \cap DOMAIN history : CycleOf[e] = cycle}
  <2>1. \A e \in w[1] .. w[2] : e \in 1 .. today /\ e <= today
    BY <1>1
  <2> QED
    BY <2>1 DEF Part, Days
<1>3. DOMAIN rows = old /\ all = old \cup new /\ \A d \in old : rows[d] = history[d]
  <2>1. DOMAIN rows = old /\ \A d \in old : rows[d] = history[d]
    BY DEF BillSoFar
  <2>2. all = old \cup new
    BY <1>2
  <2> QED
    BY <2>1, <2>2
<1>4. \A d \in new : Billed(d) = history[d]
  BY <1>1, <1>2 DEF Billed
<1> HIDE DEF old
<1>5. WithCycle(rows, new) = [d \in all |-> history[d]]
  BY <1>3, <1>4 DEF WithCycle
<1>6. BillSoFar(history, w, left \ {cycle}) = [d \in all |-> history[d]]
  BY DEF BillSoFar
<1> QED
  BY <1>5, <1>6

\* A query is answered with what the window has in the end: its days are over,
\* or the sample that bears their date is of a day that is.
\* (PromqlCost.daily_series, _slices)
LEMMA QueryIsAnswered ==
  ASSUME BillsComeLate, Clock, adapter = "promql", NEW a, NEW what, NEW w, NEW found,
         Reads(adapter, history, today, a, what, w, found)
  PROVE  RowsOf(adapter, history, what, w, found,
                IF what = "daily" THEN PromqlSeries(w) ELSE PromqlSplit(w))
<1>1. /\ adapter \in Adapters /\ history \in Histories /\ w \in Windows
      /\ today \in FirstDay .. LastDay /\ soFar \in Nat /\ today \in Nat
  BY LagIsSmall DEF Clock, Reads
<1>2. ASSUME what = "daily" PROVE PromqlSeries(w) = Expected(adapter, history, w)
  <2>1. w[2] <= today
    BY <1>1, <1>2, WindowIsOver DEF Reads
  <2>2. \A e \in w[1] .. w[2] : e \in Int /\ e <= today
    BY <1>1, <2>1, WindowIsOfDays
  <2>3. \A e \in w[1] .. w[2] : e - 1 \in Days(0, today) <=> e - 1 \in DOMAIN history
    <3>1. \A d \in DOMAIN history : d \in Nat
      BY <1>1, HistoryIsNat
    <3> QED
      BY <1>1, <2>2, <3>1 DEF Days
  <2>4. \A e \in w[1] .. w[2] : Billed(e - 1) = history[e - 1]
    BY <1>1, <2>2 DEF Billed
  <2> QED
    BY <2>3, <2>4 DEF PromqlSeries, Expected
<1>3. ASSUME what # "daily", found # None PROVE Total(PromqlSplit(w)) \in Nat
  <2>1. w = <<found.day, found.day>> /\ SoundFinding(adapter, history, found)
    BY <1>3 DEF Reads
  <2>2. found.day \in Int /\ w[1] = found.day /\ w[2] = found.day
    BY <1>1, <2>1, FindingIsInWindow
  <2>3. Days(w[1], w[2]) \in {{}, {found.day}}
    BY <2>2 DEF Days
  <2>4. CASE Days(w[1], w[2]) = {}
    BY <2>4, TotalOfNothing DEF PromqlSplit
  <2>5. CASE Days(w[1], w[2]) = {found.day}
    <3>1. found.day \in DOMAIN history
      BY <2>5 DEF Days
    <3>2. Billed(found.day) \in Nat
      BY <1>1, <3>1, HistoryIsNat DEF Billed
    <3> DEFINE q == [d \in {found.day} |-> Billed(d)]
    <3>3. q \in [{found.day} -> Nat] /\ PromqlSplit(w) = q
      BY <2>5, <3>2 DEF PromqlSplit
    <3> HIDE DEF q
    <3> QED
      BY <3>3, TotalOfOne
  <2> QED
    BY <2>3, <2>4, <2>5
<1>4. what = "daily" => found = None
  BY DEF Reads
<1> QED
  BY <1>2, <1>3, <1>4 DEF RowsOf
-----------------------------------------------------------------------------
(* Every step keeps it.                                                    *)

\* A coroutine that goes on soundly leaves the other as it is.
LEMMA OneTaskChanges ==
  ASSUME CostsSound, NEW a \in Actors, NEW t, Goes(a, t), UNCHANGED clock,
         TaskIs(adapter, history, today, a, t)
  PROVE  /\ task' = [b \in Actors |-> task'[b]]
         /\ \A b \in Actors : TaskIs(adapter', history', today', b, task'[b])
<1>1. /\ task = [b \in Actors |-> task[b]]
      /\ \A b \in Actors : TaskIs(adapter, history, today, b, task[b])
  BY DEF CostsSound
<1>2. task' = [b \in Actors |-> IF b = a THEN t ELSE task[b]]
  BY <1>1 DEF Goes
<1>3. adapter' = adapter /\ history' = history /\ today' = today
  BY DEF clock
<1>4. \A b \in Actors : TaskIs(adapter, history, today, b, task'[b])
  BY <1>1, <1>2
<1>5. task' = [b \in Actors |-> task'[b]]
  BY <1>2
<1> QED
  BY <1>3, <1>4, <1>5

\* The same for a step that changes nothing else.
LEMMA OnlyATaskChanges ==
  ASSUME CostsSound, NEW a \in Actors, NEW t, Goes(a, t),
         UNCHANGED <<clock, cache, marks, notice, answer, counts, stops>>,
         TaskIs(adapter, history, today, a, t)
  PROVE  CostsSound'
<1>1. /\ task' = [b \in Actors |-> task'[b]]
      /\ \A b \in Actors : TaskIs(adapter', history', today', b, task'[b])
  BY OneTaskChanges
<1>2. /\ adapter' = adapter /\ history' = history /\ today' = today /\ soFar' = soFar
      /\ cache' = cache /\ marks' = marks /\ notice' = notice /\ answer' = answer
      /\ times' = times /\ excused' = excused /\ stops' = stops
  BY DEF clock, counts
<1>3. Clock'
  BY <1>2 DEF CostsSound, Clock
<1>4. CacheIs(history', cache') /\ MarksAre(adapter', today', marks') /\ Counts'
  BY <1>2 DEF CostsSound, Counts
<1>5. ToldIs(adapter', history', today', notice', answer')
  BY <1>2 DEF CostsSound
<1> QED
  BY <1>1, <1>3, <1>4, <1>5 DEF CostsSound

\* Idle is not one of the others.
LEMMA TaskAt ==
  ASSUME NEW A, NEW H, NEW T, NEW a, NEW t, TaskIs(A, H, T, a, t)
  PROVE  /\ t.at \in {"idle", "query", "fetch", "read", "announce", "deliver"}
         /\ t.at = "idle" => t = Idle
         /\ t.at = "query" => Querying(A, H, T, a, t)
         /\ t.at = "fetch" => Fetching(A, H, T, a, t)
         /\ t.at = "read" => HasRead(A, H, T, a, t)
         /\ t.at = "announce" => Announcing(A, H, T, a, t)
         /\ t.at = "deliver" => Delivering(A, H, T, a, t)
<1>1. Idle.at = "idle"
  BY DEF Idle
<1>2. /\ Querying(A, H, T, a, t) => t.at = "query"
      /\ Fetching(A, H, T, a, t) => t.at = "fetch"
      /\ HasRead(A, H, T, a, t) => t.at = "read"
      /\ Announcing(A, H, T, a, t) => t.at = "announce"
      /\ Delivering(A, H, T, a, t) => t.at = "deliver"
  BY DEF Querying, Fetching, HasRead, Announcing, Delivering
<1> QED
  BY <1>1, <1>2 DEF TaskIs

LEMMA RunIsSound ==
  ASSUME BillsComeLate, CostsSound, NEW a \in Runners, Run(a)
  PROVE  CostsSound'
<1> DEFINE w == Window(WindowDays)
<1>1. Clock /\ CacheIs(history, cache) /\ a \in Actors
  BY DEF CostsSound, Actors
<1>2. WindowDays \in Int /\ AtLeast(1, WindowDays) <= AtLeast(WindowDays, MaxDays)
  BY CostsAssumption DEF AtLeast
<1>3. Recent(adapter, today, w)
  BY <1>1, <1>2, WindowIsRecent
<1> HIDE DEF w
<1>4. Reads(adapter, history, today, a, "daily", w, None)
  BY <1>3 DEF Reads, Recent
<1>5. TaskIs(adapter, history, today, a, Reading("daily", w, None))
  BY <1>1, <1>4, ReadingIsSound
<1>6. Goes(a, Reading("daily", w, None)) /\ UNCHANGED <<clock, cache, marks, notice, answer, counts, stops>>
  BY DEF Run, w
<1> QED
  BY <1>1, <1>5, <1>6, OnlyATaskChanges

LEMMA AskIsSound ==
  ASSUME BillsComeLate, CostsSound, Ask
  PROVE  CostsSound'
<1>1. Clock /\ CacheIs(history, cache) /\ Agent \in Actors /\ Agent \notin Runners
  BY CostsAssumption DEF CostsSound, Actors
<1>2. PICK days \in AskedDays, what \in {"daily", "split"} :
         Goes(Agent, Reading(what, ToolWindow(days), None))
  BY DEF Ask
<1> DEFINE n == AtMost(MaxDays, AtLeast(1, days))
           w == Window(n)
<1>3. n \in Int /\ AtLeast(1, n) <= AtLeast(WindowDays, MaxDays)
  BY CostsAssumption DEF AtLeast, AtMost
<1> HIDE DEF n
<1>4. Recent(adapter, today, w)
  BY <1>1, <1>3, WindowIsRecent
<1>5. ToolWindow(days) = w
  BY DEF ToolWindow, n
<1> HIDE DEF w
<1>6. Reads(adapter, history, today, Agent, what, w, None)
  BY <1>1, <1>4 DEF Reads, Recent
<1>7. TaskIs(adapter, history, today, Agent, Reading(what, w, None))
  BY <1>1, <1>6, ReadingIsSound
<1>8. Goes(Agent, Reading(what, w, None)) /\ UNCHANGED <<clock, cache, marks, notice, answer, counts, stops>>
  BY <1>2, <1>5 DEF Ask
<1> QED
  BY <1>1, <1>7, <1>8, OnlyATaskChanges

LEMMA ReadCycleIsSound ==
  ASSUME BillsComeLate, CostsSound, NEW a \in Actors, ReadCycle(a)
  PROVE  CostsSound'
<1> DEFINE t == task[a]
           cycle == Min(t.left)
           new == Part(t.window, cycle) \cap Days(1, today)
           rows == WithCycle(t.rows, new)
           u == [at |-> "fetch", what |-> t.what, window |-> t.window, found |-> t.found,
                 left |-> t.left \ {cycle}, rows |-> rows]
<1>1. /\ t.at = "fetch" /\ t.left # {} /\ Goes(a, u)
      /\ UNCHANGED <<clock, cache, marks, notice, answer, counts, stops>>
  BY DEF ReadCycle
<1> HIDE DEF t, cycle, new, rows, u
<1>2. Clock /\ TaskIs(adapter, history, today, a, t)
  BY DEF CostsSound, t
<1>3. Fetching(adapter, history, today, a, t)
  BY <1>1, <1>2, TaskAt
<1>4. /\ Reads(adapter, history, today, a, t.what, t.window, t.found)
      /\ adapter = "huawei_bss" /\ t.left \subseteq Cycles(t.window) /\ t.window \in Windows
      /\ t = [at |-> "fetch", what |-> t.what, window |-> t.window, found |-> t.found,
              left |-> t.left, rows |-> t.rows]
      /\ t.rows = BillSoFar(history, t.window, t.left)
  BY <1>3 DEF Fetching, Reads
<1>5. t.window[2] < today
  BY <1>2, <1>4, ReadIsOver DEF Clock
<1>6. cycle \in t.left
  <2>1. /\ t.window[1] \in Int /\ t.window[2] \in Int
        /\ \A d \in t.window[1] .. t.window[2] : d \in 1 .. LastDay
    <3>1. /\ t.window[1] \in Nat /\ t.window[2] \in Nat /\ t.window[1] \in 1 .. LastDay
          /\ t.window[2] \in 1 .. LastDay
      BY <1>4, WindowIsOfDays
    <3>2. LastDay \in Nat
      BY CostsAssumption
    <3> QED
      BY <3>1, <3>2
  <2>2. Cycles(t.window) \in SUBSET Int
    <3>1. \A d \in 1 .. LastDay : CycleOf[d] \in Nat
      BY CostsAssumption
    <3> QED
      BY <2>1, <3>1 DEF Cycles
  <2>3. IsFiniteSet(Cycles(t.window))
    <3>1. IsFiniteSet(t.window[1] .. t.window[2])
      BY <2>1, FS_Interval
    <3>2. IsFiniteSet({CycleOf[d] : d \in t.window[1] .. t.window[2]})
      BY <3>1, ImageIsFinite
    <3> QED
      BY <3>2 DEF Cycles
  <2>4. t.left \in SUBSET Int /\ IsFiniteSet(t.left)
    <3>1. t.left \in SUBSET Int
      BY <1>4, <2>2
    <3>2. IsFiniteSet(t.left)
      BY <1>4, <2>3, FS_Subset
    <3> QED
      BY <3>1, <3>2
  <2> QED
    BY <1>1, <2>4, MinIsLeast DEF cycle
<1>7. rows = BillSoFar(history, t.window, t.left \ {cycle})
  <2>1. new = Part(t.window, cycle) \cap Days(1, today)
    BY DEF new
  <2> QED
    BY <1>2, <1>4, <1>5, <1>6, <2>1, CycleIsRead DEF rows
<1>8. u = [at |-> "fetch", what |-> t.what, window |-> t.window, found |-> t.found,
           left |-> t.left \ {cycle}, rows |-> BillSoFar(history, t.window, t.left \ {cycle})]
  BY <1>7 DEF u
<1>9. Fetching(adapter, history, today, a, u)
  BY <1>4, <1>8 DEF Fetching
<1>10. TaskIs(adapter, history, today, a, u)
  BY <1>9 DEF TaskIs
<1> QED
  BY <1>1, <1>10, OnlyATaskChanges
LEMMA StoreIsSound ==
  ASSUME CostsSound, NEW a \in Actors, Store(a)
  PROVE  CostsSound'
<1> DEFINE t == task[a]
           u == [at |-> "read", what |-> t.what, window |-> t.window, found |-> t.found,
                 rows |-> t.rows]
<1>1. /\ t.at = "fetch" /\ t.left = {} /\ cache' = Stored(t.window, t.rows) /\ Goes(a, u)
      /\ UNCHANGED <<clock, marks, notice, answer, counts, stops>>
  BY DEF Store
<1> HIDE DEF t, u
<1>2. Clock /\ TaskIs(adapter, history, today, a, t) /\ CacheIs(history, cache)
  BY DEF CostsSound, t
<1>3. Fetching(adapter, history, today, a, t)
  BY <1>1, <1>2, TaskAt
<1>4. /\ Reads(adapter, history, today, a, t.what, t.window, t.found)
      /\ adapter = "huawei_bss" /\ t.rows = BillSoFar(history, t.window, {})
  BY <1>1, <1>3 DEF Fetching
<1>5. t.rows = Bill(history, t.window)
  BY <1>4 DEF BillSoFar, Bill
<1>6. t.found # None => Total(Bill(history, t.window)) \in Nat
  <2> SUFFICES ASSUME t.found # None PROVE Total(Bill(history, t.window)) \in Nat
    OBVIOUS
  <2>1. t.window = <<t.found.day, t.found.day>> /\ SoundFinding(adapter, history, t.found)
    BY <1>4 DEF Reads
  <2> QED
    BY <1>2, <1>4, <2>1, DayOfABill DEF Clock
<1>7. RowsOf(adapter, history, t.what, t.window, t.found, t.rows)
  BY <1>4, <1>5, <1>6 DEF RowsOf, Expected
<1>8. HasRead(adapter, history, today, a, u)
  BY <1>4, <1>7 DEF HasRead, u
<1>9. TaskIs(adapter, history, today, a, u)
  BY <1>8 DEF TaskIs
<1>10. /\ task' = [b \in Actors |-> task'[b]]
       /\ \A b \in Actors : TaskIs(adapter', history', today', b, task'[b])
  BY <1>1, <1>9, OneTaskChanges
<1>11. /\ adapter' = adapter /\ history' = history /\ today' = today /\ soFar' = soFar
       /\ marks' = marks /\ notice' = notice /\ answer' = answer
       /\ times' = times /\ excused' = excused /\ stops' = stops
  BY <1>1 DEF clock, counts
<1>12. CacheIs(history', cache')
  <2>1. 0 \in 0 .. CacheTtl
    BY CostsAssumption
  <2>2. \A v \in Alive : v \in DOMAIN cache
    BY DEF Alive
  <2>3. /\ DOMAIN cache' = Alive \cup {t.window}
        /\ cache'[t.window] = [rows |-> Bill(history, t.window), age |-> 0]
        /\ \A v \in Alive : v # t.window => cache'[v] = cache[v]
    BY <1>1, <1>5 DEF Stored
  <2>4. \A v \in DOMAIN cache' : /\ cache'[v] = [rows |-> Bill(history, v), age |-> cache'[v].age]
                                 /\ cache'[v].age \in 0 .. CacheTtl
    BY <1>2, <2>1, <2>2, <2>3 DEF CacheIs
  <2> QED
    BY <1>11, <2>4 DEF CacheIs
<1>13. Clock' /\ MarksAre(adapter', today', marks') /\ Counts'
       /\ ToldIs(adapter', history', today', notice', answer')
  BY <1>11 DEF CostsSound, Clock, Counts
<1> QED
  BY <1>10, <1>12, <1>13 DEF CostsSound

LEMMA AnswerIsSound ==
  ASSUME BillsComeLate, CostsSound, NEW a \in Actors, Answer(a)
  PROVE  CostsSound'
<1> DEFINE t == task[a]
           rows == IF t.what = "daily" THEN PromqlSeries(t.window) ELSE PromqlSplit(t.window)
           u == [at |-> "read", what |-> t.what, window |-> t.window, found |-> t.found,
                 rows |-> rows]
<1>1. /\ t.at = "query" /\ Goes(a, u)
      /\ UNCHANGED <<clock, cache, marks, notice, answer, counts, stops>>
  BY DEF Answer
<1> HIDE DEF t
<1>2. Clock /\ TaskIs(adapter, history, today, a, t)
  BY DEF CostsSound, t
<1>3. Querying(adapter, history, today, a, t)
  BY <1>1, <1>2, TaskAt
<1>4. Reads(adapter, history, today, a, t.what, t.window, t.found) /\ adapter = "promql"
  BY <1>3 DEF Querying
<1>5. RowsOf(adapter, history, t.what, t.window, t.found, rows)
  BY <1>2, <1>4, QueryIsAnswered
<1> HIDE DEF rows
<1>6. HasRead(adapter, history, today, a, u)
  BY <1>4, <1>5 DEF HasRead
<1>7. TaskIs(adapter, history, today, a, u)
  BY <1>6 DEF TaskIs
<1> QED
  BY <1>1, <1>7, OnlyATaskChanges

LEMMA FailsIsSound ==
  ASSUME CostsSound, NEW a \in Actors, Fails(a)
  PROVE  CostsSound'
<1> DEFINE t == task[a]
           u == [at |-> "announce", found |-> t.found]
<1>1. /\ t.at \in {"query", "fetch"} /\ Goes(a, IF t.found = None THEN Idle ELSE u)
      /\ UNCHANGED <<clock, cache, marks, notice, answer, counts, stops>>
  BY DEF Fails
<1> HIDE DEF t
<1>2. Clock /\ TaskIs(adapter, history, today, a, t)
  BY DEF CostsSound, t
<1>3. Querying(adapter, history, today, a, t) \/ Fetching(adapter, history, today, a, t)
  BY <1>1, <1>2, TaskAt
<1>4. Reads(adapter, history, today, a, t.what, t.window, t.found)
  BY <1>3 DEF Querying, Fetching
<1>5. CASE t.found = None
  <2>1. TaskIs(adapter, history, today, a, Idle)
    BY DEF TaskIs
  <2> QED
    BY <1>1, <1>5, <2>1, OnlyATaskChanges
<1>6. CASE t.found # None
  <2>1. Announcing(adapter, history, today, a, u)
    BY <1>4, <1>6 DEF Reads, Announcing
  <2>2. TaskIs(adapter, history, today, a, u)
    BY <2>1 DEF TaskIs
  <2> QED
    BY <1>1, <1>6, <2>2, OnlyATaskChanges
<1> QED
  BY <1>5, <1>6

LEMMA TellIsSound ==
  ASSUME CostsSound, Tell
  PROVE  CostsSound'
<1> DEFINE t == task[Agent]
<1>1. /\ t.at = "read" /\ Goes(Agent, Idle) /\ Agent \in Actors
      /\ answer' = IF t.what = "daily" THEN [window |-> t.window, said |-> Daily(t.rows)] ELSE answer
      /\ UNCHANGED <<clock, cache, marks, notice, counts, stops>>
  BY DEF Tell, Actors
<1> HIDE DEF t
<1>2. TaskIs(adapter, history, today, Agent, t) /\ ToldIs(adapter, history, today, notice, answer)
  BY <1>1 DEF CostsSound, t
<1>3. HasRead(adapter, history, today, Agent, t)
  BY <1>1, <1>2, TaskAt
<1>4. /\ t.window \in Windows
      /\ t.what = "daily" => t.rows = Expected(adapter, history, t.window)
  BY <1>3 DEF HasRead, RowsOf, Reads
<1>5. /\ adapter' = adapter /\ history' = history /\ today' = today /\ soFar' = soFar
      /\ cache' = cache /\ marks' = marks /\ notice' = notice
      /\ times' = times /\ excused' = excused /\ stops' = stops
  BY <1>1 DEF clock, counts
<1>6. ToldIs(adapter, history, today, notice, answer')
  <2>1. CASE t.what = "daily"
    <3>1. answer'.said = Daily(Expected(adapter, history, answer'.window)) /\ answer'.window \in Windows
      BY <1>1, <1>4, <2>1
    <3> QED
      BY <1>2, <3>1 DEF ToldIs
  <2>2. CASE t.what # "daily"
    BY <1>1, <1>2, <2>2
  <2> QED
    BY <2>1, <2>2
<1>7. TaskIs(adapter, history, today, Agent, Idle)
  BY DEF TaskIs
<1>8. /\ task' = [b \in Actors |-> task'[b]]
      /\ \A b \in Actors : TaskIs(adapter', history', today', b, task'[b])
  BY <1>1, <1>7, OneTaskChanges
<1>9. Clock' /\ MarksAre(adapter', today', marks') /\ Counts' /\ CacheIs(history', cache')
      /\ ToldIs(adapter', history', today', notice', answer')
  BY <1>5, <1>6 DEF CostsSound, Clock, Counts
<1> QED
  BY <1>8, <1>9 DEF CostsSound

\* A spike is looked into as it was found.  (cost_spike.evaluate)
LEMMA JudgeIsSound ==
  ASSUME BillsComeLate, CostsSound, NEW a \in Runners, Judge(a)
  PROVE  CostsSound'
<1> DEFINE t == task[a]
           v == Evaluate(t.rows)
           f == [day |-> v.day, amount |-> v.amount, twice |-> v.twice, window |-> t.window,
                 split |-> None]
           u == Reading("split", <<v.day, v.day>>, f)
<1>1. /\ t.at = "read" /\ t.what = "daily" /\ a \in Actors
      /\ Goes(a, IF v.outcome # "spike" THEN Idle ELSE u)
      /\ UNCHANGED <<clock, cache, marks, notice, answer, counts, stops>>
  BY DEF Judge, Actors
<1> HIDE DEF t
<1>2. /\ Clock /\ CacheIs(history, cache) /\ adapter \in Adapters /\ history \in Histories
      /\ TaskIs(adapter, history, today, a, t)
  BY <1>1 DEF CostsSound, Clock, t
<1>3. HasRead(adapter, history, today, a, t)
  BY <1>1, <1>2, TaskAt
<1>4. /\ t.window \in Windows /\ Recent(adapter, today, t.window)
      /\ t.rows = Expected(adapter, history, t.window)
  BY <1>1, <1>3 DEF HasRead, RowsOf, Reads
<1>5. CASE v.outcome # "spike"
  <2>1. TaskIs(adapter, history, today, a, Idle)
    BY DEF TaskIs
  <2> QED
    BY <1>1, <1>5, <2>1, OnlyATaskChanges
<1>6. CASE v.outcome = "spike"
  <2>1. LastPaidDay(t.rows, v)
    BY <1>2, <1>4, <1>6, ExpectedIsASeries, SpikeIsTheLastPaidDay
  <2>2. /\ v = [outcome |-> "spike", day |-> v.day, amount |-> v.amount, twice |-> v.twice]
        /\ v.day \in DOMAIN t.rows /\ v.amount \in Nat /\ v.twice \in Nat
    BY <2>1 DEF LastPaidDay, Paid
  <2>3. v.day \in t.window[1] .. t.window[2]
    BY <1>2, <1>4, <2>2, ExpectedIsASeries
  <2>4. v.day \in 1 .. LastDay
    <3>1. /\ t.window[1] \in Nat /\ t.window[2] \in Nat /\ t.window[1] \in 1 .. LastDay
          /\ t.window[2] \in 1 .. LastDay
      BY <1>4, WindowIsOfDays
    <3>2. LastDay \in Nat
      BY CostsAssumption
    <3> QED
      BY <2>3, <3>1, <3>2
  <2>5. t.window \in Nat \X Nat
    <3>1. t.window \in (1 .. LastDay) \X (1 .. LastDay)
      BY <1>4 DEF Windows
    <3>2. LastDay \in Nat
      BY CostsAssumption
    <3> QED
      BY <3>1, <3>2
  <2>6. /\ f.day = v.day /\ f.amount = v.amount /\ f.twice = v.twice /\ f.window = t.window
        /\ f.split = None
    OBVIOUS
  <2> HIDE DEF v
  <2>7. f \in Finding
    BY <2>2, <2>4, <2>5 DEF Finding
  <2> HIDE DEF f
  <2>8. f # None
    BY <2>7, NoneIsNoFinding
  <2>9. v = Evaluate(Expected(adapter, history, f.window))
    BY <1>4, <2>6 DEF v
  <2>10. SoundFinding(adapter, history, f)
    BY <1>4, <2>2, <2>6, <2>7, <2>9 DEF SoundFinding
  <2>11. Reads(adapter, history, today, a, "split", <<f.day, f.day>>, f)
    <3>1. <<f.day, f.day>> \in Windows
      <4>1. f.day \in 1 .. LastDay /\ f.day <= f.day
        BY <2>4, <2>6, CostsAssumption
      <4> QED
        BY <4>1 DEF Windows
    <3> QED
      BY <1>4, <2>6, <2>8, <2>10, <3>1 DEF Reads
  <2>12. TaskIs(adapter, history, today, a, Reading("split", <<f.day, f.day>>, f))
    BY <1>2, <2>11, ReadingIsSound
  <2>13. Goes(a, Reading("split", <<f.day, f.day>>, f))
    BY <1>1, <1>6, <2>6 DEF f, v
  <2> QED
    BY <1>1, <2>12, <2>13, OnlyATaskChanges
<1> QED
  BY <1>5, <1>6
LEMMA BreakDownIsSound ==
  ASSUME CostsSound, NEW a \in Runners, BreakDown(a)
  PROVE  CostsSound'
<1> DEFINE t == task[a]
           f == [t.found EXCEPT !.split = Total(t.rows)]
           u == [at |-> "announce", found |-> f]
<1>1. /\ t.at = "read" /\ t.what = "split" /\ a \in Actors /\ Goes(a, u)
      /\ UNCHANGED <<clock, cache, marks, notice, answer, counts, stops>>
  BY DEF BreakDown, Actors
<1> HIDE DEF t
<1>2. /\ Clock /\ adapter \in Adapters /\ history \in Histories
      /\ TaskIs(adapter, history, today, a, t)
  BY <1>1 DEF CostsSound, Clock, t
<1>3. HasRead(adapter, history, today, a, t)
  BY <1>1, <1>2, TaskAt
<1>4. Reads(adapter, history, today, a, t.what, t.window, t.found)
      /\ RowsOf(adapter, history, t.what, t.window, t.found, t.rows)
  BY <1>3 DEF HasRead
<1>5. t.found # None
  BY <1>1, <1>4 DEF Reads
<1>6. /\ SoundFinding(adapter, history, t.found) /\ Recent(adapter, today, t.found.window)
      /\ t.window = <<t.found.day, t.found.day>>
  BY <1>4, <1>5 DEF Reads
<1>7. /\ Total(t.rows) \in Nat
      /\ adapter = "huawei_bss" => Total(t.rows) = t.found.amount
  <2>1. adapter = "huawei_bss" => t.rows = Bill(history, <<t.found.day, t.found.day>>)
    BY <1>4, <1>6 DEF RowsOf
  <2>2. Total(t.rows) \in Nat
    BY <1>4, <1>5 DEF RowsOf
  <2> QED
    BY <1>2, <1>6, <2>1, <2>2, DayOfABill
<1>8. /\ f \in Finding /\ f.day = t.found.day /\ f.amount = t.found.amount
      /\ f.twice = t.found.twice /\ f.window = t.found.window /\ f.split = Total(t.rows)
  <2>1. t.found \in Finding
    BY <1>6 DEF SoundFinding
  <2> QED
    BY <1>7, <2>1 DEF Finding
<1> HIDE DEF f
<1>9. f # None
  BY <1>8, NoneIsNoFinding
<1>10. SoundFinding(adapter, history, f)
  BY <1>6, <1>7, <1>8 DEF SoundFinding
<1>11. Announcing(adapter, history, today, a, u)
  BY <1>6, <1>8, <1>9, <1>10 DEF Announcing
<1>12. TaskIs(adapter, history, today, a, u)
  BY <1>11 DEF TaskIs
<1> QED
  BY <1>1, <1>12, OnlyATaskChanges

\* A notice is of a day and a window that are over.
LEMMA FindingIsOver ==
  ASSUME NEW A \in Adapters, NEW H \in Histories, NEW T \in FirstDay .. LastDay,
         NEW f, SoundFinding(A, H, f), Recent(A, T, f.window)
  PROVE  /\ f.day \in 1 .. LastDay /\ f.day \in Nat /\ f.window[2] \in Nat
         /\ f.day <= f.window[2] /\ f.window[2] + Lag(A) <= T
         /\ T \in Nat /\ FirstDay \in Nat /\ LastDay \in Nat /\ Lag(A) \in Nat
<1>1. /\ f.day \in f.window[1] .. f.window[2] /\ f.day \in 1 .. LastDay
      /\ f.window[1] \in Nat /\ f.window[2] \in Nat
  BY FindingIsInWindow, WindowIsOfDays DEF SoundFinding
<1>2. Lag(A) \in Nat /\ FirstDay \in Nat /\ LastDay \in Nat
  BY LagIsSmall
<1>3. T \in Nat /\ f.day <= f.window[2] /\ f.day \in Nat
  BY <1>1, <1>2
<1>4. f.window[2] + Lag(A) = T - 1 \/ f.window[2] + Lag(A) = T
  BY DEF Recent
<1> QED
  BY <1>1, <1>2, <1>3, <1>4

\* A counter stays a counter.
LEMMA PlusIsCounter ==
  ASSUME NEW n \in [1 .. LastDay -> Nat], NEW S
  PROVE  Plus(n, S) \in [1 .. LastDay -> Nat]
BY DEF Plus

\* What is sent is sound, and bears the day on which send was called.
LEMMA AnnounceIsSound ==
  ASSUME CostsSound, NEW a \in Runners, Announce(a)
  PROVE  CostsSound'
<1> DEFINE t == task[a]
           f == t.found
           u == [at |-> "deliver", found |-> f, since |-> today]
<1>1. /\ t.at = "announce" /\ a \in Actors /\ Goes(a, u) /\ notice' = f
      /\ times' = Plus(times, {f.day})
      /\ excused' = Plus(excused, {f.day} \cap Sending)
      /\ UNCHANGED <<clock, cache, marks, answer, stops>>
  BY DEF Announce, Actors
<1> HIDE DEF t
<1>2. /\ adapter \in Adapters /\ history \in Histories /\ today \in FirstDay .. LastDay
      /\ TaskIs(adapter, history, today, a, t) /\ Counts
      /\ ToldIs(adapter, history, today, notice, answer)
  BY <1>1 DEF CostsSound, Clock, t
<1>3. Announcing(adapter, history, today, a, t)
  BY <1>1, <1>2, TaskAt
<1>4. f # None /\ SoundFinding(adapter, history, f) /\ Recent(adapter, today, f.window)
  BY <1>3 DEF Announcing
<1> HIDE DEF f
<1>5. f.window[2] + Lag(adapter) <= today /\ today \in Nat /\ FirstDay \in Nat
  BY <1>2, <1>4, FindingIsOver
<1>6. Delivering(adapter, history, today, a, u)
  BY <1>2, <1>4, <1>5 DEF Delivering
<1>7. TaskIs(adapter, history, today, a, u)
  <2> HIDE DEF u
  <2> QED
    BY <1>6 DEF TaskIs
<1>8. /\ task' = [b \in Actors |-> task'[b]]
      /\ \A b \in Actors : TaskIs(adapter', history', today', b, task'[b])
  <2> HIDE DEF u
  <2> QED
    BY <1>1, <1>7, OneTaskChanges
<1>9. /\ adapter' = adapter /\ history' = history /\ today' = today /\ soFar' = soFar
      /\ cache' = cache /\ marks' = marks /\ answer' = answer /\ stops' = stops
  BY <1>1 DEF clock
<1>10. Counts'
  BY <1>1, <1>2, <1>9, PlusIsCounter DEF Counts
<1>11. ToldIs(adapter', history', today', notice', answer')
  BY <1>1, <1>2, <1>4, <1>5, <1>9 DEF ToldIs
<1>12. Clock' /\ CacheIs(history', cache') /\ MarksAre(adapter', today', marks')
  BY <1>9 DEF CostsSound, Clock
<1> QED
  BY <1>8, <1>10, <1>11, <1>12 DEF CostsSound

LEMMA WithholdIsSound ==
  ASSUME CostsSound, NEW a \in Runners, Withhold(a)
  PROVE  CostsSound'
<1>1. Goes(a, Idle) /\ a \in Actors /\ UNCHANGED <<clock, cache, marks, notice, answer, counts, stops>>
  BY DEF Withhold, Actors
<1>2. TaskIs(adapter, history, today, a, Idle)
  BY DEF TaskIs
<1> QED
  BY <1>1, <1>2, OnlyATaskChanges

\* A mark is of the day on which its send was called, though another run may
\* have written a later one meanwhile.  (Dispatcher.send)
LEMMA MarkIsSound ==
  ASSUME CostsSound, NEW a \in Runners, Mark(a)
  PROVE  CostsSound'
<1> DEFINE t == task[a]
           f == t.found
<1>1. /\ t.at = "deliver" /\ a \in Actors /\ Goes(a, Idle)
      /\ marks' = [d \in DOMAIN marks \cup {f.day} |-> IF d = f.day THEN t.since ELSE marks[d]]
      /\ UNCHANGED <<clock, cache, notice, answer, counts, stops>>
  BY DEF Mark, Actors
<1> HIDE DEF t
<1>2. /\ adapter \in Adapters /\ history \in Histories /\ today \in FirstDay .. LastDay
      /\ TaskIs(adapter, history, today, a, t) /\ MarksAre(adapter, today, marks)
  BY <1>1 DEF CostsSound, Clock, t
<1>3. Delivering(adapter, history, today, a, t)
  BY <1>1, <1>2, TaskAt
<1>4. /\ SoundFinding(adapter, history, f) /\ Recent(adapter, today, f.window)
      /\ t.since \in FirstDay .. today /\ f.window[2] + Lag(adapter) <= t.since
  BY <1>3 DEF Delivering
<1> HIDE DEF f
<1>5. f.day \in 1 .. LastDay /\ f.day + Lag(adapter) <= t.since
  <2>1. /\ f.day \in 1 .. LastDay /\ f.day \in Nat /\ f.window[2] \in Nat /\ f.day <= f.window[2]
        /\ Lag(adapter) \in Nat /\ FirstDay \in Nat /\ today \in Nat
    BY <1>2, <1>4, FindingIsOver
  <2>2. t.since \in Int
    BY <1>4, <2>1
  <2> QED
    BY <1>4, <2>1, <2>2
<1>6. MarksAre(adapter, today, marks')
  <2>1. /\ DOMAIN marks' = DOMAIN marks \cup {f.day} /\ marks'[f.day] = t.since
        /\ \A d \in DOMAIN marks : d # f.day => marks'[d] = marks[d]
    BY <1>1
  <2> QED
    BY <1>2, <1>4, <1>5, <2>1 DEF MarksAre
<1>7. TaskIs(adapter, history, today, a, Idle)
  BY DEF TaskIs
<1>8. /\ task' = [b \in Actors |-> task'[b]]
      /\ \A b \in Actors : TaskIs(adapter', history', today', b, task'[b])
  BY <1>1, <1>7, OneTaskChanges
<1>9. /\ adapter' = adapter /\ history' = history /\ today' = today /\ soFar' = soFar
      /\ cache' = cache /\ notice' = notice /\ answer' = answer
      /\ times' = times /\ excused' = excused /\ stops' = stops
  BY <1>1 DEF clock, counts
<1>10. /\ Clock' /\ CacheIs(history', cache') /\ Counts'
       /\ ToldIs(adapter', history', today', notice', answer')
  BY <1>9 DEF CostsSound, Clock, Counts
<1>11. MarksAre(adapter', today', marks')
  BY <1>6, <1>9
<1> QED
  BY <1>8, <1>10, <1>11 DEF CostsSound

\* A process that starts again knows nothing, or the marks it had.
LEMMA StopIsSound ==
  ASSUME CostsSound, Stop
  PROVE  CostsSound'
<1>1. /\ stops < MaxStops /\ stops' = stops + 1 /\ marks' \in {marks, <<>>}
      /\ task' = [a \in Actors |-> Idle] /\ cache' = <<>>
      /\ UNCHANGED <<clock, notice, answer, times>>
  BY DEF Stop
<1>2. PICK S : excused' = Plus(excused, S)
  BY DEF Stop
<1>3. /\ adapter' = adapter /\ history' = history /\ today' = today /\ soFar' = soFar
      /\ notice' = notice /\ answer' = answer /\ times' = times
  BY <1>1 DEF clock
<1>4. Counts'
  <2>1. Counts /\ MaxStops \in Nat
    BY CostsAssumption DEF CostsSound
  <2>2. stops' \in 0 .. MaxStops
    BY <1>1, <2>1 DEF Counts
  <2> QED
    BY <1>2, <1>3, <2>1, <2>2, PlusIsCounter DEF Counts
<1>5. MarksAre(adapter', today', marks')
  <2>1. DOMAIN <<>> = {}
    OBVIOUS
  <2> QED
    BY <1>1, <1>3, <2>1 DEF CostsSound, MarksAre
<1>6. CacheIs(history', cache')
  <2>1. DOMAIN cache' = {}
    BY <1>1
  <2> QED
    BY <2>1 DEF CacheIs
<1>7. Clock' /\ ToldIs(adapter', history', today', notice', answer')
  BY <1>3 DEF CostsSound, Clock
<1>8. /\ task' = [a \in Actors |-> task'[a]]
      /\ \A a \in Actors : TaskIs(adapter', history', today', a, task'[a])
  BY <1>1 DEF TaskIs
<1> QED
  BY <1>4, <1>5, <1>6, <1>7, <1>8 DEF CostsSound

\* The bills only get older.  (cost_huawei_bss._records)
LEMMA OlderIsSound ==
  ASSUME NEW H, CacheIs(H, cache)
  PROVE  CacheIs(H, Older)
<1>1. CacheTtl \in Nat
  BY CostsAssumption
<1>2. DOMAIN Older = DOMAIN cache
  BY DEF Older
<1>3. ASSUME NEW w \in DOMAIN cache
      PROVE  Older[w] = [rows |-> Bill(H, w), age |-> Older[w].age] /\ Older[w].age \in 0 .. CacheTtl
  <2>1. /\ cache[w] = [rows |-> Bill(H, w), age |-> cache[w].age]
        /\ cache[w].age \in 0 .. CacheTtl
    BY <1>3 DEF CacheIs
  <2>2. Older[w] = [cache[w] EXCEPT !.age = AtMost(CacheTtl, cache[w].age + 1)]
    BY <1>3 DEF Older
  <2>3. AtMost(CacheTtl, cache[w].age + 1) \in 0 .. CacheTtl
    BY <1>1, <2>1 DEF AtMost
  <2>4. Older[w] = [rows |-> Bill(H, w), age |-> AtMost(CacheTtl, cache[w].age + 1)]
    BY <2>1, <2>2
  <2> QED
    BY <2>3, <2>4
<1> QED
  BY <1>2, <1>3 DEF CacheIs

\* A call of today may end tomorrow, and one of yesterday ends before.
LEMMA NextDayIsSound ==
  ASSUME CostsSound, NextDay
  PROVE  CostsSound'
<1>1. /\ adapter' = adapter /\ history' = history /\ task' = task /\ marks' = marks
      /\ times' = times /\ excused' = excused /\ stops' = stops /\ cache' = Older /\ notice' = None /\ answer' = None
      /\ today' = today + 1 /\ soFar' = 0 /\ today < LastDay
      /\ \A a \in Actors : Begun(task[a]) = today
  BY DEF NextDay, counts
<1>2. /\ adapter \in Adapters /\ history \in Histories /\ today \in FirstDay .. LastDay
      /\ today \in Nat /\ FirstDay \in Nat /\ LastDay \in Nat
  BY LagIsSmall DEF CostsSound, Clock
<1>3. Clock'
  BY <1>1, <1>2 DEF Clock
<1>4. CacheIs(history', cache')
  BY <1>1, OlderIsSound DEF CostsSound
<1>5. MarksAre(adapter', today', marks') /\ Counts'
  <2>1. MarksAre(adapter, today, marks) /\ Counts
    BY DEF CostsSound
  <2>2. \A d \in DOMAIN marks : marks[d] \in FirstDay .. today + 1
    BY <1>2, <2>1 DEF MarksAre
  <2> QED
    BY <1>1, <2>1, <2>2 DEF MarksAre, Counts
<1>6. ToldIs(adapter', history', today', notice', answer')
  BY <1>1 DEF ToldIs
<1>7. ASSUME NEW a \in Actors PROVE TaskIs(adapter, history, today + 1, a, task[a])
  <2> DEFINE t == task[a]
  <2>1. TaskIs(adapter, history, today, a, t) /\ Begun(t) = today
    BY <1>1 DEF CostsSound
  <2> HIDE DEF t
  <2>2. \A w : w \in Windows /\ w[2] + Lag(adapter) = today => Recent(adapter, today + 1, w)
    BY <1>2 DEF Recent
  <2>3. ASSUME t # Idle, Reads(adapter, history, today, a, t.what, t.window, t.found)
        PROVE  Reads(adapter, history, today + 1, a, t.what, t.window, t.found)
    <3>1. CASE t.found = None
      <4>1. t.window[2] + Lag(adapter) = today
        BY <2>1, <2>3, <3>1 DEF Begun, Lag
      <4> QED
        BY <2>2, <2>3, <3>1, <4>1 DEF Reads
    <3>2. CASE t.found # None
      <4>1. t.found.window[2] + Lag(adapter) = today
        BY <2>1, <2>3, <3>2 DEF Begun, Lag
      <4>2. t.found.window \in Windows
        BY <2>3, <3>2 DEF Reads, Recent
      <4> QED
        BY <2>2, <2>3, <3>2, <4>1, <4>2 DEF Reads
    <3> QED
      BY <3>1, <3>2
  <2>4. Idle.at = "idle"
    BY DEF Idle
  <2>5. CASE t = Idle
    BY <2>5 DEF TaskIs, t
  <2>6. CASE Querying(adapter, history, today, a, t)
    <3>1. t # Idle
      BY <2>4, <2>6 DEF Querying
    <3>2. Querying(adapter, history, today + 1, a, t)
      BY <2>3, <2>6, <3>1 DEF Querying
    <3> QED
      BY <3>2 DEF TaskIs, t
  <2>7. CASE Fetching(adapter, history, today, a, t)
    <3>1. t # Idle
      BY <2>4, <2>7 DEF Fetching
    <3>2. Fetching(adapter, history, today + 1, a, t)
      BY <2>3, <2>7, <3>1 DEF Fetching
    <3> QED
      BY <3>2 DEF TaskIs, t
  <2>8. CASE HasRead(adapter, history, today, a, t)
    <3>1. t # Idle
      BY <2>4, <2>8 DEF HasRead
    <3>2. HasRead(adapter, history, today + 1, a, t)
      BY <2>3, <2>8, <3>1 DEF HasRead
    <3> QED
      BY <3>2 DEF TaskIs, t
  <2>9. CASE Announcing(adapter, history, today, a, t)
    <3>1. t # Idle /\ t.found # None /\ t.found.window \in Windows
      BY <2>4, <2>9 DEF Announcing, Recent
    <3>2. t.found.window[2] + Lag(adapter) = today
      BY <2>1, <3>1 DEF Begun, Lag
    <3>3. Announcing(adapter, history, today + 1, a, t)
      BY <2>2, <2>9, <3>1, <3>2 DEF Announcing
    <3> QED
      BY <3>3 DEF TaskIs, t
  <2>10. CASE Delivering(adapter, history, today, a, t)
    <3>1. t # Idle /\ t.found # None /\ t.found.window \in Windows
      BY <2>4, <2>10 DEF Delivering, Recent
    <3>2. t.found.window[2] + Lag(adapter) = today
      BY <2>1, <3>1 DEF Begun, Lag
    <3>3. t.since \in FirstDay .. today + 1
      BY <1>2, <2>10 DEF Delivering
    <3>4. Delivering(adapter, history, today + 1, a, t)
      BY <2>2, <2>10, <3>1, <3>2, <3>3 DEF Delivering
    <3> QED
      BY <3>4 DEF TaskIs, t
  <2> QED
    BY <2>1, <2>5, <2>6, <2>7, <2>8, <2>9, <2>10 DEF TaskIs
<1>8. /\ task' = [a \in Actors |-> task'[a]]
      /\ \A a \in Actors : TaskIs(adapter', history', today', a, task'[a])
  BY <1>1, <1>7 DEF CostsSound
<1> QED
  BY <1>3, <1>4, <1>5, <1>6, <1>8 DEF CostsSound
LEMMA TimeIsSound ==
  ASSUME CostsSound, Tick \/ Fill \/ UNCHANGED vars
  PROVE  CostsSound'
<1>1. /\ adapter' = adapter /\ history' = history /\ today' = today /\ task' = task
      /\ marks' = marks /\ notice' = notice /\ answer' = answer
      /\ times' = times /\ excused' = excused /\ stops' = stops
  BY DEF Tick, Fill, vars, clock, counts
<1>2. CacheIs(history, cache')
  <2>1. CacheIs(history, cache)
    BY DEF CostsSound
  <2>2. cache' = cache \/ cache' = Older
    BY DEF Tick, Fill, vars, clock
  <2> QED
    BY <2>1, <2>2, OlderIsSound
<1>3. soFar' \in Nat
  <2>1. CASE Fill
    <3>1. soFar' = history[today] /\ today \in DOMAIN history /\ history \in Histories
      BY <2>1 DEF Fill, CostsSound, Clock
    <3> QED
      BY <3>1, HistoryIsNat
  <2>2. CASE Tick \/ UNCHANGED vars
    BY <2>2 DEF Tick, vars, clock, CostsSound, Clock
  <2> QED
    BY <2>1, <2>2
<1>4. Clock' /\ CacheIs(history', cache')
  BY <1>1, <1>2, <1>3 DEF CostsSound, Clock
<1>5. MarksAre(adapter', today', marks') /\ Counts' /\ ToldIs(adapter', history', today', notice', answer')
  BY <1>1 DEF CostsSound, Counts
<1>6. /\ task' = [a \in Actors |-> task'[a]]
      /\ \A a \in Actors : TaskIs(adapter', history', today', a, task'[a])
  BY <1>1 DEF CostsSound
<1> QED
  BY <1>4, <1>5, <1>6 DEF CostsSound

LEMMA CostsSoundInits == CostsInit => CostsSound
<1> SUFFICES ASSUME CostsInit PROVE CostsSound
  OBVIOUS
<1>1. /\ adapter \in Adapters /\ history \in Histories /\ today = FirstDay /\ soFar = 0
      /\ cache = <<>> /\ marks = <<>> /\ task = [a \in Actors |-> Idle]
      /\ notice = None /\ answer = None /\ times = [d \in 1 .. LastDay |-> 0]
      /\ excused = times /\ stops = 0
  BY DEF CostsInit
<1>2. Clock
  BY <1>1, CostsAssumption DEF Clock
<1>3. DOMAIN cache = {} /\ DOMAIN marks = {}
  BY <1>1
<1>4. CacheIs(history, cache) /\ MarksAre(adapter, today, marks) /\ Counts
  <2>1. MaxStops \in Nat
    BY CostsAssumption
  <2> QED
    BY <1>1, <1>3, <2>1 DEF CacheIs, MarksAre, Counts
<1>5. ToldIs(adapter, history, today, notice, answer)
  BY <1>1 DEF ToldIs
<1>6. task = [a \in Actors |-> task[a]] /\ \A a \in Actors : task[a] = Idle
  BY <1>1
<1>7. \A a \in Actors : TaskIs(adapter, history, today, a, task[a])
  BY <1>6 DEF TaskIs
<1> QED
  BY <1>2, <1>4, <1>5, <1>6, <1>7 DEF CostsSound

LEMMA CostsSoundSteps ==
  ASSUME BillsComeLate, CostsSound, [CostsNext]_vars
  PROVE  CostsSound'
<1>1. CASE Ask
  BY <1>1, AskIsSound
<1>2. CASE Tell
  BY <1>2, TellIsSound
<1>3. ASSUME NEW a \in Actors, ReadCycle(a) PROVE CostsSound'
  BY <1>3, ReadCycleIsSound
<1>4. ASSUME NEW a \in Actors, Store(a) PROVE CostsSound'
  BY <1>4, StoreIsSound
<1>5. ASSUME NEW a \in Actors, Answer(a) PROVE CostsSound'
  BY <1>5, AnswerIsSound
<1>6. ASSUME NEW a \in Actors, Fails(a) PROVE CostsSound'
  BY <1>6, FailsIsSound
<1>7. ASSUME NEW a \in Runners, Run(a) PROVE CostsSound'
  BY <1>7, RunIsSound
<1>8. ASSUME NEW a \in Runners, Judge(a) PROVE CostsSound'
  BY <1>8, JudgeIsSound
<1>9. ASSUME NEW a \in Runners, BreakDown(a) PROVE CostsSound'
  BY <1>9, BreakDownIsSound
<1>10. ASSUME NEW a \in Runners, Announce(a) PROVE CostsSound'
  BY <1>10, AnnounceIsSound
<1>11. ASSUME NEW a \in Runners, Withhold(a) PROVE CostsSound'
  BY <1>11, WithholdIsSound
<1>12. ASSUME NEW a \in Runners, Mark(a) PROVE CostsSound'
  BY <1>12, MarkIsSound
<1>13. CASE Stop
  BY <1>13, StopIsSound
<1>14. CASE Tick \/ Fill \/ UNCHANGED vars
  BY <1>14, TimeIsSound
<1>15. CASE NextDay
  BY <1>15, NextDayIsSound
<1> QED
  BY <1>1, <1>2, <1>3, <1>4, <1>5, <1>6, <1>7, <1>8, <1>9, <1>10, <1>11, <1>12, <1>13, <1>14,
     <1>15 DEF CostsNext

LEMMA AlwaysSound == BillsComeLate /\ CostsSpec => []CostsSound
<1>1. ASSUME BillsComeLate PROVE CostsSpec => []CostsSound
  <2>1. CostsSound /\ [CostsNext]_vars => CostsSound'
    BY <1>1, CostsSoundSteps
  <2> QED
    BY <2>1, CostsSoundInits, PTL DEF CostsSpec
<1> QED
  BY <1>1

-----------------------------------------------------------------------------
(* What it says.                                                           *)

LEMMA SoundIsTyped ==
  ASSUME CostsSound
  PROVE  CostsTypeOK
<1>1. \A a \in Actors : TaskIs(adapter, history, today, a, task[a])
  BY DEF CostsSound
<1>2. /\ adapter \in Adapters /\ history \in Histories
      /\ today \in FirstDay .. LastDay /\ soFar \in Nat
  BY DEF CostsSound, Clock
<1>3. \A w \in DOMAIN cache : cache[w].age \in 0 .. CacheTtl
  BY DEF CostsSound, CacheIs
<1>4. \A a \in Actors : task[a].at \in {"idle", "query", "fetch", "read", "announce", "deliver"}
  BY <1>1, TaskAt
<1>5. task[Agent].at \notin {"announce", "deliver"}
  <2>1. Agent \in Actors /\ Agent \notin Runners
    BY CostsAssumption DEF Actors
  <2>2. /\ task[Agent].at = "announce" => Announcing(adapter, history, today, Agent, task[Agent])
        /\ task[Agent].at = "deliver" => Delivering(adapter, history, today, Agent, task[Agent])
    BY <1>1, <2>1, TaskAt
  <2> QED
    BY <2>1, <2>2 DEF Announcing, Delivering
<1>6. ASSUME NEW a \in Actors, task[a].at = "fetch"
      PROVE  /\ task[a].left \subseteq Cycles(task[a].window)
             /\ DOMAIN task[a].rows \subseteq task[a].window[1] .. task[a].window[2]
  <2> DEFINE t == task[a]
  <2>1. Fetching(adapter, history, today, a, t)
    BY <1>1, <1>6, TaskAt
  <2> HIDE DEF t
  <2>2. t.left \subseteq Cycles(t.window) /\ t.rows = BillSoFar(history, t.window, t.left)
    BY <2>1 DEF Fetching
  <2>3. DOMAIN t.rows \subseteq t.window[1] .. t.window[2]
    BY <2>2 DEF BillSoFar
  <2> QED
    BY <2>2, <2>3 DEF t
<1>7. notice # None => notice \in Finding
  BY DEF CostsSound, ToldIs, SoundFinding
<1>8. \A d \in DOMAIN marks : marks[d] \in FirstDay .. today
  BY DEF CostsSound, MarksAre
<1>9. /\ times \in [1 .. LastDay -> Nat] /\ excused \in [1 .. LastDay -> Nat]
      /\ stops \in 0 .. MaxStops
  BY DEF CostsSound, Counts
<1>10. \A a \in Actors : task[a].at = "deliver" => task[a].since \in FirstDay .. today
  BY <1>1, TaskAt DEF Delivering
<1> QED
  BY <1>2, <1>3, <1>4, <1>5, <1>6, <1>7, <1>8, <1>9, <1>10 DEF CostsTypeOK

\* Each coroutine holds what its kind of call holds, whatever the others do,
\* however many they are and wherever the process stops.
THEOREM CostsTypeCorrect == BillsComeLate /\ CostsSpec => []CostsTypeOK
<1>1. CostsSound => CostsTypeOK
  BY SoundIsTyped
<1> QED
  BY <1>1, AlwaysSound, PTL

\* The old go as the new comes, by both coroutines.  (HuaweiBssCost._records)
LEMMA NothingDeadSteps ==
  ASSUME CostsSound, NothingDeadBesideTheNew, [CostsNext]_vars
  PROVE  NothingDeadBesideTheNew'
<1>1. CacheTtl \in Nat /\ CacheTtl >= 1
  BY CostsAssumption
<1>2. CASE cache' = cache
  BY <1>2 DEF NothingDeadBesideTheNew
<1>3. CASE cache' = Older
  <2>1. \A v \in DOMAIN cache' : cache'[v].age # 0
    <3> SUFFICES ASSUME NEW v \in DOMAIN cache' PROVE cache'[v].age # 0
      OBVIOUS
    <3>1. v \in DOMAIN cache /\ cache'[v] = [cache[v] EXCEPT !.age = AtMost(CacheTtl, cache[v].age + 1)]
      BY <1>3 DEF Older
    <3>2. cache[v] = [rows |-> Bill(history, v), age |-> cache[v].age] /\ cache[v].age \in 0 .. CacheTtl
      BY <3>1 DEF CostsSound, CacheIs
    <3>3. cache'[v].age = AtMost(CacheTtl, cache[v].age + 1)
      BY <3>1, <3>2
    <3> QED
      BY <1>1, <3>2, <3>3 DEF AtMost
  <2> QED
    BY <2>1 DEF NothingDeadBesideTheNew
<1>4. ASSUME NEW w, NEW rows, cache' = Stored(w, rows) PROVE NothingDeadBesideTheNew'
  <2>1. /\ DOMAIN cache' = Alive \cup {w} /\ cache'[w].age = 0
        /\ \A v \in Alive : v # w => cache'[v] = cache[v]
    BY <1>4 DEF Stored
  <2>2. \A v \in Alive : cache[v].age < CacheTtl
    BY DEF Alive
  <2>3. \A v \in DOMAIN cache' : cache'[v].age < CacheTtl
    BY <1>1, <2>1, <2>2
  <2> QED
    BY <2>3 DEF NothingDeadBesideTheNew
<1>5. ASSUME NEW a \in Actors, Store(a) PROVE NothingDeadBesideTheNew'
  <2>1. cache' = Stored(task[a].window, task[a].rows)
    BY <1>5 DEF Store
  <2> QED
    BY <1>4, <2>1
<1>6. Ask \/ Tell => cache' = cache
  BY DEF Ask, Tell
<1>7. ASSUME NEW a \in Actors, ReadCycle(a) \/ Answer(a) \/ Fails(a) PROVE cache' = cache
  BY <1>7 DEF ReadCycle, Answer, Fails
<1>8. ASSUME NEW a \in Runners,
             Run(a) \/ Judge(a) \/ BreakDown(a) \/ Announce(a) \/ Withhold(a) \/ Mark(a)
      PROVE  cache' = cache
  BY <1>8 DEF Run, Judge, BreakDown, Announce, Withhold, Mark
<1>9. CASE Stop
  <2>1. DOMAIN cache' = {}
    BY <1>9 DEF Stop
  <2> QED
    BY <2>1 DEF NothingDeadBesideTheNew
<1>10. Tick \/ Fill \/ NextDay \/ UNCHANGED vars => cache' = cache \/ cache' = Older
  BY DEF Tick, Fill, NextDay, vars
<1> QED
  BY <1>2, <1>3, <1>5, <1>6, <1>7, <1>8, <1>9, <1>10 DEF CostsNext

\* What is kept of BSS is the bill of its window, whole and final, however two
\* coroutines read and store it across a midnight; and no answer past its time
\* stays when one is stored.  (HuaweiBssCost._fetch_sync, _records)
THEOREM TheCacheIsSound == BillsComeLate /\ CostsSpec => []CacheIsSound
<1>1. CostsInit => NothingDeadBesideTheNew
  <2> SUFFICES ASSUME CostsInit PROVE DOMAIN cache = {}
    BY DEF NothingDeadBesideTheNew
  <2> QED
    BY DEF CostsInit
<1>2. CostsSound /\ NothingDeadBesideTheNew /\ [CostsNext]_vars => NothingDeadBesideTheNew'
  BY NothingDeadSteps
<1>3. CostsSound => CacheIsTheBill
  BY DEF CostsSound, CacheIs, CacheIsTheBill, Bill, BillOf
<1> QED
  BY <1>1, <1>2, <1>3, AlwaysSound, PTL DEF CostsSpec, CacheIsSound
\* The day of a finding is over, and its amount is what that day cost.
LEMMA SoundIsTrue ==
  ASSUME BillsComeLate, CostsSound
  PROVE  NoticeIsTrue
<1> SUFFICES ASSUME notice # None
             PROVE  /\ SpentOn(notice.day) < today /\ notice.amount = history[SpentOn(notice.day)]
                    /\ adapter = "huawei_bss" => (notice.split # None => notice.split = notice.amount)
  BY DEF NoticeIsTrue, SpikeIsOfAFullDay, BillAddsUp, BreakdownAddsUp
<1> DEFINE f == notice
<1>1. /\ adapter \in Adapters /\ history \in Histories /\ today \in FirstDay .. LastDay
      /\ SoundFinding(adapter, history, f) /\ f.window[2] + Lag(adapter) <= today
  BY DEF CostsSound, Clock, ToldIs
<1> HIDE DEF f
<1>2. /\ adapter \in {"huawei_bss", "promql"} /\ Lag(adapter) \in Nat /\ today \in Int
      /\ adapter = "huawei_bss" => Lag(adapter) >= 1
  <2>1. FirstDay \in Nat /\ LastDay \in Nat
    BY <1>1, LagIsSmall
  <2>2. today \in Int
    BY <1>1, <2>1
  <2> QED
    BY <1>1, <2>2, LagIsSmall
<1>3. /\ f.day \in f.window[1] .. f.window[2] /\ f.window[1] \in Nat /\ f.window[2] \in Nat
      /\ f.day \in DOMAIN Expected(adapter, history, f.window)
      /\ f.amount = Expected(adapter, history, f.window)[f.day]
  BY <1>1, FindingIsInWindow, WindowIsOfDays DEF SoundFinding
<1>4. f.day \in Int /\ f.day <= f.window[2]
  BY <1>3
<1>5. CASE adapter = "huawei_bss"
  <2>1. SpentOn(f.day) = f.day
    BY <1>5 DEF SpentOn
  <2>2. f.amount = history[f.day]
    BY <1>3, <1>5 DEF Expected, Bill
  <2>3. f.day < today
    BY <1>1, <1>2, <1>3, <1>4, <1>5
  <2>4. f.split # None => f.split = f.amount
    BY <1>1, <1>5 DEF SoundFinding
  <2> QED
    BY <1>5, <2>1, <2>2, <2>3, <2>4 DEF f
<1>6. CASE adapter = "promql"
  <2>1. SpentOn(f.day) = f.day - 1
    BY <1>6 DEF SpentOn
  <2>2. f.amount = history[f.day - 1]
    BY <1>3, <1>6 DEF Expected
  <2>3. f.day - 1 < today
    BY <1>1, <1>2, <1>3, <1>4
  <2> QED
    BY <1>6, <2>1, <2>2, <2>3 DEF f
<1> QED
  BY <1>2, <1>5, <1>6

\* What is announced was spent on a day that is over, all of it, and at BSS the
\* services of the notice add up to it, however long the calls take.
\* (cost_spike.evaluate, HuaweiBssCost.by_service)
THEOREM TheNoticeIsTrue == BillsComeLate /\ CostsSpec => []NoticeIsTrue
<1>1. ASSUME BillsComeLate PROVE CostsSound => NoticeIsTrue
  BY <1>1, SoundIsTrue
<1>2. ASSUME BillsComeLate PROVE CostsSpec => []NoticeIsTrue
  BY <1>1, <1>2, AlwaysSound, PTL
<1> QED
  BY <1>2

LEMMA SoundIsTheSame ==
  ASSUME CostsSound
  PROVE  SameNumbersIfPaid
<1> DEFINE f == notice
           p == Expected(adapter, history, f.window)
<1> SUFFICES ASSUME notice # None, answer # None, notice.window = answer.window,
                    \A d \in notice.window[1] - 1 .. notice.window[2] :
                       d \in DOMAIN history => history[d] > 0
             PROVE  answer.said = [day |-> f.day, amount |-> f.amount, twice |-> f.twice]
  BY DEF SameNumbersIfPaid, SameNumbers
<1>1. /\ adapter \in Adapters /\ history \in Histories
      /\ SoundFinding(adapter, history, f) /\ answer.said = Daily(p)
  BY DEF CostsSound, Clock, ToldIs
<1>2. \A d \in f.window[1] - 1 .. f.window[2] : d \in DOMAIN history => history[d] > 0
  OBVIOUS
<1> HIDE DEF f
<1>3. /\ f.window \in Windows /\ f.window[1] \in Nat /\ f.window[2] \in Nat
      /\ Evaluate(p) = [outcome |-> "spike", day |-> f.day, amount |-> f.amount, twice |-> f.twice]
  BY <1>1, WindowIsOfDays DEF SoundFinding
<1>4. /\ DOMAIN p \in SUBSET Nat /\ IsFiniteSet(DOMAIN p) /\ p \in [DOMAIN p -> Nat]
  BY <1>1, <1>3, ExpectedIsASeries
<1>5. \A d \in DOMAIN p : p[d] > 0
  <2>1. CASE adapter = "promql"
    <3>1. ASSUME NEW d \in DOMAIN p PROVE p[d] > 0
      <4>1. d \in f.window[1] .. f.window[2] /\ d - 1 \in DOMAIN history /\ p[d] = history[d - 1]
        BY <2>1, <3>1 DEF Expected
      <4>2. d - 1 \in f.window[1] - 1 .. f.window[2]
        BY <1>3, <4>1
      <4> QED
        BY <1>2, <4>1, <4>2
    <3> QED
      BY <3>1
  <2>2. CASE adapter # "promql"
    <3>1. ASSUME NEW d \in DOMAIN p PROVE p[d] > 0
      <4>1. d \in f.window[1] .. f.window[2] /\ d \in DOMAIN history /\ p[d] = history[d]
        BY <2>2, <3>1 DEF Expected, Bill
      <4>2. d \in f.window[1] - 1 .. f.window[2]
        BY <1>3, <4>1
      <4> QED
        BY <1>2, <4>1, <4>2
    <3> QED
      BY <3>1
  <2> QED
    BY <2>1, <2>2
<1> HIDE DEF p
<1> DEFINE v == Evaluate(p)
<1>6. v.outcome = "spike" /\ v.day = f.day /\ v.amount = f.amount /\ v.twice = f.twice
  BY <1>3
<1>7. Daily(p) = [day |-> v.day, amount |-> v.amount, twice |-> v.twice]
  BY <1>4, <1>5, <1>6, ToolSaysTheSame
<1> HIDE DEF v
<1> QED
  BY <1>1, <1>6, <1>7

\* The agent's tool and the detector tell the same day, amount and median of the
\* same window, when every day of it cost something.
\* (tools_cost.cost_daily, cost_spike.evaluate)
THEOREM TheNumbersAgree == BillsComeLate /\ CostsSpec => []SameNumbersIfPaid
<1>1. CostsSound => SameNumbersIfPaid
  BY SoundIsTheSame
<1> QED
  BY <1>1, AlwaysSound, PTL

-----------------------------------------------------------------------------
(* One notice.                                                             *)

\* A mark that is past its time is of a day after which the bills stopped: the
\* window of whoever looks has gone past it and found nothing later.
LEMMA ExpiredAfterAStop ==
  ASSUME BillsComeLate, CostsSound, NEW a \in Runners, task[a].at = "announce",
         ~Marked(task[a].found.day), task[a].found.day \in DOMAIN marks
  PROVE  BillsStopped(task[a].found.day)
<1> DEFINE f == task[a].found
           d == f.day
<1>1. /\ adapter \in Adapters /\ history \in Histories /\ today \in FirstDay .. LastDay
      /\ TaskIs(adapter, history, today, a, task[a])
  BY DEF CostsSound, Clock, Actors
<1>2. SoundFinding(adapter, history, f) /\ Recent(adapter, today, f.window)
  BY <1>1, TaskAt DEF Announcing
<1>3. ~Marked(d) /\ d \in DOMAIN marks
  OBVIOUS
<1> HIDE DEF f
<1>4. /\ d \in 1 .. LastDay /\ d \in Nat /\ f.window[2] \in Nat /\ f.window[1] \in Nat
      /\ today \in Nat /\ FirstDay \in Nat /\ LastDay \in Nat /\ Lag(adapter) \in Nat
      /\ adapter \in {"huawei_bss", "promql"}
      /\ d \in f.window[1] .. f.window[2]
      /\ \A e \in DOMAIN Expected(adapter, history, f.window) :
            e > d => Expected(adapter, history, f.window)[e] = 0
  <2>1. f.window[1] \in Nat
    BY <1>2, WindowIsOfDays DEF SoundFinding
  <2> QED
    BY <1>1, <1>2, <2>1, FindingIsOver, FindingIsInWindow, LagIsSmall
<1>5. d + Lag(adapter) <= marks[d] /\ marks[d] \in Int
  <2>1. marks[d] \in FirstDay .. today /\ d + Lag(adapter) <= marks[d]
    BY <1>3 DEF CostsSound, MarksAre
  <2> QED
    BY <1>4, <2>1
<1>6. today - marks[d] >= 2
  <2>1. ~(today - marks[d] < RepeatAfter)
    BY <1>3 DEF Marked
  <2> QED
    BY <1>4, <1>5, <2>1, CostsAssumption
<1>7. f.window[2] + Lag(adapter) >= today - 1
  <2>1. f.window[2] + Lag(adapter) = today - 1 \/ f.window[2] + Lag(adapter) = today
    BY <1>2 DEF Recent
  <2> QED
    BY <1>4, <2>1
<1>8. f.window[2] <= today /\ (adapter = "huawei_bss" => f.window[2] < today)
  BY <1>1, <1>2, WindowIsOver
<1>9. d + 1 \in f.window[1] .. f.window[2] /\ d + 1 > d
  <2> HIDE DEF d
  <2> QED
    BY <1>4, <1>5, <1>6, <1>7
<1>10. CASE adapter = "huawei_bss"
  <2>1. d + 1 \notin DOMAIN history \/ history[d + 1] = 0
    BY <1>4, <1>9, <1>10 DEF Expected, Bill
  <2>2. d + 1 \in SpentOn(d) + 1 .. today - 1
    BY <1>4, <1>8, <1>9, <1>10 DEF SpentOn
  <2> QED
    BY <2>1, <2>2 DEF BillsStopped, f
<1>11. CASE adapter = "promql"
  <2>1. (d + 1) - 1 = d
    BY <1>4
  <2>2. d \notin DOMAIN history \/ history[d] = 0
    BY <1>4, <1>9, <1>11, <2>1 DEF Expected
  <2>3. d \in SpentOn(d) + 1 .. today - 1
    BY <1>4, <1>8, <1>9, <1>11 DEF SpentOn
  <2> QED
    BY <2>2, <2>3 DEF BillsStopped, f
<1> QED
  BY <1>4, <1>10, <1>11

\* What is needed to go on: a notice that no overlap and no stop explains has
\* its mark, or is on its way to it.
Accounted(d) ==
    \/ BillsStopped(d)
    \/ times[d] <= excused[d]
    \/ times[d] = excused[d] + 1 /\ (d \in DOMAIN marks \/ d \in Sending)

AllAccounted == \A d \in 1 .. LastDay : Accounted(d)

\* Bills that stopped have stopped.
LEMMA StoppedForGood ==
  ASSUME CostsSound, [CostsNext]_vars, NEW d \in 1 .. LastDay, BillsStopped(d)
  PROVE  BillsStopped(d)'
<1>1. adapter' = adapter /\ history' = history /\ (today' = today \/ today' = today + 1)
  BY DEF CostsNext, Run, Ask, Tell, Judge, BreakDown, Announce, Withhold, Mark, Stop, ReadCycle,
         Store, Answer, Fails, Tick, Fill, NextDay, vars, clock
<1>2. today \in Int
  <2>1. today \in FirstDay .. LastDay /\ FirstDay \in Nat /\ LastDay \in Nat
    BY CostsAssumption DEF CostsSound, Clock
  <2> QED
    BY <2>1
<1>3. SpentOn(d) \in Int /\ SpentOn(d)' = SpentOn(d)
  BY <1>1 DEF SpentOn
<1>4. \A e \in SpentOn(d) + 1 .. today - 1 : e \in SpentOn(d) + 1 .. today' - 1
  BY <1>1, <1>2, <1>3
<1> QED
  BY <1>1, <1>3, <1>4 DEF BillsStopped

\* A notice on its way stays there, for whoever takes another step.
LEMMA StillSending ==
  ASSUME CostsSound, NEW a \in Actors, NEW t, Goes(a, t), task[a].at # "deliver",
         NEW d, d \in Sending
  PROVE  d \in Sending'
<1>1. PICK b \in Runners : task[b].at = "deliver" /\ task[b].found.day = d
  BY DEF Sending
<1>2. task'[b] = task[b]
  BY <1>1 DEF Goes, CostsSound, Actors
<1> QED
  BY <1>1, <1>2 DEF Sending

LEMMA AnnounceIsAccounted ==
  ASSUME BillsComeLate, CostsSound, AllAccounted, NEW a \in Runners, Announce(a)
  PROVE  AllAccounted'
<1> DEFINE f == task[a].found
           u == [at |-> "deliver", found |-> f, since |-> today]
<1>1. PICK day : day = f.day
  OBVIOUS
<1>2. /\ task[a].at = "announce" /\ ~Marked(day) /\ Goes(a, u) /\ a \in Actors
      /\ times' = Plus(times, {day})
      /\ excused' = Plus(excused, {day} \cap Sending)
      /\ marks' = marks
  BY <1>1 DEF Announce, Actors
<1>3. times \in [1 .. LastDay -> Nat] /\ excused \in [1 .. LastDay -> Nat]
  BY DEF CostsSound, Counts
<1>4. day \in Sending'
  <2>1. task'[a] = u
    BY <1>2 DEF Goes, CostsSound
  <2>2. task'[a].at = "deliver" /\ task'[a].found.day = day
    BY <1>1, <2>1
  <2> QED
    BY <2>2 DEF Sending
<1>5. \A d : d \in Sending => d \in Sending'
  BY <1>2, StillSending
<1>6. day \in DOMAIN marks => BillsStopped(day)
  BY <1>1, <1>2, ExpiredAfterAStop
<1> HIDE DEF f, u
<1>7. SUFFICES ASSUME NEW d \in 1 .. LastDay, ~BillsStopped(d)
               PROVE  Accounted(d)'
  <2>1. ASSUME NEW d \in 1 .. LastDay, BillsStopped(d) PROVE Accounted(d)'
    <3>1. [CostsNext]_vars
      BY DEF CostsNext
    <3>2. BillsStopped(d)'
      BY <2>1, <3>1, StoppedForGood
    <3> QED
      BY <3>2 DEF Accounted
  <2> QED
    BY <2>1 DEF AllAccounted
<1>8. \/ times[d] <= excused[d]
      \/ times[d] = excused[d] + 1 /\ (d \in DOMAIN marks \/ d \in Sending)
  BY <1>7 DEF AllAccounted, Accounted
<1>9. /\ times'[d] = IF d = day THEN times[d] + 1 ELSE times[d]
      /\ excused'[d] = IF d = day /\ d \in Sending THEN excused[d] + 1 ELSE excused[d]
      /\ times[d] \in Nat /\ excused[d] \in Nat
  <2>1. times'[d] = IF d \in {day} THEN times[d] + 1 ELSE times[d]
    BY <1>2, <1>3 DEF Plus
  <2> DEFINE S == {day} \cap Sending
  <2>2. d \in S <=> d = day /\ d \in Sending
    OBVIOUS
  <2>3. excused'[d] = IF d \in S THEN excused[d] + 1 ELSE excused[d]
    <3> HIDE DEF S
    <3>1. excused' = Plus(excused, S)
      BY <1>2 DEF S
    <3> QED
      BY <1>3, <3>1 DEF Plus
  <2> HIDE DEF S
  <2> QED
    BY <1>3, <2>1, <2>2, <2>3
<1>10. CASE d # day
  BY <1>2, <1>5, <1>8, <1>9, <1>10 DEF Accounted
<1>11. CASE d = day
  <2>1. d \notin DOMAIN marks /\ d \in Sending'
    BY <1>4, <1>6, <1>7, <1>11
  <2>2. times'[d] <= excused'[d] \/ times'[d] = excused'[d] + 1
    BY <1>8, <1>9, <1>11, <2>1
  <2> QED
    BY <2>1, <2>2 DEF Accounted
<1> QED
  BY <1>10, <1>11

LEMMA MarkIsAccounted ==
  ASSUME CostsSound, AllAccounted, NEW a \in Runners, Mark(a)
  PROVE  AllAccounted'
<1> DEFINE f == task[a].found
<1>1. /\ task[a].at = "deliver" /\ Goes(a, Idle) /\ a \in Actors
      /\ DOMAIN marks' = DOMAIN marks \cup {f.day}
      /\ times' = times /\ excused' = excused
  BY DEF Mark, Actors, counts
<1>2. ASSUME NEW d, d \in Sending PROVE d \in Sending' \/ d = f.day
  <2>1. PICK b \in Runners : task[b].at = "deliver" /\ task[b].found.day = d
    BY <1>2 DEF Sending
  <2>2. CASE b = a
    BY <2>1, <2>2
  <2>3. CASE b # a
    <3>1. task'[b] = task[b]
      BY <1>1, <2>3 DEF Goes, CostsSound, Actors
    <3> QED
      BY <2>1, <3>1 DEF Sending
  <2> QED
    BY <2>2, <2>3
<1>3. [CostsNext]_vars
  BY DEF CostsNext
<1> HIDE DEF f
<1>4. SUFFICES ASSUME NEW d \in 1 .. LastDay PROVE Accounted(d)'
  BY DEF AllAccounted
<1>5. CASE BillsStopped(d)
  BY <1>3, <1>5, StoppedForGood DEF Accounted
<1>6. CASE ~BillsStopped(d)
  BY <1>1, <1>2, <1>6 DEF AllAccounted, Accounted
<1> QED
  BY <1>5, <1>6

LEMMA StopIsAccounted ==
  ASSUME CostsSound, AllAccounted, Stop
  PROVE  AllAccounted'
<1> DEFINE lost == (Sending \cup DOMAIN marks) \ DOMAIN marks'
<1>1. times' = times /\ excused' = Plus(excused, lost)
  BY DEF Stop
<1>2. times \in [1 .. LastDay -> Nat] /\ excused \in [1 .. LastDay -> Nat]
  BY DEF CostsSound, Counts
<1>3. [CostsNext]_vars
  BY DEF CostsNext
<1>4. SUFFICES ASSUME NEW d \in 1 .. LastDay PROVE Accounted(d)'
  BY DEF AllAccounted
<1>5. CASE BillsStopped(d)
  BY <1>3, <1>5, StoppedForGood DEF Accounted
<1>6. CASE ~BillsStopped(d)
  <2>1. /\ times'[d] = times[d] /\ times[d] \in Nat /\ excused[d] \in Nat
        /\ excused'[d] = IF d \in lost THEN excused[d] + 1 ELSE excused[d]
    <3> HIDE DEF lost
    <3>1. excused'[d] = IF d \in lost THEN excused[d] + 1 ELSE excused[d]
      BY <1>1, <1>2 DEF Plus
    <3> QED
      BY <1>1, <1>2, <3>1
  <2>2. \/ times[d] <= excused[d]
        \/ times[d] = excused[d] + 1 /\ (d \in DOMAIN marks \/ d \in Sending)
    BY <1>6 DEF AllAccounted, Accounted
  <2>3. times[d] = excused[d] + 1 => d \in lost \/ d \in DOMAIN marks'
    BY <2>1, <2>2
  <2> HIDE DEF lost
  <2>4. times'[d] <= excused'[d] \/ (times'[d] = excused'[d] + 1 /\ d \in DOMAIN marks')
    BY <2>1, <2>2, <2>3
  <2> QED
    BY <2>4 DEF Accounted
<1> QED
  BY <1>5, <1>6

\* The other steps neither send nor mark nor forget.
LEMMA OthersAreAccounted ==
  ASSUME CostsSound, AllAccounted, [CostsNext]_vars,
         times' = times, excused' = excused, marks' = marks,
         \A d : d \in Sending => d \in Sending'
  PROVE  AllAccounted'
<1>1. SUFFICES ASSUME NEW d \in 1 .. LastDay PROVE Accounted(d)'
  BY DEF AllAccounted
<1>2. CASE BillsStopped(d)
  BY <1>2, StoppedForGood DEF Accounted
<1>3. CASE ~BillsStopped(d)
  BY <1>3 DEF AllAccounted, Accounted
<1> QED
  BY <1>2, <1>3

LEMMA AccountedSteps ==
  ASSUME BillsComeLate, CostsSound, AllAccounted, [CostsNext]_vars
  PROVE  AllAccounted'
<1>1. ASSUME NEW a \in Runners, Announce(a) PROVE AllAccounted'
  BY <1>1, AnnounceIsAccounted
<1>2. ASSUME NEW a \in Runners, Mark(a) PROVE AllAccounted'
  BY <1>2, MarkIsAccounted
<1>3. CASE Stop
  BY <1>3, StopIsAccounted
<1>4. ASSUME NEW a \in Actors, NEW t, Goes(a, t), task[a].at # "deliver",
             UNCHANGED <<marks, counts>>
      PROVE  AllAccounted'
  <2>1. \A d : d \in Sending => d \in Sending'
    BY <1>4, StillSending
  <2> QED
    BY <1>4, <2>1, OthersAreAccounted DEF counts
<1>5. Idle.at = "idle"
  BY DEF Idle
<1>6. ASSUME NEW a \in Runners, Run(a) \/ Judge(a) \/ BreakDown(a) \/ Withhold(a)
      PROVE  AllAccounted'
  <2>1. a \in Actors /\ UNCHANGED <<marks, counts>> /\ \E t : Goes(a, t)
    BY <1>6 DEF Run, Judge, BreakDown, Withhold, Actors
  <2>2. task[a].at # "deliver"
    BY <1>5, <1>6 DEF Run, Judge, BreakDown, Withhold
  <2> QED
    BY <1>4, <2>1, <2>2
<1>7. ASSUME NEW a \in Actors, ReadCycle(a) \/ Store(a) \/ Answer(a) \/ Fails(a)
      PROVE  AllAccounted'
  <2>1. UNCHANGED <<marks, counts>> /\ \E t : Goes(a, t)
    BY <1>7 DEF ReadCycle, Store, Answer, Fails
  <2>2. task[a].at # "deliver"
    BY <1>7 DEF ReadCycle, Store, Answer, Fails
  <2> QED
    BY <1>4, <2>1, <2>2
<1>8. CASE Ask \/ Tell
  <2>1. Agent \in Actors /\ UNCHANGED <<marks, counts>> /\ \E t : Goes(Agent, t)
    BY <1>8 DEF Ask, Tell, Actors
  <2>2. task[Agent].at # "deliver"
    BY <1>5, <1>8 DEF Ask, Tell
  <2> QED
    BY <1>4, <2>1, <2>2
<1>9. CASE Tick \/ Fill \/ NextDay \/ UNCHANGED vars
  <2>1. times' = times /\ excused' = excused /\ marks' = marks /\ task' = task
    BY <1>9 DEF Tick, Fill, NextDay, vars, counts
  <2>2. \A d : d \in Sending => d \in Sending'
    BY <2>1 DEF Sending
  <2> QED
    BY <2>1, <2>2, OthersAreAccounted
<1> QED
  BY <1>1, <1>2, <1>3, <1>6, <1>7, <1>8, <1>9 DEF CostsNext

\* A day is announced once while the bills keep coming, for any number of runs
\* at once, whatever they read and however long they take: each further notice
\* overlapped another one of that day, or came after a stop that lost its mark.
\* (cost_spike.to_message, repeat_after, Dispatcher.send)
THEOREM OneNoticeForADay == BillsComeLate /\ CostsSpec => []OneNoticeADay
<1>1. CostsInit => AllAccounted
  BY DEF CostsInit, AllAccounted, Accounted
<1>2. CostsSound /\ AllAccounted => OneNoticeADay
  BY DEF CostsSound, Counts, AllAccounted, Accounted, OneNoticeADay
<1>3. ASSUME BillsComeLate PROVE CostsSpec => []OneNoticeADay
  <2>1. CostsSound /\ AllAccounted /\ [CostsNext]_vars => AllAccounted'
    BY <1>3, AccountedSteps
  <2> QED
    BY <1>1, <1>2, <1>3, <2>1, AlwaysSound, PTL DEF CostsSpec
<1> QED
  BY <1>3

\* No excuse is needed of a single run that no stop cuts.
Alone == (\A a, b \in Runners : a = b) /\ MaxStops = 0

LEMMA NoExcuseSteps ==
  ASSUME Alone, CostsSound, excused = [d \in 1 .. LastDay |-> 0], [CostsNext]_vars
  PROVE  excused' = excused
<1>1. ASSUME NEW a \in Runners, Announce(a) PROVE excused' = excused
  <2> DEFINE S == {task[a].found.day} \cap Sending
  <2>1. task[a].at = "announce" /\ excused' = Plus(excused, S)
    BY <1>1 DEF Announce
  <2>2. task[a].found.day \notin Sending
    BY <2>1 DEF Sending, Alone
  <2>3. S = {}
    BY <2>2
  <2> HIDE DEF S
  <2> QED
    BY <2>1, <2>3 DEF Plus
<1>2. ~Stop
  <2>1. stops \in 0 .. MaxStops /\ MaxStops = 0
    BY DEF Alone, CostsSound, Counts
  <2> QED
    BY <2>1 DEF Stop
<1> QED
  BY <1>1, <1>2 DEF CostsNext, Ask, Tell, ReadCycle, Store, Answer, Fails, Run, Judge, BreakDown,
                    Withhold, Mark, Tick, Fill, NextDay, vars, counts

\* What the route promises holds of runs that come one after the other in a
\* process that does not stop: a second run sends no second notice.
\* (routes.cost_spike_run: "correrlo dos veces no manda dos SMS")
THEOREM OneRunAfterAnother == Alone /\ BillsComeLate /\ CostsSpec => []TwiceIsOneNotice
<1> DEFINE none == excused = [d \in 1 .. LastDay |-> 0]
<1>1. CostsInit => none
  BY DEF CostsInit
<1>2. OneNoticeADay /\ CostsSound /\ none => TwiceIsOneNotice
  BY DEF CostsSound, Counts, OneNoticeADay, TwiceIsOneNotice
<1>3. ASSUME Alone, BillsComeLate PROVE CostsSpec => []TwiceIsOneNotice
  <2>1. CostsSound /\ none /\ [CostsNext]_vars => none'
    BY <1>3, NoExcuseSteps
  <2> HIDE DEF none
  <2> QED
    BY <1>1, <1>2, <1>3, <2>1, AlwaysSound, OneNoticeForADay, PTL DEF CostsSpec
<1> QED
  BY <1>3
=============================================================================
