------------------------------- MODULE Costs -------------------------------
(***************************************************************************)
(* The spend: the cost adapters (cost_huawei_bss.py with its cache, and    *)
(* cost_promql.py), the spike detector that the scheduler runs, and the    *)
(* cost tools of the agent.  Coroutines read at once: the agent's and the  *)
(* Runners, which are in run_once.  A coroutine is                         *)
(*   idle      between two calls                                           *)
(*   fetch     in HuaweiBssCost._fetch_sync, one billing cycle at a time   *)
(*   query     in PromqlCost, waiting for the metrics backend              *)
(*   read      back with its rows                                          *)
(*   announce  about to call Dispatcher.send                               *)
(*   deliver   in its deliveries: sent, and not marked yet                 *)
(* What it reads is the daily series or, `split', what each service spent; *)
(* of a split only the total is kept.  A day is a number, a history maps   *)
(* the days that have a bill to what was spent.                            *)
(***************************************************************************)
EXTENDS Integers, FiniteSets, FiniteSetsExt, Functions

CONSTANTS
    Histories,      \* what may be spent, day by day
    FirstDay, LastDay,
    CycleOf,        \* the billing cycle (month) of each day
    Adapters,       \* the cost adapters that may be configured
    LagOf,          \* lag_days of each
    WindowDays,     \* cost_spike.window_days
    MinDays,        \* cost_spike.min_days
    MinAmount,      \* cost_spike.min_amount
    Threshold,      \* cost_spike.threshold, in hundredths
    MaxDays,        \* MAX_DAYS of tools_cost
    AskedDays,      \* the `days' the model asks for
    RepeatAfter,    \* repeat_after of the notice, in days
    CacheTtl,       \* _CACHE_TTL_S
    Runners,        \* the scheduler's task and the requests of the route
    MaxStops,       \* bound: how often the process stops
    None

Agent  == "agent"
Actors == Runners \cup {Agent}

AtLeast(n, x) == IF x > n THEN x ELSE n
AtMost(n, x) == IF x < n THEN x ELSE n

ASSUME CostsAssumption ==
    /\ LastDay \in Nat /\ FirstDay \in 1 .. LastDay
    /\ \A h \in Histories : DOMAIN h \subseteq 1 .. LastDay /\ \A d \in DOMAIN h : h[d] \in Nat
    /\ Adapters \subseteq {"huawei_bss", "promql"} /\ LagOf \in [Adapters -> Int]
    /\ {WindowDays, MinDays, MaxDays, CacheTtl, RepeatAfter} \subseteq Nat \ {0}
    /\ AskedDays \subseteq Int /\ WindowDays >= MinDays /\ RepeatAfter > 1
    /\ \A a \in Adapters : FirstDay > AtLeast(WindowDays, MaxDays) + AtLeast(0, LagOf[a])
    /\ CycleOf \in [1 .. LastDay -> Nat] /\ Threshold > 100
    /\ Agent \notin Runners /\ MaxStops \in Nat

VARIABLES
    adapter,
    history,  \* what is spent in the end, each day
    today,
    soFar,    \* the part of today that is spent
    cache,    \* _cache: window -> rows and age
    task,
    marks,    \* the dispatcher's: day of a spike -> when it was last announced
    notice,   \* today's last announcement
    answer,   \* today's last answer of cost_daily
    times,    \* how many times each day was announced
    excused,  \* of them, those that overlapped another or came after a mark was lost
    stops

vars == <<adapter, history, today, soFar, cache, task, marks, notice, answer, times, excused, stops>>
clock == <<adapter, history, today, soFar>>
counts == <<times, excused>>

Idle == [at |-> "idle"]

\* What a backend would bill for a day if it were asked now: a day that is
\* over does not change any more.
Billed(d) == IF d < today THEN history[d] ELSE soFar
Days(from, to) == {d \in from .. to : d <= today /\ d \in DOMAIN history}

-----------------------------------------------------------------------------
(* Windows.                                                                *)

\* mutant: today counts as a whole day
UpToToday(days) == <<today - AtLeast(1, days) + 1, today>>

\* evaluate: whole days only.
Window(days) ==
    LET until == today - AtLeast(0, LagOf[adapter])
    IN <<until - AtLeast(1, days) + 1, until>>

\* _window of the tools: the same with a ceiling.
ToolWindow(days) == Window(AtMost(MaxDays, AtLeast(1, days)))

\* mutant: the months after the first one are never reached
FirstCycle(w) == {CycleOf[w[1]]}

\* mutant: the last cycle is read to its end
CycleToItsEnd(w, cycle) == {d \in w[1] .. LastDay : CycleOf[d] = cycle}

\* _months: the part of a window in one billing cycle.
Part(w, cycle) == {d \in w[1] .. w[2] : CycleOf[d] = cycle}
Cycles(w) == {CycleOf[d] : d \in w[1] .. w[2]}

-----------------------------------------------------------------------------
(* The rule.                                                               *)

\* The k-th smallest amount of some days.
Kth(points, S, k) ==
    CHOOSE v \in {points[d] : d \in S} :
        /\ Cardinality({d \in S : points[d] < v}) < k
        /\ k <= Cardinality({d \in S : points[d] <= v})

\* Twice statistics.median.
TwiceMedian(points, S) ==
    LET n == Cardinality(S)
    IN Kth(points, S, (n + 1) \div 2) + Kth(points, S, n \div 2 + 1)

\* mutant: the day that is compared is part of its own baseline
BaseWithLast(S) == S

Base(S) == S \ {Max(S)}

\* evaluate
Evaluate(points) ==
    LET S == {d \in DOMAIN points : points[d] > 0}
    IN IF Cardinality(S) < MinDays THEN [outcome |-> "no_data"]
       ELSE IF Base(S) = {} THEN [outcome |-> "error"]
       ELSE LET day == Max(S)
                twice == TwiceMedian(points, Base(S))
            IN [outcome |-> IF 200 * points[day] < Threshold * twice \/ points[day] < MinAmount
                            THEN "clear" ELSE "spike",
                day |-> day, amount |-> points[day], twice |-> twice]

\* mutant: the tool takes the median with the last day in it
DailyWithLast(points) ==
    IF points = <<>> THEN None
    ELSE LET S == DOMAIN points
         IN [day |-> Max(S), amount |-> points[Max(S)], twice |-> TwiceMedian(points, S)]

\* cost_daily: the same rule, on every point it got.
Daily(points) ==
    IF points = <<>> THEN None
    ELSE LET S == DOMAIN points
             base == IF Cardinality(S) > 1 THEN S \ {Max(S)} ELSE S
         IN [day |-> Max(S), amount |-> points[Max(S)], twice |-> TwiceMedian(points, base)]

-----------------------------------------------------------------------------
(* What the adapters make of what they read.                               *)

\* PromqlCost.daily_series: the sample of 00:00 on a day is the increase of
\* the day before, and takes the date it bears.
PromqlSeries(w) == [d \in {e \in w[1] .. w[2] : e - 1 \in Days(0, today)} |-> Billed(d - 1)]

\* _slices: at the end of the window, over the whole of it.
PromqlSplit(w) == [d \in Days(w[1], w[2]) |-> Billed(d)]

Total(points) == SumFunction(points)

-----------------------------------------------------------------------------
(* A coroutine reads.                                                      *)

CostsInit ==
    /\ adapter \in Adapters /\ history \in Histories
    /\ today = FirstDay /\ soFar = 0
    /\ cache = <<>> /\ marks = <<>>
    /\ task = [a \in Actors |-> Idle]
    /\ notice = None /\ answer = None
    /\ times = [d \in 1 .. LastDay |-> 0] /\ excused = times /\ stops = 0

\* mutant: every answer is good for ever
Everything == DOMAIN cache

Alive == {w \in DOMAIN cache : cache[w].age < CacheTtl}

\* _records, when BSS has answered: what is past its time goes, as the dict is now.
Stored(w, rows) == [v \in Alive \cup {w} |->
                       IF v = w THEN [rows |-> rows, age |-> 0] ELSE cache[v]]

\* The first step of a read: a fresh answer of BSS is used at once.
Reading(what, w, found) ==
    IF adapter = "promql"
    THEN [at |-> "query", what |-> what, window |-> w, found |-> found]
    ELSE IF w \in Alive
    THEN [at |-> "read", what |-> what, window |-> w, found |-> found, rows |-> cache[w].rows]
    ELSE [at |-> "fetch", what |-> what, window |-> w, found |-> found, left |-> Cycles(w),
          rows |-> <<>>]

Goes(a, t) == task' = [task EXCEPT ![a] = t]

\* run_once, of the scheduler or a request: nothing keeps one from another.
Run(a) ==
       /\ task[a] = Idle
       /\ Goes(a, Reading("daily", Window(WindowDays), None))
       /\ UNCHANGED <<clock, cache, marks, notice, answer, counts, stops>>

\* cost_daily, cost_by_service and cost_by_resource.
Ask == /\ task[Agent] = Idle
       /\ \E days \in AskedDays, what \in {"daily", "split"} :
             Goes(Agent, Reading(what, ToolWindow(days), None))
       /\ UNCHANGED <<clock, cache, marks, notice, answer, counts, stops>>

\* The rows with those of one more cycle.
WithCycle(rows, new) ==
    [d \in DOMAIN rows \cup new |-> IF d \in new THEN Billed(d) ELSE rows[d]]

\* _fetch_sync: one call for each billing cycle.
ReadCycle(a) ==
    LET t == task[a]
        cycle == Min(t.left)
        new == Part(t.window, cycle) \cap Days(1, today)
    IN
    /\ t.at = "fetch" /\ t.left # {}
    /\ Goes(a, [at |-> "fetch", what |-> t.what, window |-> t.window, found |-> t.found,
                left |-> t.left \ {cycle}, rows |-> WithCycle(t.rows, new)])
    /\ UNCHANGED <<clock, cache, marks, notice, answer, counts, stops>>

\* _records, back in the loop.
Store(a) ==
    LET t == task[a] IN
    /\ t.at = "fetch" /\ t.left = {}
    /\ cache' = Stored(t.window, t.rows)
    /\ Goes(a, [at |-> "read", what |-> t.what, window |-> t.window, found |-> t.found,
                rows |-> t.rows])
    /\ UNCHANGED <<clock, marks, notice, answer, counts, stops>>

\* daily_series and _slices of PromqlCost.
Answer(a) ==
    LET t == task[a] IN
    /\ t.at = "query"
    /\ Goes(a, [at |-> "read", what |-> t.what, window |-> t.window, found |-> t.found,
                rows |-> IF t.what = "daily" THEN PromqlSeries(t.window) ELSE PromqlSplit(t.window)])
    /\ UNCHANGED <<clock, cache, marks, notice, answer, counts, stops>>

\* A CostError: the verdict `error' or the error of a tool; without a
\* breakdown the notice goes out all the same.
Fails(a) ==
    LET t == task[a] IN
    /\ t.at = "query" \/ (t.at = "fetch" /\ t.left # {})
    /\ Goes(a, IF t.found = None THEN Idle ELSE [at |-> "announce", found |-> t.found])
    /\ UNCHANGED <<clock, cache, marks, notice, answer, counts, stops>>

-----------------------------------------------------------------------------
(* And uses what it has read.                                              *)

\* The tool's answer.
Tell ==
    LET t == task[Agent] IN
    /\ t.at = "read"
    /\ answer' = IF t.what = "daily" THEN [window |-> t.window, said |-> Daily(t.rows)] ELSE answer
    /\ Goes(Agent, Idle)
    /\ UNCHANGED <<clock, cache, marks, notice, counts, stops>>

\* evaluate: a spike is broken down by service.
Judge(a) ==
    LET t == task[a] v == Evaluate(t.rows) IN
    /\ t.at = "read" /\ t.what = "daily"
    /\ Goes(a,
            IF v.outcome # "spike" THEN Idle
            ELSE Reading("split", <<v.day, v.day>>,
                         [day |-> v.day, amount |-> v.amount, twice |-> v.twice,
                          window |-> t.window, split |-> None]))
    /\ UNCHANGED <<clock, cache, marks, notice, answer, counts, stops>>

BreakDown(a) ==
    LET t == task[a] IN
    /\ t.at = "read" /\ t.what = "split"
    /\ Goes(a, [at |-> "announce", found |-> [t.found EXCEPT !.split = Total(t.rows)]])
    /\ UNCHANGED <<clock, cache, marks, notice, answer, counts, stops>>

\* mutant: the notice is repeated every day, like the others
MarkedToday(day) == day \in DOMAIN marks /\ today = marks[day]

\* The notice is deduplicated for the whole of its repeat_after.
Marked(day) == day \in DOMAIN marks /\ today - marks[day] < RepeatAfter

\* The days of which a notice is on its way.
Sending == {task[b].found.day : b \in {c \in Runners : task[c].at = "deliver"}}

Plus(counter, S) == [d \in DOMAIN counter |-> IF d \in S THEN counter[d] + 1 ELSE counter[d]]

\* to_message, and Dispatcher.send up to its first delivery.
Announce(a) ==
    LET f == task[a].found IN
    /\ task[a].at = "announce" /\ ~Marked(f.day)
    /\ notice' = f
    /\ times' = Plus(times, {f.day})
    /\ excused' = Plus(excused, {f.day} \cap Sending)
    /\ Goes(a, [at |-> "deliver", found |-> f, since |-> today])
    /\ UNCHANGED <<clock, cache, marks, answer, stops>>

\* A send that delivers nothing and marks nothing: the day is marked, or the
\* notice is unrouted, in quiet hours or over the cap.
Withhold(a) ==
    /\ task[a].at = "announce"
    /\ Goes(a, Idle)
    /\ UNCHANGED <<clock, cache, marks, notice, answer, counts, stops>>

\* And from its last delivery on, though it failed: the mark bears the
\* instant at which send was called.
Mark(a) ==
    LET day == task[a].found.day IN
    /\ task[a].at = "deliver"
    /\ marks' = [d \in DOMAIN marks \cup {day} |-> IF d = day THEN task[a].since ELSE marks[d]]
    /\ Goes(a, Idle)
    /\ UNCHANGED <<clock, cache, notice, answer, counts, stops>>

\* The process stops, with the scheduler's task cancelled, or dies, at any
\* await, and starts again: what it remembers is the marks, with a state file.
Stop ==
    /\ stops < MaxStops /\ stops' = stops + 1
    /\ marks' \in {marks, <<>>}
    /\ excused' = Plus(excused, (Sending \cup DOMAIN marks) \ DOMAIN marks')
    /\ task' = [a \in Actors |-> Idle] /\ cache' = <<>>
    /\ UNCHANGED <<clock, notice, answer, times>>

-----------------------------------------------------------------------------
(* Time.                                                                   *)

Older == [w \in DOMAIN cache |-> [cache[w] EXCEPT !.age = AtMost(CacheTtl, @ + 1)]]

Tick == /\ \E w \in DOMAIN cache : cache[w].age < CacheTtl
        /\ cache' = Older
        /\ UNCHANGED <<clock, task, marks, notice, answer, counts, stops>>

\* Today's bill grows.
Fill == /\ today \in DOMAIN history /\ soFar < history[today]
        /\ soFar' = history[today]
        /\ UNCHANGED <<adapter, history, today, cache, task, marks, notice, answer, counts, stops>>

\* The day in which a coroutine began: no call lasts a whole day.
Begun(t) ==
    CASE t = Idle -> today
      [] t # Idle /\ t.found = None -> t.window[2] + AtLeast(0, LagOf[adapter])
      [] t # Idle /\ t.found # None -> t.found.window[2] + AtLeast(0, LagOf[adapter])

NextDay == /\ today < LastDay
           /\ \A a \in Actors : Begun(task[a]) = today
           /\ today' = today + 1 /\ soFar' = 0 /\ cache' = Older
           /\ notice' = None /\ answer' = None
           /\ UNCHANGED <<adapter, history, task, marks, counts, stops>>

CostsNext ==
    \/ Ask \/ Tell
    \/ \E a \in Actors : ReadCycle(a) \/ Store(a) \/ Answer(a) \/ Fails(a)
    \/ \E a \in Runners : Run(a) \/ Judge(a) \/ BreakDown(a) \/ Announce(a) \/ Withhold(a) \/ Mark(a)
    \/ Stop \/ Tick \/ Fill \/ NextDay

CostsSpec == CostsInit /\ [][CostsNext]_vars

-----------------------------------------------------------------------------
(* Properties.                                                             *)

Finding == [day : 1 .. LastDay, amount : Nat, twice : Nat, window : Nat \X Nat, split : Nat \cup {None}]

ASSUME NoneIsNoFinding == None \notin Finding

\* What each coroutine holds is of its kind, a row is a day of the bill, and
\* no answer of BSS is older than its time to live.
CostsTypeOK ==
    /\ adapter \in Adapters /\ history \in Histories
    /\ today \in FirstDay .. LastDay /\ soFar \in Nat
    /\ \A w \in DOMAIN cache : cache[w].age \in 0 .. CacheTtl
    /\ \A a \in Actors : task[a].at \in {"idle", "query", "fetch", "read", "announce", "deliver"}
    /\ task[Agent].at \notin {"announce", "deliver"}
    /\ \A a \in Actors : task[a].at = "deliver" => task[a].since \in FirstDay .. today
    /\ \A a \in Actors : task[a].at = "fetch" =>
          /\ task[a].left \subseteq Cycles(task[a].window)
          /\ DOMAIN task[a].rows \subseteq task[a].window[1] .. task[a].window[2]
    /\ notice # None => notice \in Finding
    /\ \A d \in DOMAIN marks : marks[d] \in FirstDay .. today
    /\ times \in [1 .. LastDay -> Nat] /\ excused \in [1 .. LastDay -> Nat]
    /\ stops \in 0 .. MaxStops

\* The days of a window that have a bill when the month is closed.
BillOf(w) == [d \in (w[1] .. w[2]) \cap DOMAIN history |-> history[d]]

\* What is kept of BSS is the bill of the window it is kept under, whole and
\* final: no cycle missing, none read past the window, no day still open,
\* though two coroutines read and store across a midnight.
\* (cost_huawei_bss._months, _fetch_sync, _records)
CacheIsTheBill == \A w \in DOMAIN cache : cache[w].rows = BillOf(w)

\* When an answer is stored the expired ones go, those of the other coroutine
\* as well: memory does not fill with the customer's bills.
\* (cost_huawei_bss._records)
NothingDeadBesideTheNew ==
    \A v, w \in DOMAIN cache : cache[v].age = 0 => cache[w].age < CacheTtl

\* So the cache answers right, and does not grow.
CacheIsSound == CacheIsTheBill /\ NothingDeadBesideTheNew

\* The day of spending a point stands for: a sample of increase[1d] at 00:00
\* is of the day before the date it bears.
SpentOn(d) == IF adapter = "promql" THEN d - 1 ELSE d

\* What is announced was spent on a day that is over, all of it: the day that
\* is filling never makes a spike.  (cost_spike.evaluate, lag_days)
SpikeIsOfAFullDay ==
    notice # None =>
        /\ SpentOn(notice.day) < today
        /\ notice.amount = history[SpentOn(notice.day)]

\* A day without a bill has gone by since the one of that date.
BillsStopped(d) == \E e \in SpentOn(d) + 1 .. today - 1 : e \notin DOMAIN history \/ history[e] = 0

\* A day is announced once while the bills keep coming, however many runs look
\* at it: every notice of it after the first was sent while another one of
\* the same day was on its way, or follows a stop that lost the mark.
\* (cost_spike.to_message, repeat_after, Dispatcher.send)
OneNoticeADay == \A d \in 1 .. LastDay : times[d] > 1 + excused[d] => BillsStopped(d)

\* To run the detector twice is not to send two notices, without the excuse.
\* (routes.cost_spike_run: "correrlo dos veces no manda dos SMS")
TwiceIsOneNotice == \A d \in 1 .. LastDay : times[d] > 1 => BillsStopped(d)

\* The tool tells what the detector announced for the same window: the same
\* day, the same amount and the same median.
SameNumbers ==
    (notice # None /\ answer # None /\ notice.window = answer.window) =>
        answer.said = [day |-> notice.day, amount |-> notice.amount, twice |-> notice.twice]

\* ... when every day of the window cost something.  (tools_cost.cost_daily)
SameNumbersIfPaid ==
    (notice # None /\ \A d \in notice.window[1] - 1 .. notice.window[2] :
                          d \in DOMAIN history => history[d] > 0) => SameNumbers

\* The services listed in a notice are those of the spend it announces: while
\* there are no more than the five it has room for, they add up to its amount.
BreakdownAddsUp ==
    (notice # None /\ notice.split # None) => notice.split = notice.amount

\* ... with the bills of BSS.  (cost_spike.evaluate, HuaweiBssCost.by_service)
BillAddsUp == adapter = "huawei_bss" => BreakdownAddsUp

\* So the amount and the services of a notice are of one day that is over.
NoticeIsTrue == SpikeIsOfAFullDay /\ BillAddsUp
=============================================================================
