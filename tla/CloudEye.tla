------------------------------ MODULE CloudEye ------------------------------
(***************************************************************************)
(* The Cloud Eye adapter (src/copilot/adapters/metrics_cloudeye.py): what  *)
(* several coroutines do at once over its one cache, the list of every     *)
(* metric that CES knows.  A coroutine is suspended only in _call, which   *)
(* runs the SDK in a thread and gives up after budget.timeout_s:           *)
(*   list     in _metrics_meta, waiting for a page                         *)
(*   fetch    in _fetch, waiting for a batch                               *)
(*   alarms   in alerts, waiting for the histories                         *)
(*   once     in rules or check, waiting for their only call               *)
(*   done     it returned or raised                                        *)
(* Time is kept as ages, each capped where it no longer tells anything.    *)
(***************************************************************************)
EXTENDS Budget, Sequences

CONSTANTS
    Callers,      \* coroutines that use the adapter
    Resources,    \* numbers, in the order CES lists them
    Volatile,     \* those that are created and deleted while we look
    MetricOf,     \* the metric each resource reports
    Reach,        \* the first of _INSTANT_LOOKBACKS with a sample of it; 4 if none
    Calls,        \* what is asked: an operation and its arguments
    PageSize,     \* limit=1000 of list_metrics
    MaxPages,     \* the 50 of _metrics_meta
    BatchSize,    \* _BATCH
    Ttl,          \* _META_TTL_S
    Timeout,      \* budget.timeout_s
    Histories,    \* the histories of alarms, in the order CES lists them
    Ringing,      \* those with status `alarm'
    MaxHistories, \* limit=100
    KnowsStatus,  \* whether this region accepts the parameter `status'
    None

Lookbacks == 3
Oldest    == Ttl + MaxPages * Timeout  \* from here on every listing is as old

ASSUME CloudEyeAssumption ==
    /\ IsFiniteSet(Resources) /\ Resources \subseteq Nat /\ Volatile \subseteq Resources
    /\ Reach \in [Resources -> 1 .. Lookbacks + 1]
    /\ {PageSize, MaxPages, BatchSize, Ttl, Timeout, MaxHistories} \subseteq Nat \ {0}
    /\ \A call \in Calls :
          /\ call.op \in {"instant", "range", "label_values", "metadata", "alerts", "rules", "check"}
          /\ call.op \in {"instant", "range"} => call.dim \in {None} \cup Resources
    /\ IsFiniteSet(Histories) /\ Ringing \subseteq Histories /\ Histories \subseteq Nat
    /\ KnowsStatus \in BOOLEAN

VARIABLES
    world,  \* the resources CES knows now
    meta,   \* _meta: the list, its age and, observed, the age of its first page
            \* and what stood all along and is not in it
    task    \* where each coroutine is

cvars == <<world, meta, task>>

Idle == [at |-> "idle"]
Waiting == {c \in Callers : task[c].at \in {"list", "fetch", "alarms", "once"}}

Raised == [at |-> "done", kind |-> "error"]

Older(age, cap) == IF age < cap THEN age + 1 ELSE age

-----------------------------------------------------------------------------
(* What goes on without an await.                                          *)

\* mutant: a hit is good for ever
FreshForEver == meta # None

\* _metrics_meta: the cached list is good for two minutes.
Fresh == meta # None /\ meta.age < Ttl

Listing(call, back) ==
    [at |-> "list", call |-> call, back |-> back, waited |-> 0, age |-> 0,
     marker |-> -1, pages |-> 0, got |-> {}, steady |-> world]

\* mutant: the mark is dropped when a list was cut
UnmarkedFetch(call, back, wanted, age) ==
    [at |-> "fetch", call |-> call, back |-> back, waited |-> 0, age |-> age,
     wanted |-> wanted, todo |-> Cut(wanted), got |-> {}, truncated |-> FALSE]

\* _fetch, as far as its first batch.
Fetching(call, back, wanted, age) ==
    [at |-> "fetch", call |-> call, back |-> back, waited |-> 0, age |-> age,
     wanted |-> wanted, todo |-> Cut(wanted), got |-> {},
     truncated |-> Cardinality(wanted) > MaxSeries]

\* label_values and metadata: cut once everything is filtered and sorted.
Discovered(call, list, age) ==
    LET mine == {r \in list : call.metric \in {None, MetricOf[r]}}
    IN [at |-> "done", kind |-> "values", age |-> age,
        values |-> IF call.op = "metadata" THEN {MetricOf[r] : r \in mine}
                   ELSE Cut(mine)]

\* mutant: a metric that no resource reports is asked for
WithAnyList(call, back, list, age) ==
    IF call.op \in {"label_values", "metadata"} THEN Discovered(call, list, age)
    ELSE Fetching(call, back, {r \in list : MetricOf[r] = call.metric}, age)

\* What a coroutine does with the list: _expand, or its answer.
WithList(call, back, list, age) ==
    IF call.op \in {"label_values", "metadata"} THEN Discovered(call, list, age)
    ELSE LET wanted == {r \in list : MetricOf[r] = call.metric}
         IN IF wanted = {} THEN Raised ELSE Fetching(call, back, wanted, age)

\* Up to the next await, from where the list or the dimensions are needed.
Proceed(call, back) ==
    IF call.op \in {"instant", "range"} /\ call.dim # None
    THEN Fetching(call, back, {call.dim}, 0)
    ELSE IF Fresh THEN WithList(call, back, meta.list, meta.first)
    ELSE Listing(call, back)

-----------------------------------------------------------------------------
\* A coroutine calls the adapter.  A query that parse_query does not
\* understand and a bad span are refused before the first call.
Ask(c, call) ==
    /\ task[c].at = "idle"
    /\ task' = [task EXCEPT ![c] =
           CASE call.op \in {"instant", "range"} /\ ~call.wellFormed -> Raised
             [] call.op = "alerts" ->
                    [at |-> "alarms", waited |-> 0, status |-> TRUE]
             [] call.op \in {"rules", "check"} -> [at |-> "once", waited |-> 0]
             [] OTHER -> Proceed(call, IF call.op = "instant" THEN 1 ELSE Lookbacks)]
    /\ UNCHANGED <<world, meta>>

\* What list_metrics answers after a marker.
PageAfter(marker) == First({r \in world : r > marker}, PageSize)
MoreAfter(page) == page # {} /\ \E r \in world : r > Max(page)

\* mutant: a listing ends with its first page
LastPage(t) == TRUE

LastOf(t) == ~MoreAfter(PageAfter(t.marker)) \/ t.pages + 1 = MaxPages

\* A page of the list arrives.  The last one fills the cache, whoever filled
\* it meanwhile.
Page(c) ==
    /\ task[c].at = "list"
    /\ LET t    == task[c]
           page == PageAfter(t.marker)
           list == t.got \cup page
       IN IF LastOf(t)
          THEN /\ meta' = [list |-> list, age |-> 0, first |-> t.age,
                           missed |-> IF t.pages + 1 = MaxPages /\ MoreAfter(page) THEN {}
                                     ELSE t.steady \ list]
               /\ task' = [task EXCEPT ![c] = WithList(t.call, t.back, list, t.age)]
          ELSE /\ task' = [task EXCEPT ![c].marker = Max(page), ![c].pages = @ + 1,
                                       ![c].got = list, ![c].waited = 0]
               /\ UNCHANGED meta
    /\ UNCHANGED world

\* mutant: a window with series, if empty ones, is good enough
AnySeries(t, got) == TRUE

\* any(s.samples for s in series)
AnySample(t, got) == got # {}

\* A batch of series arrives.  The last of a window ends the call, unless an
\* instant found no sample and has a longer window to look at.
Batch(c) ==
    /\ task[c].at = "fetch"
    /\ LET t    == task[c]
           lote == First(t.todo, BatchSize)
           got  == t.got \cup {r \in lote : Reach[r] <= t.back}
       IN task' = [task EXCEPT ![c] =
              IF t.todo # lote
              THEN [t EXCEPT !.todo = @ \ lote, !.got = got, !.waited = 0]
              ELSE IF t.call.op = "instant" /\ ~AnySample(t, got) /\ t.back < Lookbacks
              THEN Proceed(t.call, t.back + 1)
              ELSE [at |-> "done", kind |-> "series", op |-> t.call.op, got |-> got,
                    wanted |-> t.wanted, truncated |-> t.truncated, age |-> t.age]]
    /\ UNCHANGED <<world, meta>>

\* mutant: what came without the filter of the region is not filtered here
Unfiltered(status) == First(Histories, MaxHistories)

\* list_alarm_histories, and the filter of alerts.
HistoriesOf(status) ==
    IF status THEN First(Ringing, MaxHistories)
    ELSE First(Histories, MaxHistories) \cap Ringing

\* The histories arrive; where `status' is not known, CES says so and they are
\* asked for again without it.
Alarms(c) ==
    /\ task[c].at = "alarms"
    /\ task' = [task EXCEPT ![c] =
           IF task[c].status /\ ~KnowsStatus
           THEN [task[c] EXCEPT !.status = FALSE, !.waited = 0]
           ELSE [at |-> "done", kind |-> "alarms",
                 alarms |-> Cut(HistoriesOf(task[c].status))]]
    /\ UNCHANGED <<world, meta>>

Once(c) ==
    /\ task[c].at = "once"
    /\ task' = [task EXCEPT ![c] = [at |-> "done", kind |-> "fine"]]
    /\ UNCHANGED <<world, meta>>

\* mutant: nobody gives up on a call
NeverOverdue(c) == FALSE

Overdue(c) == c \in Waiting /\ task[c].waited = Timeout

\* The SDK raises, or wait_for gives up: the list so far is lost and the cache
\* stays as it was.
Fail(c) ==
    /\ c \in Waiting
    /\ task' = [task EXCEPT ![c] = Raised]
    /\ UNCHANGED <<world, meta>>

GiveUp(c) == Overdue(c) /\ Fail(c)

Return(c) ==
    /\ task[c].at = "done"
    /\ task' = [task EXCEPT ![c] = Idle]
    /\ UNCHANGED <<world, meta>>

\* A resource is created or deleted in the account.
Change(r) ==
    /\ world' = (world \ {r}) \cup ({r} \ world)
    /\ task' = [c \in Callers |->
           IF task[c].at = "list" THEN [task[c] EXCEPT !.steady = @ \cap world'] ELSE task[c]]
    /\ UNCHANGED meta

\* A unit of time passes: no call waits longer than its timeout.
Tick ==
    /\ \A c \in Waiting : ~Overdue(c)
    /\ meta' = IF meta = None THEN None
               ELSE [meta EXCEPT !.age = Older(@, Ttl), !.first = Older(@, Oldest)]
    /\ task' = [c \in Callers |->
           CASE task[c].at = "list" ->
                    [task[c] EXCEPT !.waited = Older(@, Timeout), !.age = Older(@, Oldest)]
             [] task[c].at \in {"fetch", "alarms", "once"} ->
                    [task[c] EXCEPT !.waited = Older(@, Timeout)]
             [] OTHER -> task[c]]
    /\ UNCHANGED world

CloudEyeInit ==
    /\ world = Resources
    /\ meta = None
    /\ task = [c \in Callers |-> Idle]

\* CES or the SDK ends the call a coroutine waits for.
Arrive(c) == Page(c) \/ Batch(c) \/ Alarms(c) \/ Once(c)

CloudEyeNext ==
    \/ \E c \in Callers, call \in Calls : Ask(c, call)
    \/ \E c \in Callers : Arrive(c) \/ Fail(c) \/ Return(c)
    \/ \E r \in Volatile : Change(r)
    \/ Tick

\* Time passes and wait_for gives up in time; that CES answers is not assumed.
CloudEyeSpec ==
    /\ CloudEyeInit /\ [][CloudEyeNext]_cvars
    /\ WF_cvars(Tick)
    /\ \A c \in Callers : WF_cvars(GiveUp(c)) /\ WF_cvars(Return(c))

-----------------------------------------------------------------------------
CloudEyeTypeOK ==
    /\ world \subseteq Resources
    /\ meta = None \/ (/\ meta.list \subseteq Resources
                       /\ meta.age \in 0 .. Ttl /\ meta.first \in 0 .. Oldest)
    /\ \A c \in Callers :
          /\ task[c].at \in {"idle", "list", "fetch", "alarms", "once", "done"}
          /\ c \in Waiting => task[c].waited \in 0 .. Timeout
          /\ task[c].at = "list" => task[c].pages < MaxPages
          /\ task[c].at = "fetch" => task[c].todo # {}

Answers(kind) == {c \in Callers : task[c].at = "done" /\ task[c].kind = kind}

\* What an answer rests on was listed at most two minutes before, plus what
\* fifty pages may take: concurrent misses and slow listings included
\* (metrics_cloudeye.py:185-209).
ListIsRecent ==
    \A c \in Answers("values") \cup Answers("series") : task[c].age < Oldest

\* A listing that ended has every resource that stood from its first page to
\* its last, unless it was cut at fifty pages: a failed one leaves nothing.
ListIsWhole == meta # None => meta.missed = {}

\* What the adapter takes for the catalogue of the region is recent and whole.
ListIsSound == ListIsRecent /\ ListIsWhole

\* A query of series says whether it asked for all of them, and asks for every
\* one up to max_series, whatever the batches (metrics_cloudeye.py:242-272).
PartIsMarked ==
    \A c \in Answers("series") :
        /\ task[c].truncated <=> ~(task[c].wanted \subseteq Cut(task[c].wanted))
        /\ task[c].op = "range" =>
               task[c].got = {r \in Cut(task[c].wanted) : Reach[r] <= Lookbacks}

\* An instant looks as far back as it takes and no farther (277-291): it shows
\* something whenever a resource it asked for reported in the last day, and no
\* resource it leaves out is fresher than one it shows.
InstantIsNewest ==
    \A c \in Answers("series") :
        task[c].op = "instant" =>
            LET asked == Cut(task[c].wanted)
            IN /\ (\E r \in asked : Reach[r] <= Lookbacks) => task[c].got # {}
               /\ \A shown \in task[c].got, r \in asked \ task[c].got : Reach[shown] < Reach[r]

\* A region that does not know `status' answers the same alarms as one that
\* does, as long as the histories fit in one page (351-374).
AlarmsAreRinging ==
    \A c \in Answers("alarms") :
        Cardinality(Histories) <= MaxHistories => task[c].alarms = Cut(Ringing)

\* Every call of the adapter ends, even when CES never answers one.
EveryCallEnds == \A c \in Callers : (c \in Waiting) ~> (c \notin Waiting)
=============================================================================
