--------------------------- MODULE CloudEyeProofs ---------------------------
(***************************************************************************)
(* Theorems about the coroutines that share the Cloud Eye adapter, for any *)
(* number of them, any resources that come and go, any sizes of pages and  *)
(* batches, and any timeouts.                                              *)
(***************************************************************************)
EXTENDS CloudEye, SlicesProofs

(***************************************************************************)
(* What holds of a coroutine wherever it is, beside the resources w that   *)
(* stand.                                                                  *)
(***************************************************************************)
ListTask ==
    [at : {"list"}, call : Calls, back : 1 .. Lookbacks, waited : 0 .. Timeout, age : Nat,
     marker : Int, pages : Nat, got : SUBSET Resources, steady : SUBSET Resources]

FetchTask ==
    [at : {"fetch"}, call : Calls, back : 1 .. Lookbacks, waited : 0 .. Timeout, age : Nat,
     wanted : SUBSET Resources, todo : SUBSET Resources, got : SUBSET Resources,
     truncated : BOOLEAN]

Reported(S, back) == {r \in S : Reach[r] <= back}

\* An instant looks back step by step, a range over all of its span.
LooksBack(call, back) == call.op = "range" => back = Lookbacks

\* A listing is no older than its pages took, and has what stood all along up
\* to its marker.
IsListing(t, w) ==
    /\ t \in ListTask /\ t.pages < MaxPages
    /\ t.age <= t.pages * Timeout + t.waited
    /\ t.call.op \in {"instant", "range", "label_values", "metadata"} /\ LooksBack(t.call, t.back)
    /\ t.steady \subseteq w
    /\ \A r \in t.steady : r <= t.marker => r \in t.got

\* The batches that came have been looked at, and the mark tells the cut.
IsFetching(t) ==
    /\ t \in FetchTask /\ t.age < Oldest
    /\ t.call.op \in {"instant", "range"} /\ LooksBack(t.call, t.back)
    /\ t.todo # {} /\ t.todo \subseteq Cut(t.wanted)
    /\ t.got = Reported(Cut(t.wanted) \ t.todo, t.back)
    /\ t.truncated <=> ~(t.wanted \subseteq Cut(t.wanted))

IsCalling(t) ==
    \/ t \in [at : {"alarms"}, waited : 0 .. Timeout, status : BOOLEAN]
    \/ t \in [at : {"once"}, waited : 0 .. Timeout]

\* A series that is shown is of the window that ended the call.
IsSeries(t) ==
    /\ t.kind = "series" /\ t.age < Oldest /\ t.wanted \subseteq Resources
    /\ t.truncated <=> ~(t.wanted \subseteq Cut(t.wanted))
    /\ \E back \in 1 .. Lookbacks :
          /\ t.got = Reported(Cut(t.wanted), back)
          /\ t.op = "range" => back = Lookbacks
          /\ t.op = "instant" => t.got # {} \/ back = Lookbacks

IsDone(t) ==
    /\ t.at = "done"
    /\ \/ t.kind \in {"error", "fine"}
       \/ t.kind = "values" /\ t.age < Oldest
       \/ IsSeries(t)
       \/ t.kind = "alarms" /\ (Cardinality(Histories) <= MaxHistories => t.alarms = Cut(Ringing))

Sound(t, w) ==
    t = Idle \/ IsListing(t, w) \/ IsFetching(t) \/ IsCalling(t) \/ IsDone(t)

\* The list that is kept is no older than its pages and its stay, and whole.
MetaSound ==
    meta # None =>
        /\ meta \in [list : SUBSET Resources, age : 0 .. Ttl, first : Nat, missed : {{}}]
        /\ meta.first <= MaxPages * Timeout + meta.age

AdapterSound ==
    /\ world \subseteq Resources /\ DOMAIN task = Callers
    /\ \A c \in Callers : Sound(task[c], world)
    /\ MetaSound

-----------------------------------------------------------------------------
(* What a coroutine does up to its next await.                             *)

LEMMA LimitsAreSizes ==
  /\ PageSize \in Nat \ {0} /\ MaxPages \in Nat \ {0} /\ BatchSize \in Nat \ {0}
  /\ Ttl \in Nat \ {0} /\ Timeout \in Nat \ {0} /\ MaxHistories \in Nat \ {0}
  /\ MaxSeries \in Nat \ {0}
  /\ MaxPages * Timeout \in Nat /\ Oldest = Ttl + MaxPages * Timeout /\ Oldest \in Nat
BY CloudEyeAssumption, BudgetAssumption DEF Oldest

LEMMA PartsAreFinite ==
  ASSUME NEW S \in SUBSET Resources
  PROVE  S \in SUBSET Nat /\ IsFiniteSet(S)
BY CloudEyeAssumption, FS_Subset

\* _fetch: some series at the first batch.
LEMMA FetchingIsSound ==
  ASSUME NEW call \in Calls, NEW back \in 1 .. Lookbacks, NEW age \in Nat,
         NEW wanted \in SUBSET Resources, wanted # {}, age < Oldest,
         call.op \in {"instant", "range"}, LooksBack(call, back)
  PROVE  IsFetching(Fetching(call, back, wanted, age))
<1> DEFINE t == Fetching(call, back, wanted, age)
<1>1. wanted \in SUBSET Nat /\ IsFiniteSet(wanted)
  BY PartsAreFinite
<1>2. Cut(wanted) # {} /\ Cut(wanted) \subseteq wanted
  BY <1>1, FirstIsNotEmpty, LimitsAreSizes DEF Cut, First
<1>3. t.truncated <=> ~(t.wanted \subseteq Cut(t.wanted))
  BY <1>1, FirstLeavesOut, LimitsAreSizes DEF Fetching, Cut
<1>4. t \in FetchTask
  <2>1. (Cardinality(wanted) > MaxSeries) \in BOOLEAN
    OBVIOUS
  <2>2. 0 \in 0 .. Timeout
    BY LimitsAreSizes
  <2> QED
    BY <1>2, <2>1, <2>2 DEF Fetching, FetchTask
<1>5. t.got = Reported(Cut(t.wanted) \ t.todo, t.back)
  BY DEF Fetching, Reported
<1> QED
  BY <1>2, <1>3, <1>4, <1>5 DEF Fetching, IsFetching

LEMMA RaisedIsSound == IsDone(Raised)
BY DEF Raised, IsDone

\* _expand, label_values, metadata.
LEMMA WithListIsSound ==
  ASSUME NEW call \in Calls, NEW back \in 1 .. Lookbacks, NEW age \in Nat, age < Oldest,
         call.op \in {"instant", "range", "label_values", "metadata"}, LooksBack(call, back),
         NEW list \in SUBSET Resources
  PROVE  IsFetching(WithList(call, back, list, age)) \/ IsDone(WithList(call, back, list, age))
<1>1. CASE call.op \in {"label_values", "metadata"}
  BY <1>1 DEF WithList, Discovered, IsDone
<1>2. CASE call.op \in {"instant", "range"}
  <2> DEFINE wanted == {r \in list : MetricOf[r] = call.metric}
  <2>1. CASE wanted = {}
    BY <1>2, <2>1, RaisedIsSound DEF WithList
  <2>2. CASE wanted # {}
    <3>1. WithList(call, back, list, age) = Fetching(call, back, wanted, age)
      BY <1>2, <2>2 DEF WithList
    <3>2. wanted \in SUBSET Resources
      OBVIOUS
    <3> HIDE DEF wanted
    <3> QED
      BY <1>2, <2>2, <3>1, <3>2, FetchingIsSound
  <2> QED
    BY <2>1, <2>2
<1> QED
  BY <1>1, <1>2

\* Up to the next await the coroutine is well, if the cache was.
LEMMA ProceedIsSound ==
  ASSUME AdapterSound, NEW call \in Calls, NEW back \in 1 .. Lookbacks,
         call.op \in {"instant", "range", "label_values", "metadata"}, LooksBack(call, back)
  PROVE  Sound(Proceed(call, back), world)
<1>1. CASE call.op \in {"instant", "range"} /\ call.dim # None
  <2>1. {call.dim} \in SUBSET Resources /\ {call.dim} # {}
    BY <1>1, CloudEyeAssumption
  <2>2. IsFetching(Fetching(call, back, {call.dim}, 0))
    BY <1>1, <2>1, FetchingIsSound, LimitsAreSizes
  <2> QED
    BY <1>1, <2>2 DEF Proceed, Sound
<1>2. CASE ~(call.op \in {"instant", "range"} /\ call.dim # None) /\ Fresh
  <2>1. /\ meta.list \in SUBSET Resources /\ meta.first \in Nat /\ meta.age \in 0 .. Ttl
        /\ meta.first <= MaxPages * Timeout + meta.age /\ meta.age < Ttl
    BY <1>2 DEF Fresh, AdapterSound, MetaSound
  <2>2. meta.first < Oldest
    BY <2>1, LimitsAreSizes
  <2> QED
    BY <1>2, <2>1, <2>2, WithListIsSound DEF Proceed, Sound
<1>3. CASE ~(call.op \in {"instant", "range"} /\ call.dim # None) /\ ~Fresh
  <2> DEFINE t == Listing(call, back)
  <2>1. t \in ListTask
    BY LimitsAreSizes DEF Listing, ListTask, AdapterSound
  <2>2. t.age <= t.pages * Timeout + t.waited /\ t.pages < MaxPages
    BY LimitsAreSizes DEF Listing
  <2>3. \A r \in t.steady : ~(r <= t.marker)
    BY CloudEyeAssumption DEF Listing, AdapterSound
  <2>4. IsListing(t, world)
    BY <2>1, <2>2, <2>3 DEF IsListing, Listing
  <2> QED
    BY <1>3, <2>4 DEF Proceed, Sound
<1> QED
  BY <1>1, <1>2, <1>3

-----------------------------------------------------------------------------
(* A step of one coroutine leaves the others as they were.                 *)

LEMMA OneMoves ==
  ASSUME AdapterSound, NEW c \in Callers, NEW t, Sound(t, world),
         task' = [task EXCEPT ![c] = t], UNCHANGED world, MetaSound'
  PROVE  AdapterSound'
BY DEF AdapterSound

LEMMA MetaStays ==
  ASSUME AdapterSound, UNCHANGED meta
  PROVE  MetaSound'
BY DEF AdapterSound, MetaSound

LEMMA AskIsSound ==
  ASSUME AdapterSound, NEW c \in Callers, NEW call \in Calls, Ask(c, call)
  PROVE  AdapterSound'
<1> DEFINE t == CASE call.op \in {"instant", "range"} /\ ~call.wellFormed -> Raised
                  [] call.op = "alerts" ->
                         [at |-> "alarms", waited |-> 0, status |-> TRUE]
                  [] call.op \in {"rules", "check"} -> [at |-> "once", waited |-> 0]
                  [] OTHER -> Proceed(call, IF call.op = "instant" THEN 1 ELSE Lookbacks)
<1>1. task' = [task EXCEPT ![c] = t] /\ UNCHANGED <<world, meta>>
  BY DEF Ask
<1>2. Sound(t, world)
  <2>1. CASE call.op \in {"instant", "range"} /\ ~call.wellFormed
    BY <2>1, RaisedIsSound DEF Sound
  <2>2. CASE call.op = "alerts"
    BY <2>2, LimitsAreSizes DEF Sound, IsCalling
  <2>3. CASE call.op \in {"rules", "check"}
    BY <2>3, LimitsAreSizes DEF Sound, IsCalling
  <2>4. CASE /\ ~(call.op \in {"instant", "range"} /\ ~call.wellFormed)
             /\ call.op # "alerts" /\ call.op \notin {"rules", "check"}
    <3> DEFINE back == IF call.op = "instant" THEN 1 ELSE Lookbacks
    <3>1. t = Proceed(call, back)
      BY <2>4
    <3>2. call.op \in {"instant", "range", "label_values", "metadata"}
      BY <2>4, CloudEyeAssumption
    <3>3. back \in 1 .. Lookbacks /\ LooksBack(call, back)
      BY DEF Lookbacks, LooksBack
    <3> HIDE DEF t, back
    <3> QED
      BY <3>1, <3>2, <3>3, ProceedIsSound
  <2> QED
    BY <2>1, <2>2, <2>3, <2>4
<1> HIDE DEF t
<1> QED
  BY <1>1, <1>2, OneMoves, MetaStays

\* What a page brings, and that a listing has what stands up to it.
LEMMA PageAfterMarker ==
  ASSUME NEW marker \in Int, world \subseteq Resources
  PROVE  LET page == PageAfter(marker)
         IN /\ page \subseteq world /\ page \in SUBSET Nat /\ IsFiniteSet(page)
            /\ page # {} => Max(page) \in page /\ Max(page) \in Nat
            /\ page # {} => \A r \in world : marker < r /\ r <= Max(page) => r \in page
            /\ page = {} => \A r \in world : r <= marker
<1> DEFINE after == {r \in world : r > marker}
           page  == PageAfter(marker)
<1>1. after \in SUBSET Nat /\ IsFiniteSet(after) /\ world \subseteq Nat
  <2>1. after \in SUBSET Resources
    OBVIOUS
  <2> QED
    BY <2>1, PartsAreFinite, CloudEyeAssumption
<1>2. page = First(after, PageSize) /\ page \subseteq after
  BY DEF PageAfter, First
<1>3. page \in SUBSET Nat /\ page \in SUBSET Int /\ IsFiniteSet(page) /\ page \subseteq world
  <2> HIDE DEF after, page
  <2>1. IsFiniteSet(page)
    BY <1>1, <1>2, FS_Subset
  <2> QED
    BY <1>1, <1>2, <2>1 DEF after
<1>4. ASSUME page # {} PROVE Max(page) \in page /\ Max(page) \in Nat
  <2> HIDE DEF page
  <2> QED
    BY <1>3, <1>4, MaxIsGreatest
<1>5. ASSUME page # {}, NEW r \in world, marker < r, r <= Max(page) PROVE r \in page
  <2>1. r \in after
    BY <1>1, <1>5
  <2> HIDE DEF after, page
  <2> QED
    BY <1>1, <1>2, <1>4, <1>5, <2>1, FirstIsLowest, LimitsAreSizes
<1>6. ASSUME page = {}, NEW r \in world PROVE r <= marker
  <2>1. after = {}
    <3> HIDE DEF after
    <3> QED
      BY <1>1, <1>2, <1>6, FirstIsNotEmpty, LimitsAreSizes
  <2> QED
    BY <1>1, <2>1
<1> QED
  BY <1>3, <1>4, <1>5, <1>6

\* Where a coroutine is tells what holds of it.
LEMMA SoundAt ==
  ASSUME NEW t, NEW w, Sound(t, w)
  PROVE  /\ t.at = "list" => IsListing(t, w)
         /\ t.at = "fetch" => IsFetching(t)
         /\ t.at \in {"alarms", "once"} => IsCalling(t)
         /\ t.at = "done" => IsDone(t)
         /\ t.at \in {"idle", "list", "fetch", "alarms", "once", "done"}
BY DEF Sound, Idle, IsListing, ListTask, IsFetching, FetchTask, IsCalling, IsDone

LEMMA PagesTakeTheirTime ==
  ASSUME NEW p \in Nat, NEW m \in Nat, NEW k \in Nat, p < m
  PROVE  p * k + k = (p + 1) * k /\ (p + 1) * k <= m * k
<1>1. (m - (p + 1)) * k \in Nat
  <2>1. m - (p + 1) \in Nat
    OBVIOUS
  <2>2. \A a, b \in Nat : a * b \in Nat
    OBVIOUS
  <2> QED
    BY <2>1, <2>2
<1>2. (m - (p + 1)) * k = m * k - (p + 1) * k
  OBVIOUS
<1>3. (p + 1) * k = p * k + k
  OBVIOUS
<1>4. m * k \in Int /\ (p + 1) * k \in Int
  OBVIOUS
<1> QED
  BY <1>1, <1>2, <1>3, <1>4

LEMMA PageIsSound ==
  ASSUME AdapterSound, NEW c \in Callers, Page(c)
  PROVE  AdapterSound'
<1> DEFINE t    == task[c]
           page == PageAfter(t.marker)
           list == t.got \cup page
<1>1. IsListing(t, world)
  BY SoundAt DEF Page, AdapterSound
<1>2. /\ t \in ListTask /\ world \subseteq Resources
      /\ t.marker \in Int /\ t.got \subseteq Resources /\ t.steady \subseteq world
      /\ t.age \in Nat /\ t.pages \in Nat /\ t.pages < MaxPages /\ t.waited \in 0 .. Timeout
      /\ t.call \in Calls /\ t.back \in 1 .. Lookbacks
  BY <1>1 DEF IsListing, ListTask, AdapterSound
<1>3. /\ page \subseteq world
      /\ page # {} => Max(page) \in page /\ Max(page) \in Nat
      /\ page # {} => \A r \in world : t.marker < r /\ r <= Max(page) => r \in page
      /\ page = {} => \A r \in world : r <= t.marker
  BY <1>2, PageAfterMarker
<1>4. world \subseteq Nat /\ list \in SUBSET Resources
  BY <1>2, <1>3, CloudEyeAssumption
<1>5. t.age <= (t.pages + 1) * Timeout /\ t.age <= MaxPages * Timeout
      /\ (t.pages + 1) * Timeout \in Nat
  <2>1. /\ t.pages * Timeout + Timeout = (t.pages + 1) * Timeout
        /\ (t.pages + 1) * Timeout <= MaxPages * Timeout
    BY <1>2, LimitsAreSizes, PagesTakeTheirTime
  <2>2. t.age <= t.pages * Timeout + t.waited
    BY <1>1 DEF IsListing
  <2>3. t.pages * Timeout \in Nat /\ MaxPages * Timeout \in Nat
    BY <1>2, LimitsAreSizes
  <2> QED
    BY <1>2, <2>1, <2>2, <2>3, LimitsAreSizes
\* What stood all along and comes before the end of the page is in the list.
<1>6. ASSUME page # {}, NEW r \in t.steady, r <= Max(page) PROVE r \in list
  <2>1. r \in world /\ r \in Nat
    BY <1>2, <1>4
  <2>2. CASE r <= t.marker
    BY <1>1, <2>2 DEF IsListing
  <2>3. CASE t.marker < r
    BY <1>3, <1>6, <2>1, <2>3
  <2> QED
    BY <1>2, <2>1, <2>2, <2>3
<1> HIDE DEF page
<1>7. CASE LastOf(t)
  <2> DEFINE missed == IF t.pages + 1 = MaxPages /\ MoreAfter(page) THEN {} ELSE t.steady \ list
  <2>1. /\ meta' = [list |-> list, age |-> 0, first |-> t.age, missed |-> missed]
        /\ task' = [task EXCEPT ![c] = WithList(t.call, t.back, list, t.age)]
        /\ UNCHANGED world
    BY <1>7 DEF Page, page
  <2>2. missed = {}
    <3>1. CASE MoreAfter(page)
      BY <1>7, <3>1 DEF LastOf, page
    <3>2. CASE ~MoreAfter(page)
      <4>1. ASSUME NEW r \in t.steady PROVE r \in list
        <5>1. r \in world /\ r \in Nat
          BY <1>2, <1>4
        <5>2. CASE page = {}
          BY <1>1, <1>3, <5>1, <5>2 DEF IsListing
        <5>3. CASE page # {}
          <6>1. ~(r > Max(page))
            BY <3>2, <5>1, <5>3 DEF MoreAfter
          <6> QED
            BY <1>3, <1>6, <5>1, <5>3, <6>1
        <5> QED
          BY <5>2, <5>3
      <4> QED
        BY <3>2, <4>1
    <3> QED
      BY <3>1, <3>2
  <2>3. MetaSound'
    <3> HIDE DEF missed, list
    <3>1. meta' = [list |-> list, age |-> 0, first |-> t.age, missed |-> {}]
      BY <2>1, <2>2
    <3> QED
      BY <3>1, <1>2, <1>4, <1>5, LimitsAreSizes DEF MetaSound
  <2>4. t.age < Oldest
    BY <1>2, <1>5, LimitsAreSizes
  <2>5. /\ t.call.op \in {"instant", "range", "label_values", "metadata"}
        /\ LooksBack(t.call, t.back)
    BY <1>1 DEF IsListing
  <2> HIDE DEF t, list
  <2>6. Sound(WithList(t.call, t.back, list, t.age), world)
    BY <1>2, <1>4, <2>4, <2>5, WithListIsSound DEF Sound
  <2> QED
    BY <2>1, <2>3, <2>6, OneMoves
<1>8. CASE ~LastOf(t)
  <2> DEFINE u == [t EXCEPT !.marker = Max(page), !.pages = @ + 1, !.got = list, !.waited = 0]
  <2>1. task' = [task EXCEPT ![c] = u] /\ UNCHANGED <<world, meta>>
    BY <1>8 DEF Page, page, AdapterSound
  <2>2. page # {} /\ t.pages + 1 < MaxPages
    BY <1>2, <1>8, LimitsAreSizes DEF LastOf, MoreAfter, page
  <2>3. u \in ListTask
    <3>1. Max(page) \in Int /\ t.pages + 1 \in Nat /\ 0 \in 0 .. Timeout
      BY <1>2, <1>3, <2>2, LimitsAreSizes
    <3> HIDE DEF list, t
    <3> QED
      BY <1>2, <1>4, <3>1 DEF ListTask
  <2>4. u.age <= u.pages * Timeout + u.waited
    <3>1. u.age = t.age /\ u.pages = t.pages + 1 /\ u.waited = 0
      BY <1>2 DEF ListTask
    <3> HIDE DEF u
    <3> QED
      BY <1>5, <3>1
  <2>5. \A r \in u.steady : r <= u.marker => r \in u.got
    BY <1>2, <1>6, <2>2 DEF ListTask
  <2>6. IsListing(u, world)
    BY <1>1, <1>2, <2>2, <2>3, <2>4, <2>5 DEF IsListing, ListTask
  <2> QED
    BY <2>1, <2>6, OneMoves, MetaStays DEF Sound
<1> QED
  BY <1>7, <1>8

LEMMA BatchIsSound ==
  ASSUME AdapterSound, NEW c \in Callers, Batch(c)
  PROVE  AdapterSound'
<1> DEFINE t    == task[c]
           lote == First(t.todo, BatchSize)
           got  == t.got \cup {r \in lote : Reach[r] <= t.back}
<1>1. IsFetching(t)
  BY SoundAt DEF Batch, AdapterSound
<1>2. /\ t \in FetchTask /\ t.todo \subseteq Cut(t.wanted) /\ t.todo \in SUBSET Resources
      /\ t.call \in Calls /\ t.back \in 1 .. Lookbacks /\ t.wanted \in SUBSET Resources
      /\ t.got \in SUBSET Resources /\ t.got = Reported(Cut(t.wanted) \ t.todo, t.back)
      /\ t.age \in Nat /\ t.age < Oldest /\ t.call.op \in {"instant", "range"}
      /\ LooksBack(t.call, t.back) /\ t.truncated \in BOOLEAN
      /\ t.truncated <=> ~(t.wanted \subseteq Cut(t.wanted))
  BY <1>1 DEF IsFetching, FetchTask
<1>3. lote \subseteq t.todo
  BY DEF First
<1>4. got = Reported(Cut(t.wanted) \ (t.todo \ lote), t.back)
  <2>1. t.got = Reported(Cut(t.wanted) \ t.todo, t.back) /\ t.todo \subseteq Cut(t.wanted)
    BY <1>2
  <2> HIDE DEF t, lote
  <2> QED
    BY <1>3, <2>1 DEF Reported
<1>5. got \in SUBSET Resources
  BY <1>2, <1>3
<1> DEFINE more == [t EXCEPT !.todo = @ \ lote, !.got = got, !.waited = 0]
           end  == [at |-> "done", kind |-> "series", op |-> t.call.op, got |-> got,
                    wanted |-> t.wanted, truncated |-> t.truncated, age |-> t.age]
           next == IF t.todo # lote THEN more
                   ELSE IF t.call.op = "instant" /\ ~AnySample(t, got) /\ t.back < Lookbacks
                   THEN Proceed(t.call, t.back + 1)
                   ELSE end
<1>6. task' = [task EXCEPT ![c] = next] /\ UNCHANGED <<world, meta>>
  BY DEF Batch
<1> HIDE DEF lote, got
<1>7. CASE t.todo # lote
  <2>1. t.todo \ lote # {} /\ t.todo \ lote \in SUBSET Resources
        /\ t.todo \ lote \subseteq Cut(t.wanted)
    BY <1>2, <1>3, <1>7
  <2>2. 0 \in 0 .. Timeout
    BY LimitsAreSizes
  <2>3. IsFetching(more)
    <3> HIDE DEF t
    <3>1. more \in FetchTask
      BY <1>2, <1>5, <2>1, <2>2 DEF FetchTask
    <3>2. /\ more.age = t.age /\ more.call = t.call /\ more.back = t.back
          /\ more.wanted = t.wanted /\ more.got = got /\ more.todo = t.todo \ lote
          /\ more.truncated = t.truncated
      BY <1>2 DEF FetchTask
    <3> HIDE DEF more
    <3> QED
      BY <1>2, <1>4, <2>1, <3>1, <3>2 DEF IsFetching
  <2>4. Sound(next, world)
    BY <1>7, <2>3 DEF Sound
  <2> HIDE DEF next
  <2> QED
    BY <1>6, <2>4, OneMoves, MetaStays
<1>8. CASE t.todo = lote /\ t.call.op = "instant" /\ ~AnySample(t, got) /\ t.back < Lookbacks
  <2>1. next = Proceed(t.call, t.back + 1)
    BY <1>8
  <2>2. t.back + 1 \in 1 .. Lookbacks /\ LooksBack(t.call, t.back + 1)
    BY <1>2, <1>8 DEF Lookbacks, LooksBack
  <2> HIDE DEF t, next
  <2>3. Sound(next, world)
    BY <1>2, <2>1, <2>2, ProceedIsSound
  <2> QED
    BY <1>6, <2>3, OneMoves, MetaStays
<1>9. CASE t.todo = lote /\ ~(t.call.op = "instant" /\ ~AnySample(t, got) /\ t.back < Lookbacks)
  <2>1. next = end
    BY <1>9
  <2>2. got = Reported(Cut(t.wanted), t.back)
    <3>1. Cut(t.wanted) \ (t.todo \ lote) = Cut(t.wanted)
      BY <1>9
    <3> QED
      BY <1>4, <3>1
  <2>3. t.call.op = "instant" => got # {} \/ t.back = Lookbacks
    BY <1>2, <1>9 DEF AnySample, Lookbacks
  <2> HIDE DEF t
  <2>4. IsSeries(end)
    BY <1>2, <2>2, <2>3 DEF IsSeries, LooksBack
  <2>5. IsDone(end)
    BY <2>4 DEF IsDone
  <2> HIDE DEF end, next
  <2>6. Sound(next, world)
    BY <2>1, <2>5 DEF Sound
  <2> QED
    BY <1>6, <2>6, OneMoves, MetaStays
<1> QED
  BY <1>7, <1>8, <1>9

\* With or without the filter of the region, the same alarms are told.
LEMMA TheSameAlarms ==
  ASSUME NEW status \in BOOLEAN, Cardinality(Histories) <= MaxHistories
  PROVE  HistoriesOf(status) = Ringing
<1>1. /\ IsFiniteSet(Histories) /\ Histories \in SUBSET Nat /\ Ringing \in SUBSET Nat
      /\ Ringing \subseteq Histories
  BY CloudEyeAssumption
<1>2. IsFiniteSet(Ringing) /\ Cardinality(Ringing) <= Cardinality(Histories)
  BY <1>1, FS_Subset
<1>3. Cardinality(Ringing) \in Nat /\ Cardinality(Histories) \in Nat
  BY <1>1, <1>2, FS_CardinalityType
<1>4. Cardinality(Ringing) <= MaxHistories
  BY <1>2, <1>3, LimitsAreSizes
<1>5. First(Ringing, MaxHistories) = Ringing
  BY <1>1, <1>2, <1>4, FirstOfFew, LimitsAreSizes
<1>6. First(Histories, MaxHistories) = Histories
  BY <1>1, FirstOfFew, LimitsAreSizes
<1> QED
  BY <1>1, <1>5, <1>6 DEF HistoriesOf

LEMMA AlarmsIsSound ==
  ASSUME AdapterSound, NEW c \in Callers, Alarms(c)
  PROVE  AdapterSound'
<1> DEFINE t    == task[c]
           again == [t EXCEPT !.status = FALSE, !.waited = 0]
           end   == [at |-> "done", kind |-> "alarms", alarms |-> Cut(HistoriesOf(t.status))]
           next  == IF t.status /\ ~KnowsStatus THEN again ELSE end
<1>1. t \in [at : {"alarms"}, waited : 0 .. Timeout, status : BOOLEAN]
  BY SoundAt DEF Alarms, AdapterSound, IsCalling
<1>2. task' = [task EXCEPT ![c] = next] /\ UNCHANGED <<world, meta>>
  BY DEF Alarms
<1>3. 0 \in 0 .. Timeout
  BY LimitsAreSizes
<1> HIDE DEF t
<1>4. IsCalling(again)
  BY <1>1, <1>3 DEF IsCalling
<1>5. IsDone(end)
  BY <1>1, TheSameAlarms DEF IsDone
<1>6. Sound(next, world)
  BY <1>4, <1>5 DEF Sound
<1> HIDE DEF next
<1> QED
  BY <1>2, <1>6, OneMoves, MetaStays

\* A call that is over leaves the cache as it was.
LEMMA EndIsSound ==
  ASSUME AdapterSound, NEW c \in Callers, Once(c) \/ Fail(c) \/ Return(c)
  PROVE  AdapterSound'
<1>1. CASE Once(c)
  BY <1>1, OneMoves, MetaStays DEF Once, Sound, IsDone
<1>2. CASE Fail(c)
  BY <1>2, OneMoves, MetaStays, RaisedIsSound DEF Fail, Sound
<1>3. CASE Return(c)
  BY <1>3, OneMoves, MetaStays DEF Return, Sound
<1> QED
  BY <1>1, <1>2, <1>3

\* What stands all along is less when a resource goes.
LEMMA ChangeIsSound ==
  ASSUME AdapterSound, NEW r \in Volatile, Change(r)
  PROVE  AdapterSound'
<1>1. world' \subseteq Resources
  BY CloudEyeAssumption DEF Change, AdapterSound
<1>2. DOMAIN task' = Callers
  BY DEF Change
<1>3. ASSUME NEW c \in Callers PROVE Sound(task'[c], world')
  <2> DEFINE t == task[c]
  <2>1. Sound(t, world)
    BY DEF AdapterSound
  <2>2. CASE t.at = "list"
    <3> DEFINE u == [t EXCEPT !.steady = @ \cap world']
    <3>1. IsListing(t, world)
      BY <2>1, <2>2, SoundAt
    <3>2. task'[c] = u
      BY <2>2 DEF Change
    <3> HIDE DEF t
    <3>3. u \in ListTask
      BY <3>1, <1>1 DEF IsListing, ListTask
    <3>4. /\ u.pages = t.pages /\ u.age = t.age /\ u.waited = t.waited /\ u.call = t.call
          /\ u.back = t.back /\ u.marker = t.marker /\ u.got = t.got
          /\ u.steady = t.steady \cap world'
      BY <3>1 DEF IsListing, ListTask
    <3> HIDE DEF u
    <3>5. IsListing(u, world')
      BY <3>1, <3>3, <3>4 DEF IsListing
    <3> QED
      BY <3>2, <3>5 DEF Sound
  <2>3. CASE t.at # "list"
    <3>1. task'[c] = t
      BY <2>3 DEF Change
    <3>2. t = Idle \/ IsFetching(t) \/ IsCalling(t) \/ IsDone(t)
      BY <2>1, <2>3 DEF Sound, IsListing, ListTask
    <3> QED
      BY <3>1, <3>2 DEF Sound
  <2> QED
    BY <2>2, <2>3
<1> QED
  BY <1>1, <1>2, <1>3, MetaStays DEF Change, AdapterSound

\* What a listing gains in age, its call gains in waiting.
LEMMA TickIsSound ==
  ASSUME AdapterSound, Tick
  PROVE  AdapterSound'
<1>1. world' \subseteq Resources /\ DOMAIN task' = Callers /\ world' = world
  BY DEF Tick, AdapterSound
<1>2. MetaSound'
  <2>1. CASE meta = None
    BY <2>1 DEF Tick, MetaSound
  <2>2. CASE meta # None
    <3>1. /\ meta \in [list : SUBSET Resources, age : 0 .. Ttl, first : Nat, missed : {{}}]
          /\ meta.first <= MaxPages * Timeout + meta.age
      BY <2>2 DEF AdapterSound, MetaSound
    <3>2. /\ Older(meta.age, Ttl) \in 0 .. Ttl /\ Older(meta.first, Oldest) \in Nat
          /\ Older(meta.first, Oldest) <= MaxPages * Timeout + Older(meta.age, Ttl)
      BY <3>1, LimitsAreSizes DEF Older
    <3>3. meta' = [meta EXCEPT !.age = Older(@, Ttl), !.first = Older(@, Oldest)]
      BY <2>2 DEF Tick
    <3> QED
      BY <3>1, <3>2, <3>3 DEF MetaSound
  <2> QED
    BY <2>1, <2>2
<1>3. ASSUME NEW c \in Callers PROVE Sound(task'[c], world)
  <2> DEFINE t == task[c]
  <2>1. Sound(t, world)
    BY DEF AdapterSound
  <2>2. t.at \in {"list", "fetch", "alarms", "once"} => t.waited # Timeout
    BY DEF Tick, Overdue, Waiting
  <2>3. CASE t.at = "list"
    <3> DEFINE u == [t EXCEPT !.waited = Older(@, Timeout), !.age = Older(@, Oldest)]
    <3>1. IsListing(t, world) /\ task'[c] = u
      BY <2>1, <2>3, SoundAt DEF Tick
    <3>2. /\ t \in ListTask /\ t.waited # Timeout /\ t.waited \in 0 .. Timeout /\ t.age \in Nat
          /\ t.pages \in Nat /\ t.age <= t.pages * Timeout + t.waited
      BY <2>2, <2>3, <3>1 DEF IsListing, ListTask
    <3> HIDE DEF t
    <3>3. t.pages * Timeout \in Nat
      BY <3>2, LimitsAreSizes
    <3>4. /\ Older(t.waited, Timeout) \in 0 .. Timeout /\ Older(t.age, Oldest) \in Nat
          /\ Older(t.age, Oldest) <= t.pages * Timeout + Older(t.waited, Timeout)
      BY <3>2, <3>3, LimitsAreSizes DEF Older
    <3>5. u \in ListTask
      BY <3>2, <3>4 DEF ListTask
    <3>6. /\ u.pages = t.pages /\ u.age = Older(t.age, Oldest)
          /\ u.waited = Older(t.waited, Timeout) /\ u.call = t.call /\ u.back = t.back
          /\ u.marker = t.marker /\ u.got = t.got /\ u.steady = t.steady
      BY <3>2 DEF ListTask
    <3> HIDE DEF u
    <3>7. IsListing(u, world)
      BY <3>1, <3>4, <3>5, <3>6 DEF IsListing
    <3> QED
      BY <3>1, <3>7 DEF Sound
  <2>4. CASE t.at \in {"fetch", "alarms", "once"}
    <3> DEFINE u == [t EXCEPT !.waited = Older(@, Timeout)]
    <3>1. task'[c] = u /\ (IsFetching(t) \/ IsCalling(t))
      BY <2>1, <2>4, SoundAt DEF Tick
    <3>2. t.waited \in 0 .. Timeout
      BY <3>1 DEF IsFetching, FetchTask, IsCalling
    <3>3. Older(t.waited, Timeout) \in 0 .. Timeout
      BY <3>2, LimitsAreSizes DEF Older
    <3> HIDE DEF t
    <3>4. ASSUME IsFetching(t) PROVE IsFetching(u)
      <4>1. u \in FetchTask
        BY <3>3, <3>4 DEF IsFetching, FetchTask
      <4>2. /\ u.age = t.age /\ u.call = t.call /\ u.back = t.back /\ u.wanted = t.wanted
            /\ u.got = t.got /\ u.todo = t.todo /\ u.truncated = t.truncated
        BY <3>4 DEF IsFetching, FetchTask
      <4> HIDE DEF u
      <4> QED
        BY <3>4, <4>1, <4>2 DEF IsFetching
    <3>5. ASSUME IsCalling(t) PROVE IsCalling(u)
      BY <3>3, <3>5 DEF IsCalling
    <3> QED
      BY <3>1, <3>4, <3>5 DEF Sound
  <2>5. CASE t.at \notin {"list", "fetch", "alarms", "once"}
    BY <2>1, <2>5 DEF Tick
  <2> QED
    BY <2>3, <2>4, <2>5
<1> QED
  BY <1>1, <1>2, <1>3 DEF AdapterSound

-----------------------------------------------------------------------------
LEMMA AdapterInit == CloudEyeInit => AdapterSound
BY DEF CloudEyeInit, AdapterSound, Sound, MetaSound

LEMMA AdapterStep == AdapterSound /\ [CloudEyeNext]_cvars => AdapterSound'
<1> SUFFICES ASSUME AdapterSound, [CloudEyeNext]_cvars PROVE AdapterSound'
  OBVIOUS
<1>1. ASSUME NEW c \in Callers, NEW call \in Calls, Ask(c, call) PROVE AdapterSound'
  BY <1>1, AskIsSound
<1>2. ASSUME NEW c \in Callers, Arrive(c) \/ Fail(c) \/ Return(c) PROVE AdapterSound'
  BY <1>2, PageIsSound, BatchIsSound, AlarmsIsSound, EndIsSound DEF Arrive
<1>3. ASSUME NEW r \in Volatile, Change(r) PROVE AdapterSound'
  BY <1>3, ChangeIsSound
<1>4. CASE Tick
  BY <1>4, TickIsSound
<1>5. CASE UNCHANGED cvars
  BY <1>5 DEF cvars, AdapterSound, MetaSound
<1> QED
  BY <1>1, <1>2, <1>3, <1>4, <1>5 DEF CloudEyeNext

LEMMA AlwaysSound == CloudEyeSpec => []AdapterSound
BY AdapterInit, AdapterStep, PTL DEF CloudEyeSpec

\* Each coroutine is where its state says it is, no call waits past its
\* timeout, and a batch asks for something.
THEOREM AdapterTypeCorrect == CloudEyeSpec => []CloudEyeTypeOK
<1>1. AdapterSound => CloudEyeTypeOK
  <2> SUFFICES ASSUME AdapterSound PROVE CloudEyeTypeOK
    OBVIOUS
  <2>1. world \subseteq Resources
    BY DEF AdapterSound
  <2>2. meta # None => /\ meta.list \subseteq Resources
                       /\ meta.age \in 0 .. Ttl /\ meta.first \in 0 .. Oldest
    <3>1. ASSUME meta # None
          PROVE  /\ meta.list \subseteq Resources /\ meta.age \in 0 .. Ttl /\ meta.first \in Nat
                 /\ meta.first <= MaxPages * Timeout + meta.age
      BY <3>1 DEF AdapterSound, MetaSound
    <3> QED
      BY <3>1, LimitsAreSizes
  <2>3. ASSUME NEW c \in Callers
        PROVE  /\ task[c].at \in {"idle", "list", "fetch", "alarms", "once", "done"}
               /\ c \in Waiting => task[c].waited \in 0 .. Timeout
               /\ task[c].at = "list" => task[c].pages < MaxPages
               /\ task[c].at = "fetch" => task[c].todo # {}
    <3>1. Sound(task[c], world)
      BY DEF AdapterSound
    <3> QED
      BY <3>1, SoundAt
      DEF Waiting, IsListing, ListTask, IsFetching, FetchTask, IsCalling
  <2> QED
    BY <2>1, <2>2, <2>3 DEF CloudEyeTypeOK
<1> QED
  BY <1>1, AlwaysSound, PTL

\* An answer rests on a list that is at most two minutes and fifty pages old,
\* and a list that is kept is whole, whatever the misses at once, the pages
\* that fail and the resources that come and go (metrics_cloudeye.py:185-209).
THEOREM TheListIsSound == CloudEyeSpec => []ListIsSound
<1>1. AdapterSound => ListIsSound
  <2> SUFFICES ASSUME AdapterSound PROVE ListIsSound
    OBVIOUS
  <2>1. ASSUME NEW c \in Answers("values") \cup Answers("series") PROVE task[c].age < Oldest
    <3>1. c \in Callers /\ IsDone(task[c]) /\ task[c].kind \in {"values", "series"}
      BY SoundAt DEF Answers, AdapterSound
    <3> QED
      BY <3>1 DEF IsDone, IsSeries
  <2>2. meta # None => meta.missed = {}
    BY DEF AdapterSound, MetaSound
  <2> QED
    BY <2>1, <2>2 DEF ListIsSound, ListIsRecent, ListIsWhole
<1> QED
  BY <1>1, AlwaysSound, PTL

\* What the answer of a query of series rests on.
LEMMA SeriesAt ==
  ASSUME AdapterSound, NEW c \in Answers("series")
  PROVE  IsSeries(task[c])
<1>1. c \in Callers /\ IsDone(task[c]) /\ task[c].kind = "series"
  BY SoundAt DEF Answers, AdapterSound
<1> QED
  BY <1>1 DEF IsDone

\* A query of series says whether it asked for all of them, and a range shows
\* every one it asked for that reported (metrics_cloudeye.py:242-272).
THEOREM EveryPartIsMarked == CloudEyeSpec => []PartIsMarked
<1>1. AdapterSound => PartIsMarked
  BY SeriesAt DEF PartIsMarked, IsSeries, Reported
<1> QED
  BY <1>1, AlwaysSound, PTL

\* An instant shows something whenever a series it asked for reported in the
\* last day, and none it leaves out is fresher than one it shows
\* (metrics_cloudeye.py:277-291).
THEOREM AnInstantIsNewest == CloudEyeSpec => []InstantIsNewest
<1>1. AdapterSound => InstantIsNewest
  <2> SUFFICES ASSUME AdapterSound, NEW c \in Answers("series"), task[c].op = "instant"
               PROVE  LET asked == Cut(task[c].wanted)
                      IN /\ (\E r \in asked : Reach[r] <= Lookbacks) => task[c].got # {}
                         /\ \A shown \in task[c].got, r \in asked \ task[c].got :
                               Reach[shown] < Reach[r]
    BY DEF InstantIsNewest
  <2> DEFINE asked == Cut(task[c].wanted)
  <2>1. PICK back \in 1 .. Lookbacks :
           task[c].got = Reported(asked, back) /\ (task[c].got # {} \/ back = Lookbacks)
    BY SeriesAt DEF IsSeries
  <2>2. asked \subseteq Resources
    BY SeriesAt DEF IsSeries, Cut, First
  <2>3. \A r \in asked : Reach[r] \in 1 .. Lookbacks + 1
    BY <2>2, CloudEyeAssumption
  <2>4. \A r \in Cut(task[c].wanted) : Reach[r] \in Int
    BY <2>3 DEF Lookbacks
  <2>5. back \in Int /\ (back = Lookbacks => back = 3)
    BY DEF Lookbacks
  <2> HIDE DEF asked
  <2>6. task[c].got = Reported(Cut(task[c].wanted), back) /\ (task[c].got # {} \/ back = Lookbacks)
    BY <2>1 DEF asked
  <2>7. (\E r \in Cut(task[c].wanted) : Reach[r] <= Lookbacks) => task[c].got # {}
    BY <2>6 DEF Reported
  <2>8. \A shown \in task[c].got, r \in Cut(task[c].wanted) \ task[c].got :
           Reach[shown] < Reach[r]
    BY <2>4, <2>5, <2>6 DEF Reported
  <2> QED
    BY <2>7, <2>8
<1> QED
  BY <1>1, AlwaysSound, PTL

\* A region that does not know `status' answers the same alarms as one that
\* does, when the histories fit in one page (metrics_cloudeye.py:351-374).
THEOREM TheAlarmsAreRinging == CloudEyeSpec => []AlarmsAreRinging
<1>1. AdapterSound => AlarmsAreRinging
  <2> SUFFICES ASSUME AdapterSound, NEW c \in Answers("alarms"),
                      Cardinality(Histories) <= MaxHistories
               PROVE  task[c].alarms = Cut(Ringing)
    BY DEF AlarmsAreRinging
  <2>1. c \in Callers /\ IsDone(task[c]) /\ task[c].kind = "alarms"
    BY SoundAt DEF Answers, AdapterSound
  <2> QED
    BY <2>1 DEF IsDone, IsSeries
<1> QED
  BY <1>1, AlwaysSound, PTL
=============================================================================
