--------------------------- MODULE QueriesProofs ---------------------------
(***************************************************************************)
(* Theorems about a tool over the Prometheus adapter, for any calls, any   *)
(* backend, any limits and any budget.                                     *)
(***************************************************************************)
EXTENDS Queries, SlicesProofs

-----------------------------------------------------------------------------
(* The step of a query.                                                    *)

\* pick_step, pick_period: the step is a usual one; it respects max_points, or
\* it is the coarsest; and no finer one respects max_points.
LEMMA PickIsThrifty ==
  ASSUME NEW ladder \in SUBSET Nat, ladder # {}, IsFiniteSet(ladder), NEW span \in Int
  PROVE  /\ Pick(ladder, span) \in ladder
         /\ Fits(span, Pick(ladder, span)) \/ Pick(ladder, span) = Max(ladder)
         /\ \A s \in ladder : s < Pick(ladder, span) => ~Fits(span, s)
<1> DEFINE fitting == {s \in ladder : Fits(span, s)}
<1>1. CASE fitting # {}
  <2>1. Pick(ladder, span) = Min(fitting)
    BY <1>1 DEF Pick
  <2>2. /\ Min(fitting) \in fitting
        /\ \A y \in fitting : Min(fitting) <= y
    <3>1. fitting \in SUBSET ladder
      OBVIOUS
    <3> HIDE DEF fitting
    <3>2. IsFiniteSet(fitting)
      BY <3>1, FS_Subset
    <3>3. fitting \in SUBSET Int
      BY <3>1
    <3> QED
      BY <1>1, <3>2, <3>3, MinIsLeast
  <2>3. ASSUME NEW s \in ladder, s < Min(fitting) PROVE ~Fits(span, s)
    <3>1. s \notin fitting
      <4> HIDE DEF fitting
      <4>1. s \in Nat /\ Min(fitting) \in Nat
        BY <2>2 DEF fitting
      <4> QED
        BY <2>2, <2>3, <4>1
    <3> QED
      BY <3>1
  <2> QED
    BY <2>1, <2>2, <2>3
<1>2. CASE fitting = {}
  <2>1. Pick(ladder, span) = Max(ladder)
    BY <1>2 DEF Pick
  <2> QED
    BY <1>2, <2>1, MaxIsGreatest
<1> QED
  BY <1>1, <1>2

(***************************************************************************)
(* What a call remembers of its beginning: what was sent is what its       *)
(* arguments, which were not refused, come to, and an answer that is not   *)
(* an error was made of what the backend held.                             *)
(***************************************************************************)
Told ==
    /\ phase \in {"idle", "sent", "done"}
    /\ IF phase = "idle" THEN req = None /\ sent = None ELSE req \in Requests
    /\ sent # None => phase # "idle" /\ ~Refused(req) /\ sent = Sent(req)
    /\ (phase = "done") <=> (answer # None)
    /\ (phase = "done" /\ answer.kind # "error") =>
           held \in Contents[req.tool] /\ answer = Answer(held, req)
    /\ answer # None => answer.kind \in {"error", "series", "list", "targets", "metadata", "received"}

\* Every answer is of one of the kinds.
LEMMA AnswerHasAKind ==
  ASSUME NEW r \in Requests, NEW found
  PROVE  Answer(found, r).kind \in {"series", "list", "targets", "metadata", "received"}
<1>1. r.tool \in Tools
  BY QueriesAssumption
<1>2. CASE r.tool \in PromqlTools
  BY <1>2 DEF Answer, Render, PromqlTools
<1>3. CASE r.tool = "label_values"
  BY <1>3 DEF Answer, LabelValues, PromqlTools
<1>4. CASE r.tool = "targets_health"
  BY <1>4 DEF Answer, TargetsHealth, PromqlTools
<1>5. CASE r.tool = "alerts_active"
  BY <1>5 DEF Answer, AlertsActive, PromqlTools
<1>6. CASE r.tool = "alert_rules"
  BY <1>6 DEF Answer, AlertRules, PromqlTools
<1>7. CASE r.tool = "metric_metadata"
  BY <1>7 DEF Answer, MetricMetadata, PromqlTools
<1>8. CASE r.tool = "alerts_received"
  BY <1>8 DEF Answer, AlertsReceived, PromqlTools
<1> QED
  BY <1>1, <1>2, <1>3, <1>4, <1>5, <1>6, <1>7, <1>8 DEF Tools, PromqlTools

LEMMA ErrorsAreAnswers ==
  ASSUME NEW b \in BOOLEAN
  PROVE  /\ [kind |-> "error", retriable |-> b] # None
         /\ [kind |-> "error", retriable |-> b].kind = "error"
BY NoneIsNoAnswer

LEMMA ToldInit == QueriesInit => Told
BY DEF QueriesInit, Told

LEMMA ToldStep == Told /\ [QueriesNext]_qvars => Told'
<1> SUFFICES ASSUME Told, [QueriesNext]_qvars PROVE Told'
  OBVIOUS
<1> USE DEF Told
<1>1. ASSUME NEW r \in Requests, Call(r) PROVE Told'
  <2>1. CASE Refused(r)
    <3>1. answer' # None /\ answer'.kind = "error"
      BY <1>1, <2>1, ErrorsAreAnswers, FALSE \in BOOLEAN DEF Call
    <3>2. phase' = "done" /\ req' = r /\ sent' = None
      BY <1>1, <2>1 DEF Call
    <3> QED
      BY <3>1, <3>2
  <2>2. CASE ~Refused(r)
    <3>1. phase' = "sent" /\ req' = r /\ sent' = Sent(r) /\ answer' = answer /\ phase = "idle"
      BY <1>1, <2>2 DEF Call
    <3>2. Refused(req)' <=> Refused(r)
      BY <3>1 DEF Refused
    <3>3. Sent(req)' = Sent(r)
      BY <3>1 DEF Sent, StepOf
    <3> QED
      BY <2>2, <3>1, <3>2, <3>3
  <2> QED
    BY <2>1, <2>2
<1>2. ASSUME phase = "sent", NEW found \in Contents[req.tool], Reply("success", found)
      PROVE  Told'
  <2>1. /\ phase' = "done" /\ held' = found /\ UNCHANGED <<req, sent>>
        /\ answer' = Answer(found, req)
    BY <1>2 DEF Reply
  <2>2. answer' # None
    BY <1>2, <2>1, NoneIsNoAnswer
  <2>3. answer'.kind \in {"series", "list", "targets", "metadata", "received"}
    BY <1>2, <2>1, AnswerHasAKind
  <2>4. Answer(held, req)' = Answer(found, req)
    BY <2>1
  <2>5. (Refused(req)' <=> Refused(req)) /\ Sent(req)' = Sent(req)
    BY <2>1
  <2> QED
    BY <1>2, <2>1, <2>2, <2>3, <2>4, <2>5
<1>3. ASSUME NEW status \in Statuses \ {"success"}, Reply(status, None)
      PROVE  Told'
  <2>1. /\ phase = "sent" /\ phase' = "done" /\ UNCHANGED <<req, sent>>
        /\ answer' = Failure(status)
    BY <1>3 DEF Reply
  <2>2. answer' # None /\ answer'.kind = "error"
    BY <2>1, ErrorsAreAnswers, (status \in {"timeout", "unreachable", "5xx"}) \in BOOLEAN
       DEF Failure
  <2>5. (Refused(req)' <=> Refused(req)) /\ Sent(req)' = Sent(req)
    BY <2>1
  <2> QED
    BY <2>1, <2>2, <2>5
<1>4. CASE Forget
  BY <1>4 DEF Forget
<1>5. CASE UNCHANGED qvars
  <2>1. UNCHANGED <<phase, req, sent, held, answer>>
    BY <1>5 DEF qvars
  <2>2. /\ Refused(req)' <=> Refused(req)
        /\ Sent(req)' = Sent(req) /\ Answer(held, req)' = Answer(held, req)
    BY <2>1
  <2> QED
    BY <2>1, <2>2
<1> QED
  BY <1>1, <1>2, <1>3, <1>4, <1>5 DEF QueriesNext

LEMMA AlwaysTold == QueriesSpec => []Told
<1> QED
  BY ToldInit, ToldStep, PTL DEF QueriesSpec

-----------------------------------------------------------------------------
\* A range that was not refused has a span that was understood, and within
\* max_range.
LEMMA SpansAreBounded ==
  ASSUME NEW r \in Requests, r.tool = "promql_range", ~Refused(r)
  PROVE  r.span \in Int /\ r.span \in 1 .. MaxRange /\ r.step \in Nat
<1>1. r.span \in {Malformed} \cup Int /\ r.step \in Nat
  BY QueriesAssumption
<1>2. r.span # Malformed /\ ~(r.span <= 0) /\ ~(r.span > MaxRange)
  BY DEF Refused
<1>3. r.span \in Int /\ MaxRange \in Nat
  BY <1>1, <1>2, BudgetAssumption
<1> QED
  BY <1>1, <1>2, <1>3

LEMMA StepsAreALadder ==
  /\ Steps \in SUBSET Nat /\ Steps # {} /\ IsFiniteSet(Steps)
  /\ AtLeastOne(MaxPoints) \in Nat /\ MaxPoints <= AtLeastOne(MaxPoints)
BY QueriesAssumption, BudgetAssumption DEF AtLeastOne

\* The step of a range is its own if it respects max_points, and otherwise
\* what pick_step gives.
LEMMA StepRespectsBudget ==
  ASSUME NEW r, r.span \in Int, r.step \in Nat
  PROVE  /\ StepOf(r) \in Nat
         /\ Fits(r.span, StepOf(r)) \/ StepOf(r) = Max(Steps)
         /\ StepOf(r) # r.step => \A s \in Steps : s < StepOf(r) => ~Fits(r.span, s)
<1> DEFINE picked == Pick(Steps, r.span)
<1>1. /\ picked \in Steps /\ picked \in Nat
      /\ Fits(r.span, picked) \/ picked = Max(Steps)
      /\ \A s \in Steps : s < picked => ~Fits(r.span, s)
  BY PickIsThrifty, StepsAreALadder
<1>2. CASE StepOf(r) = picked
  BY <1>1, <1>2
<1>3. CASE StepOf(r) # picked
  <2>1. StepOf(r) = r.step /\ ~(r.span > r.step * MaxPoints)
    BY <1>3 DEF StepOf
  <2>2. r.step * MaxPoints <= r.step * AtLeastOne(MaxPoints)
    <3>1. CASE MaxPoints > 1
      <4>1. AtLeastOne(MaxPoints) = MaxPoints /\ r.step * MaxPoints \in Int
        BY <3>1, BudgetAssumption DEF AtLeastOne
      <4> QED
        BY <4>1
    <3>2. CASE ~(MaxPoints > 1)
      <4>1. \A k \in Nat, m \in Int : m <= 1 => k * m <= k
        OBVIOUS
      <4> QED
        BY <3>2, <4>1, BudgetAssumption DEF AtLeastOne
    <3> QED
      BY <3>1, <3>2
  <2>3. r.step * MaxPoints \in Int /\ r.step * AtLeastOne(MaxPoints) \in Int
    BY StepsAreALadder, BudgetAssumption
  <2> QED
    BY <2>1, <2>2, <2>3 DEF Fits
<1> QED
  BY <1>2, <1>3

\* Whatever the model asks for, an answer is of one of the kinds and a call
\* that was sent has a span and a step.
THEOREM QueriesTypeCorrect == QueriesSpec => []QueriesTypeOK
<1>1. Told => QueriesTypeOK
  <2> SUFFICES ASSUME Told PROVE QueriesTypeOK
    OBVIOUS
  <2>1. ASSUME sent # None PROVE sent \in [span : Int, step : Nat]
    <3>1. req \in Requests /\ ~Refused(req) /\ sent = Sent(req)
      BY <2>1 DEF Told
    <3>2. CASE req.tool = "promql_range"
      BY <3>1, <3>2, SpansAreBounded, StepRespectsBudget DEF Sent
    <3>3. CASE req.tool # "promql_range"
      BY <3>1, <3>3 DEF Sent
    <3> QED
      BY <3>2, <3>3
  <2> QED
    BY <2>1 DEF Told, QueriesTypeOK
<1> QED
  BY AlwaysTold, <1>1, PTL

\* metrics_prometheus.py:9-19: whatever the model asks for and whatever the
\* budget, no range past max_range reaches the backend, nor one with more
\* points than max_points unless no usual step can do better, nor one coarser
\* than it takes.
THEOREM TheBackendIsSpared == QueriesSpec => []BackendIsSpared
<1>1. Told => BackendIsSpared
  <2> SUFFICES ASSUME Told, sent # None, req.tool = "promql_range"
               PROVE  /\ sent.span \in 1 .. MaxRange
                      /\ sent.span <= sent.step * AtLeastOne(MaxPoints) \/ sent.step = Max(Steps)
                      /\ sent.step # req.step =>
                             \A s \in Steps :
                                 s < sent.step => sent.span > s * AtLeastOne(MaxPoints)
    BY DEF BackendIsSpared
  <2>1. req \in Requests /\ ~Refused(req) /\ sent = Sent(req)
    BY DEF Told
  <2>2. sent.span = req.span /\ sent.step = StepOf(req)
    BY <2>1 DEF Sent
  <2>3. req.span \in 1 .. MaxRange /\ req.span \in Int /\ req.step \in Nat
    BY <2>1, SpansAreBounded
  <2>4. /\ Fits(req.span, StepOf(req)) \/ StepOf(req) = Max(Steps)
        /\ StepOf(req) # req.step => \A s \in Steps : s < StepOf(req) => ~Fits(req.span, s)
    BY <2>3, StepRespectsBudget
  <2>5. ASSUME NEW s \in Steps, ~Fits(req.span, s)
        PROVE  req.span > s * AtLeastOne(MaxPoints)
    <3>1. s * AtLeastOne(MaxPoints) \in Int
      BY StepsAreALadder
    <3> QED
      BY <2>3, <2>5, <3>1 DEF Fits
  <2> QED
    BY <2>2, <2>3, <2>4, <2>5 DEF Fits
<1> QED
  BY AlwaysTold, <1>1, PTL

-----------------------------------------------------------------------------
(* What is left out of an answer.                                          *)

LEMMA LimitsAreNumbers ==
  MaxSeries \in Nat /\ MaxDetailed \in Nat /\ MaxValues \in Nat
BY QueriesAssumption, BudgetAssumption

\* What an answer that is not an error was made of.
LEMMA AnswersAreOfTheBackend ==
  ASSUME Told, NEW tools, Answered(tools)
  PROVE  /\ req \in Requests /\ req.tool \in tools
         /\ answer = Answer(held, req)
         /\ IsFiniteSet(DOMAIN held) /\ DOMAIN held \in SUBSET Nat
         /\ req.tool = "targets_health" => \A n \in DOMAIN held : held[n] \in {"up", "down"}
<1>1. req \in Requests /\ req.tool \in tools /\ held \in Contents[req.tool]
      /\ answer = Answer(held, req)
  BY DEF Told, Answered
<1> QED
  BY <1>1, QueriesAssumption

\* Any part of the names is a finite set of numbers.
LEMMA PartsAreFinite ==
  ASSUME NEW S \in SUBSET Nat, IsFiniteSet(S), NEW T \in SUBSET S
  PROVE  /\ T \in SUBSET Nat /\ IsFiniteSet(T)
         /\ Cardinality(T) \in Nat /\ Cardinality(T) <= Cardinality(S)
BY FS_Subset, FS_CardinalityType

\* _series, _render: a series that is not detailed was cut, or is counted.
LEMMA RenderMarks ==
  ASSUME NEW found, IsFiniteSet(DOMAIN found), DOMAIN found \in SUBSET Nat
  PROVE  /\ (DOMAIN found \ DOMAIN Render(found).detail # {}) =>
                Render(found).truncated \/ Render(found).note
         /\ ~Render(found).truncated => Render(found).count = Cardinality(DOMAIN found)
<1> DEFINE kept == Cut(DOMAIN found)
<1>1. /\ Render(found).truncated <=> Cardinality(DOMAIN found) > Cardinality(kept)
      /\ Render(found).note <=> Cardinality(kept) > MaxDetailed
      /\ Render(found).count = Cardinality(kept)
      /\ DOMAIN Render(found).detail = First(kept, MaxDetailed)
  BY DEF Render, Truncated
<1>2. ASSUME ~Render(found).truncated PROVE kept = DOMAIN found
  BY <1>1, <1>2, WholeIfAsLarge DEF Cut
<1>3. ASSUME ~Render(found).truncated, ~Render(found).note
      PROVE  DOMAIN Render(found).detail = DOMAIN found
  <2>1. kept \in SUBSET Nat /\ IsFiniteSet(kept) /\ Cardinality(kept) \in Nat
    BY <1>2, <1>3, PartsAreFinite
  <2>2. Cardinality(kept) <= MaxDetailed
    BY <1>1, <1>3, <2>1, LimitsAreNumbers
  <2>3. First(kept, MaxDetailed) = kept
    BY <2>1, <2>2, FirstOfFew, LimitsAreNumbers
  <2> QED
    BY <1>1, <1>2, <1>3, <2>3
<1> QED
  BY <1>1, <1>2, <1>3

\* metric_metadata: one more than the limit is asked for, so that a list that
\* is not marked is the whole of what has the text.
LEMMA MetadataMarks ==
  ASSUME NEW found, IsFiniteSet(DOMAIN found), DOMAIN found \in SUBSET Nat,
         NEW r, r.limit \in Int
  PROVE  \/ MetricMetadata(found, r).truncated
         \/ MetricMetadata(found, r).listed = Filter(DOMAIN found, r.contains)
<1> DEFINE limit == AtLeastOne(IF r.limit < MaxValues THEN r.limit ELSE MaxValues)
           named == Filter(DOMAIN found, r.contains)
           cards == First(named, AtLeastOne(limit + 1))
<1>1. limit \in Nat /\ AtLeastOne(limit + 1) = limit + 1
  BY LimitsAreNumbers DEF AtLeastOne
<1>2. /\ MetricMetadata(found, r).listed = First(cards, limit)
      /\ MetricMetadata(found, r).truncated <=> Cardinality(cards) > limit
  BY DEF MetricMetadata
<1>3. named \in SUBSET DOMAIN found
  BY DEF Filter
<1> HIDE DEF limit, named
<1>4. named \in SUBSET Nat /\ IsFiniteSet(named)
  BY <1>3, PartsAreFinite
<1>5. cards \in SUBSET Nat /\ IsFiniteSet(cards) /\ Cardinality(cards) \in Nat
  BY <1>4, FirstIsPart
<1>6. CASE Cardinality(cards) <= limit
  <2>1. cards = named
    BY <1>1, <1>4, <1>5, <1>6, FirstIsFull
  <2>2. First(cards, limit) = cards
    BY <1>1, <1>5, <1>6, FirstOfFew
  <2> QED
    BY <1>2, <2>1, <2>2 DEF named
<1> QED
  BY <1>1, <1>2, <1>5, <1>6

\* A tool that lists shows a part of what it counts.
LEMMA ListsAreParts ==
  ASSUME NEW found, IsFiniteSet(DOMAIN found), DOMAIN found \in SUBSET Nat,
         Cardinality(DOMAIN found) <= MaxSeries,
         NEW S \in SUBSET DOMAIN found, NEW n
  PROVE  Cut(S) = S /\ First(S, n) \subseteq S
<1>1. S \in SUBSET Nat /\ IsFiniteSet(S) /\ Cardinality(S) \in Nat
      /\ Cardinality(S) <= Cardinality(DOMAIN found) /\ Cardinality(DOMAIN found) \in Nat
  BY PartsAreFinite
<1>2. Cardinality(S) <= MaxSeries
  BY <1>1, LimitsAreNumbers
<1> QED
  BY <1>1, <1>2, FirstOfFew, LimitsAreNumbers DEF Cut, First

\* What was asked for is what is counted, and what is listed is of it.
LEMMA ListsCount ==
  ASSUME Told, Answered({"label_values", "alerts_active", "alert_rules"}),
         Cardinality(DOMAIN held) <= MaxSeries
  PROVE  LET wanted == {n \in DOMAIN held : Asked(n)}
         IN answer.listed \subseteq wanted /\ answer.count = Cardinality(wanted)
<1> DEFINE wanted == {n \in DOMAIN held : Asked(n)}
           all    == DOMAIN held
<1>1. /\ req.tool \in {"label_values", "alerts_active", "alert_rules"}
      /\ answer = Answer(held, req) /\ IsFiniteSet(all) /\ all \in SUBSET Nat
  BY AnswersAreOfTheBackend
<1>2. \A S \in SUBSET all : Cut(S) = S
  BY <1>1, ListsAreParts
<1>3. \A n : First(wanted, n) \subseteq wanted
  BY <1>1, ListsAreParts
<1>4. CASE req.tool = "label_values"
  <2>1. Filter(Cut(all), req.contains) = wanted
    BY <1>2, <1>4 DEF Filter, Asked
  <2>2. answer = LabelValues(held, req)
    BY <1>1, <1>4 DEF Answer, PromqlTools
  <2>3. answer.count = Cardinality(wanted) /\ answer.listed = First(wanted, MaxValues)
    BY <2>1, <2>2 DEF LabelValues
  <2> QED
    BY <1>3, <2>3
<1>5. CASE req.tool = "alerts_active"
  <2> DEFINE shown == Filter(IF req.state = "all" THEN Cut(all) ELSE With(held, Cut(all), req.state),
                             req.contains)
  <2>1. shown = wanted
    BY <1>2, <1>5 DEF Filter, Asked, With
  <2>2. answer = AlertsActive(held, req)
    BY <1>1, <1>5 DEF Answer, PromqlTools
  <2>3. answer.count = Cardinality(shown) /\ answer.listed = First(shown, MaxListed)
    BY <2>2 DEF AlertsActive
  <2> QED
    BY <1>3, <2>1, <2>3
<1>6. CASE req.tool = "alert_rules"
  <2> DEFINE rules == all \ With(held, all, "recording")
             shown == Filter(IF req.onlyActive THEN Cut(rules) \ With(held, Cut(rules), "inactive")
                             ELSE Cut(rules), req.contains)
  <2>1. Cut(rules) = rules
    <3>1. rules \in SUBSET all
      OBVIOUS
    <3> QED
      BY <1>2, <3>1
  <2>2. shown = wanted
    <3>1. ASSUME NEW n \in all PROVE n \in shown <=> Asked(n)
      BY <1>6, <2>1 DEF Filter, Asked, With
    <3>2. shown \in SUBSET all
      BY <2>1 DEF Filter
    <3> QED
      BY <3>1, <3>2
  <2>3. answer = AlertRules(held, req)
    BY <1>1, <1>6 DEF Answer, PromqlTools
  <2>4. answer.count = Cardinality(shown) /\ answer.listed = First(shown, MaxListed)
    BY <2>3 DEF AlertRules
  <2> QED
    BY <1>3, <2>2, <2>4
<1> QED
  BY <1>1, <1>4, <1>5, <1>6

\* A target that is not up is counted as down.
LEMMA TargetsCount ==
  ASSUME Told, Answered({"targets_health"}), Cardinality(DOMAIN held) <= MaxSeries
  PROVE  answer.down = Cardinality(With(held, DOMAIN held, "down"))
<1> DEFINE all == DOMAIN held
<1>1. /\ req.tool = "targets_health" /\ answer = Answer(held, req)
      /\ IsFiniteSet(all) /\ all \in SUBSET Nat
      /\ \A n \in all : held[n] \in {"up", "down"}
  BY AnswersAreOfTheBackend
<1>2. Cut(all) = all
  BY <1>1, ListsAreParts
<1>3. all \ With(held, all, "up") = With(held, all, "down")
  BY <1>1 DEF With
<1>4. answer = TargetsHealth(held, req)
  BY <1>1 DEF Answer, PromqlTools
<1>5. answer.down = Cardinality(Cut(all) \ With(held, Cut(all), "up"))
  BY <1>4 DEF TargetsHealth
<1> QED
  BY <1>2, <1>3, <1>5

\* metrics_prometheus.py:16-18, tools_metrics.py, tools_alerts.py: for any
\* backend and any limits, a series that is not shown is announced, a list of
\* metrics that is not marked is whole, and the counts are of all that was
\* asked for as long as max_series holds it.
THEOREM WhatIsCutIsTold == QueriesSpec => []NothingIsHidden
<1>1. Told => NothingIsHidden
  <2> SUFFICES ASSUME Told PROVE NothingIsHidden
    OBVIOUS
  <2>1. PartialIsMarked
    <3> SUFFICES ASSUME Answered(PromqlTools)
                 PROVE  /\ DOMAIN held \ DOMAIN answer.detail # {} => answer.truncated \/ answer.note
                        /\ ~answer.truncated => answer.count = Cardinality(DOMAIN held)
      BY DEF PartialIsMarked
    <3>1. /\ req.tool \in PromqlTools /\ answer = Answer(held, req)
          /\ IsFiniteSet(DOMAIN held) /\ DOMAIN held \in SUBSET Nat
      BY AnswersAreOfTheBackend
    <3>2. answer = Render(held)
      BY <3>1 DEF Answer, PromqlTools
    <3> QED
      BY <3>1, <3>2, RenderMarks
  <2>2. MetadataIsWhole
    <3> SUFFICES ASSUME Answered({"metric_metadata"})
                 PROVE  answer.truncated \/ answer.listed = Filter(DOMAIN held, req.contains)
      BY DEF MetadataIsWhole
    <3>1. /\ req \in Requests /\ req.tool = "metric_metadata" /\ answer = Answer(held, req)
          /\ IsFiniteSet(DOMAIN held) /\ DOMAIN held \in SUBSET Nat
      BY AnswersAreOfTheBackend
    <3>2. answer = MetricMetadata(held, req) /\ req.limit \in Int
      BY <3>1, QueriesAssumption DEF Answer, PromqlTools
    <3> QED
      BY <3>1, <3>2, MetadataMarks
  <2>3. CountsTellTheCut
    BY ListsCount, TargetsCount DEF CountsTellTheCut
  <2> QED
    BY <2>1, <2>2, <2>3 DEF NothingIsHidden
<1> QED
  BY AlwaysTold, <1>1, PTL

-----------------------------------------------------------------------------
(* The summary of a series.                                                *)

Series == Seq({NaN, Inf} \cup Int)

\* The numbers among the values of a series are what its extremes are taken
\* from.
LEMMA ExtremesAreHonest ==
  ASSUME NEW values, IsFiniteSet(values), values \subseteq {Inf} \cup Int, NaN \notin values,
         NEW v \in values
  PROVE  /\ v # Inf => Num(Least(values)) <= v
         /\ v = Inf => Num(Greatest(values)) = None
         /\ v # Inf /\ Num(Greatest(values)) # None => v <= Num(Greatest(values))
<1> DEFINE numbers == values \ {Inf}
<1>1. numbers \in SUBSET Int /\ IsFiniteSet(numbers)
  <2>1. IsFiniteSet(numbers)
    BY FS_Difference
  <2> QED
    BY <2>1
<1>2. ASSUME v # Inf PROVE Num(Least(values)) <= v
  <2>1. v \in numbers
    BY <1>2
  <2>2. Min(numbers) \in numbers /\ Min(numbers) <= v
    BY <1>1, <2>1, MinIsLeast
  <2>3. Least(values) = Min(numbers)
    BY <2>1 DEF Least
  <2> QED
    BY <2>2, <2>3 DEF Num
<1>3. ASSUME v = Inf PROVE Num(Greatest(values)) = None
  BY <1>3 DEF Greatest, Num
<1>4. ASSUME v # Inf, Num(Greatest(values)) # None PROVE v <= Num(Greatest(values))
  <2>1. Inf \notin values
    BY <1>4 DEF Greatest, Num
  <2>2. values \in SUBSET Int
    BY <2>1
  <2>3. Max(values) \in values /\ Max(values) >= v
    BY <2>2, MaxIsGreatest
  <2>4. Greatest(values) = Max(values)
    BY <2>1 DEF Greatest
  <2>5. Num(Greatest(values)) = Max(values)
    BY <2>3, <2>4, <2>1 DEF Num
  <2> QED
    BY <2>2, <2>3, <2>5
<1> QED
  BY <1>2, <1>3, <1>4

\* _summarize, of any series.
LEMMA SummarizeIsHonest ==
  ASSUME NEW samples \in Series
  PROVE  LET row == Summarize(samples)
         IN /\ (row.form = "empty") <=> (\A i \in DOMAIN samples : samples[i] = NaN)
            /\ row.form = "summary" =>
                   \A i \in DOMAIN samples :
                       /\ samples[i] = Inf => row.max = None
                       /\ samples[i] \notin {NaN, Inf} =>
                              /\ row.min <= samples[i]
                              /\ row.max # None => samples[i] <= row.max
                              /\ i = Len(samples) => row.last = samples[i]
<1> DEFINE row    == Summarize(samples)
           solid  == Solid(samples)
           values == {samples[i] : i \in solid}
<1>1. (row.form = "empty") <=> (\A i \in DOMAIN samples : samples[i] = NaN)
  BY DEF Summarize, Solid
<1>2. ASSUME row.form = "summary"
      PROVE  /\ row.last = Num(samples[Max(solid)])
             /\ row.min = Num(Least(values)) /\ row.max = Num(Greatest(values))
  BY <1>2 DEF Summarize
<1>3. /\ solid \in SUBSET (1 .. Len(samples)) /\ IsFiniteSet(solid)
      /\ solid \in SUBSET Int
  <2>1. solid \in SUBSET (1 .. Len(samples)) /\ Len(samples) \in Nat
    BY DEF Solid, Series
  <2>2. IsFiniteSet(1 .. Len(samples))
    BY <2>1, FS_Interval
  <2> HIDE DEF solid
  <2>3. IsFiniteSet(solid)
    BY <2>1, <2>2, FS_Subset
  <2> QED
    BY <2>1, <2>3
<1>4. IsFiniteSet(values) /\ values \subseteq {Inf} \cup Int /\ NaN \notin values
  <2>2. IsFiniteSet(values)
    BY <1>3, ImageIsFinite
  <2> QED
    BY <2>2 DEF Solid, Series
<1>5. ASSUME row.form = "summary", NEW i \in DOMAIN samples, samples[i] = Inf
      PROVE  row.max = None
  <2>1. samples[i] \in values
    BY <1>5, QueriesAssumption DEF Solid
  <2> QED
    BY <1>2, <1>4, <1>5, <2>1, ExtremesAreHonest
<1>6. ASSUME row.form = "summary", NEW i \in DOMAIN samples, samples[i] \notin {NaN, Inf}
      PROVE  /\ row.min <= samples[i]
             /\ row.max # None => samples[i] <= row.max
             /\ i = Len(samples) => row.last = samples[i]
  <2>1. i \in solid /\ samples[i] \in values
    BY <1>6 DEF Solid
  <2>2. /\ row.min <= samples[i]
        /\ row.max # None => samples[i] <= row.max
    BY <1>2, <1>4, <1>6, <2>1, ExtremesAreHonest
  <2>3. ASSUME i = Len(samples) PROVE row.last = samples[i]
    <3>1. Max(solid) \in solid /\ Max(solid) >= i
      BY <1>3, <2>1, MaxIsGreatest
    <3>2. Max(solid) = i
      BY <1>3, <2>3, <3>1
    <3> QED
      BY <1>2, <1>6, <3>2 DEF Num
  <2> QED
    BY <2>2, <2>3
<1> QED
  BY <1>1, <1>5, <1>6

\* tools_metrics.py:56-75: for any samples, a summary does not lie about its
\* series.
THEOREM SummariesAreHonest == QueriesSpec => []SummaryIsHonest
<1>1. Told => SummaryIsHonest
  <2> SUFFICES ASSUME Told, Answered(PromqlTools), NEW s \in DOMAIN answer.detail
               PROVE  LET row == answer.detail[s]
                      IN /\ (row.form = "empty") <=> (\A i \in DOMAIN held[s] : held[s][i] = NaN)
                         /\ row.form = "summary" =>
                                \A i \in DOMAIN held[s] :
                                    /\ held[s][i] = Inf => row.max = None
                                    /\ held[s][i] \notin {NaN, Inf} =>
                                           /\ row.min <= held[s][i]
                                           /\ row.max # None => held[s][i] <= row.max
                                           /\ i = Len(held[s]) => row.last = held[s][i]
    BY DEF SummaryIsHonest
  <2>1. req \in Requests /\ req.tool \in PromqlTools /\ answer = Answer(held, req)
    BY AnswersAreOfTheBackend
  <2>2. answer = Render(held)
    BY <2>1 DEF Answer, PromqlTools
  <2>3. s \in DOMAIN held /\ answer.detail[s] = Summarize(held[s])
    BY <2>2 DEF Render, First, Cut
  <2>4. held \in Contents[req.tool]
    BY DEF Told, Answered
  <2>5. held[s] \in Series
    BY <2>1, <2>3, <2>4, QueriesAssumption DEF Series
  <2> QED
    BY <2>3, <2>5, SummarizeIsHonest
<1> QED
  BY AlwaysTold, <1>1, PTL
=============================================================================
