------------------------------ MODULE Queries ------------------------------
(***************************************************************************)
(* A tool of the agent over the Prometheus adapter: tools_metrics.py and   *)
(* tools_alerts.py in src/copilot/agent, and                               *)
(* src/copilot/adapters/metrics_prometheus.py.  The adapter keeps no state *)
(* between calls, so one call at a time is enough:                         *)
(*   idle --Call--> sent --Reply--> done --Forget--> idle                  *)
(* or idle --Call--> done, when it is refused before the network.          *)
(* What the backend holds is a function from names to what is told of each *)
(* (the samples of a series, the health of a target, a state).             *)
(***************************************************************************)
EXTENDS Budget, Sequences

CONSTANTS
    Requests,     \* the calls: a tool and its arguments
    Contents,     \* Contents[tool]: what the backend may hold for it
    Matching,     \* the names that contain the text of `contains'
    Steps,        \* _STEPS
    MaxRaw,       \* _MAX_RAW_POINTS
    MaxDetailed,  \* _MAX_DETAILED
    MaxListed,    \* _MAX_LISTED, and the [:100] of targets_health
    MaxValues,    \* the [:200] of label_values and of metric_metadata
    HasLog,       \* this installation receives alerts
    NaN, Inf,     \* values of a sample that are not numbers
    Malformed,    \* a lookback that _lookback does not understand
    None

PromqlTools == {"promql_instant", "promql_range"}

Tools == {"promql_instant", "promql_range", "label_values", "targets_health", "alerts_active",
          "alert_rules", "metric_metadata", "alerts_received"}

ASSUME QueriesAssumption ==
    /\ \A r \in Requests :
          /\ r.tool \in Tools
          /\ r.tool = "promql_range" => r.span \in {Malformed} \cup Int /\ r.step \in Nat
          /\ r.tool = "metric_metadata" => r.limit \in Int
    /\ \A tool \in {r.tool : r \in Requests} : \A found \in Contents[tool] :
          /\ IsFiniteSet(DOMAIN found) /\ DOMAIN found \subseteq Nat
          /\ tool \in PromqlTools => \A n \in DOMAIN found : found[n] \in Seq({NaN, Inf} \cup Int)
          /\ tool = "targets_health" => \A n \in DOMAIN found : found[n] \in {"up", "down"}
    /\ Steps \subseteq Nat \ {0} /\ Steps # {} /\ IsFiniteSet(Steps)
    /\ {MaxRaw, MaxDetailed, MaxListed, MaxValues} \subseteq Nat \ {0}
    /\ HasLog \in BOOLEAN /\ NaN # Inf

VARIABLES
    phase,
    req,     \* the call under way
    sent,    \* what of it reached the network: span and step of a range
    held,    \* what the backend held when it answered
    answer   \* what the model is given

qvars == <<phase, req, sent, held, answer>>

Statuses == {"timeout", "unreachable", "5xx", "rejected", "4xx", "garbled", "failed", "success"}

-----------------------------------------------------------------------------
(* _summarize and _render.  The mean of a series is left out.              *)

\* mutant: Inf is dropped as NaN is
FiniteOnly(samples) == {i \in DOMAIN samples : samples[i] \notin {NaN, Inf}}

\* The samples that are not NaN, by their index.
Solid(samples) == {i \in DOMAIN samples : samples[i] # NaN}

\* _num: neither NaN nor Inf is JSON.
Num(v) == IF v \in {NaN, Inf} THEN None ELSE v

Least(values) ==
    LET numbers == values \ {Inf}
    IN IF numbers = {} THEN Inf ELSE Min(numbers)

Greatest(values) == IF Inf \in values THEN Inf ELSE Max(values)

Summarize(samples) ==
    LET solid  == Solid(samples)
        values == {samples[i] : i \in solid}
    IN IF solid = {} THEN [form |-> "empty"]
       ELSE IF Len(samples) <= MaxRaw
       THEN [form |-> "points", points |-> [i \in DOMAIN samples |-> Num(samples[i])]]
       ELSE [form |-> "summary", first |-> Num(samples[Min(solid)]),
             last |-> Num(samples[Max(solid)]),
             min |-> Num(Least(values)), max |-> Num(Greatest(values)),
             points |-> Cardinality(solid)]

\* mutant: the length is compared after the cut
TruncatedAfterCut(found) == Cardinality(Cut(DOMAIN found)) > MaxSeries

\* _series: len(result) > len(recorte)
Truncated(found) == Cardinality(DOMAIN found) > Cardinality(Cut(DOMAIN found))

\* _series and _render: the series past max_series are dropped and marked,
\* those past _MAX_DETAILED are counted.
Render(found) ==
    LET kept == Cut(DOMAIN found)
    IN [kind |-> "series", count |-> Cardinality(kept),
        detail |-> [s \in First(kept, MaxDetailed) |-> Summarize(found[s])],
        note |-> Cardinality(kept) > MaxDetailed,
        truncated |-> Truncated(found)]

-----------------------------------------------------------------------------
(* The tools that list.                                                    *)

Filter(S, contains) == IF contains THEN S \cap Matching ELSE S

With(found, S, value) == {n \in S : found[n] = value}

\* mutant: the count is of what is listed
LabelValuesListed(found, r) ==
    LET kept == First(Filter(Cut(DOMAIN found), r.contains), MaxValues)
    IN [kind |-> "list", count |-> Cardinality(kept), listed |-> kept]

\* label_values: the adapter cuts, then the tool filters.
LabelValues(found, r) ==
    LET kept == Filter(Cut(DOMAIN found), r.contains)
    IN [kind |-> "list", count |-> Cardinality(kept), listed |-> First(kept, MaxValues)]

TargetsHealth(found, r) ==
    LET all  == Cut(DOMAIN found)
        up   == With(found, all, "up")
        down == all \ up
    IN [kind |-> "targets", total |-> Cardinality(all), up |-> Cardinality(up),
        down |-> Cardinality(down),
        listed |-> First(IF r.onlyDown THEN down ELSE all, MaxListed)]

AlertsActive(found, r) ==
    LET all    == Cut(DOMAIN found)
        firing == With(found, all, "firing")
        shown  == Filter(IF r.state = "all" THEN all ELSE With(found, all, r.state), r.contains)
    IN [kind |-> "list", total |-> Cardinality(all), firing |-> Cardinality(firing),
        pending |-> Cardinality(all) - Cardinality(firing), count |-> Cardinality(shown),
        listed |-> First(shown, MaxListed), note |-> Cardinality(shown) > MaxListed]

AlertRules(found, r) ==
    LET all   == Cut(DOMAIN found \ With(found, DOMAIN found, "recording"))
        shown == Filter(IF r.onlyActive THEN all \ With(found, all, "inactive") ELSE all,
                        r.contains)
    IN [kind |-> "list", total |-> Cardinality(all), count |-> Cardinality(shown),
        listed |-> First(shown, MaxListed), note |-> Cardinality(shown) > MaxListed]

\* mutant: the tool asks the adapter for no more than it lists
MetadataToTheLimit(found, r) ==
    LET limit == AtLeastOne(IF r.limit < MaxValues THEN r.limit ELSE MaxValues)
        cards == First(Filter(DOMAIN found, r.contains), AtLeastOne(limit))
    IN [kind |-> "metadata", listed |-> First(cards, limit),
        truncated |-> Cardinality(cards) > limit]

\* metric_metadata over metadata: filtered first, and one more than the limit
\* is asked for to know whether there was more.
MetricMetadata(found, r) ==
    LET limit == AtLeastOne(IF r.limit < MaxValues THEN r.limit ELSE MaxValues)
        cards == First(Filter(DOMAIN found, r.contains), AtLeastOne(limit + 1))
    IN [kind |-> "metadata", listed |-> First(cards, limit),
        truncated |-> Cardinality(cards) > limit]

\* alerts_received over AlertLog.recent: the limit comes before the text.
AlertsReceived(found, r) ==
    LET recent == First(IF r.onlyFiring THEN With(found, DOMAIN found, "firing")
                        ELSE DOMAIN found, MaxListed)
    IN [kind |-> "received", listed |-> Filter(recent, r.contains)]

Answer(found, r) ==
    CASE r.tool \in PromqlTools      -> Render(found)
      [] r.tool = "label_values"     -> LabelValues(found, r)
      [] r.tool = "targets_health"   -> TargetsHealth(found, r)
      [] r.tool = "alerts_active"    -> AlertsActive(found, r)
      [] r.tool = "alert_rules"      -> AlertRules(found, r)
      [] r.tool = "metric_metadata"  -> MetricMetadata(found, r)
      [] r.tool = "alerts_received"  -> AlertsReceived(found, r)

ASSUME NoneIsNoAnswer ==
    /\ \A b \in BOOLEAN : None # [kind |-> "error", retriable |-> b]
    /\ \A r \in Requests : \A found \in Contents[r.tool] : Answer(found, r) # None

-----------------------------------------------------------------------------
(* What is refused, and what is sent.                                      *)

\* _guard
Unbounded(query) == query \in {"blank", "hollow"}

\* mutant: the guard on the longest range is dropped
RefusedShort(r) ==
    \/ r.tool \in PromqlTools /\ Unbounded(r.query)
    \/ r.tool = "promql_range" /\ (r.span = Malformed \/ r.span <= 0)
    \/ r.tool = "label_values" /\ r.label = "blank"
    \/ r.tool = "alerts_received" /\ ~HasLog

Refused(r) ==
    \/ r.tool \in PromqlTools /\ Unbounded(r.query)
    \/ r.tool = "promql_range" /\ (r.span = Malformed \/ r.span <= 0 \/ r.span > MaxRange)
    \/ r.tool = "label_values" /\ r.label = "blank"
    \/ r.tool = "alerts_received" /\ ~HasLog

\* mutant: a step that was asked for is kept whatever the span
StepAsAsked(r) == IF r.step # 0 THEN r.step ELSE Pick(Steps, r.span)

\* range: an explicit step (0 is None) holds while it respects max_points.
StepOf(r) ==
    LET step == IF r.step # 0 THEN r.step ELSE Pick(Steps, r.span)
    IN IF r.span > step * MaxPoints THEN Pick(Steps, r.span) ELSE step

Sent(r) == [span |-> IF r.tool = "promql_range" THEN r.span ELSE 0,
            step |-> IF r.tool = "promql_range" THEN StepOf(r) ELSE 0]

\* mutant: a timeout is swallowed
TimeoutSwallowed(status) ==
    IF status = "timeout" THEN None
    ELSE [kind |-> "error", retriable |-> status \in {"unreachable", "5xx"}]

\* _get: only what a repetition may mend is retriable.
Failure(status) ==
    [kind |-> "error", retriable |-> status \in {"timeout", "unreachable", "5xx"}]

-----------------------------------------------------------------------------
Call(r) ==
    /\ phase = "idle"
    /\ req' = r
    /\ IF Refused(r)
       THEN /\ phase' = "done"
            /\ answer' = [kind |-> "error", retriable |-> FALSE]
            /\ UNCHANGED <<sent, held>>
       ELSE /\ phase' = "sent"
            /\ sent' = Sent(r)
            /\ UNCHANGED <<held, answer>>

\* The alert log is in memory: it never fails.
Reply(status, found) ==
    /\ phase = "sent"
    /\ req.tool = "alerts_received" => status = "success"
    /\ phase' = "done"
    /\ held' = found
    /\ answer' = IF status = "success" THEN Answer(found, req) ELSE Failure(status)
    /\ UNCHANGED <<req, sent>>

Forget ==
    /\ phase = "done"
    /\ phase' = "idle" /\ req' = None /\ sent' = None /\ held' = None /\ answer' = None

QueriesInit ==
    phase = "idle" /\ req = None /\ sent = None /\ held = None /\ answer = None

QueriesNext ==
    \/ \E r \in Requests : Call(r)
    \/ phase = "sent" /\ \E found \in Contents[req.tool] : Reply("success", found)
    \/ \E status \in Statuses \ {"success"} : Reply(status, None)
    \/ Forget

QueriesSpec == QueriesInit /\ [][QueriesNext]_qvars

-----------------------------------------------------------------------------
QueriesTypeOK ==
    /\ phase \in {"idle", "sent", "done"}
    /\ req \in Requests \cup {None}
    /\ sent \in [span : Int, step : Nat] \cup {None}
    /\ (phase = "done") <=> (answer # None)
    /\ answer = None \/ answer.kind \in {"error", "series", "list", "targets", "metadata", "received"}

Answered(tools) ==
    phase = "done" /\ req.tool \in tools /\ answer.kind # "error"

\* What reaches the backend is within the budget (metrics_prometheus.py:9-19):
\* no range past max_range, and no more points than max_points (or one, where
\* the file says less) unless not even the coarsest usual step can do it; and
\* no coarser than it takes, or the answer would hide what the budget lets see.
BackendIsSpared ==
    (sent # None /\ req.tool = "promql_range") =>
        /\ sent.span \in 1 .. MaxRange
        /\ sent.span <= sent.step * AtLeastOne(MaxPoints) \/ sent.step = Max(Steps)
        /\ sent.step # req.step =>
               \A s \in Steps : s < sent.step => sent.span > s * AtLeastOne(MaxPoints)

\* "Marcado, no en silencio" (metrics_prometheus.py:16-18): a series that the
\* backend returned and the answer does not detail is announced, by `truncated'
\* or by the note with its count.
PartialIsMarked ==
    Answered(PromqlTools) =>
        LET hidden == DOMAIN held \ DOMAIN answer.detail
        IN /\ hidden # {} => answer.truncated \/ answer.note
           /\ ~answer.truncated => answer.count = Cardinality(DOMAIN held)

\* A summary does not lie about its series (tools_metrics.py:56-75): a series
\* with a number is never shown empty, no value lies outside min and max, an
\* infinite extreme is left blank, and the last value is the last one known.
SummaryIsHonest ==
    Answered(PromqlTools) =>
        \A s \in DOMAIN answer.detail :
            LET row == answer.detail[s]
            IN /\ (row.form = "empty") <=> (\A i \in DOMAIN held[s] : held[s][i] = NaN)
               /\ row.form = "summary" =>
                      \A i \in DOMAIN held[s] :
                          /\ held[s][i] = Inf => row.max = None
                          /\ held[s][i] \notin {NaN, Inf} =>
                                 /\ row.min <= held[s][i]
                                 /\ row.max # None => held[s][i] <= row.max
                                 /\ i = Len(held[s]) => row.last = held[s][i]

\* When metric_metadata does not say `truncated', it lists every metric that
\* has the text (tools_metrics.py:232-244).
MetadataIsWhole ==
    Answered({"metric_metadata"}) =>
        \/ answer.truncated
        \/ answer.listed = Filter(DOMAIN held, req.contains)

\* What a listing tool leaves out shows in its counts, as long as the backend
\* holds no more than max_series: a name of the backend that was asked for and
\* is not listed makes the count exceed the list.
Asked(n) ==
    /\ req.contains => n \in Matching
    /\ req.tool = "alerts_active" => req.state \in {"all", held[n]}
    /\ req.tool = "alert_rules" =>
           held[n] # "recording" /\ (req.onlyActive => held[n] # "inactive")

CountsTellTheCut ==
    /\ (Answered({"label_values", "alerts_active", "alert_rules"})
        /\ Cardinality(DOMAIN held) <= MaxSeries) =>
           LET wanted == {n \in DOMAIN held : Asked(n)}
           IN answer.listed \subseteq wanted /\ answer.count = Cardinality(wanted)
    /\ (Answered({"targets_health"}) /\ Cardinality(DOMAIN held) <= MaxSeries) =>
           answer.down = Cardinality(With(held, DOMAIN held, "down"))

\* Whatever an answer leaves out, the answer says that something is missing.
NothingIsHidden == PartialIsMarked /\ MetadataIsWhole /\ CountsTellTheCut

\* label_values is "la forma de descubrir que hay" (tools_metrics.py:150-154):
\* a value of the label that has the text is listed, or the count tells it.
ValuesAreFound ==
    Answered({"label_values"}) =>
        answer.count = Cardinality(Filter(DOMAIN held, req.contains))
=============================================================================
