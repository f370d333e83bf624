----------------------------- MODULE MCQueries -----------------------------
(***************************************************************************)
(* A backend with one name more than every limit but the smallest, spans   *)
(* at both sides of every boundary, and every kind of series.              *)
(***************************************************************************)
EXTENDS Queries

Names == 1 .. 5

MCMatching == {2, 4, 5}
MCSteps == {15, 30, 60, 120, 300, 600, 900, 1800, 3600, 7200, 21600, 43200, 86400}

\* With 20 points: 300 s is the last span for a step of 15 s, 1728000 s for one
\* of a day, and max_range (31 days) fits none.
Spans == {Malformed, 0, 300, 301, 1728000, 2678400, 2678401}

Queried == {"blank", "hollow", "universe", "plain"}

MCRequests ==
    [tool : {"promql_instant"}, query : Queried]
    \cup [tool : {"promql_range"}, query : {"hollow", "plain"}, span : Spans, step : {0, 15, 86400}]
    \cup [tool : {"label_values"}, label : {"blank", "job"}, contains : BOOLEAN]
    \cup [tool : {"targets_health"}, onlyDown : BOOLEAN]
    \cup [tool : {"alerts_active"}, state : {"firing", "pending", "all"}, contains : BOOLEAN]
    \cup [tool : {"alert_rules"}, onlyActive : BOOLEAN, contains : BOOLEAN]
    \cup [tool : {"metric_metadata"}, contains : BOOLEAN, limit : {0, 1, 2, 9}]
    \cup [tool : {"alerts_received"}, onlyFiring : BOOLEAN, contains : BOOLEAN]

Holding(names, values) == UNION {[S -> values] : S \in SUBSET names}

Samples == {<<>>, <<1>>, <<NaN, NaN, NaN>>, <<NaN, 2>>, <<3, Inf, 1, NaN>>, <<2, 1, 3>>}

MCContents == [t \in {r.tool : r \in MCRequests} |->
    CASE t \in PromqlTools           -> Holding(1 .. 3, Samples) \cup [1 .. 4 -> {<<1>>}]
      [] t = "targets_health"        -> Holding(Names, {"up", "down"})
      [] t = "alerts_active"         -> Holding(Names, {"firing", "pending"})
      [] t = "alert_rules"           -> Holding(Names, {"firing", "inactive", "recording"})
      [] t = "alerts_received"       -> Holding(Names, {"firing", "resolved"})
      [] OTHER                       -> Holding(Names, {"named"})]
=============================================================================
