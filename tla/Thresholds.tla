----------------------------- MODULE Thresholds -----------------------------
(***************************************************************************)
(* The pass criteria of a run (internal/threshold): parsing and evaluation *)
(* against the collector's final statistics.  Pure operators.  Numbers are *)
(* compared as fractions with the threshold in thousandths, the epsilon of *)
(* the float comparison being smaller than any difference between two.     *)
(***************************************************************************)
EXTENDS Integers, Sequences

CONSTANTS
    Malformed,    \* no threshold: an error
    MatchFormat(_)  \* what the format's regular expression finds in a text:
                    \* [metric, aggregate, operator, value], or Malformed

LatencyAggregates == {"p50", "p90", "p95", "p99", "avg", "min", "max"}
Metrics == {"http_req_duration", "http_req_failed", "http_requests"}
Aggregates == LatencyAggregates \cup {"rate", "count"}

ParseThreshold(text) ==
    LET t == MatchFormat(text)
    IN IF t = Malformed THEN Malformed
       ELSE IF t.metric \in Metrics /\ t.aggregate \in Aggregates THEN t
       ELSE Malformed

ParseMultiple(texts) ==
    LET parsed == [i \in DOMAIN texts |-> ParseThreshold(texts[i])]
    IN IF \E i \in DOMAIN parsed : parsed[i] = Malformed THEN Malformed ELSE parsed

\* The measured value as a fraction <<n, d>>, <<>> for a metric that has no
\* such aggregate.  Of no requests none failed.
Extract(t, stats) ==
    CASE t.metric = "http_req_duration" /\ t.aggregate \in LatencyAggregates ->
            <<stats.latency[t.aggregate], 1>>
      [] t.metric = "http_req_failed" /\ t.aggregate = "count" -> <<stats.bad, 1>>
      [] t.metric = "http_req_failed" /\ t.aggregate = "rate" ->
            IF stats.ok + stats.bad = 0 THEN <<0, 1>> ELSE <<stats.bad, stats.ok + stats.bad>>
      [] t.metric = "http_requests" /\ t.aggregate = "count" -> <<stats.ok + stats.bad, 1>>
      [] t.metric = "http_requests" /\ t.aggregate = "rate" ->
            IF stats.seconds = 0 THEN <<0, 1>> ELSE <<stats.ok + stats.bad, stats.seconds>>
      [] OTHER -> <<>>

CompareValues(actual, op, value) ==
    LET a == 1000 * actual[1]
        b == value * actual[2]
    IN CASE op = "<" -> a < b
         [] op = "<=" -> a <= b
         [] op = ">" -> a > b
         [] op = ">=" -> a >= b
         [] op = "==" -> a = b

\* evaluateOne: what cannot be measured fails.
Passes(t, stats) ==
    Extract(t, stats) # <<>> /\ CompareValues(Extract(t, stats), t.operator, t.value)

AllPass(thresholds, stats) == \A i \in DOMAIN thresholds : Passes(thresholds[i], stats)
=============================================================================
