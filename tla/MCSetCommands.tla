--------------------------- MODULE MCSetCommands ---------------------------
(***************************************************************************)
(* Two sessions, two sets: one whose second stage runs although the first  *)
(* may fail and which uses one name twice, and one that stops at a failure *)
(* and has distinct names.                                                 *)
(***************************************************************************)
EXTENDS SetCommands

CONSTANTS main, e1, e2, setFile, record, s1File, s2File

MCSessionFile == [s \in {"s1", "s2"} |-> IF s = "s1" THEN s1File ELSE s2File]

NoOverride == [fields |-> << >>, headers |-> << >>]
Item(n, s) == [name |-> n, session |-> s, overrides |-> NoOverride]
Limit(metric, value, scope) == [metric |-> metric, op |-> "lt", value |-> value, scope |-> scope]

MCLimits == {Limit("error_rate", 50, "per_item"), Limit("p95", 3, ""), Limit("total_errors", 1, "a")}

Gate == [stages |-> << [items |-> <<Item("a", "s1"), Item("b", "s2")>>, onFailure |-> ""],
                       [items |-> <<Item("c", "s1")>>, onFailure |-> "continue"] >>,
         thresholds |-> <<Limit("error_rate", 50, "per_item"), Limit("p95", 3, "")>>]
Tour == [stages |-> << [items |-> <<Item("a", "s1"), Item("", "s2")>>, onFailure |-> "continue"],
                       [items |-> <<Item("a", "s2")>>, onFailure |-> "abort"] >>,
         thresholds |-> << >>]
MCSetDocs == {Gate, Tour}

\* A session that ends by itself, and one that somebody has saved without a total.
Session(n) == [fields |-> [total |-> n, timeout |-> 1, auth_token |-> "t"], headers |-> << >>]
MCConfigs == {Session(1), Session(0)}

NoFlag == [thresholds |-> << >>, overrides |-> << >>]
MCFlags == {NoFlag,
            [thresholds |-> <<Limit("total_errors", 1, "a")>>,
             overrides |-> <<[item |-> "a", field |-> "total", value |-> 2],
                             [item |-> "b", field |-> "auth_token", value |-> "$T"]>>]}

MCEnv == [x \in {"$T"} |-> "secret"]

Good == [total |-> 4, errors |-> 0, seconds |-> 1, p50 |-> 1, p95 |-> 2, p99 |-> 2]
Bad  == [total |-> 4, errors |-> 2, seconds |-> 1, p50 |-> 1, p95 |-> 4, p99 |-> 4]
MCSummaries == {Good, Bad}

\* One editor beside the run; two, when nobody runs the set, for a save that
\* meets a delete and another save.
MCEditsBeside == [p \in Editors |-> IF p = e1 THEN 1 ELSE 0]
MCEditsAlone == [p \in Editors |-> IF p = e1 THEN 1 ELSE 2]

MCDocs == MCSetDocs \cup MCConfigs \cup {RunDoc(s) : s \in Statuses \cup {"running"}}
            \cup {WithFlags(x[1], x[2]) : x \in {y \in MCSetDocs \X MCFlags : ~UnknownItem(y[1], y[2])}}
=============================================================================
