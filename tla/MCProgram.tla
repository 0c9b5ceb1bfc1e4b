----------------------------- MODULE MCProgram -----------------------------
(***************************************************************************)
(* Invocations of crankfire for Program: short documents and flags, each   *)
(* reaching a step of its own, and the texts that occur in them.           *)
(***************************************************************************)
EXTENDS Program

\* Texts: a blank one, and what the library makes of the others.
MCTrim(s) == IF s = " " THEN "" ELSE s
MCLower(s) == IF s = "HTTP" THEN "http" ELSE s
MCUpper(s) == IF s = "post" THEN "POST" ELSE s
MCCanonical(s) == IF s = "x-id" THEN "X-Id" ELSE s
MCAtoi(s) == IF s = "2" THEN 2 ELSE Bad
MCParseFloat(s) == Bad
MCParseBool(s) == IF s = "true" THEN TRUE ELSE Bad
MCParseDuration(s) == IF s = "1s" THEN 10 ELSE Bad
MCSprint(r) == "text"
MCIsIdentifier(s) == s # "1x"

MCEnv == [f \in {"static_token"} |-> "secret"]

Entry(url, method) == [url |-> url, method |-> method, body |-> "",
                       headers |-> [h \in {"Accept", "te"} |-> "v"]]
MCReadHAR(f) == IF f = "rec.har" THEN <<Entry("u1", "GET"), Entry("u2", "GET"), Entry("logo", "GET")>>
                ELSE Bad
MCHost(url) == IF url = "u1" THEN "h1" ELSE "h2"
MCURLPath(url) == "/"
MCStaticAsset(url) == url = "logo"
MCResolve(base, path) == IF path = "%" THEN Bad ELSE "joined"
MCSplitFilter(f) == CASE f = "h1" -> <<<<"host", <<"h1">>>>>>
                      [] f = "h3" -> <<<<"method", <<"GET">>>>, <<"host", <<"h3", " ">>>>>>
                      [] OTHER -> <<>>
MCHasNewline(s) == s = "a\nb"
MCIsFile(f) == f = "body.txt"
MCReadFeeder(f, type) == IF f = "data" THEN 2 ELSE Bad

MCMatchFormat(text) ==
    CASE text = "failed" -> [metric |-> "http_req_failed", aggregate |-> "rate",
                             operator |-> "<", value |-> 500]
      [] text = "count" -> [metric |-> "http_requests", aggregate |-> "count",
                            operator |-> ">=", value |-> 1000]
      [] text = "p95" -> [metric |-> "http_req_duration", aggregate |-> "p95",
                          operator |-> "<=", value |-> 2000]
      [] text = "odd" -> [metric |-> "http_requests", aggregate |-> "p95",
                          operator |-> "<", value |-> 1000]
      [] OTHER -> Malformed

MCTimings == {[latency |-> [a \in LatencyAggregates |-> 2], seconds |-> 1]}

---------------------------------------------------------------------------
S(x) == [t |-> "str", v |-> x]
I(x) == [t |-> "int", v |-> x]
F(x) == [t |-> "float", v |-> x]
T == [t |-> "bool", v |-> TRUE]
L(x) == [t |-> "list", v |-> x]
M(x) == [t |-> "map", v |-> x]
Given(doc) == [doc |-> doc, flags |-> <<>>]
Flagged(doc, flags) == [doc |-> doc, flags |-> flags]
Doc(x) == x @@ [target |-> S("u"), total |-> I(1)]

Step(rps, seconds) == M([rps |-> I(rps), duration |-> S(seconds)])
Ramp == M([type |-> S("ramp"), from_rps |-> I(0), to_rps |-> I(10), duration |-> S("1s")])
Steps2 == M([type |-> S("step"), steps |-> L(<<Step(5, "1s"), Step(0, "1s")>>)])
Spike == M([type |-> S("spike"), rps |-> I(9), duration |-> S("1s")])
Fixed == M([type |-> S("constant"), rps |-> I(9), duration |-> S("1s")])
Endless == M([type |-> S("step"), steps |-> L(<<Step(5, "1s"), Step(5, " ")>>)])

Endpoint(x) == M(x)
Login == Endpoint([name |-> S("login"), url |-> S("u1"), method |-> S("post"),
                   headers |-> M([h \in {"x-id"} |-> S("v")]),
                   extractors |-> L(<<M([jsonpath |-> S("$.a"), var |-> S("a"), on_error |-> T])>>)])
List == Endpoint([name |-> S("list"), path |-> S("/list"), body |-> S("b")])
Auth(type) == M([type |-> S(type)])
Trace(rate) == M([endpoint |-> S("o"), sample_rate |-> F(rate)])
Feeder(path) == M([path |-> S(path), type |-> S("csv")])

\* What runs.
Running == {
    Flagged(<<>>, [target |-> "u", total |-> 2, retries |-> 1, thresholds |-> <<"failed", "count">>]),
    Given(Doc([endpoints |-> L(<<Login, List>>), total |-> S("2"), json_output |-> T])),
    Given(Doc([endpoints |-> L(<<Login>>), total |-> I(2), html_output |-> S("r.html")])),
    Given(Doc([feeder |-> Feeder("data"), total |-> I(3), headers |-> M([h \in {"x-id"} |-> S("v")])])),
    Flagged(Doc([auth |-> Auth("oidc_implicit"), total |-> I(0)]), [duration |-> 10, dashboard |-> TRUE]),
    Given(Doc([load_patterns |-> L(<<Ramp, Steps2, Spike>>), thresholds |-> L(<<S("p95"), S("odd")>>),
               json_output |-> T, total |-> I(0)])),
    Given([har_file |-> S("rec.har"), har_filter |-> S("h1"), total |-> I(1), retries |-> I(1)]),
    Flagged(Doc([protocol |-> S("websocket"), tracing |-> Trace(5), json_output |-> T]),
            [websocket |-> [messages |-> <<"m">>], body_file |-> "body.txt"]),
    Given(Doc([thresholds |-> S("what"), json_output |-> T])) }

\* What does not.
Refused ==
    {Given(<<>>), Flagged(Bad, [total |-> 1]), Flagged(<<>>, [total |-> 1])} \cup
    {Given(Doc(x)) : x \in {
        [total |-> S("x")], [total |-> I(-1)], [concurrency |-> I(0)],
        [body |-> S("b"), body_file |-> S("body.txt")], [body |-> S(" "), body_file |-> S("body.txt")],
        [body_file |-> S("gone")], [dashboard |-> T, json_output |-> S("true")],
        [har_file |-> S("gone")], [load_patterns |-> L(<<Endless>>)], [load_patterns |-> S("x")],
        [arrival |-> S("bursty")], [arrival |-> M([model |-> S("bursty")])], [arrival |-> I(1)],
        [auth |-> Auth("oauth2_client_credentials")], [auth |-> Auth("basic")],
        [feeder |-> Feeder("gone"), auth |-> Auth("oidc_auth_code"), tracing |-> Trace(10)],
        [feeder |-> M([path |-> S("data")])], [protocol |-> S("ftp")], [protocol |-> S("grpc")],
        [tracing |-> Trace(11)],
        [tracing |-> M([endpoint |-> S("o"), protocol |-> S("udp")])],
        [headers |-> M([h \in {"x-id"} |-> S("a\nb")]), auth |-> Auth("oidc_implicit"),
         feeder |-> Feeder("data"), tracing |-> Trace(10)],
        [endpoints |-> L(<<Endpoint([path |-> S("%")])>>)],
        [endpoints |-> L(<<Endpoint([weight |-> I(0)])>>)],
        [endpoints |-> L(<<Login, Login>>)],
        [endpoints |-> L(<<Endpoint([extractors |-> L(<<M([regex |-> S("r"), var |-> S("1x")])>>)])>>)],
        [endpoints |-> L(<<Endpoint([headers |-> M([h \in {" "} |-> S("v")])])>>)]}} \cup
    {Given([har_file |-> S("rec.har"), har_filter |-> S("h3")]),
     Flagged(Doc([rate |-> I(1)]), [headers |-> <<<<"x-id", "v">>, <<"odd">>>>]),
     Flagged(Doc([rate |-> I(1)]), [arrival |-> [model |-> "poisson"], headers |-> <<<<"x-id", "v">>>>,
                          body |-> "b", body_file |-> "gone"])}

MCInputs == Running \cup Refused

---------------------------------------------------------------------------
\* What Program_proofs supposes of inputs and of the libraries holds of these:
\* documents are made of viper's values,
RECURSIVE Raw(_)
Raw(r) ==
    /\ r.t \in {"int", "float"} => r.v \in Int
    /\ r.t = "list" => \A i \in 1..Len(r.v) : Raw(r.v[i])
    /\ r.t = "map" => \A k \in DOMAIN r.v : Raw(r.v[k])

ASSUME InputsAreTyped ==
    \A x \in Inputs :
        /\ x.doc # Bad => \A f \in DOMAIN x.doc : Raw(x.doc[f])
        /\ x.flags # Bad /\ "total" \in DOMAIN x.flags => x.flags.total \in Int
        /\ x.flags # Bad /\ "target" \in DOMAIN x.flags => x.flags.target # Bad

\* and the texts in them obey the laws.
Texts == {"", " ", "2", "1s", "x", "x-id", "X-Id", "Accept", "te", "a\nb", "csv", "json", "HTTP",
          "post", "v", "u", "rec.har", "gone"}
ASSUME LibraryHolds ==
    /\ Bad \notin Int /\ Bad \notin {"none", "oauth2", "static"}
    /\ Trim("") = "" /\ \A s \in {"csv", "json"} : Lower(Trim(s)) = s
    /\ \A s \in Texts :
        /\ Trim(Trim(s)) = Trim(s) /\ Trim(s) # Bad
        /\ ReadHAR(s) # Bad => \A i \in 1..Len(ReadHAR(s)) : ReadHAR(s)[i].url # Bad
        /\ ~Blank(s) => ~Blank(Canonical(Trim(s)))
        /\ ~HasNewline(Trim(s)) => ~HasNewline(Trim(Canonical(Trim(s))))
        /\ Atoi(s) \in Int \cup {Bad} /\ ParseDuration(s) \in Int \cup {Bad}

\* Accepted load patterns, for the schedule that the runner makes of them.
MCPatterns == {Given(Doc([load_patterns |-> L(p)])) :
                 p \in {<<Ramp>>, <<Steps2, Spike>>, <<Ramp, Fixed>>}}
=============================================================================
