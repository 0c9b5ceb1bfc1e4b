------------------------------ MODULE Assembly ------------------------------
(***************************************************************************)
(* From a configuration to something that can run: the endpoints of a HAR  *)
(* file, the requester with its templates, the plan of the load patterns   *)
(* and the timeline that the dashboard shows of them (internal/cli,        *)
(* internal/har, internal/httpclient, internal/runner).  Pure operators    *)
(* over Config; Bad stands for an error of the step.                       *)
(***************************************************************************)
EXTENDS Config

CONSTANTS
    Host(_),             \* of a URL, Bad if it does not parse
    URLPath(_),          \* its path, "" if it does not parse
    StaticAsset(_),      \* isStaticAsset: by the extension of the path
    Resolve(_, _),       \* a reference against a base URL, or Bad
    SplitFilter(_),      \* the parts <<key, values>> of a HAR filter
    HasNewline(_),       \* contains \r or \n
    IsFile(_),           \* there is such a file, and it is no directory
    ReadFeeder(_, _)     \* the number of records in a feeder file, or Bad

---------------------------------------------------------------------------
\* HAR import.  parseHARFilterToOptions: of several parts with a key the last.
FilterValues(filter, key) ==
    LET parts == SelectSeq(SplitFilter(filter), LAMBDA p : Lower(Trim(p[1])) = key)
    IN IF parts = <<>> THEN {} ELSE {Trim(v) : v \in ToSet(Last(parts)[2])}

ShouldIncludeEntry(e, filter) ==
    LET hosts   == FilterValues(filter, "host")
        methods == FilterValues(filter, "method")
    IN /\ hosts # {} => Host(e.url) # Bad /\ Host(e.url) \in hosts
       /\ methods # {} => Lower(e.method) \in {Lower(x) : x \in methods}
       /\ ~StaticAsset(e.url)

HopByHop == {"connection", "keep-alive", "proxy-authenticate", "proxy-authorization", "te",
             "trailers", "transfer-encoding", "upgrade"}

EntryToEndpoint(e) ==
    [name |-> URLPath(e.url), weight |-> 1, method |-> e.method, url |-> e.url,
     path |-> URLPath(e.url), body |-> e.body, body_file |-> "",
     headers |-> [h \in {x \in DOMAIN e.headers : Lower(x) \notin HopByHop} |-> e.headers[h]],
     extractors |-> <<>>]

\* Appended after Validate: nothing checks these endpoints or their names.
LoadHAREndpoints(c) ==
    IF Blank(c.har_file) THEN c
    ELSE LET entries == ReadHAR(c.har_file)
         IN [c EXCEPT !.endpoints = @ \o FlattenSeq(
               [i \in DOMAIN entries |->
                  IF ShouldIncludeEntry(entries[i], c.har_filter)
                  THEN <<EntryToEndpoint(entries[i])>> ELSE <<>>])]

---------------------------------------------------------------------------
\* NewBodySource and NewRequestBuilder, as the conditions under which they
\* return no error.
BodySourceOK(body, file) ==
    /\ body = "" \/ Blank(file)
    /\ body = "" /\ ~Blank(file) => IsFile(Trim(file))

HeadersOK(h) ==
    \A k \in DOMAIN h : ~Blank(k) /\ ~HasNewline(Trim(k)) /\ ~HasNewline(h[k])

BuilderOK(target, h, body, file) ==
    ~Blank(target) /\ HeadersOK(h) /\ BodySourceOK(body, file)

ResolveEndpointURL(base, ep) ==
    IF ~Blank(ep.url) THEN Trim(ep.url)
    ELSE IF base = "" THEN Bad
    ELSE IF Blank(ep.path) THEN base
    ELSE Resolve(base, Trim(ep.path))

MergeHeaders(base, overrides) ==
    LET keys == {k \in DOMAIN overrides : Canonical(Trim(k)) # ""}
    IN Over([c \in {Canonical(Trim(k)) : k \in keys} |->
               overrides[CHOOSE k \in keys : Canonical(Trim(k)) = c]], base)

BuildEndpointTemplate(c, ep) ==
    LET target == ResolveEndpointURL(Trim(c.target), ep)
        file   == IF ~Blank(ep.body_file) THEN ep.body_file
                  ELSE IF ~Blank(ep.body) THEN "" ELSE c.body_file
        body   == IF ~Blank(ep.body_file) THEN ""
                  ELSE IF ~Blank(ep.body) THEN ep.body ELSE c.body
    IN IF target = Bad THEN Bad
       ELSE IF ~BuilderOK(target, MergeHeaders(c.headers, ep.headers), body, file) THEN Bad
       ELSE [name |-> IF Blank(ep.name) THEN target ELSE ep.name,
             extractors |-> {e.on_error : e \in ToSet(ep.extractors)}]

\* newEndpointSelector: <<>> is no selector.
EndpointTemplates(c) ==
    AllOrBad([i \in DOMAIN c.endpoints |-> BuildEndpointTemplate(c, c.endpoints[i])])

---------------------------------------------------------------------------
\* The steps of BuildRunner.
TracingOK(t) ==
    TracingEnabled(t) => t.protocol \in {"", "grpc", "http"} /\ t.sample_rate \in 0..10

BuildAuthProvider(c) ==
    CASE Blank(c.auth.type) -> "none"
      [] c.auth.type \in {"oauth2_client_credentials", "oauth2_resource_owner"} -> "oauth2"
      [] c.auth.type \in {"oidc_implicit", "oidc_auth_code"} /\ ~Blank(c.auth.static_token) ->
            "static"
      [] OTHER -> Bad

\* The number of records to hand out; 0 without a feeder.
BuildDataFeeder(c) ==
    IF Blank(c.feeder.path) THEN 0
    ELSE LET type == Lower(Trim(c.feeder.type))
         IN IF type \in {"csv", "json"} THEN ReadFeeder(Trim(c.feeder.path), type) ELSE Bad

\* What the requester does for each slot: "http" or one of the other
\* protocols, whose constructors cannot fail.
BuildRequester(c) ==
    IF c.protocol \in {"websocket", "sse", "grpc"}
    THEN [protocol |-> c.protocol, builder |-> TRUE, templates |-> <<>>]
    ELSE LET builder   == c.target # ""
             templates == EndpointTemplates(c)
         IN IF \/ builder /\ ~BuilderOK(c.target, c.headers, c.body, c.body_file)
               \/ templates = Bad
               \/ ~builder /\ templates = <<>>
            THEN Bad
            ELSE [protocol |-> "http", builder |-> builder, templates |-> templates]

---------------------------------------------------------------------------
\* compilePatternPlan: the segments [rates, duration] in the order they are
\* driven; <<>> is no plan.  There is no case for a constant pattern.
PatternSegments(p) ==
    CASE p.type = "ramp" /\ p.duration > 0 ->
            <<[from |-> p.from_rps, to |-> p.to_rps, duration |-> p.duration]>>
      [] p.type = "spike" /\ p.duration > 0 ->
            <<[from |-> p.rps, to |-> p.rps, duration |-> p.duration]>>
      [] p.type = "step" ->
            FlattenSeq([i \in DOMAIN p.steps |->
               LET s == p.steps[i]
               IN IF s.duration > 0
                  THEN <<[from |-> s.rps, to |-> s.rps, duration |-> s.duration]>> ELSE <<>>])
      [] OTHER -> <<>>

CompilePatternPlan(patterns) ==
    FlattenSeq([i \in DOMAIN patterns |-> PatternSegments(patterns[i])])

Sums(lengths) == [i \in DOMAIN lengths |-> FoldLeft(+, 0, SubSeq(lengths, 1, i - 1))]

TotalDuration(segments) ==
    FoldLeft(+, 0, [i \in DOMAIN segments |-> segments[i].duration])

\* A bug that could be: a segment holds on for the moment of its end.
MutRateAt(segments, elapsed) ==
    LET start == Sums([i \in DOMAIN segments |-> segments[i].duration])
        here  == {i \in DOMAIN segments :
                    start[i] <= elapsed /\ elapsed <= start[i] + segments[i].duration}
    IN IF here = {} THEN <<>>
       ELSE LET i == CHOOSE i \in here : TRUE
                s == segments[i]
            IN <<s.from + ((s.to - s.from) * (elapsed - start[i])) \div s.duration>>

\* rateAt, in the middle of a run: <<>> past the end of the plan.
RateAt(segments, elapsed) ==
    LET start == Sums([i \in DOMAIN segments |-> segments[i].duration])
        here  == {i \in DOMAIN segments :
                    start[i] <= elapsed /\ elapsed < start[i] + segments[i].duration}
    IN IF here = {} THEN <<>>
       ELSE LET i == CHOOSE i \in here : TRUE
                s == segments[i]
            IN <<s.from + ((s.to - s.from) * (elapsed - start[i])) \div s.duration>>

\* buildLoadPattern: the dashboard's timeline has a step for each of them,
\* those of unknown type included.
TimelineSteps(p) ==
    CASE p.type = "step" ->
            FlattenSeq([i \in DOMAIN p.steps |->
               IF p.steps[i].duration > 0 THEN <<p.steps[i].duration>> ELSE <<>>])
      [] p.type # "step" /\ p.duration > 0 -> <<p.duration>>
      [] OTHER -> <<>>

Timeline(patterns) ==
    FlattenSeq([i \in DOMAIN patterns |-> TimelineSteps(patterns[i])])
=============================================================================
