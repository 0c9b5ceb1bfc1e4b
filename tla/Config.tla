------------------------------- MODULE Config -------------------------------
(***************************************************************************)
(* The configuration of a run (internal/config): what Load makes of a      *)
(* settings file and of command-line flags, and what Validate accepts.     *)
(* Pure operators; Program is the process that calls them.                 *)
(*                                                                         *)
(* A document is a function from settings to raw values [t, v], as viper   *)
(* returns them: the spellings of a setting are one name, of several the   *)
(* first in lookupSetting's order.  A flag set is a partial function of    *)
(* the same names, a flag being named after the setting it overrides.      *)
(* Times and rates of sampling are counted in tenths.  What the library    *)
(* does to a text is given by constant operators; any error is Bad.        *)
(***************************************************************************)
EXTENDS Integers, SequencesExt

CONSTANTS
    Bad,               \* a value that is no value: Load returns an error
    Unset,             \* a pointer that is nil
    Trim(_),           \* strings.TrimSpace
    Lower(_),          \* strings.ToLower
    Upper(_),          \* strings.ToUpper
    Canonical(_),      \* http.CanonicalHeaderKey
    Atoi(_),           \* strconv.Atoi: a number or Bad
    ParseFloat(_),     \* in tenths, or Bad
    ParseBool(_),
    ParseDuration(_),  \* in tenths of a second, or Bad
    Sprint(_),         \* fmt.Sprint of a raw value that is no text
    IsIdentifier(_),   \* isValidIdentifier
    ReadHAR(_),        \* the entries of a HAR file, or Bad
    Env                \* secrets from the environment, "" when unset

\* A conversion to int drops the fraction.
Whole(tenths) == IF tenths < 0 THEN -((-tenths) \div 10) ELSE tenths \div 10

Nil == [t |-> "nil"]
Blank(s) == Trim(s) = ""

AsString(r) ==
    CASE r.t = "nil" -> ""
      [] r.t = "str" -> r.v
      [] OTHER -> Sprint(r)

AsInt(r) ==
    CASE r.t = "nil" -> 0
      [] r.t = "int" -> r.v
      [] r.t = "float" -> Whole(r.v)
      [] r.t = "str" -> IF Blank(r.v) THEN 0 ELSE Atoi(Trim(r.v))
      [] OTHER -> Bad

AsFloat64(r) ==
    CASE r.t = "nil" -> 0
      [] r.t = "int" -> 10 * r.v
      [] r.t = "float" -> r.v
      [] r.t = "str" -> IF Blank(r.v) THEN 0 ELSE ParseFloat(Trim(r.v))
      [] OTHER -> Bad

AsBool(r) ==
    CASE r.t = "nil" -> FALSE
      [] r.t = "bool" -> r.v
      [] r.t = "str" -> IF Blank(r.v) THEN FALSE ELSE ParseBool(Trim(r.v))
      [] OTHER -> Bad

\* A number is one of whole seconds.
AsDuration(r) ==
    CASE r.t = "str" -> IF Blank(r.v) THEN 0 ELSE ParseDuration(Trim(r.v))
      [] r.t \in {"nil", "int", "float"} -> 10 * AsInt(r)
      [] OTHER -> Bad

AsStringMap(r) ==
    CASE r.t = "nil" -> <<>>
      [] r.t = "map" -> [k \in DOMAIN r.v |-> AsString(r.v[k])]
      [] OTHER -> Bad

AsStringSlice(r) ==
    CASE r.t = "nil" -> <<>>
      [] r.t = "list" -> [i \in DOMAIN r.v |-> AsString(r.v[i])]
      [] r.t = "str" -> <<r.v>>
      [] OTHER -> Bad

Convert(kind, r) ==
    CASE kind = "text" -> AsString(r)
      [] kind = "trimmed" -> Trim(AsString(r))
      [] kind = "lower" -> Lower(Trim(AsString(r)))
      [] kind = "upper" -> Upper(Trim(AsString(r)))
      [] kind = "int" -> AsInt(r)
      [] kind = "float" -> AsFloat64(r)
      [] kind = "bool" -> AsBool(r)
      [] kind = "pointer" -> AsBool(r)
      [] kind = "duration" -> AsDuration(r)
      [] kind = "map" -> AsStringMap(r)
      [] kind = "texts" -> AsStringSlice(r)

Zero(kind) ==
    CASE kind \in {"text", "trimmed", "lower", "upper"} -> ""
      [] kind \in {"int", "float", "duration"} -> 0
      [] kind = "bool" -> FALSE
      [] kind = "pointer" -> Unset
      [] kind \in {"map", "texts"} -> <<>>

Zeros(kinds) == [f \in DOMAIN kinds |-> Zero(kinds[f])]

\* What is set in f hides what is set in g.
Over(f, g) ==
    [x \in DOMAIN f \cup DOMAIN g |-> IF x \in DOMAIN f THEN f[x] ELSE g[x]]

---------------------------------------------------------------------------
\* One bad value makes the whole document bad.
AllOrBad(c) == IF \E f \in DOMAIN c : c[f] = Bad THEN Bad ELSE c

\* toStringKeyMap and the lookups of one section.
Fields(zero, kinds, m) ==
    AllOrBad([f \in DOMAIN kinds |->
                IF f \in DOMAIN m THEN Convert(kinds[f], m[f]) ELSE zero[f]])

Section(kinds, r) ==
    CASE r.t = "nil" -> Zeros(kinds)
      [] r.t = "map" -> Fields(Zeros(kinds), kinds, r.v)
      [] OTHER -> Bad

\* A list of sections.
IsEntries(r) == r.t = "list" /\ \A i \in DOMAIN r.v : r.v[i].t = "map"

Setting(m, f) == IF f \in DOMAIN m THEN m[f] ELSE Nil

BuildLoadStep(m) ==
    LET kinds == [rps |-> "int", duration |-> "duration"] IN Fields(Zeros(kinds), kinds, m)

ParseLoadSteps(r) ==
    CASE r.t = "nil" -> <<>>
      [] IsEntries(r) -> AllOrBad([i \in DOMAIN r.v |-> BuildLoadStep(r.v[i].v)])
      [] OTHER -> Bad

BuildLoadPattern(m) ==
    LET kinds == [name |-> "trimmed", type |-> "lower", from_rps |-> "int", to_rps |-> "int",
                  duration |-> "duration", rps |-> "int"]
        p     == Fields(Zeros(kinds), kinds, m)
        steps == ParseLoadSteps(Setting(m, "steps"))
    IN IF p = Bad \/ steps = Bad THEN Bad
       ELSE [name |-> p.name, type |-> p.type, from_rps |-> p.from_rps, to_rps |-> p.to_rps,
             duration |-> p.duration, rps |-> p.rps, steps |-> steps]

ParseLoadPatterns(r) ==
    CASE r.t = "nil" -> <<>>
      [] IsEntries(r) -> AllOrBad([i \in DOMAIN r.v |-> BuildLoadPattern(r.v[i].v)])
      [] OTHER -> Bad

BuildExtractor(m) ==
    LET kinds == [jsonpath |-> "trimmed", regex |-> "trimmed", var |-> "trimmed", on_error |-> "bool"]
    IN Fields(Zeros(kinds), kinds, m)

ParseExtractors(r) ==
    CASE r.t = "nil" -> <<>>
      [] IsEntries(r) -> AllOrBad([i \in DOMAIN r.v |-> BuildExtractor(r.v[i].v)])
      [] OTHER -> Bad

\* The keys of an endpoint's headers are checked, those of the run are not.
HeaderMap(hdrs) ==
    [k \in {Canonical(Trim(h)) : h \in DOMAIN hdrs} |->
        hdrs[CHOOSE h \in DOMAIN hdrs : Canonical(Trim(h)) = k]]
EndpointHeaders(r) ==
    LET hdrs == AsStringMap(r)
    IN IF hdrs = Bad \/ \E h \in DOMAIN hdrs : Trim(h) = "" THEN Bad ELSE HeaderMap(hdrs)

BuildEndpoint(m) ==
    LET kinds == [name |-> "trimmed", weight |-> "int", method |-> "upper", url |-> "trimmed",
                  path |-> "trimmed", body |-> "text", body_file |-> "text"]
        zero  == [Zeros(kinds) EXCEPT !.weight = 1]
        ep    == Fields(zero, kinds, m)
        hdrs  == EndpointHeaders(Setting(m, "headers"))
        exts  == ParseExtractors(Setting(m, "extractors"))
    IN IF ep = Bad \/ hdrs = Bad \/ exts = Bad THEN Bad
       ELSE [name |-> ep.name, weight |-> ep.weight, method |-> ep.method, url |-> ep.url,
             path |-> ep.path, body |-> ep.body, body_file |-> ep.body_file,
             headers |-> hdrs, extractors |-> exts]

ParseEndpoints(r) ==
    CASE r.t = "nil" -> <<>>
      [] IsEntries(r) -> AllOrBad([i \in DOMAIN r.v |-> BuildEndpoint(r.v[i].v)])
      [] OTHER -> Bad

\* A secret that the file leaves empty is taken from the environment, but only
\* if the file has an auth section.
BuildAuthConfig(r) ==
    LET auth == Section([type |-> "lower", token_url |-> "trimmed", client_id |-> "trimmed",
                         client_secret |-> "trimmed", username |-> "trimmed",
                         password |-> "trimmed", scopes |-> "texts",
                         static_token |-> "trimmed", refresh_before_expiry |-> "duration"], r)
    IN IF auth = Bad \/ r = Nil THEN auth
       ELSE [f \in DOMAIN auth |->
               IF f \in DOMAIN Env /\ auth[f] = "" THEN Env[f] ELSE auth[f]]

BuildFeederConfig(r) == Section([path |-> "trimmed", type |-> "lower"], r)

BuildWebSocketConfig(r) ==
    Section([messages |-> "texts", message_interval |-> "duration",
             receive_timeout |-> "duration", handshake_timeout |-> "duration"], r)

BuildSSEConfig(r) == Section([read_timeout |-> "duration", max_events |-> "int"], r)

BuildGRPCConfig(r) ==
    Section([proto_file |-> "text", service |-> "text", method |-> "text", message |-> "text",
             metadata |-> "map", timeout |-> "duration", tls |-> "bool", insecure |-> "bool"], r)

BuildTracingConfig(r) ==
    Section([endpoint |-> "trimmed", protocol |-> "lower", service_name |-> "trimmed",
             sample_rate |-> "float", insecure |-> "bool", propagate |-> "pointer"], r)

ParseArrival(r) ==
    CASE r.t = "nil" -> ""
      [] r.t = "str" -> Lower(Trim(r.v))
      [] r.t = "map" /\ "model" \in DOMAIN r.v -> Lower(Trim(AsString(r.v["model"])))
      [] OTHER -> Bad

---------------------------------------------------------------------------
\* applyConfigSettings: the settings that are not sections.
PlainSettings ==
    [target |-> "trimmed", method |-> "text", headers |-> "map", body |-> "text",
     body_file |-> "text", concurrency |-> "int", rate |-> "int", duration |-> "duration",
     total |-> "int", timeout |-> "duration", graceful_shutdown |-> "duration",
     retries |-> "int", json_output |-> "bool", dashboard |-> "bool", log_errors |-> "bool",
     html_output |-> "trimmed", protocol |-> "lower", thresholds |-> "texts",
     har_file |-> "trimmed", har_filter |-> "trimmed"]

Defaults ==
    [Zeros(PlainSettings) EXCEPT !.method = "GET", !.concurrency = 1, !.timeout = 300,
                                 !.graceful_shutdown = 50]

\* "arrival" hides "arrival_model"; an empty model changes nothing.
Arrival(m) ==
    LET model == ParseArrival(IF "arrival" \in DOMAIN m THEN m["arrival"]
                              ELSE Setting(m, "arrival_model"))
    IN IF model = Bad THEN Bad ELSE [model |-> IF model = "" THEN "uniform" ELSE model]

Parts(m) ==
    AllOrBad([load_patterns |-> ParseLoadPatterns(Setting(m, "load_patterns")),
              arrival       |-> Arrival(m),
              endpoints     |-> ParseEndpoints(Setting(m, "endpoints")),
              auth          |-> BuildAuthConfig(Setting(m, "auth")),
              feeder        |-> BuildFeederConfig(Setting(m, "feeder")),
              websocket     |-> BuildWebSocketConfig(Setting(m, "websocket")),
              sse           |-> BuildSSEConfig(Setting(m, "sse")),
              grpc          |-> BuildGRPCConfig(Setting(m, "grpc")),
              tracing       |-> BuildTracingConfig(Setting(m, "tracing"))])

ApplyConfigSettings(m) ==
    LET plain == Fields(Defaults, PlainSettings, m)
        parts == Parts(m)
    IN IF plain = Bad \/ parts = Bad THEN Bad
       ELSE Over(parts,
                 [plain EXCEPT
                    !.method  = IF @ = "" THEN Defaults.method ELSE @,
                    !.headers = [k \in {Canonical(h) : h \in DOMAIN @} |->
                                   @[CHOOSE h \in DOMAIN @ : Canonical(h) = k]]])

---------------------------------------------------------------------------
\* The flags by the setting that they override; a flag that is not given
\* overrides nothing.  They have been parsed: a malformed one is Bad.
PlainFlags ==
    [target |-> "trimmed", method |-> "text", concurrency |-> "int", rate |-> "int",
     duration |-> "duration", total |-> "int", timeout |-> "duration", retries |-> "int",
     graceful_shutdown |-> "duration", json_output |-> "bool", dashboard |-> "bool",
     log_errors |-> "bool", html_output |-> "trimmed", protocol |-> "lower",
     thresholds |-> "texts", har_file |-> "trimmed", har_filter |-> "trimmed"]

SectionFlags ==
    [arrival   |-> [model |-> "lower"],
     feeder    |-> [path |-> "trimmed", type |-> "trimmed"],
     websocket |-> [messages |-> "texts", message_interval |-> "duration",
                    receive_timeout |-> "duration", handshake_timeout |-> "duration"],
     sse       |-> [read_timeout |-> "duration", max_events |-> "int"],
     grpc      |-> [proto_file |-> "text", service |-> "text", method |-> "text",
                    message |-> "text", metadata |-> "map", timeout |-> "duration",
                    tls |-> "bool", insecure |-> "bool"],
     tracing   |-> [endpoint |-> "trimmed", protocol |-> "lower", service_name |-> "trimmed",
                    sample_rate |-> "float", insecure |-> "bool"]]

Normal(kind, v) ==
    CASE kind = "trimmed" -> Trim(v)
      [] kind = "lower" -> Lower(Trim(v))
      [] OTHER -> v

Overridden(c, kinds, flags) ==
    [f \in DOMAIN c |->
        IF f \in DOMAIN kinds \cap DOMAIN flags THEN Normal(kinds[f], flags[f]) ELSE c[f]]

\* --header entries are <<key, value>>; <<text>> has no equals sign.
WithHeaders(hdrs, entries) ==
    IF \E i \in DOMAIN entries :
          Len(entries[i]) # 2 \/ Canonical(Trim(entries[i][1])) = ""
    THEN Bad
    ELSE FoldLeft(LAMBDA h, e : Over([k \in {Canonical(Trim(e[1]))} |-> Trim(e[2])], h),
                  hdrs, entries)

\* --body drops the body file and --body-file the body; given both, the file.
BodyFlags(c, flags) ==
    CASE "body_file" \in DOMAIN flags -> [c EXCEPT !.body = "", !.body_file = flags.body_file]
      [] "body" \in DOMAIN flags /\ "body_file" \notin DOMAIN flags ->
            [c EXCEPT !.body = flags.body, !.body_file = ""]
      [] OTHER -> c

ApplyFlagOverrides(c, flags) ==
    LET plain == Overridden(c, PlainFlags, flags)
        all   == [f \in DOMAIN c |->
                    IF f \in DOMAIN SectionFlags \cap DOMAIN flags
                    THEN Overridden(c[f], SectionFlags[f], flags[f]) ELSE plain[f]]
        hdrs  == IF "headers" \in DOMAIN flags THEN WithHeaders(c.headers, flags.headers)
                 ELSE c.headers
    IN IF hdrs = Bad THEN Bad ELSE [BodyFlags(all, flags) EXCEPT !.headers = hdrs]

---------------------------------------------------------------------------
\* The end of Load and of LoadFromFile: a HAR file has to be there.
FinishLoad(c) ==
    IF c = Bad THEN Bad
    ELSE IF c.har_file # "" /\ ReadHAR(c.har_file) = Bad THEN Bad
    ELSE [c EXCEPT !.method = Upper(@), !.target = Trim(@), !.body_file = Trim(@)]

LoadFromFile(doc) == IF doc = Bad THEN Bad ELSE FinishLoad(ApplyConfigSettings(doc))

\* doc is what --config names: <<>> without it, Bad if it cannot be read.
Load(doc, flags) ==
    IF doc = Bad \/ flags = Bad THEN Bad
    ELSE LET c == ApplyConfigSettings(doc)
         IN IF c = Bad THEN Bad ELSE FinishLoad(ApplyFlagOverrides(c, flags))

---------------------------------------------------------------------------
\* Validate.
Exclusive(e) == Blank(e.body) \/ Blank(e.body_file)

ValidTarget(c) ==
    \/ ~Blank(c.target)
    \/ ~Blank(c.har_file)
    \/ c.endpoints # <<>> /\ \A i \in DOMAIN c.endpoints : ~Blank(c.endpoints[i].url)

ValidNumbers(c) ==
    /\ c.concurrency >= 1
    /\ \A n \in {c.rate, c.total, c.timeout, c.retries, c.duration} : n >= 0

ValidArrival(c) == c.arrival.model \in {"", "uniform", "poisson"}

ValidLoadPattern(p) ==
    CASE p.type \in {"constant", "spike"} -> p.rps > 0 /\ p.duration > 0
      [] p.type = "ramp" -> p.duration > 0 /\ p.from_rps >= 0 /\ p.to_rps >= 0
      [] p.type = "step" ->
            /\ p.steps # <<>>
            /\ \A i \in DOMAIN p.steps : p.steps[i].rps >= 0 /\ p.steps[i].duration > 0
      [] OTHER -> FALSE

ValidExtractor(e) ==
    /\ Blank(e.jsonpath) # Blank(e.regex)
    /\ ~Blank(e.var)
    /\ IsIdentifier(e.var)

ValidEndpoints(c) ==
    /\ \A i \in DOMAIN c.endpoints :
          LET ep == c.endpoints[i]
          IN /\ ep.weight >= 1
             /\ Exclusive(ep)
             /\ \A x \in DOMAIN ep.extractors : ValidExtractor(ep.extractors[x])
    /\ \A i, j \in DOMAIN c.endpoints :
          i < j => \/ Blank(c.endpoints[i].name)
                   \/ Lower(c.endpoints[i].name) # Lower(c.endpoints[j].name)

SecretsOf(type) ==
    CASE type = "oauth2_client_credentials" -> {"token_url", "client_id", "client_secret"}
      [] type = "oauth2_resource_owner" ->
            {"token_url", "client_id", "client_secret", "username", "password"}
      [] type \in {"oidc_implicit", "oidc_auth_code"} -> {"static_token"}
      [] OTHER -> {}

\* A bug that could be: a type that no case names passes.
MutValidAuth(c) == \A f \in SecretsOf(c.auth.type) : ~Blank(c.auth[f])

ValidAuth(c) ==
    \/ c.auth.type = ""
    \/ SecretsOf(c.auth.type) # {} /\ \A f \in SecretsOf(c.auth.type) : ~Blank(c.auth[f])

ValidFeeder(c) == Blank(c.feeder.path) \/ c.feeder.type \in {"csv", "json"}

ValidProtocol(c) ==
    /\ c.protocol \in {"", "http", "websocket", "sse", "grpc"}
    /\ c.protocol = "websocket" =>
          c.websocket.message_interval >= 0 /\ c.websocket.receive_timeout >= 0
                                           /\ c.websocket.handshake_timeout >= 0
    /\ c.protocol = "sse" => c.sse.read_timeout >= 0 /\ c.sse.max_events >= 0
    /\ c.protocol = "grpc" => c.grpc.service # "" /\ c.grpc.method # "" /\ c.grpc.timeout >= 0

Validate(c) ==
    /\ ValidTarget(c)
    /\ ValidNumbers(c)
    /\ Exclusive(c)
    /\ ~(c.dashboard /\ c.json_output)
    /\ ValidArrival(c)
    /\ \A i \in DOMAIN c.load_patterns : ValidLoadPattern(c.load_patterns[i])
    /\ ValidEndpoints(c)
    /\ ValidAuth(c)
    /\ ValidFeeder(c)
    /\ ValidProtocol(c)

---------------------------------------------------------------------------
TracingEnabled(t) == ~Blank(t.endpoint)
ShouldPropagate(t) == IF t.propagate = Unset THEN TracingEnabled(t) ELSE t.propagate
=============================================================================
