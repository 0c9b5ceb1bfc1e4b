SPECIFICATION Spec
CONSTANTS
    Bad = Bad
    Unset = Unset
    Malformed = Malformed
    NoSetup = NoSetup
    NoConfig = NoConfig
    NoStats = NoStats
    Workers = {1, 2}
    Shards = {1, 2}
    Responses = {"ok", "refused", "broken"}
    MaxSlots = 2
    MaxPoints = 1
    Trim <- MCTrim
    Lower <- MCLower
    Upper <- MCUpper
    Canonical <- MCCanonical
    Atoi <- MCAtoi
    ParseFloat <- MCParseFloat
    ParseBool <- MCParseBool
    ParseDuration <- MCParseDuration
    Sprint <- MCSprint
    IsIdentifier <- MCIsIdentifier
    ReadHAR <- MCReadHAR
    Env <- MCEnv
    Host <- MCHost
    URLPath <- MCURLPath
    StaticAsset <- MCStaticAsset
    Resolve <- MCResolve
    SplitFilter <- MCSplitFilter
    HasNewline <- MCHasNewline
    IsFile <- MCIsFile
    ReadFeeder <- MCReadFeeder
    MatchFormat <- MCMatchFormat
    Timings <- MCTimings
    Inputs <- MCPatterns
INVARIANT PatternsHonoured
CHECK_DEADLOCK FALSE
