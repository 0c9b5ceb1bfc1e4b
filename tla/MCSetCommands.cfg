SPECIFICATION Spec
CONSTANTS
    main = main
    e1 = e1
    e2 = e2
    setFile = setFile
    record = record
    s1File = s1File
    s2File = s2File
    Main = main
    Editors = {e1, e2}
    Procs = {main, e1, e2}
    SetFile = setFile
    Record = record
    SetPaths = {setFile}
    SessionPaths = {s1File, s2File}
    RecordPaths = {record}
    Absent = Absent
    Empty = Empty
    Mixed = Mixed
    NoSet = NoSet
    NoConfig = NoConfig
    Slots = {1, 2}
    EditsBeside <- MCEditsBeside
    EditsAlone <- MCEditsAlone
    SessionFile <- MCSessionFile
    SetDocs <- MCSetDocs
    Configs <- MCConfigs
    Limits <- MCLimits
    Flags <- MCFlags
    NoFlags <- NoFlag
    Env <- MCEnv
    Summaries <- MCSummaries
    Docs <- MCDocs
INVARIANTS NoTornFile VerdictSound ExitMeansPassed OverridesInForce
PROPERTIES ImplementsSetRun CommandEnds
CHECK_DEADLOCK FALSE
