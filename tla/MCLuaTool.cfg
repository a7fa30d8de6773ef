SPECIFICATION ToolSpec
CONSTANTS
    Scripts = "all"
    FieldsPerFlush = 2
    MaxIndexRK = 3
    MaxArgC = 2
    FixedOne = 256
    MaxInt = 32767
    MaxDepth = 8
    MaxStack = 250
    MaxTagLoop = 3
    MaxCCalls = 8
    MaxCalls = 10
    MinStack = 4
    MaxCaptures = 2
    FirstCharacters = 3
    BarGap = 2
    MaxCommands = 2
    MaxRuns = 2
INVARIANTS
    CompilesSoundly
    ReadsBack
    CutFileRefused
    ComputesMeaning
    CallsBalance
    UpvaluesLive
    TextReadsBack
    LibraryAgrees
    SortIsSound
    ComparesHonestly
    ReplacesInPlace
    FoldersTell
    ExtractsAll
