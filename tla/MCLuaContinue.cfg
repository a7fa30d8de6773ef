SPECIFICATION Spec
CONSTANTS
    Scripts = "continue"
    FieldsPerFlush = 2
    MaxIndexRK = 3
    MaxArgC = 2
    FixedOne = 256
    MaxInt = 32767
    MaxDepth = 8
    MaxStack = 250
    MaxTagLoop = 3
    MaxCCalls = 8
    MaxCalls = 10
    MinStack = 4
INVARIANT ContinueMeansNextRound
