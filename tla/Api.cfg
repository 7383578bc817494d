\* Any of the requests in any of the environments, while the table is updated.
SPECIFICATION Spec
CONSTANTS
    Absent = Absent
    Empty = Empty
    Null = Null
    Word = Word
    NaN = NaN
    Unplaced = Unplaced
    Defaults <- MCDefaults
    Envs <- MCEnvs
    Inputs <- MCInputs
    TableAt <- MCTableAt
INVARIANTS
    TypeOK
    OsrmGetsTheTrace
    AnswersAreAligned
    TruncationIsReported
    CallsKeepLimits
