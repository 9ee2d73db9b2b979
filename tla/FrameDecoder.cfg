SPECIFICATION Spec
CONSTANTS
    Logs <- MCLogs
    Overwrites <- MCOverwrites
    Limits <- MCLimits
    Declared <- MCDeclared
    Width <- MCWidth
    EndPayload <- MCEndPayload
    MaxErased = 5
    MaxLost = 3
    CellsPerByte = 1
    Word = 256
    VBBytes = 2
    Tolerance = 50
    Windows <- MCWindows
    Governor = 50
    Active = 4
    Settle = 10
    Forever = 1000
INVARIANTS
    HistoryIsCommitted PrefixIsFaithful DamageIsContained ReportIsHonest SpanIsFlown
CHECK_DEADLOCK FALSE
