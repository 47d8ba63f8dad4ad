SPECIFICATION Spec
CONSTANTS
    Sessions <- MCSessions
    Reports <- MCReports
    ToolCycles = 2
    TalkCycles = 1
INVARIANT
    BlockFailsClosed
