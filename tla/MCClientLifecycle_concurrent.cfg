CONSTANTS
    Callers = {"h1", "h2"}
    Script <- ScriptConcurrentKill
    MaxAttempts = 1
    Lines <- LinesWellFormed
    ClientVersions = {1}
    UseRunnerFunc = TRUE
    HasUnixSocketConfig = TRUE
    HasTLSConfig = TRUE

SPECIFICATION Spec
INVARIANT TypeOK
INVARIANT KillLeavesNoPlugin
INVARIANT ExitedCaseUnreachable
PROPERTY KillReturns
