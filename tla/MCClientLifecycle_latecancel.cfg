CONSTANTS
    Callers = {"h1"}
    Script <- ScriptRetry
    MaxAttempts = 2
    Lines <- LinesRetry
    ClientVersions = {1}
    UseRunnerFunc = TRUE
    HasUnixSocketConfig = FALSE
    HasTLSConfig = TRUE
SPECIFICATION Spec
INVARIANT ContextCancelledAfterExit
