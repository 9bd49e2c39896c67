CONSTANTS
    Callers = {"h1", "h2"}
    Script <- ScriptRetryVsKill
    MaxAttempts = 2
    Lines <- LinesWellFormed
    ClientVersions = {1}
    UseRunnerFunc = TRUE
    HasUnixSocketConfig = TRUE
    HasTLSConfig = TRUE

SPECIFICATION Spec
INVARIANT NoPluginOutlivesKill
