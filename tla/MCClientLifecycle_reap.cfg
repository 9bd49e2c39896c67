CONSTANTS
    Callers = {"h1"}
    Script <- ScriptRetryNoKill
    MaxAttempts = 2
    Lines <- LinesWellFormed
    ClientVersions = {1}
    UseRunnerFunc = TRUE
    HasUnixSocketConfig = TRUE
    HasTLSConfig = TRUE

SPECIFICATION Spec
PROPERTY ExitedPluginReaped
