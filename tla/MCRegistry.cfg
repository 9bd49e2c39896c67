CONSTANTS
    Clients = {"c1", "c2", "c3", "c4"}
    Managed = {"c1", "c2", "c4"}
    Hosts = {"h1", "h2", "h3"}
    Script <- ScriptJoined
SPECIFICATION Spec
INVARIANTS TypeOK ManagedDeadAfterCleanup
PROPERTIES CleanupReturns
