SPECIFICATION Spec
CONSTANTS
    Plugins <- MCPlugins
    Stoppers = {"s1", "s2"}
    Calls <- CallsConcurrent
INVARIANTS
    TypeOK
    StopsCloseBroker
PROPERTY
    DoneAfterStop
