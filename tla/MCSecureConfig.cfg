CONSTANTS
    Bytes = {0, 1}
    Contents <- MCContents
    Callers = {"s1"}
    MaxChecks = 1
SPECIFICATION Spec
INVARIANTS TypeOK CheckAsSpecified
