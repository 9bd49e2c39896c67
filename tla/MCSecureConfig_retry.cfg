CONSTANTS
    Bytes = {0, 1}
    Contents <- MCContents
    Callers = {"s1"}
    MaxChecks = 2
SPECIFICATION Spec
INVARIANT CheckAsSpecified
