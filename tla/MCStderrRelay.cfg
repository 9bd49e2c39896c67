SPECIFICATION Spec
CONSTANTS
    BufSize = 2
    Streams <- MCStreams
INVARIANTS
    TypeOK
    SinkFollowsStream
    LogReassemblesLines
    ShortLinesLevelled
