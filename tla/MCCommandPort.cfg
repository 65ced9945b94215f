CONSTANTS
    query = query
    empty = empty
    large = large
    invalid = invalid
    Requests <- MCRequests
    Invalid <- MCInvalid
    HeaderSize <- MCHeaderSize
    PayloadSize <- MCPayloadSize
    Garbage <- MCGarbage
    BUFFER_SIZE = 8
    WORD = 16

SPECIFICATION Spec

INVARIANTS
    TypeOK
    NeverFull

PROPERTY
    WholeRequestUnderstood

CHECK_DEADLOCK FALSE
