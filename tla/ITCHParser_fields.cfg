\* Bytes are bits: timestamps of six, order references of eight, prices of four.
SPECIFICATION Spec
CONSTANTS
    ByteBase = 2
    Timestamps = {1, 5, 40}
    OrderRefs = {1, 2, 200}
    Numbers = {0, 1, 9}
INVARIANT TimestampExact
