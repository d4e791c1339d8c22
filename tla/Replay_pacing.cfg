\* Three payloads of nine kinds, timestamps 0..3, every mode.
SPECIFICATION Spec
CONSTANTS
    Payloads <- MCPayloads
    MaxPayloads = 3
    Factor = 2
    MaxStart = 1
    MaxNow = 4
    U64 = 64
    MaxValueNs = 2
    Percents = {1, 34, 50, 67, 99}
INVARIANTS TypeOK EveryOrderOnce NeverEarly PercentileExact
PROPERTY RunReturns
