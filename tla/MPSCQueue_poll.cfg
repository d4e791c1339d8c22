\* Three producers of two items each; items of one queue differ.
SPECIFICATION Spec
CONSTANTS
    NumProducers = 3
    CapacityPerProducer = 2
    Items = {a, b}
    NoItem = none
INVARIANTS NothingMissed BypassBounded
PROPERTY FullQueueDrained
