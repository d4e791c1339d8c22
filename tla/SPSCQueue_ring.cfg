\* Two slots, two items; the counters wrap after eight pushes.
SPECIFICATION Spec
CONSTANTS
    Items = {a, b}
    NoItem = none
    Capacity = 2
    CounterMod = 8
INVARIANTS NoDataRace CachesConservative SizeInRange
PROPERTIES ImplementsBoundedQueue RefusalEnds ItemsTaken
