\* One key more than the load limit admits, over three slots around the end of
\* the table, so that clusters merge and wrap.
SPECIFICATION Spec
CONSTANTS
    Keys = {k1, k2, k3, k4, k5, k6}
    NoKey = nokey
    Values = {v1, v2}
    NoValue = novalue
    Capacity = 8
    HomeSlots = {0, 6, 7}
SYMMETRY KeySymmetry
INVARIANTS FindExact SizeExact
