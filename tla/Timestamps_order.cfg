\* Two turns, decimal fractions of two places.
SPECIFICATION Spec
CONSTANTS
    Base = 10
    Places = 2
    MaxRows = 2
INVARIANT OldestSortsFirst
CHECK_DEADLOCK FALSE
