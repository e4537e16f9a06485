SPECIFICATION Spec
CONSTANTS
    FirstMjd = 60310
    FirstYear = 2024
    LastMjd = 65534
INVARIANT DatesAreRight
CHECK_DEADLOCK FALSE
