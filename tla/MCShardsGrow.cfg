SPECIFICATION Spec
CONSTANTS
    first = first
    second = second
    third = third
    fourth = fourth
    fifth = fifth
    Listings <- MCListings
    Convertible <- MCConvertible
    chunk_size = 2
    NumShards = 3
    Workers = {w1, w2}
    Idle = Idle
    Absent = Absent
    Torn = Torn
INVARIANT EveryObjectKept
CHECK_DEADLOCK FALSE
