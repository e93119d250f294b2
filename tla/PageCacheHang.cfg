SPECIFICATION CacheSpec
CONSTANTS
    p1 = p1  p2 = p2  p3 = p3
    a1 = a1  a2 = a2  a3 = a3
    v1 = v1  v2 = v2
    NULL = NULL
    PageId <- MCPageId
    Addr <- MCAddr
    Value <- MCValue
    max_pages = 2
    MaxRef = 2
    MaxPins = 3
SYMMETRY Symmetry
INVARIANT EvictionEnds
