CONSTANTS
    Key = {1, 2, 3}
    short = short
    long = long
    c1 = c1
    c2 = c2
    Value = {short, long}
    Length <- MCLength
    Cursor = {c1, c2}
    PAGE_SIZE = 71
SYMMETRY Symmetry
SPECIFICATION Spec
INVARIANTS
    LeafSound
    StoredIsPrefix
PROPERTIES
    CursorStable
    ScanComplete
    
