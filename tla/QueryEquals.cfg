CONSTANTS
    Part = {"query"}
    Question <- MCEquals
    NoNode = NoNode
    Name = {"a", "b"}
    ColumnTypes = {1}
    ColumnLists <- MCColumnLists
    MAX_COLUMNS = 2
    Half = 2
    Table = {"s", "t", "u"}
    Cut <- MCCut
    MaxTables = 2
    RowCounts = 4
    MaxUpdates = 3
    Char = {"a", "b"}
    MaxStr = 3
    MaxPattern = 4
    Value = {1, 2}
    RowWidth = 2
    column_count = 2
    INT_MAX = 7
    Count = {0, 1, 2, 3, 7}
    InitialCapacity = 2
    MaxRows = 5
    MaxSteps = 3
SPECIFICATION MCSpec
INVARIANT
    WhereSelects
