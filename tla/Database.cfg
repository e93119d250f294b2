CONSTANTS
    Part = {"database", "catalog"}
    Name <- MCName
    Cut <- MCCut
    strlen <- MCstrlen
    IndexKey = 65
    MasterName = "master"
    TableName = {"a", "full", "fullest"}
    CatalogCapacity = 2
    Row = {r1}
    RowCapacity = 1
    Executor = {"e1"}
    MaxPages = 4
    MaxRowid = 2
    Given <- MCGiven
    EntryCapacity = 3
SPECIFICATION MCSpec
INVARIANTS
    FreshIds
    StoredIsPrefix
    CatalogSound

    
