CONSTANTS
    Part = {"keywords", "lexer", "parser"}
    keyword_count = 45
    sorted_count = 43
    keywords <- MCkeywords
    Word <- MCWord
    NoNode = NoNode
    SqlChar <- MCSqlChar
    SqlText <- MCSqlText
    MaxPeeks = 2
SPECIFICATION MCFairSpec
INVARIANTS
    SortedFound
    TokensTile
    
    
PROPERTIES
    ReachesEnd
\* A search, a text and a parse have an end.
CHECK_DEADLOCK FALSE
