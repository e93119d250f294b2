CONSTANTS
    Part = {"instances", "client", "server", "leaving", "protocol", "patient", "escaping"}
    Instance = {i1, i2}
    NoOne = NoOne
    MaxFaults = 2
    MaxLine = 4
    Extra = 1
    Mode = {"tty", "pipe"}
    MaxStatements = 3
    MaxStops = 2
    Conn = {"c1", "c2"}
    NoConn = "none"
    Requests = {"ping", "shutdown", "bad", "ddl", "query", "long"}
    Backlog = 2
    MaxRequests = 2
    Pipelined = 1
    BufferSize = 5
    Lengths = {1, 3, 4, 6}
    MaxLines = 3
    Outstanding = 2
    MaxLength = 4
    MaxSize = 10
SPECIFICATION MCFairSpec
INVARIANTS
    LockExcludes
    SentFits
    AnswersInStep
    
    
    EscapesReadBack
PROPERTIES
    DaemonRunsAgain
    
    
