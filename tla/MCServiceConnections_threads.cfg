\* Three clients for two workers, which finish the frames they start; the
\* process ends when Run has returned.
CONSTANTS
    c1 = c1
    c2 = c2
    c3 = c3
    Clients = {c1, c2, c3}
    MaxConnections = 2
SPECIFICATION PromptSpec
INVARIANTS
    TablesFit
    ReturnsAlone
 
CHECK_DEADLOCK FALSE
