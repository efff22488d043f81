SPECIFICATION MCSpec
CONSTANTS
    eng = eng
    gov = gov
    serving = serving
    NULL = NULL
    Keys = {1, 2, 3, 4, 5}
    Tickets = {1, 2}
    Hosts = {4}
    Signed = {4}
    Says <- MCSays
    near <- MCNear
    Namespaces = {"engineering", "finance", "shared"}
    Scope <- MCScope
    Relations = {"PART_OF", "BLOCKS"}
    Functional = {"PART_OF"}
    Scores = {20, 90}
    Procs = {serving}
    Queries <- AllQueries
    T = 2
    Fan = 2
INVARIANT HardStop
