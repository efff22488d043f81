SPECIFICATION MCSpec
CONSTANTS
    issue = issue
    alice = alice
    bob = bob
    carol = carol
    eng = eng
    NULL = NULL
    SENTINEL <- MCSentinel
    Keys = {issue, alice, bob, carol}
    Namespaces = {eng}
    Facts <- MCFacts
    Times <- MCTimes
PROPERTY HistoryReplayable
