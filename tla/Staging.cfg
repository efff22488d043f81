SPECIFICATION MCFairSpec
CONSTANTS
    issue = issue
    alice = alice
    bob = bob
    eng = eng
    fin = fin
    shared = shared
    c1 = c1
    c2 = c2
    c3 = c3
    p1 = p1
    p2 = p2
    NULL = NULL
    Keys = {issue, alice, bob}
    Namespaces = {eng, fin, shared}
    Shared = shared
    Facts <- MCFacts
    Cands = {c1, c2, c3}
    CandFact <- MCCandFact
    Trusted <- MCTrusted
    Clients = {p1, p2}
    MaxTries = 1
    Maintenance = {"rollback", "sweep"}
CHECK_DEADLOCK FALSE
INVARIANTS TypeOK SingleCurrent PromotedOnOwnNodes
PROPERTIES LifecyclePromise CallsReturn
