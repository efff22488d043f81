SPECIFICATION MCSpec
CHECK_DEADLOCK FALSE
CONSTANTS
    Keys <- MCKeys
    LedgerKeys <- MCLedgerKeys
    Procs = {p1, p2}
    Batches <- MCBatches
INVARIANTS RerunConverges NothingLost CyclesNeedOverlap LedgerStaysPut OnlyProjectsDrift
SYMMETRY Symmetry
